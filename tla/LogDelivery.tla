----------------------------- MODULE LogDelivery -----------------------------
(***************************************************************************)
(* What the Loki client promises to those who hand it lines, with no word  *)
(* of channels, batches in preparation, tickers or goroutines.             *)
(*                                                                         *)
(* Every line of a stream (a label key) carries its number in that stream. *)
(* A line is taken in or turned away when it is submitted.  Turning it     *)
(* away is allowed only when Capacity lines are already held, or once the  *)
(* client is closing.  Held lines leave in batches of at most BatchSize    *)
(* lines, the oldest lines of each stream first; a batch is stored by Loki *)
(* as a whole or lost as a whole, and is never sent again.                 *)
(***************************************************************************)
EXTENDS Integers, Sequences, FiniteSetsExt

CONSTANTS
    Keys,        \* label keys: one Loki stream each
    Capacity,    \* lines held before one may be turned away
    BatchSize,   \* most lines of a batch
    MaxSends     \* bound: lines submitted per key

VARIABLES
    sent,        \* lines submitted so far, per key
    held,        \* the lines taken in and not yet sent, per key, oldest first
    received,    \* what Loki has stored, per key, in order of arrival
    closing      \* the client was asked to stop

vars == <<sent, held, received, closing>>

\* The sum over the keys of a natural number per key.
Total(count(_)) == MapThenSumSet(count, Keys)

Init ==
    /\ sent = [k \in Keys |-> 0]
    /\ held = [k \in Keys |-> <<>>]
    /\ received = [k \in Keys |-> <<>>]
    /\ closing = FALSE

\* A line of stream k is submitted and taken in.
TakeIn(k) ==
    /\ sent[k] < MaxSends
    /\ sent' = [sent EXCEPT ![k] = @ + 1]
    /\ held' = [held EXCEPT ![k] = Append(@, sent[k] + 1)]
    /\ UNCHANGED <<received, closing>>

\* A line is turned away: the client is full, or closing.
TurnAway(k) ==
    /\ sent[k] < MaxSends
    /\ closing \/ Total(LAMBDA j : Len(held[j])) >= Capacity
    /\ sent' = [sent EXCEPT ![k] = @ + 1]
    /\ UNCHANGED <<held, received, closing>>

\* The cut[k] oldest lines of every stream k leave as one batch, and Loki
\* stores all of them or none.
Leave(cut, stored) ==
    /\ Total(LAMBDA k : cut[k]) \in 1 .. BatchSize
    /\ \A k \in Keys : cut[k] <= Len(held[k])
    /\ held' = [k \in Keys |-> SubSeq(held[k], cut[k] + 1, Len(held[k]))]
    /\ received' = IF stored
                   THEN [k \in Keys |-> received[k] \o SubSeq(held[k], 1, cut[k])]
                   ELSE received
    /\ UNCHANGED <<sent, closing>>

Close ==
    /\ ~closing
    /\ closing' = TRUE
    /\ UNCHANGED <<sent, held, received>>

Next ==
    \/ \E k \in Keys : TakeIn(k) \/ TurnAway(k)
    \/ \E cut \in [Keys -> 0 .. BatchSize], stored \in BOOLEAN : Leave(cut, stored)
    \/ Close

Spec == Init /\ [][Next]_vars

=============================================================================
