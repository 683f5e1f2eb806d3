------------------------------ MODULE MCLogView ------------------------------
(***************************************************************************)
(* Lines for the log viewer: one that matches, one that does not, and one  *)
(* that matches and is longer than expected, when wrapped, and higher than *)
(* the visible part.                                                       *)
(***************************************************************************)
EXTENDS LogView

MCKinds ==
    {[hit |-> TRUE,  rows |-> 1, guess |-> 1],
     [hit |-> FALSE, rows |-> 1, guess |-> 1],
     [hit |-> TRUE,  rows |-> 4, guess |-> 2]}

=============================================================================
