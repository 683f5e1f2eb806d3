---------------------------- MODULE VersionCheck ----------------------------
(***************************************************************************)
(* The check of one image for an update: CheckImageUpdateSemantic and      *)
(* CheckImageUpdateDigest of internal/updates, and the order in which      *)
(* getImagesUpdateMetrics of internal/metrics/images.go tries them under   *)
(* one context of 30 seconds.                                              *)
(*                                                                         *)
(* A tag is what semver makes of it: its place in the order of versions,   *)
(* 0 for a tag that is no version, and a name, since tags written in       *)
(* different ways ("1.2", "v1.2.0") may be the same version.               *)
(***************************************************************************)
EXTENDS Integers, SequencesExt

CONSTANTS
    Tags,      \* [rank : Nat, name]
    MaxTags,   \* bound: tags of the registry's answer
    Digests,   \* what an image holds as its digest
    Failed     \* what a call gives when it fails

VARIABLES
    tag,       \* of the image
    digest,    \* of the image
    listing,   \* what remote.List gives: a sequence of tags, or Failed
    inspected, \* what DistributionInspect gives: a digest, or Failed
    inTime,    \* the context of the check has not expired
    check,     \* where the check is
    record     \* the record for the image

imageVars == <<tag, digest, listing, inspected>>
vars == <<imageVars, inTime, check, record>>

CheckState == {"semantic", "digest", "done", "failed"}

NoRecord == [updateStatus |-> 0, remoteVersion |-> ""]

Init ==
    /\ tag \in Tags
    /\ digest \in Digests
    /\ listing \in {Failed} \cup UNION {[1 .. n -> Tags] : n \in 0 .. MaxTags}
    /\ inspected \in Digests \cup {Failed}
    /\ inTime \in BOOLEAN
    /\ check = "semantic"
    /\ record = NoRecord

-----------------------------------------------------------------------------

IsSemantic(t) == t.rank > 0

LessThan(t, u) == t.rank < u.rank

\* getRemoteTagList gives nothing, not an error, when the call fails.
RemoteTagList == IF inTime /\ listing # Failed THEN listing ELSE <<>>

\* The loop that leaves out what is no version: the places of the others.
SemanticTags == {i \in DOMAIN RemoteTagList : IsSemantic(RemoteTagList[i])}

\* sort.Slice: some order by version; equal versions come in any order.
InOrder(tags) == \A i \in 1 .. Len(tags) - 1 : ~LessThan(tags[i + 1], tags[i])

SortedTags ==
    LET n == Cardinality(SemanticTags)
    IN  {s \in {[i \in 1 .. n |-> RemoteTagList[p[i]]] : p \in Bijection(1 .. n, SemanticTags)} :
            InOrder(s)}

\* Mutant: the registry is trusted to list its versions in order.
AsListed == {RemoteTagList[Max(SemanticTags)]}

\* The latest tag.
LatestTags == {Last(s) : s \in SortedTags}

\* currentVer.Compare
Compare(t, u) == IF LessThan(t, u) THEN -1 ELSE IF LessThan(u, t) THEN 1 ELSE 0

\* CheckImageUpdateSemantic: an error, and the digest is tried, unless the tag
\* and one of the registry are versions, the former not the higher one.
CheckSemantic ==
    /\ check = "semantic"
    /\ IF IsSemantic(tag) /\ SemanticTags # {}
       THEN \E latest \in LatestTags :
                IF Compare(tag, latest) = 1
                THEN check' = "digest" /\ UNCHANGED record
                ELSE /\ check' = "done"
                     /\ record' = [updateStatus |-> IF Compare(tag, latest) = -1 THEN 1 ELSE 0,
                                   remoteVersion |-> latest.name]
       ELSE check' = "digest" /\ UNCHANGED record
    /\ UNCHANGED <<imageVars, inTime>>

\* CheckImageUpdateDigest, under the same context; an error leaves no record.
CheckDigest ==
    /\ check = "digest"
    /\ IF inTime /\ inspected # Failed
       THEN /\ check' = "done"
            /\ record' = [updateStatus |-> IF digest = inspected THEN 0 ELSE 1,
                          remoteVersion |-> inspected]
       ELSE check' = "failed" /\ UNCHANGED record
    /\ UNCHANGED <<imageVars, inTime>>

\* The 30 seconds are over; they may be used up by either call.
Expires ==
    /\ check \in {"semantic", "digest"}
    /\ inTime
    /\ inTime' = FALSE
    /\ UNCHANGED <<imageVars, check, record>>

Next == CheckSemantic \/ CheckDigest \/ Expires

Spec == Init /\ [][Next]_vars

-----------------------------------------------------------------------------
(* Properties                                                              *)

\* The versions a registry holds beside an image's own.
RemoteRanks == {t.rank : t \in {t \in Range(listing) : IsSemantic(t)}}

\* An image is said to be out of date exactly if the registry has a version above
\* its own or, where versions do not decide, another digest, in whatever order
\* and among whatever other tags the versions are listed, and the version named
\* is one that no other exceeds.
\* It is up to date only when a call has answered: a registry that does not
\* answer leaves no record (semantic.go:73).
UpdateMeansNewer ==
    check = "done" =>
        IF record.remoteVersion \in Digests
        THEN /\ record.remoteVersion = inspected
             /\ record.updateStatus = (IF digest # inspected THEN 1 ELSE 0)
        ELSE /\ listing # Failed
             /\ \E t \in Range(listing) :
                    /\ t.name = record.remoteVersion
                    /\ \A r \in RemoteRanks : r <= t.rank
                    /\ record.updateStatus = (IF t.rank > tag.rank THEN 1 ELSE 0)
                    /\ t.rank >= tag.rank

=============================================================================
