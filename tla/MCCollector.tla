---------------------------- MODULE MCCollector -----------------------------
(***************************************************************************)
(* Collector for TLC: nothing tells one container from another.            *)
(***************************************************************************)
EXTENDS Collector, TLC

CollectorSymmetry == Permutations(Containers)

=============================================================================
