---------------------------- MODULE MCRcxRuntime ----------------------------
(***************************************************************************)
(* Instances of RcxRuntime for TLC.  Goroutines and nodes are              *)
(* interchangeable: no definition names one of them.                       *)
(***************************************************************************)
EXTENDS RcxRuntime, TLC

Alike == Permutations(Calls) \cup Permutations(Nodes)

=============================================================================
