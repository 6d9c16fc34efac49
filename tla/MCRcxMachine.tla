---------------------------- MODULE MCRcxMachine ----------------------------
(***************************************************************************)
(* Instances of RcxMachine for TLC: one or two groups over two nodes.      *)
(***************************************************************************)
EXTENDS RcxMachine, TLC

CONSTANTS a, b, g1, g2

OneGroup == (g1 :> {a, b})
SharedNodes == (g1 :> {a, b}) @@ (g2 :> {a, b})
StaysBound == {{g1}}
ComesAndGoes == {{}, {g1}}
BothBound == {{g1, g2}}
\* The first pass is free, later ones wait a tick.
ShortBackoff == (0 :> 0) @@ (1 :> 1)

Nodes2 == Permutations({a, b})
\* For SharedNodes, where the groups are alike too.
All2 == Nodes2 \cup Permutations({g1, g2})

=============================================================================
