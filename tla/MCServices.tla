------------------------------ MODULE MCServices ------------------------------
(***************************************************************************)
(* An instance of CoreServices for TLC: two or three actors of a kind, and *)
(* every pool, queue and number of attempts small enough to be reached.    *)
(***************************************************************************)
EXTENDS CoreServices

CONSTANTS a, b, path1, path2

MCPolicies == {[restricted |-> k = 1, noGlobal |-> FALSE, apps |-> k = 2, blocked |-> FALSE] : k \in 1 .. 3}
MCUrls == {[scheme |-> "https", host |-> "h", port |-> 0, user |-> FALSE],
           [scheme |-> "https", host |-> "h", port |-> 443, user |-> TRUE],
           [scheme |-> "https", host |-> "h", port |-> 8443, user |-> FALSE],
           [scheme |-> "http", host |-> "h", port |-> 0, user |-> FALSE]}
MCWanted == {<<a, b>>, <<b, a>>, <<a, a>>, <<b>>}
MCOrder == <<path1, path2>>
=============================================================================
