------------------------------ MODULE Coalescer ------------------------------
(***************************************************************************)
(* What a coalescedRun (core/rcx_runtime.go) promises to whoever calls its *)
(* request: runs never overlap, requests that come while one waits fold    *)
(* into it, and every request is followed by a run that begins after it.   *)
(***************************************************************************)

VARIABLES
    wanted,   \* a run that begins later is owed to somebody
    busy      \* a run is under way

vars == <<wanted, busy>>

Init == wanted = FALSE /\ busy = FALSE

Ask == wanted' = TRUE /\ UNCHANGED busy

\* A run begins: whoever asked before is served by it.
Begin == wanted /\ ~busy /\ wanted' = FALSE /\ busy' = TRUE

\* A run ends, by returning or by a panic.
End == busy /\ busy' = FALSE /\ UNCHANGED wanted

Next == Ask \/ Begin \/ End

Spec == Init /\ [][Next]_vars

=============================================================================
