----------------------------- MODULE CoalescedRun -----------------------------
(***************************************************************************)
(* coalescedRun of core/rcx_runtime.go at the grain of its atomic Booleans.*)
(* request stores pending and tries to claim running; whoever claims it    *)
(* starts a loop goroutine that runs until it swaps a false out of pending.*)
(* The deferred function gives running back first and only then looks at   *)
(* pending again, so a late loop may meet a new one; it runs after a panic *)
(* of run as well.                                                         *)
(***************************************************************************)
EXTENDS Naturals, FiniteSets

CONSTANTS
    Callers,       \* goroutines that call request
    Loops,         \* loop goroutines that can be alive at a time
    MaxRequests    \* bound: calls of request in one behaviour

ASSUME RunAssumption ==
    /\ MaxRequests \in Nat
    /\ Callers \cap Loops = {}

VARIABLES
    pending, running,   \* the two atomics
    pc,                 \* caller or loop -> where it is
    requests            \* calls so far

vars == <<pending, running, pc, requests>>

Procs == Callers \cup Loops

\* "rest": a caller outside request, a loop that does not exist;
\* "store", "cas": request; "swap", "run": the loop; "clear", "check": its
\* deferred function.
Places == {"rest", "store", "cas", "swap", "run", "clear", "check"}

TypeOK ==
    /\ pending \in BOOLEAN
    /\ running \in BOOLEAN
    /\ pc \in [Procs -> Places]
    /\ \A c \in Callers : pc[c] \in {"rest", "store", "cas"}
    /\ requests \in 0..MaxRequests

Init ==
    /\ pending = FALSE
    /\ running = FALSE
    /\ pc = [p \in Procs |-> "rest"]
    /\ requests = 0

Goto(p, place) == pc' = [pc EXCEPT ![p] = place]

Request(c) ==
    /\ pc[c] = "rest"
    /\ requests < MaxRequests
    /\ requests' = requests + 1
    /\ Goto(c, "store")
    /\ UNCHANGED <<pending, running>>

\* c.pending.Store(true)
Store(p) ==
    /\ pc[p] = "store"
    /\ pending' = TRUE
    /\ Goto(p, "cas")
    /\ UNCHANGED <<running, requests>>

\* Mutant: the claim is a load and a store instead of a compare-and-swap.
MutMayClaim(p) == running \/ ~running

\* c.running.CompareAndSwap(false, true) succeeds
MayClaim(p) == ~running

\* Mutant: the loop runs on the goroutine that asked.
MutStarted(p, l) == [pc EXCEPT ![p] = "swap"]

\* safeGo starts the loop and the caller returns.
Started(p, l) == [pc EXCEPT ![p] = "rest", ![l] = "swap"]

\* The claim and the goroutine it starts; a loop that starts the next one ends.
Claim(p) ==
    /\ pc[p] = "cas"
    /\ MayClaim(p)
    /\ running' = TRUE
    /\ \E l \in Loops :
         /\ pc[l] = "rest" \/ l = p
         /\ pc' = Started(p, l)
    /\ UNCHANGED <<pending, requests>>

\* Somebody else's loop runs: it will see pending.
LeaveToLoop(p) ==
    /\ pc[p] = "cas"
    /\ running
    /\ Goto(p, "rest")
    /\ UNCHANGED <<pending, running, requests>>

\* Mutant: the loop loads pending and does not reset it.
MutSwapped(l) == pending

\* What c.pending.Swap(false) leaves in pending.
Swapped(l) == FALSE

\* for c.pending.Swap(false)
Swap(l) ==
    /\ pc[l] = "swap"
    /\ pending' = Swapped(l)
    /\ Goto(l, IF pending THEN "run" ELSE "clear")
    /\ UNCHANGED <<running, requests>>

\* run() returns, or panics and unwinds into the deferred function.
Run(l) ==
    /\ pc[l] = "run"
    /\ Goto(l, "swap") \/ Goto(l, "clear")
    /\ UNCHANGED <<pending, running, requests>>

\* c.running.Store(false)
Clear(l) ==
    /\ pc[l] = "clear"
    /\ running' = FALSE
    /\ Goto(l, "check")
    /\ UNCHANGED <<pending, requests>>

\* Mutant: the deferred function ends without looking again.
MutAfterCheck(l) == "rest"

\* Mutant: the deferred function waits for another caller to take it up.
MutWaitAfterCheck(l) == IF pending THEN "check" ELSE "rest"

\* if c.pending.Load() { c.request(name, run) }
AfterCheck(l) == IF pending THEN "store" ELSE "rest"

Check(l) ==
    /\ pc[l] = "check"
    /\ Goto(l, AfterCheck(l))
    /\ UNCHANGED <<pending, running, requests>>

LoopStep(l) == Swap(l) \/ Run(l) \/ Clear(l) \/ Check(l)

RequestStep(p) == Store(p) \/ Claim(p) \/ LeaveToLoop(p)

Next ==
    \/ \E c \in Callers : Request(c)
    \/ \E p \in Procs : RequestStep(p)
    \/ \E l \in Loops : LoopStep(l)

Spec == Init /\ [][Next]_vars

\* Goroutines are scheduled, and a run returns or panics.
FairSpec ==
    /\ Spec
    /\ \A p \in Procs : WF_vars(RequestStep(p))
    /\ \A l \in Loops : WF_vars(LoopStep(l))

-----------------------------------------------------------------------------
(* Properties.                                                             *)

\* The loops that own the flag running.
Owners == {l \in Loops : pc[l] \in {"swap", "run", "clear"}}

\* The flag running is up exactly while one loop owns it, also while older
\* loops are still in their deferred function (request, loop).
OneOwner ==
    /\ running <=> Owners # {}
    /\ \A k, l \in Owners : k = l

\* A pending request always has somebody who will look at it: a loop that
\* swaps again, its deferred function, or a caller that has yet to claim,
\* also when run panics.
SomebodyLooks ==
    pending => \E p \in Procs : pc[p] # "rest"

\* The promise: runs do not overlap and none begins unasked.
Promise == INSTANCE Coalescer WITH
    wanted <- pending,
    busy <- \E l \in Loops : pc[l] = "run"

ImplementsCoalescer == Promise!Spec

\* Every request is served by a run that begins after it.
EveryRequestIsServed == pending ~> ~pending

=============================================================================
