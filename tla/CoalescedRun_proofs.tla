-------------------------- MODULE CoalescedRun_proofs --------------------------
(***************************************************************************)
(* Proofs about CoalescedRun for any sets of callers and loop goroutines.  *)
(***************************************************************************)
EXTENDS CoalescedRun, TLAPS

\* The inductive invariant: ownership of the flag is what makes a caller that
\* finds it up leave the request to the loop, so the parts need each other.
IInv == TypeOK /\ OneOwner /\ SomebodyLooks

LEMMA InitIInv == Init => IInv
<1> SUFFICES ASSUME Init PROVE IInv
  OBVIOUS
<1>1. TypeOK
  <2>1. pc \in [Procs -> Places]
    BY DEF Init, Places
  <2>2. \A c \in Callers : pc[c] = "rest"
    BY DEF Init, Procs
  <2>3. requests \in 0..MaxRequests
    BY RunAssumption DEF Init
  <2>4. pending \in BOOLEAN /\ running \in BOOLEAN
    BY DEF Init
  <2> QED
    BY <2>1, <2>2, <2>3, <2>4 DEF TypeOK
<1>2. Owners = {}
  BY DEF Init, Owners, Procs
<1>3. OneOwner
  BY <1>2 DEF Init, OneOwner
<1>4. SomebodyLooks
  BY DEF Init, SomebodyLooks
<1> QED
  BY <1>1, <1>3, <1>4 DEF IInv

LEMMA TypeStep == TypeOK /\ [Next]_vars => TypeOK'
<1> SUFFICES ASSUME TypeOK, [Next]_vars PROVE TypeOK'
  OBVIOUS
<1> USE RunAssumption DEF TypeOK, Procs, Places, Goto
<1>1. ASSUME NEW c \in Callers, Request(c) PROVE TypeOK'
  BY <1>1 DEF Request
<1>2. ASSUME NEW p \in Procs, Store(p) PROVE TypeOK'
  BY <1>2 DEF Store
<1>3. ASSUME NEW p \in Procs, Claim(p) PROVE TypeOK'
  BY <1>3 DEF Claim, Started
<1>4. ASSUME NEW p \in Procs, LeaveToLoop(p) PROVE TypeOK'
  BY <1>4 DEF LeaveToLoop
<1>5. ASSUME NEW l \in Loops, Swap(l) PROVE TypeOK'
  BY <1>5 DEF Swap, Swapped
<1>6. ASSUME NEW l \in Loops, Run(l) PROVE TypeOK'
  BY <1>6 DEF Run
<1>7. ASSUME NEW l \in Loops, Clear(l) PROVE TypeOK'
  BY <1>7 DEF Clear
<1>8. ASSUME NEW l \in Loops, Check(l) PROVE TypeOK'
  BY <1>8 DEF Check, AfterCheck
<1>9. CASE UNCHANGED vars
  BY <1>9 DEF vars
<1> HIDE DEF TypeOK, Procs, Places, Goto
<1> QED
  BY <1>1, <1>2, <1>3, <1>4, <1>5, <1>6, <1>7, <1>8, <1>9
  DEF Next, RequestStep, LoopStep

LEMMA OwnerStep == TypeOK /\ OneOwner /\ [Next]_vars => OneOwner'
<1> SUFFICES ASSUME TypeOK, OneOwner, [Next]_vars PROVE OneOwner'
  OBVIOUS
<1> USE RunAssumption DEF TypeOK, OneOwner, Owners, Procs, Goto
<1>1. ASSUME NEW c \in Callers, Request(c) PROVE OneOwner'
  BY <1>1 DEF Request
<1>2. ASSUME NEW p \in Procs, Store(p) PROVE OneOwner'
  BY <1>2 DEF Store
<1>3. ASSUME NEW p \in Procs, Claim(p) PROVE OneOwner'
  BY <1>3 DEF Claim, MayClaim, Started
<1>4. ASSUME NEW p \in Procs, LeaveToLoop(p) PROVE OneOwner'
  BY <1>4 DEF LeaveToLoop
<1>5. ASSUME NEW l \in Loops, Swap(l) PROVE OneOwner'
  BY <1>5 DEF Swap
<1>6. ASSUME NEW l \in Loops, Run(l) PROVE OneOwner'
  BY <1>6 DEF Run
<1>7. ASSUME NEW l \in Loops, Clear(l) PROVE OneOwner'
  BY <1>7 DEF Clear
<1>8. ASSUME NEW l \in Loops, Check(l) PROVE OneOwner'
  BY <1>8 DEF Check, AfterCheck
<1>9. CASE UNCHANGED vars
  BY <1>9 DEF vars
<1> HIDE DEF TypeOK, OneOwner, Owners, Procs, Goto
<1> QED
  BY <1>1, <1>2, <1>3, <1>4, <1>5, <1>6, <1>7, <1>8, <1>9
  DEF Next, RequestStep, LoopStep

LEMMA LooksStep == IInv /\ [Next]_vars => SomebodyLooks'
<1> SUFFICES ASSUME IInv, [Next]_vars PROVE SomebodyLooks'
  OBVIOUS
<1> USE RunAssumption DEF IInv, TypeOK, SomebodyLooks, Procs, Goto
<1>1. ASSUME NEW c \in Callers, Request(c) PROVE SomebodyLooks'
  BY <1>1 DEF Request
<1>2. ASSUME NEW p \in Procs, Store(p) PROVE SomebodyLooks'
  BY <1>2 DEF Store
<1>3. ASSUME NEW p \in Procs, Claim(p) PROVE SomebodyLooks'
  BY <1>3 DEF Claim, Started
<1>4. ASSUME NEW p \in Procs, LeaveToLoop(p) PROVE SomebodyLooks'
  \* The flag is up, so another goroutine owns it.
  <2>1. PICK l \in Loops : pc[l] \in {"swap", "run", "clear"}
    BY <1>4 DEF LeaveToLoop, OneOwner, Owners
  <2>2. pc'[l] # "rest"
    BY <1>4, <2>1 DEF LeaveToLoop
  <2> QED
    BY <2>2
<1>5. ASSUME NEW l \in Loops, Swap(l) PROVE SomebodyLooks'
  BY <1>5 DEF Swap
<1>6. ASSUME NEW l \in Loops, Run(l) PROVE SomebodyLooks'
  BY <1>6 DEF Run
<1>7. ASSUME NEW l \in Loops, Clear(l) PROVE SomebodyLooks'
  BY <1>7 DEF Clear
<1>8. ASSUME NEW l \in Loops, Check(l) PROVE SomebodyLooks'
  BY <1>8 DEF Check, AfterCheck
<1>9. CASE UNCHANGED vars
  BY <1>9 DEF vars
<1> HIDE DEF IInv, TypeOK, SomebodyLooks, Procs, Goto
<1> QED
  BY <1>1, <1>2, <1>3, <1>4, <1>5, <1>6, <1>7, <1>8, <1>9
  DEF Next, RequestStep, LoopStep

LEMMA Inductive == Spec => []IInv
<1>1. IInv /\ [Next]_vars => IInv'
  BY TypeStep, OwnerStep, LooksStep DEF IInv
<1> QED
  BY InitIInv, <1>1, PTL DEF Spec

\* Whatever the interleaving of request and loop, one loop at a time owns the
\* flag running, and it is up exactly then.
THEOREM FlagHasOneOwner == Spec => []OneOwner
  BY Inductive, PTL DEF IInv

\* A pending request is never left with nobody to look at it, even when run
\* panics and the deferred function of an old loop meets a new loop.
THEOREM NoRequestIsLost == Spec => []SomebodyLooks
  BY Inductive, PTL DEF IInv

\* The loop on its two atomics implements the promise: runs do not overlap and
\* begin only when asked for.
THEOREM CoalescerIsImplemented == Spec => ImplementsCoalescer
<1>1. Init => Promise!Init
  BY RunAssumption DEF Init, Promise!Init, Procs
<1>2. ASSUME IInv, [Next]_vars PROVE [Promise!Next]_(Promise!vars)
  <2> USE RunAssumption, <1>2 DEF IInv, TypeOK, OneOwner, Owners, Procs, Goto,
          Promise!Next, Promise!vars
  <2>1. ASSUME NEW c \in Callers, Request(c) PROVE UNCHANGED Promise!vars
    BY <2>1 DEF Request
  <2>2. ASSUME NEW p \in Procs, Store(p) PROVE Promise!Ask
    BY <2>2 DEF Store, Promise!Ask
  <2>3. ASSUME NEW p \in Procs, Claim(p) PROVE UNCHANGED Promise!vars
    BY <2>3 DEF Claim, Started, MayClaim
  <2>4. ASSUME NEW p \in Procs, LeaveToLoop(p) PROVE UNCHANGED Promise!vars
    BY <2>4 DEF LeaveToLoop
  <2>5. ASSUME NEW l \in Loops, Swap(l)
        PROVE Promise!Begin \/ UNCHANGED Promise!vars
    <3>1. CASE pending
      BY <2>5, <3>1 DEF Swap, Swapped, Promise!Begin
    <3>2. CASE ~pending
      BY <2>5, <3>2 DEF Swap, Swapped
    <3> QED
      BY <3>1, <3>2
  <2>6. ASSUME NEW l \in Loops, Run(l) PROVE Promise!End
    BY <2>6 DEF Run, Promise!End
  <2>7. ASSUME NEW l \in Loops, Clear(l) PROVE UNCHANGED Promise!vars
    BY <2>7 DEF Clear
  <2>8. ASSUME NEW l \in Loops, Check(l) PROVE UNCHANGED Promise!vars
    BY <2>8 DEF Check, AfterCheck
  <2>9. CASE UNCHANGED vars
    BY <2>9 DEF vars
  <2> HIDE DEF IInv, TypeOK, OneOwner, Owners, Procs, Goto, Promise!vars
  <2> QED
    BY <2>1, <2>2, <2>3, <2>4, <2>5, <2>6, <2>7, <2>8, <2>9
    DEF Next, RequestStep, LoopStep
<1> QED
  BY <1>1, <1>2, Inductive, PTL DEF Spec, ImplementsCoalescer, Promise!Spec

=============================================================================
