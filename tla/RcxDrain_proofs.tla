--------------------------- MODULE RcxDrain_proofs ---------------------------
(***************************************************************************)
(* Proofs about the coalesced drain: no interleaving of reports, timers,   *)
(* topology changes and Close leaves a counted event without a drain.      *)
(***************************************************************************)
EXTENDS RcxDrain, TLAPS

\* What the two covering invariants need to be inductive. A caller or a node
\* only ever holds a counter object that refreshCounters handed out.
Ownership ==
    /\ Live \subseteq allocated
    /\ \A p \in Callers : caller[p].pc # "idle" => caller[p].cell \in allocated

\* A counter object nobody was handed is zero.
FreshIsZero ==
    \A k \in Atomics, c \in Cells : c \notin allocated => count[k][c] = 0

\* A compare-and-swap only ever raises drainPending.
SawLower ==
    \A p \in Callers :
      caller[p].pc = "cas" => caller[p].seen < Priority(caller[p].kind)

\* Only a drain in progress has counters left to swap, and a closed engine
\* has no counters.
Quiet ==
    /\ drainer # "swap" => todo = {}
    /\ drainClosed => Live = {}

Support == Ownership /\ FreshIsZero /\ SawLower /\ Quiet

IInv == TypeOK /\ Support /\ EventIsCovered /\ RequestIsServed

\* An atomic add keeps a table of counters a table of counters.
LEMMA AddOne ==
  ASSUME NEW S, NEW f \in [S -> Nat], NEW c
  PROVE  [f EXCEPT ![c] = @ + 1] \in [S -> Nat]
  <1>1. \A x \in S : [f EXCEPT ![c] = @ + 1][x] \in Nat
    <2> TAKE x \in S
    <2>1. CASE x = c
      BY <2>1
    <2>2. CASE x # c
      BY <2>2
    <2>3. QED
      BY <2>1, <2>2
  <1>2. QED
    BY <1>1

\* Every step of the engine and of mihomo's goroutines keeps the types.
LEMMA TypeStep == TypeOK /\ [Next]_vars => TypeOK'
  <1> SUFFICES ASSUME TypeOK, [Next]_vars PROVE TypeOK'
    OBVIOUS
  <1> USE DrainAssumption DEF TypeOK, Atomics, Kinds, Frame
  <1>1. ASSUME NEW p \in Callers, NEW k \in Kinds, NEW n \in Nodes, Note(p, k, n)
        PROVE  TypeOK'
    BY <1>1 DEF Note, timer
  <1>2. ASSUME NEW p \in Callers, Bump(p) PROVE TypeOK'
    <2> DEFINE k == caller[p].kind
               c == caller[p].cell
    <2>1. count' \in [Atomics -> [Cells -> Nat]]
      <3>1. count[k] \in [Cells -> Nat] /\ k \in Atomics
        BY <1>2, Zenon DEF Bump
      <3>2. [count[k] EXCEPT ![c] = @ + 1] \in [Cells -> Nat]
        BY <3>1, AddOne
      <3>3. count' = [count EXCEPT ![k] = [count[k] EXCEPT ![c] = @ + 1]]
        BY <1>2, Zenon DEF Bump
      <3>4. QED
        BY <3>1, <3>2, <3>3
    <2>2. caller' \in [Callers -> Frame]
      BY <1>2 DEF Bump
    <2>3. QED
      BY <1>2, <2>1, <2>2 DEF Bump, timer
  <1>3. ASSUME NEW p \in Callers, Send(p) PROVE TypeOK'
    BY <1>3 DEF Send, timer, ChannelHasRoom, NoFrame
  <1>4. ASSUME NEW p \in Callers, Load(p) PROVE TypeOK'
    <2> DEFINE f == IF AlreadyAsked(p) THEN NoFrame
                    ELSE [caller[p] EXCEPT !.pc = "cas", !.seen = drainPending]
    <2>1. f \in Frame
      <3>1. CASE AlreadyAsked(p)
        BY <3>1 DEF NoFrame
      <3>2. CASE ~AlreadyAsked(p)
        BY <3>2
      <3>3. QED
        BY <3>1, <3>2
    <2>2. caller' = [caller EXCEPT ![p] = f]
      BY <1>4, Zenon DEF Load
    <2> HIDE DEF f
    <2>3. caller' \in [Callers -> Frame]
      BY <2>1, <2>2
    <2>4. QED
      BY <1>4, <2>3 DEF Load, timer
  <1>5. ASSUME NEW p \in Callers, Raise(p) PROVE TypeOK'
    BY <1>5 DEF Raise, Priority
  <1>6. ASSUME NEW p \in Callers, Arm(p) PROVE TypeOK'
    BY <1>6 DEF Arm, Delay, NoFrame
  <1>7. CASE Tick
    BY <1>7 DEF Tick
  <1>8. CASE Fire
    BY <1>8 DEF Fire
  <1>9. ASSUME NEW r \in fired, Drain(r) PROVE TypeOK'
    BY <1>9 DEF Drain, StartDrain, cancelDrainLocked, Live
  <1>10. CASE OnTimer
    BY <1>10 DEF OnTimer, StartDrain, cancelDrainLocked, Live
  <1>11. ASSUME NEW k \in Atomics, NEW c \in Cells, SwapOne(k, c) PROVE TypeOK'
    BY <1>11 DEF SwapOne, timer
  <1>12. CASE Swapped
    BY <1>12 DEF Swapped, timer
  <1>13. CASE Recv
    BY <1>13 DEF Recv, timer
  <1>14. CASE SetTopology
    BY <1>14 DEF SetTopology, refreshCounters, timer
  <1>15. CASE Close
    BY <1>15 DEF Close, cancelDrainLocked
  <1>16. CASE UNCHANGED vars
    BY <1>16 DEF vars
  <1>17. QED
    BY <1>1, <1>2, <1>3, <1>4, <1>5, <1>6, <1>7, <1>8, <1>9, <1>10, <1>11,
       <1>12, <1>13, <1>14, <1>15, <1>16 DEF Next


\* Every step keeps a pending request served.
LEMMA ServedStep == IInv /\ [Next]_vars => RequestIsServed'
  <1> SUFFICES ASSUME IInv, [Next]_vars PROVE RequestIsServed'
    OBVIOUS
  <1> USE DrainAssumption DEF IInv, TypeOK, RequestIsServed, Armed, Delay, Priority, Kinds, Atomics, Frame
  <1>1. ASSUME NEW p \in Callers, NEW k \in Kinds, NEW n \in Nodes,
               Note(p, k, n)
        PROVE RequestIsServed'
    BY <1>1 DEF Note, timer
  <1>2. ASSUME NEW p \in Callers, Bump(p) PROVE RequestIsServed'
    BY <1>2 DEF Bump, timer
  <1>3. ASSUME NEW p \in Callers, Send(p) PROVE RequestIsServed'
    BY <1>3 DEF Send, timer, ChannelHasRoom, NoFrame
  <1>4. ASSUME NEW p \in Callers, Load(p) PROVE RequestIsServed'
    BY <1>4 DEF Load, timer, NoFrame, AlreadyAsked
  <1>5. ASSUME NEW p \in Callers, Raise(p) PROVE RequestIsServed'
    BY <1>5 DEF Raise
  <1>6. ASSUME NEW p \in Callers, Arm(p) PROVE RequestIsServed'
    BY <1>6 DEF Arm, ServedByTimer, NoFrame
  <1>7. CASE Tick
    BY <1>7 DEF Tick
  <1>8. CASE Fire
    BY <1>8 DEF Fire
  <1>9. ASSUME NEW r \in fired, Drain(r) PROVE RequestIsServed'
    BY <1>9 DEF Drain, StartDrain, cancelDrainLocked
  <1>10. CASE OnTimer
    BY <1>10 DEF OnTimer, StartDrain, cancelDrainLocked
  <1>11. ASSUME NEW k \in Atomics, NEW c \in Cells, SwapOne(k, c)
        PROVE RequestIsServed'
    BY <1>11 DEF SwapOne, timer
  <1>12. CASE Swapped
    BY <1>12 DEF Swapped, timer
  <1>13. CASE Recv
    BY <1>13 DEF Recv, timer
  <1>14. CASE SetTopology
    BY <1>14 DEF SetTopology, refreshCounters, timer
  <1>15. CASE Close
    BY <1>15 DEF Close, cancelDrainLocked
  <1>16. CASE UNCHANGED vars
    BY <1>16 DEF vars
  <1> HIDE DEF IInv, TypeOK, RequestIsServed, Armed, Delay, Priority, Kinds, Atomics, Frame
  <1>17. QED
    BY <1>1, <1>2, <1>3, <1>4, <1>5, <1>6, <1>7, <1>8, <1>9, <1>10, <1>11,
       <1>12, <1>13, <1>14, <1>15, <1>16 DEF Next

\* Every step keeps the ownership of counter objects.
LEMMA OwnershipStep == IInv /\ [Next]_vars => Ownership'
  <1> SUFFICES ASSUME IInv, [Next]_vars PROVE Ownership'
    OBVIOUS
  <1> USE DrainAssumption DEF IInv, TypeOK, Support, Ownership, Live, Frame
  <1>1. ASSUME NEW p \in Callers, NEW k \in Kinds, NEW n \in Nodes,
               Note(p, k, n)
        PROVE Ownership'
    BY <1>1 DEF Note, timer
  <1>2. ASSUME NEW p \in Callers, Bump(p) PROVE Ownership'
    BY <1>2 DEF Bump, timer
  <1>3. ASSUME NEW p \in Callers, Send(p) PROVE Ownership'
    BY <1>3 DEF Send, timer, ChannelHasRoom, NoFrame
  <1>4. ASSUME NEW p \in Callers, Load(p) PROVE Ownership'
    BY <1>4 DEF Load, timer, NoFrame, AlreadyAsked
  <1>5. ASSUME NEW p \in Callers, Raise(p) PROVE Ownership'
    BY <1>5 DEF Raise
  <1>6. ASSUME NEW p \in Callers, Arm(p) PROVE Ownership'
    BY <1>6 DEF Arm, ServedByTimer, NoFrame
  <1>7. CASE Tick
    BY <1>7 DEF Tick
  <1>8. CASE Fire
    BY <1>8 DEF Fire
  <1>9. ASSUME NEW r \in fired, Drain(r) PROVE Ownership'
    BY <1>9 DEF Drain, StartDrain, cancelDrainLocked
  <1>10. CASE OnTimer
    BY <1>10 DEF OnTimer, StartDrain, cancelDrainLocked
  <1>11. ASSUME NEW k \in Atomics, NEW c \in Cells, SwapOne(k, c)
        PROVE Ownership'
    BY <1>11 DEF SwapOne, timer
  <1>12. CASE Swapped
    BY <1>12 DEF Swapped, timer
  <1>13. CASE Recv
    BY <1>13 DEF Recv, timer
  <1>14. CASE SetTopology
    BY <1>14 DEF SetTopology, refreshCounters, timer
  <1>15. CASE Close
    BY <1>15 DEF Close, cancelDrainLocked
  <1>16. CASE UNCHANGED vars
    BY <1>16 DEF vars
  <1> HIDE DEF IInv, TypeOK, Support, Ownership, Live, Frame
  <1>17. QED
    BY <1>1, <1>2, <1>3, <1>4, <1>5, <1>6, <1>7, <1>8, <1>9, <1>10, <1>11,
       <1>12, <1>13, <1>14, <1>15, <1>16 DEF Next

\* Every step leaves unallocated counter objects at zero.
LEMMA FreshStep == IInv /\ [Next]_vars => FreshIsZero'
  <1> SUFFICES ASSUME IInv, [Next]_vars PROVE FreshIsZero'
    OBVIOUS
  <1> USE DrainAssumption DEF IInv, TypeOK, Support, Ownership, FreshIsZero, Atomics, Frame
  <1>1. ASSUME NEW p \in Callers, NEW k \in Kinds, NEW n \in Nodes,
               Note(p, k, n)
        PROVE FreshIsZero'
    BY <1>1 DEF Note, timer
  <1>2. ASSUME NEW p \in Callers, Bump(p) PROVE FreshIsZero'
    BY <1>2 DEF Bump, timer
  <1>3. ASSUME NEW p \in Callers, Send(p) PROVE FreshIsZero'
    BY <1>3 DEF Send, timer, ChannelHasRoom, NoFrame
  <1>4. ASSUME NEW p \in Callers, Load(p) PROVE FreshIsZero'
    BY <1>4 DEF Load, timer, NoFrame, AlreadyAsked
  <1>5. ASSUME NEW p \in Callers, Raise(p) PROVE FreshIsZero'
    BY <1>5 DEF Raise
  <1>6. ASSUME NEW p \in Callers, Arm(p) PROVE FreshIsZero'
    BY <1>6 DEF Arm, ServedByTimer, NoFrame
  <1>7. CASE Tick
    BY <1>7 DEF Tick
  <1>8. CASE Fire
    BY <1>8 DEF Fire
  <1>9. ASSUME NEW r \in fired, Drain(r) PROVE FreshIsZero'
    BY <1>9 DEF Drain, StartDrain, cancelDrainLocked
  <1>10. CASE OnTimer
    BY <1>10 DEF OnTimer, StartDrain, cancelDrainLocked
  <1>11. ASSUME NEW k \in Atomics, NEW c \in Cells, SwapOne(k, c)
        PROVE FreshIsZero'
    BY <1>11 DEF SwapOne, timer
  <1>12. CASE Swapped
    BY <1>12 DEF Swapped, timer
  <1>13. CASE Recv
    BY <1>13 DEF Recv, timer
  <1>14. CASE SetTopology
    BY <1>14 DEF SetTopology, refreshCounters, timer
  <1>15. CASE Close
    BY <1>15 DEF Close, cancelDrainLocked
  <1>16. CASE UNCHANGED vars
    BY <1>16 DEF vars
  <1> HIDE DEF IInv, TypeOK, Support, Ownership, FreshIsZero, Atomics, Frame
  <1>17. QED
    BY <1>1, <1>2, <1>3, <1>4, <1>5, <1>6, <1>7, <1>8, <1>9, <1>10, <1>11,
       <1>12, <1>13, <1>14, <1>15, <1>16 DEF Next

\* Every step keeps what a raising caller has seen low.
LEMMA SawLowerStep == IInv /\ [Next]_vars => SawLower'
  <1> SUFFICES ASSUME IInv, [Next]_vars PROVE SawLower'
    OBVIOUS
  <1> USE DrainAssumption DEF IInv, TypeOK, Support, SawLower, Priority, Kinds, Atomics, Frame
  <1>1. ASSUME NEW p \in Callers, NEW k \in Kinds, NEW n \in Nodes,
               Note(p, k, n)
        PROVE SawLower'
    BY <1>1 DEF Note, timer
  <1>2. ASSUME NEW p \in Callers, Bump(p) PROVE SawLower'
    BY <1>2 DEF Bump, timer
  <1>3. ASSUME NEW p \in Callers, Send(p) PROVE SawLower'
    BY <1>3 DEF Send, timer, ChannelHasRoom, NoFrame
  <1>4. ASSUME NEW p \in Callers, Load(p) PROVE SawLower'
    BY <1>4 DEF Load, timer, NoFrame, AlreadyAsked
  <1>5. ASSUME NEW p \in Callers, Raise(p) PROVE SawLower'
    BY <1>5 DEF Raise
  <1>6. ASSUME NEW p \in Callers, Arm(p) PROVE SawLower'
    BY <1>6 DEF Arm, ServedByTimer, NoFrame
  <1>7. CASE Tick
    BY <1>7 DEF Tick
  <1>8. CASE Fire
    BY <1>8 DEF Fire
  <1>9. ASSUME NEW r \in fired, Drain(r) PROVE SawLower'
    BY <1>9 DEF Drain, StartDrain, cancelDrainLocked
  <1>10. CASE OnTimer
    BY <1>10 DEF OnTimer, StartDrain, cancelDrainLocked
  <1>11. ASSUME NEW k \in Atomics, NEW c \in Cells, SwapOne(k, c)
        PROVE SawLower'
    BY <1>11 DEF SwapOne, timer
  <1>12. CASE Swapped
    BY <1>12 DEF Swapped, timer
  <1>13. CASE Recv
    BY <1>13 DEF Recv, timer
  <1>14. CASE SetTopology
    BY <1>14 DEF SetTopology, refreshCounters, timer
  <1>15. CASE Close
    BY <1>15 DEF Close, cancelDrainLocked
  <1>16. CASE UNCHANGED vars
    BY <1>16 DEF vars
  <1> HIDE DEF IInv, TypeOK, Support, SawLower, Priority, Kinds, Atomics, Frame
  <1>17. QED
    BY <1>1, <1>2, <1>3, <1>4, <1>5, <1>6, <1>7, <1>8, <1>9, <1>10, <1>11,
       <1>12, <1>13, <1>14, <1>15, <1>16 DEF Next

\* Every step keeps the drain's work list to the drain in progress.
LEMMA QuietStep == IInv /\ [Next]_vars => Quiet'
  <1> SUFFICES ASSUME IInv, [Next]_vars PROVE Quiet'
    OBVIOUS
  <1> USE DEF IInv, Support, Quiet, Live
  <1>1. ASSUME NEW p \in Callers, NEW k \in Kinds, NEW n \in Nodes,
               Note(p, k, n)
        PROVE Quiet'
    BY <1>1 DEF Note, timer
  <1>2. ASSUME NEW p \in Callers, Bump(p) PROVE Quiet'
    BY <1>2 DEF Bump, timer
  <1>3. ASSUME NEW p \in Callers, Send(p) PROVE Quiet'
    BY <1>3, Zenon DEF Send
  <1>4. ASSUME NEW p \in Callers, Load(p) PROVE Quiet'
    BY <1>4 DEF Load, timer, NoFrame, AlreadyAsked
  <1>5. ASSUME NEW p \in Callers, Raise(p) PROVE Quiet'
    BY <1>5, Zenon DEF Raise
  <1>6. ASSUME NEW p \in Callers, Arm(p) PROVE Quiet'
    BY <1>6 DEF Arm, ServedByTimer, NoFrame
  <1>7. CASE Tick
    BY <1>7 DEF Tick
  <1>8. CASE Fire
    BY <1>8 DEF Fire
  <1>9. ASSUME NEW r \in fired, Drain(r) PROVE Quiet'
    BY <1>9 DEF Drain, StartDrain, cancelDrainLocked
  <1>10. CASE OnTimer
    BY <1>10 DEF OnTimer, StartDrain, cancelDrainLocked
  <1>11. ASSUME NEW k \in Atomics, NEW c \in Cells, SwapOne(k, c)
        PROVE Quiet'
    BY <1>11 DEF SwapOne, timer
  <1>12. CASE Swapped
    BY <1>12 DEF Swapped, timer
  <1>13. CASE Recv
    BY <1>13 DEF Recv, timer
  <1>14. CASE SetTopology
    BY <1>14 DEF SetTopology, refreshCounters, timer
  <1>15. CASE Close
    BY <1>15 DEF Close, cancelDrainLocked
  <1>16. CASE UNCHANGED vars
    BY <1>16 DEF vars
  <1> HIDE DEF IInv, Support, Quiet, Live
  <1>17. QED
    BY <1>1, <1>2, <1>3, <1>4, <1>5, <1>6, <1>7, <1>8, <1>9, <1>10, <1>11,
       <1>12, <1>13, <1>14, <1>15, <1>16 DEF Next

\* Every step keeps every counted event covered.
LEMMA CoveredStep == IInv /\ [Next]_vars => EventIsCovered'
  <1> SUFFICES ASSUME IInv, [Next]_vars PROVE EventIsCovered'
    OBVIOUS
  <1> USE DrainAssumption DEF IInv, TypeOK, Support, Ownership, FreshIsZero, SawLower, Quiet, EventIsCovered, Live, Raising, Priority, Kinds, Atomics, Frame
  <1>1. ASSUME NEW p \in Callers, NEW k \in Kinds, NEW n \in Nodes,
               Note(p, k, n)
        PROVE EventIsCovered'
    BY <1>1 DEF Note, timer
  <1>2. ASSUME NEW p \in Callers, Bump(p) PROVE EventIsCovered'
    BY <1>2 DEF Bump, timer
  <1>3. ASSUME NEW p \in Callers, Send(p) PROVE EventIsCovered'
    BY <1>3 DEF Send, timer, ChannelHasRoom, NoFrame
  <1>4. ASSUME NEW p \in Callers, Load(p) PROVE EventIsCovered'
    BY <1>4 DEF Load, timer, NoFrame, AlreadyAsked
  <1>5. ASSUME NEW p \in Callers, Raise(p) PROVE EventIsCovered'
    <2>1. CASE drainPending = caller[p].seen
      <3>1. drainPending' > drainPending /\ drainPending' = Priority(caller[p].kind)
        BY <1>5, <2>1 DEF Raise
      <3>2. \A q \in Callers : q # p => Raising(q)' = Raising(q) /\ caller'[q] = caller[q]
        BY <1>5 DEF Raise
      <3>3. UNCHANGED <<count, counters, urlTests, todo, drainer, drainClosed>>
        BY <1>5 DEF Raise
      <3>4. QED
        BY <3>1, <3>2, <3>3
    <2>2. CASE drainPending # caller[p].seen
      BY <1>5, <2>2, SMTT(30) DEF Raise
    <2>3. QED
      BY <2>1, <2>2
  <1>6. ASSUME NEW p \in Callers, Arm(p) PROVE EventIsCovered'
    <2>1. \A q \in Callers : Raising(q) => Raising(q)' /\ caller'[q] = caller[q]
      BY <1>6 DEF Arm
    <2>2. UNCHANGED <<count, counters, urlTests, todo, drainer, drainClosed>>
      BY <1>6 DEF Arm
    <2>3. CASE drainClosed
      <3>1. drainClosed' /\ counters' = counters
        BY <2>2, <2>3, Zenon
      <3>2. Live = {}
        BY <2>3, Zenon
      <3>3. Live' = {}
        BY <3>1, <3>2
      <3>4. QED
        BY <3>1, <3>3, Zenon DEF EventIsCovered
    <2>4. CASE ~drainClosed
      <3>1. UNCHANGED drainPending
        BY <1>6, <2>4 DEF Arm
      <3>2. QED
        BY <2>1, <2>2, <3>1
    <2>5. QED
      BY <2>3, <2>4
  <1>7. CASE Tick
    BY <1>7 DEF Tick
  <1>8. CASE Fire
    BY <1>8 DEF Fire
  <1>9. ASSUME NEW r \in fired, Drain(r) PROVE EventIsCovered'
    BY <1>9 DEF Drain, StartDrain, cancelDrainLocked
  <1>10. CASE OnTimer
    BY <1>10 DEF OnTimer, StartDrain, cancelDrainLocked
  <1>11. ASSUME NEW k \in Atomics, NEW c \in Cells, SwapOne(k, c)
        PROVE EventIsCovered'
    BY <1>11 DEF SwapOne, timer
  <1>12. CASE Swapped
    BY <1>12 DEF Swapped, timer
  <1>13. CASE Recv
    BY <1>13 DEF Recv, timer
  <1>14. CASE SetTopology
    BY <1>14 DEF SetTopology, refreshCounters, timer
  <1>15. CASE Close
    BY <1>15 DEF Close, cancelDrainLocked
  <1>16. CASE UNCHANGED vars
    BY <1>16 DEF vars
  <1> HIDE DEF IInv, TypeOK, Support, Ownership, FreshIsZero, SawLower, Quiet, EventIsCovered, Live, Raising, Priority, Kinds, Atomics, Frame
  <1>17. QED
    BY <1>1, <1>2, <1>3, <1>4, <1>5, <1>6, <1>7, <1>8, <1>9, <1>10, <1>11,
       <1>12, <1>13, <1>14, <1>15, <1>16 DEF Next

\* A new engine satisfies the invariant.
LEMMA InitIInv == Init => IInv
  <1> SUFFICES ASSUME Init PROVE IInv
    OBVIOUS
  <1>1. TypeOK
    <2>1. NoFrame \in Frame
      BY DEF NoFrame, Frame, Kinds
    <2>2. caller \in [Callers -> Frame]
      BY <2>1 DEF Init
    <2>3. count \in [Atomics -> [Cells -> Nat]]
      BY DEF Init
    <2>4. counters \in [Nodes -> Cells \cup {NoCell}]
      BY DEF Init
    <2>5. todo \subseteq Atomics \X Cells /\ fired \subseteq Nat
      BY DEF Init
    <2>6. /\ allocated = {} /\ urlTests = 0 /\ drainPending = 0
          /\ drainAt = NoTimer /\ drainRevision = 0 /\ drainer = "idle"
          /\ notes = 0 /\ inputs = 0
      BY DEF Init
    <2>7. drainClosed \in BOOLEAN
      BY DEF Init
    <2>8. QED
      BY <2>2, <2>3, <2>4, <2>5, <2>6, <2>7, DrainAssumption DEF TypeOK
  <1>2. Live = {}
    BY DEF Init, Live
  <1>3. Support
    BY <1>2, DrainAssumption DEF Init, Support, Ownership, FreshIsZero,
       SawLower, Quiet, NoFrame, Atomics
  <1>4. EventIsCovered /\ RequestIsServed
    BY <1>2 DEF Init, EventIsCovered, RequestIsServed
  <1>5. QED
    BY <1>1, <1>3, <1>4 DEF IInv

\* The inductive invariant holds in every reachable state.
THEOREM Inductive == Spec => []IInv
  <1>1. IInv /\ [Next]_vars => IInv'
    BY TypeStep, ServedStep, OwnershipStep, FreshStep, SawLowerStep,
       QuietStep, CoveredStep DEF IInv, Support
  <1>2. QED
    BY <1>1, InitIInv, PTL DEF Spec

\* Type correctness of the drain for every number of goroutines, nodes and
\* events.
THEOREM TypeCorrect == Spec => []TypeOK
  <1>1. IInv => TypeOK
    BY DEF IInv
  <1>2. QED
    BY <1>1, Inductive, PTL

\* Whatever the goroutines are in the middle of, a counted event and a raised
\* request always have somebody who will see to them (scheduleDrain, drain).
THEOREM WorkIsAlwaysCarried == Spec => []WorkIsCarried
  <1>1. IInv => WorkIsCarried
    BY DEF IInv, WorkIsCarried
  <1>2. QED
    BY <1>1, Inductive, PTL

\* No interleaving of scheduleDrain, its timer, the engine's own drain and a
\* topology change leaves a counted event of a live node behind: at rest, a
\* drain is armed no later than the event's delay.
THEOREM WakeupsAreNotLost == Spec => []NoLostWakeup
  <1>1. IInv => NoLostWakeup
    <2> SUFFICES ASSUME IInv, drainer = "idle",
                        \A p \in Callers : caller[p].pc = "idle"
                 PROVE  /\ \A c \in Live : count["fails"][c] > 0 =>
                             Armed /\ drainAt <= ShortDelay
                        /\ \A c \in Live : count["traffic"][c] > 0 =>
                             Armed /\ drainAt <= LongDelay
                        /\ urlTests > 0 =>
                             drainClosed \/ (Armed /\ drainAt <= LongDelay)
      BY DEF NoLostWakeup
    <2>1. \A p \in Callers : ~Raising(p) /\ caller[p].pc # "lock"
      BY DEF Raising
    <2>2. todo = {}
      BY DEF IInv, Support, Quiet
    <2>3. ~drainClosed /\ drainPending # 0 =>
            Armed /\ drainAt <= Delay(drainPending)
      BY <2>1 DEF IInv, RequestIsServed
    <2>4. \A c \in Live : ~drainClosed
      BY DEF IInv, Support, Quiet
    <2>5. \A k \in Atomics, c \in Live :
            count[k][c] > 0 => drainPending >= Priority(k)
      BY <2>1, <2>2 DEF IInv, EventIsCovered
    <2>6. urlTests > 0 => drainClosed \/ drainPending >= 1
      BY <2>1 DEF IInv, EventIsCovered
    <2>7. QED
      BY <2>3, <2>4, <2>5, <2>6, DrainAssumption
         DEF IInv, TypeOK, Armed, Delay, Priority, Atomics
  <1>2. QED
    BY <1>1, Inductive, PTL

=============================================================================
