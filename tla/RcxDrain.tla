------------------------------ MODULE RcxDrain ------------------------------
(***************************************************************************)
(* The coalesced drain of the automatic-routing engine (core/rcx/engine.go)*)
(*                                                                         *)
(* mihomo reports dials, first bytes and URL tests from its own goroutines.*)
(* A report only bumps an atomic counter (or sends on a bounded channel)   *)
(* and calls scheduleDrain, which raises the atomic drainPending and, under*)
(* drainMu, arms one timer.  The timer's goroutine, or the engine's own    *)
(* timer, takes the engine lock e.mu, resets the pending state under       *)
(* drainMu and then swaps the counters to zero, one after the other.       *)
(*                                                                         *)
(* Each atomic operation on drainPending and each counter swap is a step;  *)
(* a critical section of drainMu reads drainPending once and is one step.  *)
(* e.mu is held by at most one drain, topology change or close at a time.  *)
(***************************************************************************)
EXTENDS Naturals, FiniteSets

CONSTANTS
    Callers,     \* goroutines of mihomo that report events
    Nodes,       \* names of the nodes that have counters
    Cells,       \* the counter objects refreshCounters can allocate
    NoCell,      \* no counter: the nil *counter
    NoTimer,     \* drainAt is the zero time: no drain is armed
    ChanCap,     \* capacity of the urlTests channel
    ShortDelay,  \* failureDrainDelay, in ticks
    LongDelay,   \* trafficDrainDelay, in ticks
    MaxNotes,    \* bound: events reported in one behaviour
    MaxInputs    \* bound: engine timer ticks and topology changes

ASSUME DrainAssumption ==
    /\ NoCell \notin Cells
    /\ NoTimer \notin Nat
    /\ ChanCap \in Nat \ {0}
    /\ ShortDelay \in Nat
    /\ LongDelay \in Nat
    /\ ShortDelay < LongDelay
    /\ MaxNotes \in Nat
    /\ MaxInputs \in Nat

VARIABLES
    counters,      \* node -> its counter object, NoCell when it has none
    allocated,     \* counter objects handed out so far
    count,         \* kind -> counter object -> value of the atomic
    urlTests,      \* number of results in the channel
    drainPending,  \* 0 nothing asked for, 1 a slow drain, 2 an urgent one
    drainAt,       \* ticks left of the armed timer, NoTimer when none is armed
    drainRevision, \* revision of the armed timer
    fired,         \* revisions whose goroutine runs and waits for e.mu
    drainClosed,   \* set by Close
    caller,        \* caller -> its frame: where it is in NoteX and
                   \*   scheduleDrain, the kind it reports, the counter object
                   \*   it looked up and the drainPending it loaded
    drainer,       \* "idle", "swap" or "recv": the drain that holds e.mu
    todo,          \* counters that drain has still to swap
    notes,         \* events reported so far
    inputs         \* engine timer ticks and topology changes so far

vars == <<counters, allocated, count, urlTests, drainPending, drainAt,
          drainRevision, fired, drainClosed, caller, drainer, todo, notes,
          inputs>>

timer == <<drainPending, drainAt, drainRevision, fired>>

\* The atomics of a counter object; url tests travel through the channel.
Atomics == {"traffic", "fails"}
Kinds == Atomics \cup {"url"}

\* scheduleDrain(urgent): only a failed dial is urgent.
Priority(kind) == IF kind = "fails" THEN 2 ELSE 1

\* Mutant: the urgent drain waits as long as a slow one.
MutDelay(pending) == LongDelay

Delay(pending) == IF pending = 2 THEN ShortDelay ELSE LongDelay

\* A goroutine of mihomo: its program counter and its local variables.
Frame == [pc : {"idle", "bump", "load", "cas", "lock"}, kind : Kinds,
          cell : Cells \cup {NoCell}, seen : 0..2]

NoFrame == [pc |-> "idle", kind |-> "url", cell |-> NoCell, seen |-> 0]

Live == {counters[n] : n \in Nodes} \ {NoCell}

TypeOK ==
    /\ counters \in [Nodes -> Cells \cup {NoCell}]
    /\ allocated \subseteq Cells
    /\ count \in [Atomics -> [Cells -> Nat]]
    /\ urlTests \in 0..ChanCap
    /\ drainPending \in 0..2
    /\ drainAt \in Nat \cup {NoTimer}
    /\ drainRevision \in Nat
    /\ fired \subseteq Nat
    /\ drainClosed \in BOOLEAN
    /\ caller \in [Callers -> Frame]
    /\ drainer \in {"idle", "swap", "recv"}
    /\ todo \subseteq Atomics \X Cells
    /\ notes \in Nat
    /\ inputs \in Nat

\* NewEngine: no counters until the first SetTopology.
Init ==
    /\ counters = [n \in Nodes |-> NoCell]
    /\ allocated = {}
    /\ count = [k \in Atomics |-> [c \in Cells |-> 0]]
    /\ urlTests = 0
    /\ drainPending = 0
    /\ drainAt = NoTimer
    /\ drainRevision = 0
    /\ fired = {}
    /\ drainClosed = FALSE
    /\ caller = [p \in Callers |-> NoFrame]
    /\ drainer = "idle"
    /\ todo = {}
    /\ notes = 0
    /\ inputs = 0

-----------------------------------------------------------------------------
(* The callbacks of mihomo.                                                *)

\* NoteDial(failed), NoteTraffic and NoteURLTest look the counter up; a node
\* without one is not reported.
Note(p, kind, n) ==
    /\ caller[p].pc = "idle"
    /\ notes < MaxNotes
    /\ counters[n] # NoCell
    /\ notes' = notes + 1
    /\ caller' = [caller EXCEPT ![p] = [pc |-> "bump", kind |-> kind,
                                        cell |-> counters[n], seen |-> 0]]
    /\ UNCHANGED <<counters, allocated, count, urlTests, timer, drainClosed,
                   drainer, todo, inputs>>

\* c.fails.Add(1) or c.traffic.Add(1), on the object looked up before.
Bump(p) ==
    /\ caller[p].pc = "bump"
    /\ caller[p].kind \in Atomics
    /\ count' = [count EXCEPT ![caller[p].kind][caller[p].cell] = @ + 1]
    /\ caller' = [caller EXCEPT ![p].pc = "load"]
    /\ UNCHANGED <<counters, allocated, urlTests, timer, drainClosed,
                   drainer, todo, notes, inputs>>

\* Mutant: the send does not give up on a full channel.
MutChannelHasRoom == urlTests <= ChanCap

ChannelHasRoom == urlTests < ChanCap

\* e.urlTests <- urlTest: a full channel drops the test and asks for nothing.
Send(p) ==
    /\ caller[p].pc = "bump"
    /\ caller[p].kind = "url"
    /\ IF ChannelHasRoom
         THEN /\ urlTests' = urlTests + 1
              /\ caller' = [caller EXCEPT ![p].pc = "load"]
         ELSE /\ caller' = [caller EXCEPT ![p] = NoFrame]
              /\ UNCHANGED urlTests
    /\ UNCHANGED <<counters, allocated, count, timer, drainClosed, drainer,
                   todo, notes, inputs>>

\* Mutant: any pending drain is taken to be urgent enough.
MutAlreadyAsked(p) == drainPending >= 1

\* pending >= priority in scheduleDrain's loop.
AlreadyAsked(p) == drainPending >= Priority(caller[p].kind)

\* drainPending.Load(): a drain at least as urgent is already asked for, or
\* the caller tries to raise it.
Load(p) ==
    /\ caller[p].pc = "load"
    /\ caller' = [caller EXCEPT ![p] =
                    IF AlreadyAsked(p) THEN NoFrame
                    ELSE [@ EXCEPT !.pc = "cas", !.seen = drainPending]]
    /\ UNCHANGED <<counters, allocated, count, urlTests, timer, drainClosed,
                   drainer, todo, notes, inputs>>

\* drainPending.CompareAndSwap(pending, priority); a lost race loads again.
Raise(p) ==
    /\ caller[p].pc = "cas"
    /\ IF drainPending = caller[p].seen
         THEN /\ drainPending' = Priority(caller[p].kind)
              /\ caller' = [caller EXCEPT ![p].pc = "lock"]
         ELSE /\ caller' = [caller EXCEPT ![p].pc = "load"]
              /\ UNCHANGED drainPending
    /\ UNCHANGED <<counters, allocated, count, urlTests, drainAt,
                   drainRevision, fired, drainClosed, drainer, todo, notes,
                   inputs>>

\* Mutant: any armed timer is taken to be early enough.
MutServedByTimer == drainAt # NoTimer

\* !e.drainAt.IsZero() && !due.Before(e.drainAt)
ServedByTimer == drainAt # NoTimer /\ Delay(drainPending) >= drainAt

\* The critical section of scheduleDrain: a closed engine forgets the request,
\* a drain that already came took it, an armed timer that is due no later
\* serves it, and otherwise the timer is armed anew under a new revision.
Arm(p) ==
    /\ caller[p].pc = "lock"
    /\ caller' = [caller EXCEPT ![p] = NoFrame]
    /\ \/ /\ drainClosed
          /\ drainPending' = 0
          /\ UNCHANGED <<drainAt, drainRevision>>
       \/ /\ ~drainClosed
          /\ drainPending = 0 \/ ServedByTimer
          /\ UNCHANGED <<drainPending, drainAt, drainRevision>>
       \/ /\ ~drainClosed
          /\ ~(drainPending = 0 \/ ServedByTimer)
          /\ drainAt' = Delay(drainPending)
          /\ drainRevision' = drainRevision + 1
          /\ UNCHANGED drainPending
    /\ UNCHANGED <<counters, allocated, count, urlTests, fired, drainClosed,
                   drainer, todo, notes, inputs>>

-----------------------------------------------------------------------------
(* Time and the holders of e.mu.                                           *)

\* Time passes towards the armed timer.
Tick ==
    /\ drainAt \in Nat \ {0}
    /\ drainAt' = drainAt - 1
    /\ UNCHANGED <<counters, allocated, count, urlTests, drainPending,
                   drainRevision, fired, drainClosed, caller, drainer, todo,
                   notes, inputs>>

\* time.AfterFunc starts the goroutine of the armed revision.  A later Stop no
\* longer reaches it; drainAt stays set until a drain resets it.
Fire ==
    /\ drainAt = 0
    /\ drainRevision \notin fired
    /\ fired' = fired \cup {drainRevision}
    /\ UNCHANGED <<counters, allocated, count, urlTests, drainPending,
                   drainAt, drainRevision, drainClosed, caller, drainer,
                   todo, notes, inputs>>

\* Mutant: the request stays pending although its timer is gone.
MutCancelDrainLocked ==
    /\ drainAt' = NoTimer
    /\ drainRevision' = drainRevision + 1
    /\ UNCHANGED drainPending

\* cancelDrainLocked, under drainMu.
cancelDrainLocked ==
    /\ drainAt' = NoTimer
    /\ drainRevision' = drainRevision + 1
    /\ drainPending' = 0

\* drainLocked once it holds drainMu and passed its guard: reset, then swap
\* every counter of the current table.
StartDrain ==
    /\ cancelDrainLocked
    /\ todo' = Atomics \X Live
    /\ drainer' = "swap"

\* drain(revision) holds e.mu: a closed engine or a superseded revision
\* returns, the armed one drains.
Drain(r) ==
    /\ drainer = "idle"
    /\ r \in fired
    /\ fired' = fired \ {r}
    /\ IF drainClosed \/ r # drainRevision
         THEN UNCHANGED <<drainPending, drainAt, drainRevision, drainer,
                          todo>>
         ELSE StartDrain
    /\ UNCHANGED <<counters, allocated, count, urlTests, drainClosed, caller,
                   notes, inputs>>

\* onTimer: the engine's own timer drains whatever the revision (revision 0).
OnTimer ==
    /\ drainer = "idle"
    /\ ~drainClosed
    /\ inputs < MaxInputs
    /\ inputs' = inputs + 1
    /\ StartDrain
    /\ UNCHANGED <<counters, allocated, count, urlTests, fired, drainClosed,
                   caller, notes>>

\* c.traffic.Swap(0), c.fails.Swap(0): one atomic after the other, in the
\* random order of a Go map.
SwapOne(k, c) ==
    /\ drainer = "swap"
    /\ <<k, c>> \in todo
    /\ count' = [count EXCEPT ![k][c] = 0]
    /\ todo' = todo \ {<<k, c>>}
    /\ UNCHANGED <<counters, allocated, urlTests, timer, drainClosed, caller,
                   drainer, notes, inputs>>

\* All counters are swapped: the drain goes on to the channel.
Swapped ==
    /\ drainer = "swap"
    /\ todo = {}
    /\ drainer' = "recv"
    /\ UNCHANGED <<counters, allocated, count, urlTests, timer, drainClosed,
                   caller, todo, notes, inputs>>

\* The select loop over urlTests: one result, or return when it is empty.
Recv ==
    /\ drainer = "recv"
    /\ IF urlTests > 0
         THEN urlTests' = urlTests - 1 /\ UNCHANGED drainer
         ELSE drainer' = "idle" /\ UNCHANGED urlTests
    /\ UNCHANGED <<counters, allocated, count, timer, drainClosed, caller,
                   todo, notes, inputs>>

\* SetTopology under e.mu: a node that stays keeps its counter object, a new
\* one gets a fresh object.
refreshCounters(next) ==
    /\ counters' = next
    /\ allocated' = allocated \cup ({next[n] : n \in Nodes} \ {NoCell})
    /\ \A n \in Nodes :
         next[n] # NoCell =>
           IF counters[n] # NoCell
             THEN next[n] = counters[n]
             ELSE /\ next[n] \notin allocated
                  /\ \A m \in Nodes \ {n} : next[m] # next[n]

SetTopology ==
    /\ drainer = "idle"
    /\ ~drainClosed
    /\ inputs < MaxInputs
    /\ inputs' = inputs + 1
    /\ \E next \in [Nodes -> Cells \cup {NoCell}] : refreshCounters(next)
    /\ UNCHANGED <<count, urlTests, timer, drainClosed, caller, drainer,
                   todo, notes>>

\* Close under e.mu and drainMu.
Close ==
    /\ drainer = "idle"
    /\ ~drainClosed
    /\ counters' = [n \in Nodes |-> NoCell]
    /\ drainClosed' = TRUE
    /\ cancelDrainLocked
    /\ UNCHANGED <<allocated, count, urlTests, fired, caller, drainer, todo,
                   notes, inputs>>

Next ==
    \/ \E p \in Callers, k \in Kinds, n \in Nodes : Note(p, k, n)
    \/ \E p \in Callers :
         Bump(p) \/ Send(p) \/ Load(p) \/ Raise(p) \/ Arm(p)
    \/ Tick
    \/ Fire
    \/ \E r \in fired : Drain(r)
    \/ OnTimer
    \/ \E k \in Atomics, c \in Cells : SwapOne(k, c)
    \/ Swapped
    \/ Recv
    \/ SetTopology
    \/ Close

Spec == Init /\ [][Next]_vars

\* Goroutines are scheduled, timers expire and e.mu is granted; nothing makes
\* mihomo report, the engine's own timer fire or the host change anything.
Fairness ==
    /\ \A p \in Callers :
         WF_vars(Bump(p) \/ Send(p) \/ Load(p) \/ Raise(p) \/ Arm(p))
    /\ WF_vars(Tick)
    /\ WF_vars(Fire)
    /\ WF_vars(\E r \in fired : Drain(r))
    /\ WF_vars(\E k \in Atomics, c \in Cells : SwapOne(k, c))
    /\ WF_vars(Swapped)
    /\ WF_vars(Recv)

FairSpec == Spec /\ Fairness

-----------------------------------------------------------------------------
(* Properties.                                                             *)

\* The caller reported an event but has not yet raised drainPending for it.
Raising(p) == caller[p].pc \in {"load", "cas"}

Armed == drainAt # NoTimer

\* Every counted event of a live node has somebody who will collect it: the
\* drain that has yet to swap its counter, the caller that has yet to ask for
\* a drain, or a pending request at least as urgent as the event.
EventIsCovered ==
    /\ \A k \in Atomics, c \in Live :
         count[k][c] > 0 =>
           \/ drainPending >= Priority(k)
           \/ <<k, c>> \in todo
           \/ \E p \in Callers :
                Raising(p) /\ caller[p].kind = k /\ caller[p].cell = c
    /\ (urlTests > 0 /\ ~drainClosed) =>
           \/ drainPending >= 1
           \/ drainer # "idle"
           \/ \E p \in Callers : Raising(p) /\ caller[p].kind = "url"

\* A pending request is never orphaned: a timer is armed for it, no later than
\* its urgency asks, or the caller that raised it is about to take drainMu.
RequestIsServed ==
    (drainPending # 0 /\ ~drainClosed) =>
       \/ Armed /\ drainAt <= Delay(drainPending)
       \/ \E p \in Callers : caller[p].pc = "lock"

\* Between any two steps of the callers, the drain and a topology change, no
\* counted event and no raised request is left to nobody (reportTraffic,
\* reportFailure, scheduleDrain and drain together).
WorkIsCarried == EventIsCovered /\ RequestIsServed

\* Once every caller and the drain are at rest, a failed dial through a live
\* node is at most failureDrainDelay away from being handed to the machine,
\* however the reports, resets and re-armings interleaved (scheduleDrain's
\* early return on a pending drain and its early return on an armed timer
\* together lose no wake-up and keep the urgent delay).
NoLostWakeup ==
    (drainer = "idle" /\ \A p \in Callers : caller[p].pc = "idle") =>
       /\ \A c \in Live : count["fails"][c] > 0 => Armed /\ drainAt <= ShortDelay
       /\ \A c \in Live : count["traffic"][c] > 0 => Armed /\ drainAt <= LongDelay
       /\ urlTests > 0 => drainClosed \/ (Armed /\ drainAt <= LongDelay)

\* Every event reported through a node is collected, or its node left the
\* topology or the engine was closed.
EventuallyDrained ==
    \A k \in Atomics, c \in Cells :
      (count[k][c] > 0 /\ c \in Live) ~> (count[k][c] = 0 \/ c \notin Live)

=============================================================================
