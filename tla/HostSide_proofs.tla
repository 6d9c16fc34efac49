--------------------------- MODULE HostSide_proofs ---------------------------
(***************************************************************************)
(* Proofs about the parts that carry events to the host, for any number of *)
(* goroutines and any size of their queues, frames and buffers.            *)
(***************************************************************************)
EXTENDS HostSide, Sequences, FiniteSetTheorems, TLAPS

-----------------------------------------------------------------------------
(* The log pump.                                                           *)

Subscription == [state : {"none", "open", "closed"}, buf : Nat, stopped : BOOLEAN, reads : BOOLEAN]

\* mihomo hands events to open subscriptions only, and those are read.
LogInv ==
    /\ pump \in [Pumps -> Subscription]
    /\ \A p \in Pumps : pump[p].state = "open" => pump[p].reads
    /\ \A p \in emitting : p \in Pumps /\ pump[p].state = "open"

LEMMA LogInit == Log!Init => LogInv
BY DEF Log!Init, LogInv, Subscription

LEMMA LogStep == LogInv /\ [Log!Next]_(Log!vars) => LogInv'
<1> SUFFICES ASSUME LogInv, [Log!Next]_(Log!vars) PROVE LogInv'
  OBVIOUS
<1>0. pump \in [Pumps -> Subscription]
  BY DEF LogInv
<1>1. ASSUME NEW want, Log!Begin(want) PROVE LogInv'
  <2>1. CASE activeLog = 0
    BY <1>1, <2>1 DEF Log!Begin, LogInv
  <2>2. CASE activeLog # 0
    <3>1. /\ pump' = [pump EXCEPT ![activeLog] = [pump[activeLog] EXCEPT !.stopped = TRUE]]
          /\ UNCHANGED emitting
      BY <1>1, <2>2 DEF Log!Begin
    <3>2. \A p \in Pumps :
            /\ pump'[p] \in Subscription
            /\ UNCHANGED <<pump[p].state, pump[p].reads>>
      BY <1>0, <3>1 DEF Subscription
    <3> QED
      BY <1>0, <3>1, <3>2 DEF LogInv
  <2> QED
    BY <2>1, <2>2
<1>2. CASE Log!stop
  <2>1. pump' = [pump EXCEPT ![activeLog] = [pump[activeLog] EXCEPT !.state = "closed"]]
    BY <1>2 DEF Log!stop
  <2>2. \A p \in Pumps : pump'[p] \in Subscription /\ (pump'[p].state = "open" => pump'[p].reads)
    BY <1>0, <2>1 DEF Subscription, LogInv
  <2> QED
    BY <1>0, <1>2, <2>1, <2>2 DEF LogInv, Log!stop
<1>3. CASE Log!handleStartLog
  <2> DEFINE r == [pump[last + 1] EXCEPT !.state = "open", !.reads = TRUE]
  <2>1. pump' = [pump EXCEPT ![last + 1] = r]
    BY <1>0, <1>3 DEF Log!handleStartLog
  <2>2. last + 1 \in Pumps => r \in Subscription /\ r.reads
    BY <1>0 DEF Subscription
  <2> HIDE DEF r
  <2>3. \A p \in Pumps : pump'[p] \in Subscription /\ (pump'[p].state = "open" => pump'[p].reads)
    BY <1>0, <2>1, <2>2 DEF LogInv
  <2> QED
    BY <1>0, <1>3, <2>1, <2>3 DEF LogInv, Log!handleStartLog
<1>4. CASE Log!handleStopLog \/ Log!Emit
  BY <1>4 DEF Log!handleStopLog, Log!Emit, LogInv
<1>5. ASSUME NEW p \in Pumps, Log!Emitted(p) PROVE LogInv'
  <2>1. pump' = [pump EXCEPT ![p] = [pump[p] EXCEPT !.buf = pump[p].buf + 1]]
    BY <1>5 DEF Log!Emitted
  <2>2. \A q \in Pumps :
          /\ pump'[q] \in Subscription
          /\ UNCHANGED <<pump[q].state, pump[q].reads>>
    BY <1>0, <2>1 DEF Subscription
  <2> QED
    BY <1>0, <1>5, <2>1, <2>2 DEF LogInv, Log!Emitted
<1>6. ASSUME NEW p \in Pumps, Log!run(p) PROVE LogInv'
  <2>1. CASE pump[p].buf > 0 /\ pump' = [pump EXCEPT ![p] = [pump[p] EXCEPT !.buf = pump[p].buf - 1]]
    <3>1. \A q \in Pumps :
            /\ pump'[q] \in Subscription
            /\ UNCHANGED <<pump[q].state, pump[q].reads>>
      BY <1>0, <2>1 DEF Subscription
    <3> QED
      BY <1>0, <1>6, <2>1, <3>1 DEF LogInv, Log!run
  <2>2. CASE pump[p].state = "closed" /\ pump' = [pump EXCEPT ![p] = [pump[p] EXCEPT !.reads = FALSE]]
    <3>1. \A q \in Pumps : pump'[q] \in Subscription /\ UNCHANGED pump[q].state
      BY <1>0, <2>2 DEF Subscription
    <3>2. \A q \in Pumps : pump'[q].state = "open" => pump'[q].reads
      BY <1>0, <2>2 DEF Subscription, LogInv
    <3> QED
      BY <1>0, <1>6, <2>2, <3>1, <3>2 DEF LogInv, Log!run
  <2> QED
    BY <1>6, <2>1, <2>2 DEF Log!run
<1>7. CASE UNCHANGED Log!vars
  BY <1>7 DEF Log!vars, LogInv
<1> QED
  BY <1>1, <1>2, <1>3, <1>4, <1>5, <1>6, <1>7 DEF Log!Next

\* However starts and stops of the log interleave with what is logged, mihomo's
\* logger never waits, holding the lock that UnSubscribe needs, for a pump that
\* no longer reads (logPump.run, logPump.stop).
THEOREM PumpsReadOn == Log!Spec => []LoggerIsNotWedged
<1>1. LogInv => LoggerIsNotWedged
  BY DEF LogInv, LoggerIsNotWedged, Log!LoggerIsNotWedged
<1> QED
  BY <1>1, LogInit, LogStep, PTL DEF Log!Spec

-----------------------------------------------------------------------------
(* The message queues.                                                     *)

Sending == [pc : {"idle", "try", "evict", "gaveUp"}, queue : Messages!Queues, attempt : Nat, rivals : Nat]

\* For each attempt of enqueueLatest a rival has taken the room that was made,
\* or the room is still there.
Served(r, l) ==
    /\ r.pc = "try" =>
         /\ r.attempt <= messageEvictAttempts
         /\ \/ r.attempt <= r.rivals
            \/ r.attempt <= r.rivals + 1 /\ l[r.queue] < messageQueueSize
    /\ r.pc = "evict" => r.attempt <= messageEvictAttempts /\ r.attempt <= r.rivals
    /\ r.pc = "gaveUp" => messageEvictAttempts <= r.rivals + 1

SenderInv ==
    /\ len \in [Messages!Queues -> 0 .. messageQueueSize]
    /\ sender \in [Senders -> Sending]
    /\ \A s \in Senders : Served(sender[s], len)

\* The batcher counts the priority messages it takes since a bulk message had
\* its turn; those taken while one waits are among them.
BurstInv ==
    /\ at \in {"state", "turn", "priority", "wait"}
    /\ burst \in 0 .. messagePriorityBurst
    /\ waited \in 0 .. burst
    /\ at \in {"priority", "wait"} => burst < messagePriorityBurst
    /\ len["bulk"] = 0 => waited = 0

LEMMA QueuesInit == Messages!Init => SenderInv /\ BurstInv
<1> SUFFICES ASSUME Messages!Init PROVE SenderInv /\ BurstInv
  OBVIOUS
<1>1. 0 \in 0 .. messageQueueSize /\ 0 \in 0 .. messagePriorityBurst /\ 0 \in 0 .. 0
  BY QueueAssumption
<1>2. Messages!Idle \in Sending /\ Messages!Idle.pc = "idle"
  BY DEF Messages!Idle, Sending, Messages!Queues
<1>3. len \in [Messages!Queues -> 0 .. messageQueueSize] /\ "bulk" \in Messages!Queues
  BY <1>1 DEF Messages!Init, Messages!Queues
<1>4. SenderInv
  BY <1>2, <1>3 DEF Messages!Init, SenderInv, Served
<1>5. BurstInv
  BY <1>1, QueueAssumption DEF Messages!Init, BurstInv
<1> QED
  BY <1>4, <1>5

\* A message that enters a queue is a rival to whoever still tries there.
LEMMA EnqueuedKeeps ==
  ASSUME SenderInv, NEW s \in Senders, NEW q \in Messages!Queues,
         len[q] < messageQueueSize, Messages!Enqueued(s, q)
  PROVE  SenderInv' /\ (len["bulk"]' = 0 => len["bulk"] = 0)
<1> DEFINE new(t) == [sender[t] EXCEPT !.rivals =
                        IF sender[t].rivals < messageEvictAttempts THEN sender[t].rivals + 1
                                                                    ELSE sender[t].rivals]
           next(t) == IF t = s THEN Messages!Idle
                      ELSE IF sender[t].pc # "idle" /\ sender[t].queue = q THEN new(t)
                      ELSE sender[t]
<1>0. len \in [Messages!Queues -> 0 .. messageQueueSize] /\ sender \in [Senders -> Sending]
  BY DEF SenderInv
<1>1. len' = [len EXCEPT ![q] = len[q] + 1] /\ sender' = [t \in Senders |-> next(t)]
  BY DEF Messages!Enqueued
<1>2. /\ len' \in [Messages!Queues -> 0 .. messageQueueSize]
      /\ \A r \in Messages!Queues \ {q} : len'[r] = len[r]
      /\ len["bulk"]' = 0 => len["bulk"] = 0
  <2>1. len[q] + 1 \in 0 .. messageQueueSize /\ "bulk" \in Messages!Queues /\ len["bulk"] \in Nat
    BY <1>0, QueueAssumption DEF Messages!Queues
  <2> QED
    BY <1>0, <1>1, <2>1
<1>3. ASSUME NEW t \in Senders PROVE next(t) \in Sending /\ Served(next(t), len')
  <2>0. sender[t] \in Sending /\ Served(sender[t], len)
    BY <1>0 DEF SenderInv
  <2>1. CASE t = s
    <3>1. Messages!Idle \in Sending /\ Messages!Idle.pc = "idle"
      BY DEF Messages!Idle, Sending, Messages!Queues
    <3> QED
      BY <2>1, <3>1 DEF Served
  <2>2. CASE t # s /\ ~(sender[t].pc # "idle" /\ sender[t].queue = q)
    <3>1. next(t) = sender[t]
      BY <2>2
    <3>2. sender[t].pc = "idle" \/ len'[sender[t].queue] = len[sender[t].queue]
      BY <1>2, <2>0, <2>2 DEF Sending
    <3> HIDE DEF next
    <3> QED
      BY <2>0, <3>1, <3>2 DEF Served
  <2>3. CASE t # s /\ sender[t].pc # "idle" /\ sender[t].queue = q
    <3>1. next(t) = new(t)
      BY <2>3
    <3> HIDE DEF next
    <3>2. /\ new(t) \in Sending
          /\ new(t).pc = sender[t].pc /\ new(t).attempt = sender[t].attempt
          /\ new(t).rivals = IF sender[t].rivals < messageEvictAttempts THEN sender[t].rivals + 1
                                                                         ELSE sender[t].rivals
      BY <2>0 DEF Sending
    <3> HIDE DEF new
    <3>3. sender[t].attempt \in Nat /\ sender[t].rivals \in Nat
      BY <2>0 DEF Sending
    <3>4. Served(new(t), len')
      BY <2>0, <3>2, <3>3, QueueAssumption DEF Served
    <3> QED
      BY <3>1, <3>2, <3>4
  <2> QED
    BY <2>1, <2>2, <2>3
<1> HIDE DEF next
<1>4. sender' \in [Senders -> Sending] /\ \A t \in Senders : Served(sender'[t], len')
  BY <1>1, <1>3
<1> QED
  BY <1>2, <1>4 DEF SenderInv

\* Room that is made stays good for whoever tries.
LEMMA RoomKeeps ==
  ASSUME SenderInv, NEW q \in Messages!Queues, len[q] > 0,
         len' = [len EXCEPT ![q] = len[q] - 1], UNCHANGED sender
  PROVE  SenderInv' /\ len'[q] < messageQueueSize
<1>0. len \in [Messages!Queues -> 0 .. messageQueueSize] /\ sender \in [Senders -> Sending]
  BY DEF SenderInv
<1>1. len[q] - 1 \in 0 .. messageQueueSize
  BY <1>0, QueueAssumption
<1>2. /\ len' \in [Messages!Queues -> 0 .. messageQueueSize]
      /\ \A r \in Messages!Queues : len'[r] <= len[r] /\ len[r] \in Nat /\ len'[r] \in Nat
      /\ len'[q] < messageQueueSize
  BY <1>0, <1>1, QueueAssumption
<1>3. ASSUME NEW s \in Senders PROVE Served(sender[s], len')
  <2>1. Served(sender[s], len) /\ sender[s].queue \in Messages!Queues
    BY <1>0 DEF SenderInv, Sending
  <2> QED
    BY <1>2, <2>1, QueueAssumption DEF Served
<1> QED
  BY <1>0, <1>2, <1>3 DEF SenderInv

LEMMA SenderChanges ==
  ASSUME SenderInv, NEW s \in Senders, NEW r \in Sending, Served(r, len),
         sender' = [sender EXCEPT ![s] = r], UNCHANGED len
  PROVE  SenderInv'
<1>0. len \in [Messages!Queues -> 0 .. messageQueueSize] /\ sender \in [Senders -> Sending]
  BY DEF SenderInv
<1>1. sender' \in [Senders -> Sending]
  BY <1>0
<1>2. ASSUME NEW t \in Senders PROVE Served(sender'[t], len)
  BY <1>0 DEF SenderInv
<1> QED
  BY <1>0, <1>1, <1>2 DEF SenderInv

LEMMA SendKeeps ==
  ASSUME SenderInv, NEW s \in Senders, NEW c \in Messages!Classes, Messages!sendMessage(s, c)
  PROVE  SenderInv' /\ (len["bulk"]' = 0 => len["bulk"] = 0)
<1> DEFINE q == Messages!QueueOf(c)
           r == [pc |-> "try", queue |-> q, attempt |-> 0, rivals |-> 0]
<1>1. q \in Messages!Queues
  BY DEF Messages!QueueOf, Messages!Classes, Messages!Queues
<1>2. r \in Sending /\ Served(r, len)
  BY <1>1, QueueAssumption DEF Sending, Served
<1>3. CASE Messages!Evicts(c)
  <2>1. sender' = [sender EXCEPT ![s] = r] /\ UNCHANGED len
    BY <1>3 DEF Messages!sendMessage
  <2> HIDE DEF r
  <2> QED
    BY <1>2, <2>1, SenderChanges
<1>4. CASE ~Messages!Evicts(c) /\ len[q] < messageQueueSize
  <2>1. Messages!Enqueued(s, q)
    BY <1>4 DEF Messages!sendMessage
  <2> HIDE DEF q
  <2> QED
    BY <1>1, <1>4, <2>1, EnqueuedKeeps
<1>5. CASE UNCHANGED <<len, sender>>
  BY <1>5 DEF SenderInv
<1> QED
  BY <1>3, <1>4, <1>5 DEF Messages!sendMessage

LEMMA PutKeeps ==
  ASSUME SenderInv, NEW s \in Senders, Messages!Put(s)
  PROVE  SenderInv' /\ (len["bulk"]' = 0 => len["bulk"] = 0)
<1> DEFINE q == sender[s].queue
<1>0. len \in [Messages!Queues -> 0 .. messageQueueSize] /\ sender \in [Senders -> Sending]
  BY DEF SenderInv
<1>1. q \in Messages!Queues /\ sender[s] \in Sending /\ Served(sender[s], len) /\ sender[s].pc = "try"
  BY <1>0 DEF Sending, SenderInv, Messages!Put
<1>2. CASE len[q] < messageQueueSize
  <2>1. Messages!Enqueued(s, q)
    BY <1>2 DEF Messages!Put
  <2> HIDE DEF q
  <2> QED
    BY <1>1, <1>2, <2>1, EnqueuedKeeps
<1>3. CASE ~(len[q] < messageQueueSize)
  <2> DEFINE r == [sender[s] EXCEPT !.pc = "evict"]
  <2>1. sender' = [sender EXCEPT ![s] = r] /\ UNCHANGED len
    BY <1>3 DEF Messages!Put
  <2>2. /\ r \in Sending /\ r.pc = "evict"
        /\ r.attempt = sender[s].attempt /\ r.rivals = sender[s].rivals
    BY <1>1 DEF Sending
  <2> HIDE DEF r
  <2>3. Served(r, len)
    BY <1>1, <1>3, <2>2 DEF Served
  <2> QED
    BY <2>1, <2>2, <2>3, SenderChanges
<1> QED
  BY <1>2, <1>3

\* Whoever makes room may count on it until a rival takes it.
LEMMA EvictKeeps ==
  ASSUME SenderInv, BurstInv, NEW s \in Senders, Messages!Evict(s)
  PROVE  SenderInv' /\ BurstInv'
<1> DEFINE q == sender[s].queue
           n == sender[s].attempt + 1
           r1 == [sender[s] EXCEPT !.attempt = n]
           r == [r1 EXCEPT !.pc = IF n < messageEvictAttempts THEN "try" ELSE "gaveUp"]
           l == IF len[q] > 0 THEN len[q] - 1 ELSE 0
<1>0. len \in [Messages!Queues -> 0 .. messageQueueSize] /\ sender \in [Senders -> Sending]
  BY DEF SenderInv
<1>1. q \in Messages!Queues /\ sender[s] \in Sending /\ Served(sender[s], len) /\ sender[s].pc = "evict"
  BY <1>0 DEF Sending, SenderInv, Messages!Evict
<1>2. /\ len' = [len EXCEPT ![q] = l]
      /\ sender' = [sender EXCEPT ![s] = r]
  BY <1>0 DEF Messages!Evict
<1>3. l \in 0 .. messageQueueSize /\ l < messageQueueSize /\ l <= len[q]
  BY <1>0, <1>1, QueueAssumption
<1>4. n \in Nat /\ r1 \in Sending
      /\ r1.queue = q /\ r1.attempt = n /\ r1.rivals = sender[s].rivals /\ r1.rivals \in Nat
  BY <1>1 DEF Sending
<1> HIDE DEF r1
<1>5. r \in Sending /\ r.queue = q /\ r.attempt = n /\ r.rivals = sender[s].rivals
      /\ r.pc = IF n < messageEvictAttempts THEN "try" ELSE "gaveUp"
  BY <1>4 DEF Sending
<1> HIDE DEF r
<1>6. /\ len' \in [Messages!Queues -> 0 .. messageQueueSize]
      /\ len'[q] < messageQueueSize
      /\ \A p \in Messages!Queues : len'[p] <= len[p] /\ len[p] \in Nat /\ len'[p] \in Nat
  BY <1>0, <1>1, <1>2, <1>3, QueueAssumption
<1> HIDE DEF l, q
<1>7. Served(r, len')
  <2>1. sender[s].attempt \in Nat /\ sender[s].attempt <= sender[s].rivals
        /\ sender[s].attempt <= messageEvictAttempts
    BY <1>1 DEF Served, Sending
  <2> QED
    BY <1>4, <1>5, <1>6, <2>1, QueueAssumption DEF Served
<1>8. ASSUME NEW t \in Senders, t # s PROVE Served(sender[t], len')
  <2>1. Served(sender[t], len) /\ sender[t].queue \in Messages!Queues
    BY <1>0 DEF SenderInv, Sending
  <2> QED
    BY <1>6, <2>1, QueueAssumption DEF Served
<1>9. SenderInv'
  BY <1>0, <1>2, <1>5, <1>6, <1>7, <1>8 DEF SenderInv
<1>10. UNCHANGED <<at, burst>> /\ waited' = IF len'["bulk"] = 0 THEN 0 ELSE waited
  BY DEF Messages!Evict
<1>11. BurstInv'
  <2>1. len["bulk"]' = len'["bulk"] /\ 0 \in 0 .. burst
    BY QueueAssumption DEF BurstInv
  <2> QED
    BY <1>10, <2>1 DEF BurstInv
<1> QED
  BY <1>9, <1>11

LEMMA TakeKeeps ==
  ASSUME SenderInv, NEW q \in Messages!Queues, Messages!Take(q)
  PROVE  SenderInv'
BY RoomKeeps DEF Messages!Take

LEMMA BatcherKeeps ==
  ASSUME SenderInv, BurstInv,
         Messages!BatchState \/ Messages!BatchTurn \/ Messages!BatchPriority \/ Messages!BatchWait
  PROVE  SenderInv' /\ BurstInv'
<1>0. /\ len \in [Messages!Queues -> 0 .. messageQueueSize]
      /\ {"state", "priority", "bulk"} = Messages!Queues
      /\ \A q \in Messages!Queues : len[q] \in Nat
  BY QueueAssumption DEF SenderInv, Messages!Queues
<1>1. SenderInv'
  <2>1. CASE \E q \in Messages!Queues : Messages!Take(q)
    BY <2>1, TakeKeeps
  <2>2. CASE UNCHANGED <<len, sender>>
    BY <2>2 DEF SenderInv
  <2> QED
    BY <1>0, <2>1, <2>2 DEF Messages!BatchState, Messages!BatchTurn, Messages!BatchPriority,
                            Messages!BatchWait, Messages!Pass
<1>2. ASSUME NEW next \in {"state", "turn", "priority", "wait"}, Messages!Pass(next), UNCHANGED burst,
             next \in {"priority", "wait"} => burst < messagePriorityBurst
      PROVE  BurstInv'
  BY <1>2 DEF Messages!Pass, BurstInv
<1>3. ASSUME Messages!Take("state"), UNCHANGED burst, at' = "state" PROVE BurstInv'
  <2>1. len'["bulk"] = len["bulk"] /\ UNCHANGED waited
    BY <1>0, <1>3 DEF Messages!Take
  <2> QED
    BY <1>3, <2>1 DEF BurstInv
<1>4. ASSUME Messages!Take("bulk"), burst' = 0, at' = "state" PROVE BurstInv'
  <2>1. waited' = 0 /\ 0 \in 0 .. 0 /\ 0 \in 0 .. messagePriorityBurst
    BY <1>4, QueueAssumption DEF Messages!Take
  <2> QED
    BY <1>4, <2>1 DEF BurstInv
<1>5. ASSUME Messages!Take("priority"), burst' = burst + 1, at' = "state", burst < messagePriorityBurst
      PROVE  BurstInv'
  <2>1. len'["bulk"] = len["bulk"] /\ waited' = IF len["bulk"] > 0 THEN waited + 1 ELSE 0
    BY <1>0, <1>5 DEF Messages!Take
  <2> QED
    BY <1>0, <1>5, <2>1, QueueAssumption DEF BurstInv
<1>6. CASE Messages!BatchState
  BY <1>1, <1>2, <1>3, <1>6 DEF Messages!BatchState
<1>7. CASE Messages!BatchTurn
  <2>1. CASE burst < messagePriorityBurst /\ Messages!Pass("priority") /\ UNCHANGED burst
    BY <1>1, <1>2, <2>1
  <2>2. CASE burst' = 0 /\ Messages!Take("bulk") /\ at' = "state"
    BY <1>1, <1>4, <2>2
  <2>3. CASE burst' = 0 /\ len["bulk"] = 0 /\ Messages!Pass("priority")
    BY <1>1, <2>3, QueueAssumption DEF Messages!Pass, BurstInv
  <2> QED
    BY <1>7, <2>1, <2>2, <2>3 DEF Messages!BatchTurn
<1>8. CASE Messages!BatchPriority
  BY <1>1, <1>2, <1>5, <1>8 DEF Messages!BatchPriority, BurstInv
<1>9. CASE Messages!BatchWait
  <2>1. at' = "state" /\ burst < messagePriorityBurst
    BY <1>9 DEF Messages!BatchWait, BurstInv
  <2>2. CASE UNCHANGED <<len, sender, burst, waited>>
    BY <1>1, <2>1, <2>2 DEF BurstInv
  <2> QED
    BY <1>1, <1>3, <1>4, <1>5, <1>9, <2>1, <2>2 DEF Messages!BatchWait
<1> QED
  BY <1>1, <1>6, <1>7, <1>8, <1>9

LEMMA QueuesStep == SenderInv /\ BurstInv /\ [Messages!Next]_(Messages!vars) => SenderInv' /\ BurstInv'
<1> SUFFICES ASSUME SenderInv, BurstInv, [Messages!Next]_(Messages!vars) PROVE SenderInv' /\ BurstInv'
  OBVIOUS
<1>1. ASSUME UNCHANGED <<at, burst, waited>>, len["bulk"]' = 0 => len["bulk"] = 0 PROVE BurstInv'
  BY <1>1 DEF BurstInv
<1>2. ASSUME NEW s \in Senders, NEW c \in Messages!Classes, Messages!sendMessage(s, c)
      PROVE  SenderInv' /\ BurstInv'
  <2>1. UNCHANGED <<at, burst, waited>>
    BY <1>2 DEF Messages!sendMessage
  <2> QED
    BY <1>1, <1>2, <2>1, SendKeeps
<1>3. ASSUME NEW s \in Senders, Messages!Put(s) PROVE SenderInv' /\ BurstInv'
  <2>1. UNCHANGED <<at, burst, waited>>
    BY <1>3 DEF Messages!Put
  <2> QED
    BY <1>1, <1>3, <2>1, PutKeeps
<1>4. ASSUME NEW s \in Senders, Messages!GaveUp(s) PROVE SenderInv' /\ BurstInv'
  <2>1. UNCHANGED <<len, at, burst, waited>> /\ sender' = [sender EXCEPT ![s] = Messages!Idle]
    BY <1>4 DEF Messages!GaveUp
  <2>2. Messages!Idle \in Sending /\ Served(Messages!Idle, len)
    BY DEF Messages!Idle, Sending, Messages!Queues, Served
  <2> QED
    BY <1>1, <2>1, <2>2, SenderChanges
<1>5. CASE UNCHANGED Messages!vars
  BY <1>5 DEF Messages!vars, SenderInv, BurstInv
<1> QED
  BY <1>2, <1>3, <1>4, <1>5, EvictKeeps, BatcherKeeps DEF Messages!Next

\* For any sizes of the queues: enqueueLatest gives up only to rivals that took
\* the room it made, and bulk messages wait for at most a burst of priority ones
\* (enqueueLatest, runMessageBatcher).
THEOREM NoMessageStarves == Messages!Spec => []QueuesAreFair
<1>1. SenderInv /\ BurstInv => QueuesAreFair
  <2> SUFFICES ASSUME SenderInv, BurstInv PROVE QueuesAreFair
    OBVIOUS
  <2>1. ASSUME NEW s \in Senders, sender[s].pc = "gaveUp" PROVE sender[s].rivals >= messageEvictAttempts - 1
    BY <2>1, QueueAssumption DEF SenderInv, Served, Sending
  <2>2. waited <= messagePriorityBurst
    BY QueueAssumption DEF BurstInv
  <2> QED
    BY <2>1, <2>2 DEF QueuesAreFair, Messages!QueuesAreFair
<1> QED
  BY <1>1, QueuesInit, QueuesStep, PTL DEF Messages!Spec

-----------------------------------------------------------------------------
(* The frames of the connection.                                           *)

Writing == [pc : {"idle", "write"}, written : 0 .. FrameSize - 1]
Piece == [by : Writers, piece : 1 .. FrameSize]
Untouched == \A w \in Writers : writer[w].written = 0

\* One writer at a time has a frame, and what is on the wire ends with what it
\* has written of it; when nobody has begun a frame, the wire ends with a whole
\* one or it is closed.
WireInv ==
    /\ writer \in [Writers -> Writing]
    /\ wire \in Seq(Piece)
    /\ \A v, w \in Writers : writer[v].pc = "write" /\ writer[w].pc = "write" => v = w
    /\ \A w \in Writers : writer[w].pc = "idle" => writer[w].written = 0
    /\ \A w \in Writers : writer[w].written > 0 =>
         wire # <<>> /\ wire[Len(wire)] = [by |-> w, piece |-> writer[w].written]
    /\ Untouched => closed \/ wire = <<>> \/ wire[Len(wire)].piece = FrameSize
    /\ FramesAreWhole

LEMMA WireInit == Server!Init => WireInv
<1> SUFFICES ASSUME Server!Init PROVE WireInv
  OBVIOUS
<1>1. Server!Idle \in Writing /\ Server!Idle.pc = "idle" /\ Server!Idle.written = 0
  BY FrameAssumption DEF Server!Idle, Writing
<1>2. wire \in Seq(Piece) /\ Len(wire) = 0 /\ wire = <<>>
  BY DEF Server!Init
<1> QED
  BY <1>1, <1>2 DEF Server!Init, WireInv, FramesAreWhole, Server!FramesAreWhole

\* A writer that leaves its frame leaves the wire whole, or closed.
LEMMA WriterLeaves ==
  ASSUME WireInv, NEW w \in Writers, writer[w].pc = "write",
         writer' = [writer EXCEPT ![w] = Server!Idle],
         UNCHANGED wire, closed => closed', writer[w].written > 0 => closed'
  PROVE  WireInv'
<1>0. writer \in [Writers -> Writing] /\ wire \in Seq(Piece)
  BY DEF WireInv
<1>1. Server!Idle \in Writing /\ Server!Idle.pc = "idle" /\ Server!Idle.written = 0
  BY FrameAssumption DEF Server!Idle, Writing
<1>2. /\ writer' \in [Writers -> Writing]
      /\ \A v \in Writers : writer'[v] = IF v = w THEN Server!Idle ELSE writer[v]
  BY <1>0, <1>1
<1>3. \A v \in Writers : v # w => writer[v].written = 0
  BY <1>0 DEF WireInv, Writing
<1>4. Untouched'
  BY <1>1, <1>2, <1>3 DEF Untouched
<1>5. closed' \/ Untouched
  <2>1. writer[w].written = 0 \/ writer[w].written > 0
    BY <1>0 DEF Writing
  <2> QED
    BY <1>3, <2>1 DEF Untouched
<1>6. closed' \/ wire = <<>> \/ wire[Len(wire)].piece = FrameSize
  BY <1>5 DEF WireInv
<1>7. \A v \in Writers : ~(writer'[v].written > 0)
  BY <1>4 DEF Untouched
<1>8. FramesAreWhole'
  BY DEF WireInv, FramesAreWhole, Server!FramesAreWhole
<1> QED
  BY <1>0, <1>1, <1>2, <1>4, <1>6, <1>7, <1>8 DEF WireInv

LEMMA Joined ==
  ASSUME NEW S, NEW s \in Seq(S), NEW t \in Seq(S)
  PROVE  /\ s \o t \in Seq(S)
         /\ Len(s \o t) = Len(s) + Len(t)
         /\ Len(s) \in Nat
         /\ \A i \in 1 .. Len(s) : (s \o t)[i] = s[i]
         /\ \A i \in 1 .. Len(t) : (s \o t)[Len(s) + i] = t[i]
OBVIOUS

\* The pieces of a frame follow each other on the wire.
LEMMA PiecesFollow ==
  ASSUME WireInv, NEW w \in Writers, writer[w].pc = "write", ~closed,
         NEW n \in 1 .. FrameSize - writer[w].written,
         wire' = wire \o [i \in 1 .. n |-> [by |-> w, piece |-> writer[w].written + i]]
  PROVE  /\ wire' \in Seq(Piece) /\ wire' # <<>>
         /\ wire'[Len(wire')] = [by |-> w, piece |-> writer[w].written + n]
         /\ FramesAreWhole'
<1> DEFINE k == writer[w].written
           new == [i \in 1 .. n |-> [by |-> w, piece |-> k + i]]
<1>0. wire \in Seq(Piece) /\ writer \in [Writers -> Writing] /\ k \in 0 .. FrameSize - 1
  BY DEF WireInv, Writing
<1>1. n \in Nat /\ n >= 1 /\ k \in Nat /\ k + n <= FrameSize
  BY <1>0, FrameAssumption
<1>2. \A i \in 1 .. n : [by |-> w, piece |-> k + i] \in Piece
  BY <1>1, FrameAssumption DEF Piece
<1>3. new \in Seq(Piece) /\ Len(new) = n /\ \A i \in 1 .. n : new[i] = [by |-> w, piece |-> k + i]
  BY <1>1, <1>2
<1>4. wire' = wire \o new
  OBVIOUS
<1> HIDE DEF new, k
<1>5. /\ wire' \in Seq(Piece)
      /\ Len(wire') = Len(wire) + n
      /\ Len(wire) \in Nat
      /\ \A i \in 1 .. Len(wire) : wire'[i] = wire[i]
      /\ \A i \in 1 .. n : wire'[Len(wire) + i] = [by |-> w, piece |-> k + i]
  <2>1. /\ wire \o new \in Seq(Piece)
        /\ Len(wire \o new) = Len(wire) + Len(new)
        /\ Len(wire) \in Nat
        /\ \A i \in 1 .. Len(wire) : (wire \o new)[i] = wire[i]
        /\ \A i \in 1 .. Len(new) : (wire \o new)[Len(wire) + i] = new[i]
    <3>1. wire \in Seq(Piece) /\ new \in Seq(Piece)
      BY <1>0, <1>3
    <3>2. wire \o new \in Seq(Piece)
      BY <3>1, Joined
    <3>3. Len(wire \o new) = Len(wire) + Len(new)
      BY <3>1, Joined
    <3>4. Len(wire) \in Nat
      BY <3>1, Joined
    <3>5. \A i \in 1 .. Len(wire) : (wire \o new)[i] = wire[i]
      BY <3>1, Joined
    <3>6. \A i \in 1 .. Len(new) : (wire \o new)[Len(wire) + i] = new[i]
      BY <3>1, Joined
    <3> QED
      BY <3>2, <3>3, <3>4, <3>5, <3>6
  <2>2. \A i \in 1 .. n : (wire \o new)[Len(wire) + i] = [by |-> w, piece |-> k + i]
    BY <1>3, <2>1
  <2> QED
    BY <1>3, <1>4, <2>1, <2>2
<1>6. wire' # <<>> /\ wire'[Len(wire')] = [by |-> w, piece |-> k + n]
  <2>1. n \in 1 .. n /\ n > 0
    BY <1>1
  <2>2. wire'[Len(wire) + n] = [by |-> w, piece |-> k + n]
    BY <1>5, <2>1
  <2>3. Len(wire') = Len(wire) + n /\ Len(wire') # 0
    BY <1>1, <1>5, <2>1
  <2>4. wire' # <<>>
    BY <2>3
  <2> QED
    BY <2>2, <2>3, <2>4
<1>7. ASSUME NEW i \in 2 .. Len(wire')
      PROVE  IF wire'[i - 1].piece = FrameSize THEN wire'[i].piece = 1
             ELSE wire'[i] = [by |-> wire'[i - 1].by, piece |-> wire'[i - 1].piece + 1]
  <2>1. CASE i <= Len(wire)
    <3>1. i \in 2 .. Len(wire) /\ wire'[i] = wire[i] /\ wire'[i - 1] = wire[i - 1]
      BY <1>5, <2>1
    <3>2. FramesAreWhole
      BY DEF WireInv
    <3> QED
      BY <3>1, <3>2 DEF FramesAreWhole, Server!FramesAreWhole
  <2>2. CASE i = Len(wire) + 1
    <3>1. wire # <<>> /\ wire'[i - 1] = wire[Len(wire)] /\ wire'[i] = [by |-> w, piece |-> k + 1]
      BY <1>0, <1>1, <1>5, <2>2
    <3>2. CASE k > 0
      <4>1. wire[Len(wire)] = [by |-> w, piece |-> k]
        BY <3>2 DEF WireInv, k
      <4>2. k # FrameSize
        BY <1>0, FrameAssumption
      <4> QED
        BY <3>1, <4>1, <4>2, SMTT(30)
    <3>3. CASE k = 0
      <4>1. \A v \in Writers : v # w => writer[v].written = 0
        BY <1>0 DEF WireInv, Writing
      <4>2. Untouched
        BY <3>3, <4>1 DEF Untouched, k
      <4>3. wire[Len(wire)].piece = FrameSize
        BY <3>1, <4>2 DEF WireInv
      <4> QED
        BY <3>1, <3>3, <4>3
    <3> QED
      BY <1>1, <3>2, <3>3, SMTT(30)
  <2>3. CASE i > Len(wire) + 1
    <3> DEFINE j == i - 1 - Len(wire)
    <3>1. j \in 1 .. n /\ j + 1 \in 1 .. n /\ i - 1 = Len(wire) + j /\ i = Len(wire) + (j + 1)
      BY <1>1, <1>5, <2>3
    <3> HIDE DEF j
    <3>2. wire'[i - 1] = [by |-> w, piece |-> k + j] /\ wire'[i] = [by |-> w, piece |-> k + (j + 1)]
      BY <1>5, <3>1
    <3>3. k + j # FrameSize /\ k + (j + 1) = (k + j) + 1
      BY <1>1, <3>1, FrameAssumption
    <3> QED
      BY <3>2, <3>3
  <2> QED
    BY <1>5, <2>1, <2>2, <2>3
<1>8. FramesAreWhole'
  BY <1>7 DEF FramesAreWhole, Server!FramesAreWhole
<1> QED
  BY <1>5, <1>6, <1>8 DEF k

LEMMA WireStep == WireInv /\ [Server!Next]_(Server!vars) => WireInv'
<1> SUFFICES ASSUME WireInv, [Server!Next]_(Server!vars) PROVE WireInv'
  OBVIOUS
<1>0. writer \in [Writers -> Writing] /\ wire \in Seq(Piece)
  BY DEF WireInv
<1>1. ASSUME UNCHANGED <<writer, wire>>, closed => closed' PROVE WireInv'
  BY <1>1 DEF WireInv, FramesAreWhole, Server!FramesAreWhole, Untouched
<1>2. ASSUME NEW w \in Writers, Server!send(w) PROVE WireInv'
  <2>1. CASE UNCHANGED writer
    BY <1>1, <1>2, <2>1 DEF Server!send
  <2>2. CASE writer' # writer
    <3> DEFINE r == [writer[w] EXCEPT !.pc = "write"]
    <3>1. writer' = [writer EXCEPT ![w] = r] /\ UNCHANGED <<wire, closed>>
      BY <1>2, <2>2 DEF Server!send
    <3>2. r \in Writing /\ r.written = writer[w].written /\ writer[w].pc = "idle"
      BY <1>0, <1>2 DEF Writing, Server!send
    <3> HIDE DEF r
    <3>3. /\ writer' \in [Writers -> Writing]
          /\ \A v \in Writers : writer'[v].written = writer[v].written
          /\ \A v \in Writers : v # w => writer'[v] = writer[v]
      BY <1>0, <3>1, <3>2
    <3>4. \A v \in Writers : writer[v].pc # "write"
      BY <1>2 DEF Server!send, Server!Locked
    <3>5. \A u, v \in Writers : writer'[u].pc = "write" /\ writer'[v].pc = "write" => u = v
      BY <3>3, <3>4
    <3>6. \A v \in Writers : writer'[v].pc = "idle" => writer'[v].written = 0
      BY <3>2, <3>3 DEF WireInv
    <3>7. FramesAreWhole' /\ (Untouched' => Untouched)
      BY <3>1, <3>3 DEF WireInv, FramesAreWhole, Server!FramesAreWhole, Untouched
    <3> QED
      BY <1>0, <3>1, <3>3, <3>5, <3>6, <3>7 DEF WireInv
  <2> QED
    BY <2>1, <2>2
<1>3. ASSUME NEW w \in Writers, Server!Accepted(w) PROVE WireInv'
  <2> DEFINE k == writer[w].written
  <2>0. writer[w].pc = "write" /\ ~closed /\ UNCHANGED closed /\ k \in 0 .. FrameSize - 1
    BY <1>0, <1>3 DEF Server!Accepted, Writing
  <2>1. PICK n \in 1 .. FrameSize - k :
          /\ wire' = wire \o [i \in 1 .. n |-> [by |-> w, piece |-> k + i]]
          /\ writer' = [writer EXCEPT ![w] = IF k + n = FrameSize THEN Server!Idle
                                             ELSE [writer[w] EXCEPT !.written = k + n]]
    BY <1>0, <1>3 DEF Server!Accepted
  <2>2. /\ wire' \in Seq(Piece) /\ wire' # <<>>
        /\ wire'[Len(wire')] = [by |-> w, piece |-> k + n]
        /\ FramesAreWhole'
    BY <2>0, <2>1, PiecesFollow
  <2> DEFINE r == IF k + n = FrameSize THEN Server!Idle ELSE [writer[w] EXCEPT !.written = k + n]
  <2>3. /\ r \in Writing
        /\ r.pc = "idle" => r.written = 0
        /\ r.written > 0 => r.written = k + n
        /\ r.written = 0 => k + n = FrameSize
    <3>1. CASE k + n = FrameSize
      BY <3>1, FrameAssumption DEF Server!Idle, Writing
    <3>2. CASE k + n # FrameSize
      <4>1. k + n \in 0 .. FrameSize - 1 /\ k + n > 0
        BY <2>0, <3>2, FrameAssumption
      <4>2. r = [writer[w] EXCEPT !.written = k + n]
        BY <3>2
      <4> HIDE DEF r, k
      <4> QED
        BY <1>0, <2>0, <4>1, <4>2 DEF Writing
    <3> QED
      BY <3>1, <3>2
  <2>4. writer' = [writer EXCEPT ![w] = r]
    BY <2>1
  <2> HIDE DEF r, k
  <2>5. /\ writer' \in [Writers -> Writing]
        /\ writer'[w] = r
        /\ \A v \in Writers : v # w => writer'[v] = writer[v] /\ writer[v].pc = "idle" /\ writer[v].written = 0
    <3>1. \A v \in Writers : v # w => writer[v].pc = "idle" /\ writer[v].written = 0
      BY <1>0, <2>0 DEF WireInv, Writing
    <3> QED
      BY <1>0, <2>3, <2>4, <3>1
  <2>6. \A u, v \in Writers : writer'[u].pc = "write" /\ writer'[v].pc = "write" => u = v
    BY <2>5
  <2>7. \A v \in Writers : writer'[v].pc = "idle" => writer'[v].written = 0
    BY <2>3, <2>5
  <2>8. \A v \in Writers : writer'[v].written > 0 =>
          wire' # <<>> /\ wire'[Len(wire')] = [by |-> v, piece |-> writer'[v].written]
    BY <2>2, <2>3, <2>5
  <2>9. Untouched' => wire'[Len(wire')].piece = FrameSize
    BY <2>2, <2>3, <2>5 DEF Untouched
  <2> QED
    BY <2>2, <2>5, <2>6, <2>7, <2>8, <2>9 DEF WireInv
<1>4. ASSUME NEW w \in Writers, Server!Stalled(w) PROVE WireInv'
  <2>1. /\ writer[w].pc = "write" /\ writer' = [writer EXCEPT ![w] = Server!Idle]
        /\ UNCHANGED <<wire, closed>> /\ ~(writer[w].written > 0)
    BY <1>4 DEF Server!Stalled
  <2> QED
    BY <2>1, WriterLeaves
<1>5. ASSUME NEW w \in Writers, Server!Failed(w) PROVE WireInv'
  <2>1. /\ writer[w].pc = "write" /\ writer' = [writer EXCEPT ![w] = Server!Idle]
        /\ UNCHANGED wire /\ (closed => closed') /\ (writer[w].written > 0 => closed')
    BY <1>5 DEF Server!Failed
  <2> QED
    BY <2>1, WriterLeaves
<1>6. CASE Server!HostDies \/ Server!serveEnds
  BY <1>1, <1>6 DEF Server!HostDies, Server!serveEnds
<1>7. CASE UNCHANGED Server!vars
  BY <1>1, <1>7 DEF Server!vars
<1> QED
  BY <1>2, <1>3, <1>4, <1>5, <1>6, <1>7 DEF Server!Next

\* However the writers interleave and wherever a write stalls or breaks, for any
\* number of writers and pieces, the host reads whole frames (CoreServer.send,
\* resumingWriter).
THEOREM WireIsFramed == Server!Spec => []FramesAreWhole
<1>1. WireInv => FramesAreWhole
  BY DEF WireInv
<1> QED
  BY <1>1, WireInit, WireStep, PTL DEF Server!Spec

-----------------------------------------------------------------------------
(* The traffic reports.                                                    *)

Connection == [state : {"none", "announced", "opening", "open", "closed"}, total : 0 .. MaxTotal]
Report == [reported : 0 .. MaxTotal + 1, fresh : BOOLEAN, closed : Nat]

\* The watch has one goroutine, which is there while it has requests.
RunnerInv ==
    /\ running \in BOOLEAN
    /\ runners \in Seq({"clear", "collect"})
    /\ Traffic!RunnerIsThere

WatchedInv ==
    /\ conns \in [Requests -> Connection]
    /\ known \in [Requests -> 0 .. MaxTotal]
    /\ Traffic!Watched \subseteq Requests
    /\ \A r \in Traffic!Watched : requests[r] \in Report

\* What a watched request was last reported with is what the host has, and
\* only a closed request is counted as one; a connection that is there is
\* watched, unless the host was hidden.
Watching(r) ==
    /\ conns[r].state \in {"opening", "open", "closed"}
    /\ requests[r].reported \in {known[r], MaxTotal + 1}
    /\ requests[r].closed > 0 => conns[r].state = "closed"

LedgerInv ==
    /\ \A r \in Traffic!Watched : Watching(r)
    /\ \A r \in Requests : known[r] <= conns[r].total
    /\ \A r \in Requests : conns[r].state \in {"none", "announced"} => conns[r].total = 0
    /\ \A r \in Requests : conns[r].state \in {"opening", "open"} => r \in Traffic!Watched \cup excused
    /\ Traffic!FinalTotalIsReported

TrafficInv == RunnerInv /\ WatchedInv /\ LedgerInv

LEMMA TrafficInit == Traffic!Init => TrafficInv
<1> SUFFICES ASSUME Traffic!Init PROVE TrafficInv
  OBVIOUS
<1>1. 0 \in 0 .. MaxTotal
  BY TrafficAssumption
<1>2. Traffic!Watched = {}
  BY DEF Traffic!Init, Traffic!Watched
<1>3. runners \in Seq({"clear", "collect"}) /\ Len(runners) = 0 /\ running = FALSE
  BY DEF Traffic!Init
<1>4. RunnerInv
  BY <1>2, <1>3 DEF RunnerInv, Traffic!RunnerIsThere
<1>5. /\ conns \in [Requests -> Connection]
      /\ \A r \in Requests : conns[r].state = "none" /\ conns[r].total = 0 /\ known[r] = 0
  BY <1>1 DEF Traffic!Init, Connection
<1>6. WatchedInv
  BY <1>1, <1>2, <1>5 DEF Traffic!Init, WatchedInv
<1>7. LedgerInv
  BY <1>2, <1>5 DEF LedgerInv, Traffic!FinalTotalIsReported
<1> QED
  BY <1>4, <1>6, <1>7 DEF TrafficInv

\* insert keeps what is watched, and starts the goroutine that is missing.
LEMMA InsertKeeps ==
  ASSUME RunnerInv, NEW totals, Traffic!insert(totals)
  PROVE  /\ RunnerInv'
         /\ Traffic!Watched' = Traffic!Watched \cup DOMAIN totals
         /\ \A r \in Traffic!Watched : requests'[r] = requests[r]
         /\ \A r \in DOMAIN totals \ Traffic!Watched :
              requests'[r] = [reported |-> totals[r], fresh |-> TRUE, closed |-> 0]
<1>1. Traffic!Watched' = Traffic!Watched \cup DOMAIN totals
  BY DEF Traffic!insert, Traffic!Watched
<1>2. /\ \A r \in Traffic!Watched : requests'[r] = requests[r]
      /\ \A r \in DOMAIN totals \ Traffic!Watched :
           requests'[r] = [reported |-> totals[r], fresh |-> TRUE, closed |-> 0]
  BY DEF Traffic!insert
<1>3. running' \in BOOLEAN /\ (Traffic!Watched' # {} => running')
  BY <1>1 DEF RunnerInv, Traffic!RunnerIsThere, Traffic!insert
<1>4. runners' \in Seq({"clear", "collect"}) /\ Len(runners') = IF running' THEN 1 ELSE 0
  <2>1. CASE running \/ DOMAIN totals = {}
    BY <2>1 DEF RunnerInv, Traffic!RunnerIsThere, Traffic!insert
  <2>2. CASE ~running /\ DOMAIN totals # {}
    <3>1. running' /\ runners' = Append(runners, "clear") /\ Len(runners) = 0
      BY <2>2 DEF RunnerInv, Traffic!RunnerIsThere, Traffic!insert
    <3>2. Len(runners') = 1 /\ runners' \in Seq({"clear", "collect"})
      BY <3>1 DEF RunnerInv
    <3> QED
      BY <3>1, <3>2
  <2> QED
    BY <2>1, <2>2
<1>5. RunnerInv'
  BY <1>3, <1>4 DEF RunnerInv, Traffic!RunnerIsThere
<1> QED
  BY <1>1, <1>2, <1>5

\* A connection moves on, and the watch keeps what it knows of it.
LEMMA ConnectionMoves ==
  ASSUME WatchedInv, LedgerInv, NEW r \in Requests, NEW c \in Connection,
         conns' = [conns EXCEPT ![r] = c], UNCHANGED <<requests, known>>, excused \subseteq excused',
         known[r] <= c.total,
         c.state \in {"none", "announced"} => c.total = 0,
         c.state \in {"opening", "open"} => r \in Traffic!Watched \cup excused',
         r \in Traffic!Watched => /\ c.state \in {"opening", "open", "closed"}
                                  /\ requests[r].closed > 0 => c.state = "closed",
         c.state = "closed" => r \in Traffic!Watched \cup excused'
  PROVE  WatchedInv' /\ LedgerInv'
<1>0. conns \in [Requests -> Connection] /\ Traffic!Watched' = Traffic!Watched
  BY DEF WatchedInv, Traffic!Watched
<1>1. conns' \in [Requests -> Connection] /\ \A q \in Requests : conns'[q] = IF q = r THEN c ELSE conns[q]
  BY <1>0
<1>2. WatchedInv'
  BY <1>0, <1>1 DEF WatchedInv
<1>3. ASSUME NEW q \in Traffic!Watched PROVE Watching(q)'
  <2>1. Watching(q) /\ q \in Requests
    BY DEF LedgerInv, WatchedInv
  <2> QED
    BY <1>1, <2>1 DEF Watching
<1>4. ASSUME NEW q \in Requests
      PROVE  /\ known[q] <= conns'[q].total
             /\ conns'[q].state \in {"none", "announced"} => conns'[q].total = 0
             /\ conns'[q].state \in {"opening", "open"} => q \in Traffic!Watched \cup excused'
             /\ conns'[q].state = "closed" /\ q \notin Traffic!Watched /\ q \notin excused'
                  => known[q] = conns'[q].total
  BY <1>1 DEF LedgerInv, Traffic!FinalTotalIsReported
<1>5. LedgerInv'
  BY <1>0, <1>3, <1>4 DEF LedgerInv, Traffic!FinalTotalIsReported
<1> QED
  BY <1>2, <1>5

LEMMA AnnounceKeeps ==
  ASSUME TrafficInv, NEW r \in Requests, Traffic!announce(r)
  PROVE  WatchedInv' /\ LedgerInv'
<1> DEFINE s == IF foreground THEN "announced" ELSE "opening"
           c == [conns[r] EXCEPT !.state = s]
<1>0. WatchedInv /\ LedgerInv /\ conns \in [Requests -> Connection] /\ conns[r].state = "none"
  BY DEF TrafficInv, WatchedInv, Traffic!announce
<1>1. c \in Connection /\ c.total = conns[r].total /\ c.state = s
  <2>1. s \in {"announced", "opening"}
    OBVIOUS
  <2> HIDE DEF s
  <2> QED
    BY <1>0, <2>1 DEF Connection
<1>2. /\ conns' = [conns EXCEPT ![r] = c] /\ UNCHANGED <<requests, known>>
      /\ excused' = IF foreground THEN excused ELSE excused \cup {r}
  BY <1>0 DEF Traffic!announce
<1> HIDE DEF c
<1>3. /\ excused \subseteq excused' /\ known[r] <= c.total /\ r \notin Traffic!Watched
      /\ c.total = 0 /\ c.state # "closed"
      /\ c.state \in {"opening", "open"} => r \in excused'
  BY <1>0, <1>1, <1>2 DEF LedgerInv, Watching
<1> QED
  BY <1>0, <1>1, <1>2, <1>3, ConnectionMoves

LEMMA ConnectionKeeps ==
  ASSUME TrafficInv, NEW r \in Requests, Traffic!Connection(r)
  PROVE  WatchedInv' /\ LedgerInv'
<1>0. /\ WatchedInv /\ LedgerInv /\ conns \in [Requests -> Connection]
      /\ UNCHANGED <<requests, known>> /\ excused \subseteq excused'
      /\ conns[r].total \in 0 .. MaxTotal /\ known[r] <= conns[r].total /\ known[r] \in 0 .. MaxTotal
      /\ conns[r].state \in {"opening", "open"} => r \in Traffic!Watched \cup excused'
      /\ r \in Traffic!Watched /\ requests[r].closed > 0 => conns[r].state = "closed"
  BY DEF TrafficInv, WatchedInv, LedgerInv, Traffic!Connection, Connection, Watching
<1>1. CASE Traffic!Stored(r)
  <2> DEFINE c == [conns[r] EXCEPT !.state = "open"]
  <2>1. conns' = [conns EXCEPT ![r] = c] /\ conns[r].state = "opening"
    BY <1>0, <1>1 DEF Traffic!Stored
  <2>2. c \in Connection /\ c.state = "open" /\ c.total = conns[r].total
    BY <1>0 DEF Connection
  <2> HIDE DEF c
  <2> QED
    BY <1>0, <2>1, <2>2, ConnectionMoves
<1>2. CASE Traffic!Transfer(r)
  <2> DEFINE c == [conns[r] EXCEPT !.total = conns[r].total + 1]
  <2>1. conns' = [conns EXCEPT ![r] = c] /\ conns[r].state = "open" /\ conns[r].total < MaxTotal
    BY <1>0, <1>2 DEF Traffic!Transfer
  <2>2. c \in Connection /\ c.state = "open" /\ c.total = conns[r].total + 1
    BY <1>0, <2>1, TrafficAssumption DEF Connection
  <2> HIDE DEF c
  <2>3. known[r] <= c.total
    BY <1>0, <2>2, TrafficAssumption
  <2> QED
    BY <1>0, <2>1, <2>2, <2>3, ConnectionMoves
<1>3. CASE Traffic!Close(r)
  <2> DEFINE c == [conns[r] EXCEPT !.state = "closed"]
  <2>1. conns' = [conns EXCEPT ![r] = c] /\ conns[r].state = "open"
    BY <1>0, <1>3 DEF Traffic!Close
  <2>2. c \in Connection /\ c.state = "closed" /\ c.total = conns[r].total
    BY <1>0 DEF Connection
  <2> HIDE DEF c
  <2> QED
    BY <1>0, <2>1, <2>2, ConnectionMoves
<1> QED
  BY <1>1, <1>2, <1>3 DEF Traffic!Connection

LEMMA WatchKeeps ==
  ASSUME TrafficInv, NEW r \in Requests, Traffic!watchRequestTraffic(r)
  PROVE  TrafficInv'
<1> DEFINE totals == [q \in {r} |-> conns[q].total]
           c == [conns[r] EXCEPT !.state = "opening"]
<1>0. /\ RunnerInv /\ WatchedInv /\ LedgerInv /\ conns \in [Requests -> Connection]
      /\ conns[r].state = "announced" /\ UNCHANGED <<known, excused>>
      /\ conns' = [conns EXCEPT ![r] = c] /\ Traffic!insert(totals)
  BY DEF TrafficInv, WatchedInv, Traffic!watchRequestTraffic
<1>1. c \in Connection /\ c.state = "opening" /\ c.total = conns[r].total
  BY <1>0 DEF Connection
<1>2. DOMAIN totals = {r} /\ totals[r] = conns[r].total
  OBVIOUS
<1> HIDE DEF c, totals
<1>3. /\ r \notin Traffic!Watched /\ conns[r].total = 0 /\ known[r] = 0
      /\ known \in [Requests -> 0 .. MaxTotal]
  BY <1>0, TrafficAssumption DEF LedgerInv, WatchedInv, Watching
<1>4. /\ RunnerInv' /\ Traffic!Watched' = Traffic!Watched \cup {r}
      /\ \A q \in Traffic!Watched : requests'[q] = requests[q]
      /\ requests'[r] = [reported |-> 0, fresh |-> TRUE, closed |-> 0]
  BY <1>0, <1>2, <1>3, InsertKeeps
<1>5. conns' \in [Requests -> Connection] /\ \A q \in Requests : conns'[q] = IF q = r THEN c ELSE conns[q]
  BY <1>0, <1>1
<1>6. requests'[r] \in Report
  BY <1>4, TrafficAssumption DEF Report
<1>7. WatchedInv'
  BY <1>0, <1>4, <1>5, <1>6 DEF WatchedInv
<1>8. ASSUME NEW q \in Traffic!Watched' PROVE Watching(q)'
  <2>1. CASE q = r
    BY <1>0, <1>1, <1>3, <1>4, <1>5, <2>1 DEF Watching
  <2>2. CASE q \in Traffic!Watched /\ q # r
    <3>1. Watching(q) /\ q \in Requests
      BY <1>0, <2>2 DEF LedgerInv, WatchedInv
    <3> QED
      BY <1>0, <1>4, <1>5, <2>2, <3>1 DEF Watching
  <2> QED
    BY <1>4, <2>1, <2>2
<1>9. ASSUME NEW q \in Requests
      PROVE  /\ known'[q] <= conns'[q].total
             /\ conns'[q].state \in {"none", "announced"} => conns'[q].total = 0
             /\ conns'[q].state \in {"opening", "open"} => q \in Traffic!Watched' \cup excused'
             /\ conns'[q].state = "closed" /\ q \notin Traffic!Watched' /\ q \notin excused'
                  => known'[q] = conns'[q].total
  BY <1>0, <1>1, <1>3, <1>4, <1>5 DEF LedgerInv, Traffic!FinalTotalIsReported
<1>10. LedgerInv'
  BY <1>8, <1>9 DEF LedgerInv, Traffic!FinalTotalIsReported
<1> QED
  BY <1>4, <1>7, <1>10 DEF TrafficInv

LEMMA ForegroundKeeps ==
  ASSUME TrafficInv, NEW c, Traffic!setHostForeground(c)
  PROVE  TrafficInv'
<1>0. RunnerInv /\ WatchedInv /\ LedgerInv /\ UNCHANGED <<conns, known, excused>>
  BY DEF TrafficInv, Traffic!setHostForeground
<1>1. CASE UNCHANGED <<requests, running, runners>>
  BY <1>0, <1>1 DEF TrafficInv, RunnerInv, WatchedInv, LedgerInv, Watching, Traffic!RunnerIsThere,
                    Traffic!FinalTotalIsReported, Traffic!Watched
<1>2. CASE ~UNCHANGED <<requests, running, runners>>
  <2> DEFINE S == {q \in Requests : conns[q].state = "open"}
             totals == [q \in S |-> Traffic!Unheard]
  <2>1. Traffic!insert(totals)
    BY <1>2 DEF Traffic!setHostForeground
  <2>2. DOMAIN totals = S /\ \A q \in S : totals[q] = MaxTotal + 1
    BY DEF Traffic!Unheard
  <2>3. \A q \in S : q \in Requests /\ conns[q].state = "open"
    OBVIOUS
  <2> HIDE DEF S, totals
  <2>4. /\ RunnerInv' /\ Traffic!Watched' = Traffic!Watched \cup S
        /\ \A q \in Traffic!Watched : requests'[q] = requests[q]
        /\ \A q \in S \ Traffic!Watched : requests'[q] = [reported |-> MaxTotal + 1, fresh |-> TRUE, closed |-> 0]
    BY <1>0, <2>1, <2>2, InsertKeeps
  <2>5. ASSUME NEW q \in S \ Traffic!Watched PROVE requests'[q] \in Report /\ Watching(q)'
    <3>1. requests'[q] = [reported |-> MaxTotal + 1, fresh |-> TRUE, closed |-> 0]
      BY <2>4
    <3>2. requests'[q] \in Report
      BY <3>1, TrafficAssumption DEF Report
    <3>3. Watching(q)'
      BY <1>0, <2>3, <3>1 DEF Watching
    <3> QED
      BY <3>2, <3>3
  <2>6. ASSUME NEW q \in Traffic!Watched PROVE requests'[q] \in Report /\ Watching(q)'
    <3>1. requests[q] \in Report /\ Watching(q) /\ requests'[q] = requests[q]
      BY <1>0, <2>4 DEF WatchedInv, LedgerInv
    <3> QED
      BY <1>0, <3>1 DEF Watching
  <2>7. WatchedInv'
    BY <1>0, <2>3, <2>4, <2>5, <2>6 DEF WatchedInv
  <2>8. LedgerInv'
    BY <1>0, <2>4, <2>5, <2>6 DEF LedgerInv, Traffic!FinalTotalIsReported
  <2> QED
    BY <2>4, <2>7, <2>8 DEF TrafficInv
<1> QED
  BY <1>1, <1>2

\* The one goroutine goes on, or returns and leaves none.
LEMMA RunnerMoves ==
  ASSUME RunnerInv, NEW i \in 1 .. Len(runners)
  PROVE  /\ running /\ Len(runners) = 1
         /\ \A place \in {"clear", "collect"} : Traffic!Goes(i, place) =>
              runners' \in Seq({"clear", "collect"}) /\ Len(runners') = 1
         /\ Traffic!Returned(i) => runners' \in Seq({"clear", "collect"}) /\ Len(runners') = 0
<1>1. running /\ Len(runners) = 1 /\ i = 1 /\ runners \in Seq({"clear", "collect"})
  BY DEF RunnerInv, Traffic!RunnerIsThere
<1>2. ASSUME NEW place \in {"clear", "collect"}, Traffic!Goes(i, place)
      PROVE  runners' \in Seq({"clear", "collect"}) /\ Len(runners') = 1
  BY <1>1, <1>2 DEF Traffic!Goes
<1>3. ASSUME Traffic!Returned(i) PROVE runners' \in Seq({"clear", "collect"}) /\ Len(runners') = 0
  <2> DEFINE f(j) == IF j < i THEN runners[j] ELSE runners[j + 1]
  <2>1. runners' = [j \in 1 .. 0 |-> f(j)]
    BY <1>1, <1>3 DEF Traffic!Returned
  <2> HIDE DEF f
  <2>2. [j \in 1 .. 0 |-> f(j)] = <<>>
    OBVIOUS
  <2> QED
    BY <2>1, <2>2
<1> QED
  BY <1>1, <1>2, <1>3

LEMMA ClearKeeps ==
  ASSUME TrafficInv, NEW i \in 1 .. Len(runners), Traffic!clearUnless(i)
  PROVE  TrafficInv'
<1>0. RunnerInv /\ WatchedInv /\ LedgerInv /\ UNCHANGED <<conns, known>>
  BY DEF TrafficInv, Traffic!clearUnless
<1>1. CASE foreground
  <2>1. Traffic!Goes(i, "collect") /\ UNCHANGED <<requests, running, excused>>
    BY <1>1 DEF Traffic!clearUnless
  <2>2. running /\ runners' \in Seq({"clear", "collect"}) /\ Len(runners') = 1
    BY <1>0, <2>1, RunnerMoves
  <2>3. RunnerInv'
    BY <1>0, <2>1, <2>2 DEF RunnerInv, Traffic!RunnerIsThere
  <2>4. WatchedInv' /\ LedgerInv'
    BY <1>0, <2>1 DEF WatchedInv, LedgerInv, Watching, Traffic!FinalTotalIsReported, Traffic!Watched
  <2> QED
    BY <2>3, <2>4 DEF TrafficInv
<1>2. CASE ~foreground
  <2>1. /\ requests' = <<>> /\ running' = FALSE /\ excused' = excused \cup Traffic!Watched
        /\ Traffic!Returned(i)
    BY <1>2 DEF Traffic!clearUnless
  <2>2. Traffic!Watched' = {}
    BY <2>1 DEF Traffic!Watched
  <2>3. RunnerInv'
    BY <1>0, <2>1, <2>2, RunnerMoves DEF RunnerInv, Traffic!RunnerIsThere
  <2>4. WatchedInv' /\ LedgerInv'
    BY <1>0, <2>1, <2>2 DEF WatchedInv, LedgerInv, Traffic!FinalTotalIsReported
  <2> QED
    BY <2>3, <2>4 DEF TrafficInv
<1> QED
  BY <1>1, <1>2

\* A report forgets a request only when it is closed, and then the host has
\* its total or all retries were refused.
LEMMA CollectKeeps ==
  ASSUME TrafficInv, NEW i \in 1 .. Len(runners), NEW queued \in BOOLEAN, Traffic!collect(i, queued)
  PROVE  TrafficInv'
<1> DEFINE changed == {r \in Traffic!Watched : conns[r].total # requests[r].reported}
           kept == {r \in Traffic!Watched : ~Traffic!Forgotten(r, queued \/ changed = {})}
<1>0. RunnerInv /\ WatchedInv /\ LedgerInv /\ UNCHANGED conns
  BY DEF TrafficInv, Traffic!collect
<1>1. /\ requests' = [r \in kept |->
            [reported |-> IF queued THEN conns[r].total ELSE requests[r].reported,
             fresh |-> FALSE, closed |-> Traffic!Counted(r)]]
      /\ known' = [r \in Requests |-> IF queued /\ r \in changed THEN conns[r].total ELSE known[r]]
      /\ excused' = IF queued THEN excused
                    ELSE excused \cup {r \in Traffic!Watched \ kept : Traffic!Counted(r) > CloseRetries}
      /\ running' = (kept # {})
      /\ IF kept # {} THEN Traffic!Goes(i, "clear") ELSE Traffic!Returned(i)
      /\ \A r \in Traffic!Watched : ~requests[r].fresh => conns[r].state \notin {"announced", "opening"}
  BY DEF Traffic!collect
<1>2. Traffic!Watched' = kept /\ kept \subseteq Traffic!Watched /\ changed \subseteq Traffic!Watched
  BY <1>1 DEF Traffic!Watched
<1>3. ASSUME NEW r \in Traffic!Watched
      PROVE  /\ r \in Requests /\ conns[r] \in Connection /\ requests[r] \in Report /\ Watching(r)
             /\ r \in changed <=> conns[r].total # requests[r].reported
             /\ r \in kept <=> ~Traffic!Forgotten(r, queued \/ changed = {})
             /\ Traffic!Counted(r) \in Nat
             /\ Traffic!Counted(r) > 0 => conns[r].state = "closed"
             /\ requests[r].reported = conns[r].total => known[r] = conns[r].total
  <2>1. /\ r \in Requests /\ conns[r] \in Connection /\ requests[r] \in Report /\ Watching(r)
        /\ r \in changed <=> conns[r].total # requests[r].reported
        /\ r \in kept <=> ~Traffic!Forgotten(r, queued \/ changed = {})
    BY <1>0 DEF WatchedInv, LedgerInv
  <2>2. Traffic!Counted(r) \in Nat
    BY <2>1 DEF Traffic!Counted, Report
  <2>3. Traffic!Counted(r) > 0 => conns[r].state = "closed"
    <3>1. CASE requests[r].closed > 0
      BY <2>1, <3>1 DEF Watching
    <3>2. CASE ~requests[r].fresh /\ conns[r].state # "open"
      BY <1>1, <2>1, <3>2 DEF Watching
    <3> QED
      BY <2>1, <3>1, <3>2 DEF Traffic!Counted, Report
  <2>4. requests[r].reported = conns[r].total => known[r] = conns[r].total
    <3>1. conns[r].total # MaxTotal + 1
      BY <2>1, TrafficAssumption DEF Connection
    <3> QED
      BY <2>1, <3>1 DEF Watching
  <2> QED
    BY <2>1, <2>2, <2>3, <2>4
<1> HIDE DEF kept, changed
<1>4. RunnerInv'
  <2>1. kept # {} => runners' \in Seq({"clear", "collect"}) /\ Len(runners') = 1
    BY <1>0, <1>1, RunnerMoves
  <2>2. kept = {} => runners' \in Seq({"clear", "collect"}) /\ Len(runners') = 0
    BY <1>0, <1>1, RunnerMoves
  <2> QED
    BY <1>1, <1>2, <2>1, <2>2 DEF RunnerInv, Traffic!RunnerIsThere
<1>5. ASSUME NEW r \in Requests
      PROVE  /\ known'[r] = IF queued /\ r \in changed THEN conns[r].total ELSE known[r]
             /\ known'[r] \in 0 .. MaxTotal /\ known'[r] <= conns[r].total
  <2>1. conns[r].total \in 0 .. MaxTotal /\ known[r] \in 0 .. MaxTotal /\ known[r] <= conns[r].total
    BY <1>0 DEF WatchedInv, LedgerInv, Connection
  <2> QED
    BY <1>1, <2>1, TrafficAssumption
<1>6. ASSUME NEW r \in kept PROVE requests'[r] \in Report /\ Watching(r)'
  <2>0. r \in Traffic!Watched
    BY <1>2
  <2>1. /\ requests'[r].reported = IF queued THEN conns[r].total ELSE requests[r].reported
        /\ requests'[r].closed = Traffic!Counted(r)
    BY <1>1
  <2>2. (IF queued THEN conns[r].total ELSE requests[r].reported) \in 0 .. MaxTotal + 1
    BY <1>3, <2>0, TrafficAssumption DEF Connection, Report
  <2>3. requests'[r] \in Report
    BY <1>1, <1>3, <2>0, <2>2 DEF Report
  <2>4. known'[r] = IF queued /\ r \in changed THEN conns[r].total ELSE known[r]
    BY <1>3, <1>5, <2>0
  <2>5. requests'[r].reported \in {known'[r], MaxTotal + 1}
    <3>1. CASE queued
      BY <1>3, <2>0, <2>1, <2>4, <3>1
    <3>2. CASE ~queued
      BY <1>3, <2>0, <2>1, <2>4, <3>2 DEF Watching
    <3> QED
      BY <3>1, <3>2
  <2>6. Watching(r)'
    <3>1. Watching(r)
      BY <1>3, <2>0
    <3> QED
      BY <1>0, <1>3, <2>0, <2>1, <2>5, <3>1 DEF Watching
  <2> QED
    BY <2>3, <2>6
<1>7. WatchedInv'
  <2>1. known' \in [Requests -> 0 .. MaxTotal]
    BY <1>1, <1>5
  <2> QED
    BY <1>0, <1>2, <1>6, <2>1 DEF WatchedInv
<1>8. ASSUME NEW r \in Traffic!Watched, r \notin kept
      PROVE  conns[r].state = "closed" /\ (r \in excused' \/ known'[r] = conns[r].total)
  <2>1. Traffic!Counted(r) > 0 /\ (queued \/ changed = {} \/ Traffic!Counted(r) > CloseRetries)
    BY <1>3, <1>8 DEF Traffic!Forgotten
  <2>2. known'[r] = IF queued /\ r \in changed THEN conns[r].total ELSE known[r]
    BY <1>3, <1>5
  <2>3. CASE queued \/ changed = {}
    BY <1>3, <2>1, <2>2, <2>3
  <2>4. CASE ~queued /\ Traffic!Counted(r) > CloseRetries
    BY <1>1, <1>3, <1>8, <2>1, <2>4
  <2> QED
    BY <2>1, <2>3, <2>4
<1>9. ASSUME NEW r \in Requests
      PROVE  /\ conns[r].state \in {"opening", "open"} => r \in kept \cup excused'
             /\ conns[r].state = "closed" /\ r \notin kept /\ r \notin excused'
                  => known'[r] = conns[r].total
  <2>1. excused \subseteq excused'
    BY <1>1
  <2>2. CASE r \in Traffic!Watched
    BY <1>8, <2>2
  <2>3. CASE r \notin Traffic!Watched
    BY <1>0, <1>2, <1>5, <2>1, <2>3 DEF LedgerInv, Traffic!FinalTotalIsReported
  <2> QED
    BY <2>2, <2>3
<1>10. LedgerInv'
  BY <1>0, <1>2, <1>5, <1>6, <1>9 DEF LedgerInv, Traffic!FinalTotalIsReported
<1> QED
  BY <1>4, <1>7, <1>10 DEF TrafficInv

LEMMA TrafficStep == TrafficInv /\ [Traffic!Next]_(Traffic!vars) => TrafficInv'
<1> SUFFICES ASSUME TrafficInv, [Traffic!Next]_(Traffic!vars) PROVE TrafficInv'
  OBVIOUS
<1>1. ASSUME UNCHANGED <<requests, running, runners>> PROVE RunnerInv'
  BY <1>1 DEF TrafficInv, RunnerInv, Traffic!RunnerIsThere, Traffic!Watched
<1>2. ASSUME NEW r \in Requests, Traffic!announce(r) \/ Traffic!Connection(r) PROVE TrafficInv'
  <2>1. UNCHANGED <<requests, running, runners>>
    BY <1>2 DEF Traffic!announce, Traffic!Connection
  <2> QED
    BY <1>1, <1>2, <2>1, AnnounceKeeps, ConnectionKeeps DEF TrafficInv
<1>3. ASSUME UNCHANGED <<conns, requests, running, runners, known, excused>> PROVE TrafficInv'
  BY <1>1, <1>3 DEF TrafficInv, WatchedInv, LedgerInv, Watching, Traffic!FinalTotalIsReported, Traffic!Watched
<1>4. ASSUME NEW f \in BOOLEAN, Traffic!HostShows(f) PROVE TrafficInv'
  BY <1>3, <1>4 DEF Traffic!HostShows
<1>5. CASE UNCHANGED Traffic!vars
  BY <1>3, <1>5 DEF Traffic!vars
<1> QED
  BY <1>2, <1>4, <1>5, WatchKeeps, ForegroundKeeps, ClearKeeps, CollectKeeps DEF Traffic!Next

\* For any connections, totals and retries: the watch keeps its one goroutine
\* while it has requests, and forgets none before the host has its last total,
\* whatever the host's visibility does meanwhile (requestTrafficWatch).
THEOREM TotalsArrive == Traffic!Spec => []TrafficIsReported
<1>1. TrafficInv => TrafficIsReported
  BY DEF TrafficInv, RunnerInv, LedgerInv, TrafficIsReported, Traffic!TrafficIsReported
<1> QED
  BY <1>1, TrafficInit, TrafficStep, PTL DEF Traffic!Spec

-----------------------------------------------------------------------------
(* The lifecycle and the poll.                                             *)

Pausing == IF ~routePaused THEN "no" ELSE IF routeFullStop THEN "full" ELSE "tun"
Listening == IF ~routeIsRunning THEN "none"
             ELSE IF routePaused /\ routeFullStop THEN "none" ELSE IF routePaused THEN "noTun" ELSE "all"

\* The flags are those of the last request; a start that has set its flag has
\* still to open its listeners.  A core that does not run listens to nothing.
LifeInv ==
    /\ routeIsRunning \in BOOLEAN /\ routePaused \in BOOLEAN /\ routeFullStop \in BOOLEAN
    /\ routeConfig \in BOOLEAN
    /\ routeConfigMu \in {"free", "start"}
    /\ routeAsked = [on |-> routeIsRunning, pause |-> Pausing]
    /\ ~routeIsRunning => ~routePaused /\ routeListeners = "none"
    /\ routeConfigMu = "start" => routeIsRunning
    /\ routeConfig /\ routeConfigMu = "free" => routeListeners = Listening

\* A poll that is parked read the channel of a start that has not been since,
\* unless that start is about to be signalled.
PollInv ==
    /\ routeStarts \in Nat
    /\ routePoll \in [pc : {"none", "tick", "look", "parked"}, started : 0 .. routeStarts]
    /\ routeWatched => routePoll.pc # "none"
    /\ routePoll.pc = "parked" /\ routeIsRunning /\ routeConfigMu = "free" => routePoll.started < routeStarts

lifeVars == <<routeIsRunning, routePaused, routeFullStop, routeConfig, routeListeners, routeConfigMu, routeAsked>>
pollVars == <<routePoll, routeWatched, routeStarts, routeIsRunning, routeConfigMu>>

LEMMA LifeInit == Route!Init => LifeInv /\ PollInv
<1> SUFFICES ASSUME Route!Init PROVE LifeInv /\ PollInv
  OBVIOUS
<1>1. LifeInv
  BY DEF Route!Init, LifeInv, Pausing, Listening
<1>2. PollInv
  BY DEF Route!Init, PollInv
<1> QED
  BY <1>1, <1>2

\* The actions that take configMu.
LifeAction ==
    \/ Route!handleStartListener \/ Route!handleStopListener \/ Route!Started
    \/ \E p, f \in BOOLEAN : Route!handleSetOnDemandPaused(p, f)
    \/ Route!applyConfig \/ Route!handleShutdown \/ Route!Crash

\* The actions that move the poll.
PollAction == Route!Poll \/ Route!CallStep \/ Route!stopRouteWatch

\* All others leave the lifecycle and the poll alone.
LEMMA LifeFrame == [Route!Next]_(Route!vars) => LifeAction \/ UNCHANGED lifeVars
BY DEF Route!Next, Route!vars, Route!core, Route!life, Route!wire, Route!hostVars, Route!Environment,
       Route!Move, Route!changeRoute, Route!stopListenersAfterTunClose, Route!attach, Route!unsubscribe,
       Route!SubscribeFailed, Route!HostLeaves, Route!CheckStamp, Route!TunClosed, Route!stopRouteWatch,
       Route!CallStep, Route!WatchRefresh, Route!handleWatchRoute, Route!Poll, Route!PollTick,
       Route!PollLook, Route!PollWake, Route!SubscribeReplied, Route!Retry, Route!RouteChanged,
       Route!Connect, Route!CheckResolve, Route!Answered, LifeAction, lifeVars

LEMMA PollFrame == [Route!Next]_(Route!vars) => LifeAction \/ PollAction \/ UNCHANGED pollVars
BY DEF Route!Next, Route!vars, Route!core, Route!life, Route!wire, Route!hostVars, Route!Environment,
       Route!Move, Route!changeRoute, Route!stopListenersAfterTunClose, Route!attach, Route!unsubscribe,
       Route!SubscribeFailed, Route!HostLeaves, Route!CheckStamp, Route!TunClosed,
       Route!SubscribeReplied, Route!Retry, Route!RouteChanged,
       Route!Connect, Route!CheckResolve, Route!Answered, LifeAction, PollAction, pollVars

LEMMA LifeStep == LifeInv /\ [Route!Next]_(Route!vars) => LifeInv'
<1> SUFFICES ASSUME LifeInv, [Route!Next]_(Route!vars) PROVE LifeInv'
  OBVIOUS
<1>1. CASE Route!handleStartListener
  <2>1. /\ routeConfigMu' = "start" /\ routeIsRunning' = TRUE
        /\ UNCHANGED <<routePaused, routeFullStop, routeConfig, routeListeners>>
        /\ routeAsked' = [on |-> TRUE, pause |-> IF routeAsked.on THEN routeAsked.pause ELSE "no"]
    BY <1>1 DEF Route!handleStartListener
  <2>2. routeAsked.on = routeIsRunning /\ routeAsked.pause = Pausing
    BY DEF LifeInv
  <2>3. (IF routeAsked.on THEN routeAsked.pause ELSE "no") = Pausing
    BY <2>2 DEF LifeInv, Pausing
  <2> QED
    BY <2>1, <2>3 DEF LifeInv, Pausing
<1>2. CASE Route!handleStopListener
  BY <1>2 DEF Route!handleStopListener, LifeInv, Pausing, Listening
<1>3. CASE Route!Started
  BY <1>3 DEF Route!Started, Route!updateListeners, LifeInv, Pausing, Listening
<1>4. ASSUME NEW p \in BOOLEAN, NEW f \in BOOLEAN, Route!handleSetOnDemandPaused(p, f) PROVE LifeInv'
  <2>1. /\ UNCHANGED <<routeIsRunning, routeConfig, routeConfigMu>> /\ routeIsRunning /\ routeConfigMu = "free"
        /\ routePaused' = p /\ routeFullStop' = f
        /\ routeListeners' = Route!updateListeners(routeIsRunning, p, f)
        /\ routeAsked' = [routeAsked EXCEPT !.pause = IF ~p THEN "no" ELSE IF f THEN "full" ELSE "tun"]
    BY <1>4 DEF Route!handleSetOnDemandPaused
  <2>2. routeAsked' = [on |-> routeIsRunning, pause |-> IF ~p THEN "no" ELSE IF f THEN "full" ELSE "tun"]
    BY <2>1 DEF LifeInv
  <2>3. routeConfig => routeListeners' = IF p /\ f THEN "none" ELSE IF p THEN "noTun" ELSE "all"
    BY <2>1 DEF Route!updateListeners
  <2> QED
    BY <2>1, <2>2, <2>3 DEF LifeInv, Pausing, Listening
<1>5. CASE Route!applyConfig
  BY <1>5 DEF Route!applyConfig, LifeInv, Pausing, Listening
<1>6. CASE Route!handleShutdown \/ Route!Crash
  BY <1>6 DEF Route!handleShutdown, Route!Crash, LifeInv, Pausing, Listening
<1>7. CASE UNCHANGED lifeVars
  BY <1>7 DEF lifeVars, LifeInv, Pausing, Listening
<1> QED
  BY <1>1, <1>2, <1>3, <1>4, <1>5, <1>6, <1>7, LifeFrame DEF LifeAction

LEMMA PollStep == LifeInv /\ PollInv /\ [Route!Next]_(Route!vars) => PollInv'
<1> SUFFICES ASSUME LifeInv, PollInv, [Route!Next]_(Route!vars) PROVE PollInv'
  OBVIOUS
<1>0. /\ routeStarts \in Nat
      /\ routePoll \in [pc : {"none", "tick", "look", "parked"}, started : 0 .. routeStarts]
  BY DEF PollInv
<1>1. ASSUME UNCHANGED <<routeStarts, routePoll, routeWatched>>,
             routeIsRunning' /\ routeConfigMu' = "free" => routeIsRunning /\ routeConfigMu = "free"
      PROVE  PollInv'
  BY <1>1 DEF PollInv
<1>2. ASSUME NEW pc \in {"none", "tick", "look", "parked"},
             routePoll' = [routePoll EXCEPT !.pc = pc],
             UNCHANGED <<routeStarts, routeIsRunning, routeConfigMu>>,
             routeWatched' => pc # "none", pc = "parked" => ~routeIsRunning
      PROVE  PollInv'
  <2>1. routePoll' \in [pc : {"none", "tick", "look", "parked"}, started : 0 .. routeStarts] /\ routePoll'.pc = pc
    BY <1>0, <1>2
  <2> QED
    BY <1>0, <1>2, <2>1 DEF PollInv
<1>3. CASE Route!Started
  <2>1. /\ routeStarts' = routeStarts + 1 /\ UNCHANGED <<routePoll, routeWatched>>
    BY <1>3 DEF Route!Started
  <2>2. /\ routeStarts' \in Nat /\ routePoll.started < routeStarts'
        /\ routePoll' \in [pc : {"none", "tick", "look", "parked"}, started : 0 .. routeStarts']
    BY <1>0, <2>1
  <2> QED
    BY <2>1, <2>2 DEF PollInv
<1>4. CASE Route!Crash
  <2>1. routePoll' = [pc |-> "none", started |-> 0] /\ routeStarts' = 0 /\ routeWatched' = FALSE
    BY <1>4 DEF Route!Crash
  <2> QED
    BY <2>1 DEF PollInv
<1>5. CASE \/ Route!handleStartListener \/ Route!handleStopListener \/ Route!applyConfig \/ Route!handleShutdown
           \/ \E p, f \in BOOLEAN : Route!handleSetOnDemandPaused(p, f)
  BY <1>1, <1>5 DEF Route!handleStartListener, Route!handleStopListener, Route!applyConfig, Route!core,
                    Route!handleShutdown, Route!handleSetOnDemandPaused
<1>6. CASE Route!PollTick
  <2>1. /\ routePoll' = [pc |-> "look", started |-> routeStarts]
        /\ UNCHANGED <<routeStarts, routeIsRunning, routeConfigMu, routeWatched>>
    BY <1>6 DEF Route!PollTick, Route!life
  <2>2. routePoll' \in [pc : {"none", "tick", "look", "parked"}, started : 0 .. routeStarts] /\ routePoll'.pc = "look"
    BY <1>0, <2>1
  <2> QED
    BY <1>0, <2>1, <2>2 DEF PollInv
<1>7. CASE Route!PollLook
  BY <1>2, <1>7 DEF Route!PollLook, Route!life
<1>8. CASE Route!PollWake
  BY <1>2, <1>8 DEF Route!PollWake, Route!life
<1>9. ASSUME NEW c \in routeCalls, Route!WatchRefresh(c) PROVE PollInv'
  BY <1>1, <1>9 DEF Route!WatchRefresh, Route!life
<1>10. ASSUME NEW c \in routeCalls, Route!handleWatchRoute(c) PROVE PollInv'
  <2>1. UNCHANGED <<routeStarts, routeIsRunning, routeConfigMu>>
    BY <1>10 DEF Route!handleWatchRoute, Route!life
  <2>2. CASE UNCHANGED <<routePoll, routeWatched>>
    BY <1>1, <2>1, <2>2
  <2>3. CASE ~c.watch /\ routeWatched' = c.watch /\ routePoll' = [routePoll EXCEPT !.pc = "none"]
    BY <1>2, <2>1, <2>3
  <2>4. CASE routePoll' = [routePoll EXCEPT !.pc = "tick"]
    BY <1>2, <2>1, <2>4
  <2>5. CASE UNCHANGED routePoll /\ routePoll.pc # "none"
    BY <1>0, <2>1, <2>5 DEF PollInv
  <2> QED
    BY <1>10, <2>2, <2>3, <2>4, <2>5 DEF Route!handleWatchRoute
<1>11. CASE Route!stopRouteWatch
  BY <1>2, <1>11 DEF Route!stopRouteWatch, Route!life
<1>12. CASE UNCHANGED pollVars
  BY <1>1, <1>12 DEF pollVars
<1> QED
  BY <1>3, <1>4, <1>5, <1>6, <1>7, <1>8, <1>9, <1>10, <1>11, <1>12, PollFrame
     DEF LifeAction, PollAction, Route!Poll, Route!CallStep

\* Whatever order starts, stops, pauses and new configurations take the lock in:
\* the listeners are those last asked for, and the poll never sleeps through a
\* start (handleStartListener, handleSetOnDemandPaused, pollRoute).
THEOREM LifecycleHolds == Route!Spec => []LifecycleIsFollowed
<1>1. LifeInv /\ PollInv => LifecycleIsFollowed
  <2> SUFFICES ASSUME LifeInv, PollInv PROVE LifecycleIsFollowed
    OBVIOUS
  <2>1. Route!ListenersAsAsked
    <3>1. routeAsked.on = routeIsRunning /\ routeAsked.pause = Pausing
      BY DEF LifeInv
    <3> QED
      BY <3>1 DEF LifeInv, Route!ListenersAsAsked, Pausing, Listening
  <2>2. Route!PollIsAwake
    BY DEF LifeInv, PollInv, Route!PollIsAwake
  <2> QED
    BY <2>1, <2>2 DEF LifecycleIsFollowed, Route!LifecycleIsFollowed
<1> QED
  BY <1>1, LifeInit, LifeStep, PollStep, PTL DEF Route!Spec

-----------------------------------------------------------------------------
(* The watch of the route.                                                 *)

Call == [seq : Nat, watch : BOOLEAN, pc : {"refresh", "apply"}]

\* Calls have numbers of their own, and none that still runs has been applied.
CallInv ==
    /\ routeCallSeq \in Nat /\ routeWatchSeq \in Nat /\ routeWatched \in BOOLEAN
    /\ routeCalls \subseteq Call
    /\ routeWatchSeq <= routeCallSeq
    /\ \A c \in routeCalls : c.seq <= routeCallSeq /\ c.seq # routeWatchSeq
    /\ \A c, d \in routeCalls : c.seq = d.seq => c = d

\* The newest call has been applied, or still runs, and it asks for w.
Newest(w) ==
    \/ routeWatchSeq = routeCallSeq /\ routeWatched = w
    \/ \E c \in routeCalls : c.seq = routeCallSeq /\ c.watch = w

\* A further subscription follows the one under way.
Resubscribes == routeSyncing # "no" /\ routeResub

\* What a connected host wants is what the newest call asks for, or what the
\* next one will; it has the counters, or they are on their way.
WishInv ==
    /\ routeWanted \in BOOLEAN /\ routeResub \in BOOLEAN /\ routeRetry \in BOOLEAN
    /\ routeSyncing \in {"no", "current", "stale"}
    /\ routeLink \in {"up", "left", "stopping", "down"}
    /\ routeRetry => routeSyncing = "no"
    /\ routeLink \in {"stopping", "down"} => routeWatchSeq = routeCallSeq /\ ~routeWatched
    /\ routeLink = "up" /\ ~routeWanted => Newest(FALSE)
    /\ routeLink = "up" /\ routeWanted =>
         /\ Newest(TRUE) \/ Resubscribes
         /\ routeHost.synced \/ routeSyncing = "current" \/ Resubscribes \/ routeRetry

callVars == <<routeCallSeq, routeCalls, routeWatchSeq, routeWatched>>
wishVars == <<routeLink, routeWanted, routeSyncing, routeResub, routeRetry, routeHost>>

LEMMA CallInit == Route!Init => CallInv /\ WishInv
<1> SUFFICES ASSUME Route!Init PROVE CallInv /\ WishInv
  OBVIOUS
<1>1. CallInv
  <2>1. routeCalls = {} /\ routeCallSeq = 0 /\ routeWatchSeq = 0 /\ routeWatched = FALSE
    BY DEF Route!Init
  <2>2. routeWatched \in BOOLEAN
    BY <2>1
  <2>3. routeCallSeq \in Nat /\ routeWatchSeq \in Nat /\ routeWatchSeq <= routeCallSeq
    BY <2>1
  <2> QED
    BY <2>1, <2>2, <2>3 DEF CallInv
<1>2. WishInv
  BY DEF Route!Init, WishInv, Newest
<1> QED
  BY <1>1, <1>2

LEMMA CallsStay ==
  ASSUME CallInv, UNCHANGED callVars
  PROVE  CallInv' /\ \A w : Newest(w)' <=> Newest(w)
<1>1. CallInv'
  BY DEF CallInv, callVars
<1>2. ASSUME NEW w PROVE Newest(w)' <=> Newest(w)
  BY DEF Newest, callVars
<1> QED
  BY <1>1, <1>2

\* A call that is dispatched is the newest.
LEMMA Dispatched ==
  ASSUME CallInv, NEW w \in BOOLEAN, Route!dispatchMethodCall(w), UNCHANGED <<routeWatchSeq, routeWatched>>
  PROVE  CallInv' /\ Newest(w)'
<1> DEFINE n == [seq |-> routeCallSeq + 1, watch |-> w, pc |-> "refresh"]
<1>1. routeCallSeq' = routeCallSeq + 1 /\ routeCalls' = routeCalls \cup {n}
  BY DEF Route!dispatchMethodCall
<1>2. n \in Call /\ n.seq = routeCallSeq + 1 /\ n.watch = w
  BY DEF CallInv, Call
<1> HIDE DEF n
<1>3. \A c \in routeCalls : c.seq \in Nat /\ c.seq <= routeCallSeq
  BY DEF CallInv, Call
<1>4. \A c \in routeCalls' : c.seq <= routeCallSeq' /\ c.seq # routeWatchSeq
  BY <1>1, <1>2, <1>3 DEF CallInv
<1>5. \A c, d \in routeCalls' : c.seq = d.seq => c = d
  BY <1>1, <1>2, <1>3 DEF CallInv
<1>6. CallInv'
  BY <1>1, <1>2, <1>4, <1>5 DEF CallInv
<1>7. Newest(w)'
  BY <1>1, <1>2 DEF Newest
<1> QED
  BY <1>6, <1>7

LEMMA RefreshMoves ==
  ASSUME CallInv, NEW c \in routeCalls, Route!WatchRefresh(c)
  PROVE  CallInv' /\ (\A w : Newest(w) => Newest(w)') /\ UNCHANGED <<routeCallSeq, routeWatchSeq, routeWatched>>
<1> DEFINE n == [c EXCEPT !.pc = "apply"]
<1>1. /\ routeCalls' = (routeCalls \ {c}) \cup {n}
      /\ UNCHANGED <<routeCallSeq, routeWatchSeq, routeWatched>>
  BY DEF Route!WatchRefresh
<1>2. n \in Call /\ n.seq = c.seq /\ n.watch = c.watch
  BY DEF CallInv, Call
<1> HIDE DEF n
<1>3. \A d \in routeCalls' : d.seq <= routeCallSeq /\ d.seq # routeWatchSeq
  BY <1>1, <1>2 DEF CallInv
<1>4. \A d, e \in routeCalls' : d.seq = e.seq => d = e
  BY <1>1, <1>2 DEF CallInv
<1>5. CallInv'
  BY <1>1, <1>2, <1>3, <1>4 DEF CallInv
<1>6. ASSUME NEW w, Newest(w) PROVE Newest(w)'
  BY <1>1, <1>2, <1>6 DEF Newest
<1> QED
  BY <1>1, <1>5, <1>6

\* Calls may be applied in any order: the newest stays the one that counts.
LEMMA ApplyMoves ==
  ASSUME CallInv, NEW c \in routeCalls, Route!handleWatchRoute(c)
  PROVE  /\ CallInv' /\ (\A w : Newest(w) => Newest(w)') /\ UNCHANGED routeCallSeq
         /\ routeWatchSeq = routeCallSeq => UNCHANGED <<routeWatchSeq, routeWatched>>
<1>1. /\ routeCalls' = routeCalls \ {c} /\ UNCHANGED routeCallSeq
      /\ IF c.seq < routeWatchSeq THEN UNCHANGED <<routeWatchSeq, routeWatched>>
                                  ELSE routeWatchSeq' = c.seq /\ routeWatched' = c.watch
  BY DEF Route!handleWatchRoute
<1>2. c \in Call /\ c.seq \in Nat /\ c.watch \in BOOLEAN /\ c.seq <= routeCallSeq /\ c.seq # routeWatchSeq
  BY DEF CallInv, Call
<1>3. CASE c.seq < routeWatchSeq
  <2>1. UNCHANGED <<routeWatchSeq, routeWatched>>
    BY <1>1, <1>3
  <2>2. CallInv'
    BY <1>1, <2>1 DEF CallInv
  <2>3. ASSUME NEW w, Newest(w) PROVE Newest(w)'
    <3>1. c.seq # routeCallSeq
      BY <1>2, <1>3 DEF CallInv
    <3> QED
      BY <1>1, <2>1, <2>3, <3>1 DEF Newest
  <2> QED
    BY <1>1, <2>1, <2>2, <2>3
<1>4. CASE ~(c.seq < routeWatchSeq)
  <2>1. routeWatchSeq' = c.seq /\ routeWatched' = c.watch /\ routeWatchSeq < c.seq
    BY <1>1, <1>2, <1>4 DEF CallInv
  <2>2. \A d \in routeCalls' : d.seq # c.seq
    BY <1>1 DEF CallInv
  <2>3. CallInv'
    BY <1>1, <1>2, <2>1, <2>2 DEF CallInv
  <2>4. routeWatchSeq # routeCallSeq
    BY <1>2, <2>1 DEF CallInv
  <2>5. ASSUME NEW w, Newest(w) PROVE Newest(w)'
    <3>1. PICK d \in routeCalls : d.seq = routeCallSeq /\ d.watch = w
      BY <2>4, <2>5 DEF Newest
    <3>2. CASE d = c
      BY <1>1, <2>1, <3>1, <3>2 DEF Newest
    <3>3. CASE d # c
      BY <1>1, <3>1, <3>3 DEF Newest
    <3> QED
      BY <3>2, <3>3
  <2> QED
    BY <1>1, <2>3, <2>4, <2>5
<1> QED
  BY <1>3, <1>4

LEMMA StopMoves ==
  ASSUME CallInv, Route!stopRouteWatch
  PROVE  CallInv' /\ routeWatchSeq' = routeCallSeq' /\ ~routeWatched'
<1>1. routeCallSeq \in Nat /\ routeWatchSeq \in Nat /\ routeWatchSeq <= routeCallSeq
  BY DEF CallInv
<1>2. Route!Max({routeWatchSeq, routeCallSeq + 1}) = routeCallSeq + 1
  BY <1>1 DEF Route!Max
<1>3. /\ routeCallSeq' = routeCallSeq + 1 /\ routeWatchSeq' = routeCallSeq + 1 /\ routeWatched' = FALSE
      /\ UNCHANGED routeCalls
  BY <1>2 DEF Route!stopRouteWatch
<1>4. \A c \in routeCalls : c.seq \in Nat /\ c.seq <= routeCallSeq
  BY DEF CallInv, Call
<1>5. \A c \in routeCalls' : c.seq <= routeCallSeq' /\ c.seq # routeWatchSeq'
  BY <1>1, <1>3, <1>4
<1>6. routeCallSeq' \in Nat /\ routeWatchSeq' \in Nat /\ routeWatchSeq' <= routeCallSeq'
  BY <1>1, <1>3
<1>7. routeWatched' \in BOOLEAN
  BY <1>3
<1>8. CallInv'
  BY <1>3, <1>5, <1>6, <1>7 DEF CallInv
<1> QED
  BY <1>3, <1>8

LEMMA Subscribed ==
  ASSUME CallInv, Route!Subscribe, UNCHANGED <<routeWatchSeq, routeWatched>>
  PROVE  CallInv' /\ Newest(TRUE)' /\ routeSyncing' = "current" /\ routeResub' = FALSE /\ routeRetry' = FALSE
BY Dispatched DEF Route!Subscribe

\* A connected host that wants the route asks for it, now or next.
LEMMA Asks ==
  ASSUME CallInv, WishInv, routeLink' = "up", routeWanted' = TRUE, UNCHANGED <<routeWatchSeq, routeWatched>>,
         \/ routeSyncing # "no" /\ routeResub' = TRUE /\ routeRetry' = FALSE
            /\ UNCHANGED <<routeSyncing, routeCallSeq, routeCalls>>
         \/ Route!Subscribe
  PROVE  CallInv' /\ WishInv'
<1>1. CASE /\ routeSyncing # "no" /\ routeResub' = TRUE /\ routeRetry' = FALSE
           /\ UNCHANGED <<routeSyncing, routeCallSeq, routeCalls>>
  <2>1. CallInv'
    BY <1>1, CallsStay DEF callVars
  <2>2. WishInv'
    BY <1>1 DEF WishInv, Resubscribes
  <2> QED
    BY <2>1, <2>2
<1>2. CASE Route!Subscribe
  <2>1. CallInv' /\ Newest(TRUE)' /\ routeSyncing' = "current" /\ routeResub' = FALSE /\ routeRetry' = FALSE
    BY <1>2, Subscribed
  <2> QED
    BY <2>1 DEF WishInv
<1> QED
  BY <1>1, <1>2

\* The steps that leave the calls and the host's wish alone.
LEMMA WishStays ==
  ASSUME CallInv, WishInv, UNCHANGED callVars,
         UNCHANGED <<routeLink, routeWanted, routeSyncing, routeResub, routeRetry>>,
         routeHost.synced => routeHost'.synced
  PROVE  CallInv' /\ WishInv'
<1>1. CallInv' /\ \A w : Newest(w)' <=> Newest(w)
  BY CallsStay
<1>2. UNCHANGED <<routeWatchSeq, routeCallSeq, routeWatched>>
  BY DEF callVars
<1>3. WishInv'
  BY <1>1, <1>2 DEF WishInv, Resubscribes
<1> QED
  BY <1>1, <1>3

\* What follows the await of a subscription.
LEMMA AgainKeeps ==
  ASSUME CallInv, WishInv, NEW delay \in BOOLEAN, routeSyncing # "no", Route!Again(delay),
         UNCHANGED <<routeLink, routeWanted, routeWatchSeq, routeWatched>>,
         routeHost.synced => routeHost'.synced,
         routeSyncing = "current" => delay \/ routeHost'.synced
  PROVE  CallInv' /\ WishInv'
<1>1. CASE routeResub /\ routeWanted /\ routeLink = "up"
  BY <1>1, Asks DEF Route!Again
<1>2. CASE ~(routeResub /\ routeWanted /\ routeLink = "up")
  <2>1. /\ routeSyncing' = "no" /\ routeRetry' = (delay /\ ~routeResub)
        /\ UNCHANGED <<routeResub, routeCallSeq, routeCalls>>
    BY <1>2 DEF Route!Again
  <2>2. CallInv' /\ \A w : Newest(w)' <=> Newest(w)
    BY <2>1, CallsStay DEF callVars
  <2>3. routeRetry' \in BOOLEAN
    BY <2>1
  <2>4. routeLink = "up" /\ routeWanted => Newest(TRUE)' /\ (routeHost'.synced \/ routeRetry')
    BY <1>2, <2>1, <2>2 DEF WishInv, Resubscribes
  <2>5. routeLink = "up" /\ ~routeWanted => Newest(FALSE)'
    BY <2>2 DEF WishInv
  <2> QED
    BY <2>1, <2>2, <2>3, <2>4, <2>5 DEF WishInv
<1> QED
  BY <1>1, <1>2

\* The subscription that a host behind the core asks for, or a retry.
LEMMA SubscribeKeeps ==
  ASSUME CallInv, WishInv, Route!subscribe,
         UNCHANGED <<routeLink, routeWanted, routeWatchSeq, routeWatched, routeHost>>
  PROVE  CallInv' /\ WishInv'
<1>1. CASE routeWanted /\ routeLink = "up"
  <2>1. routeWanted' = TRUE /\ routeLink' = "up"
    BY <1>1 DEF WishInv
  <2> QED
    BY <1>1, <2>1, Asks DEF Route!subscribe
<1>2. CASE ~routeWanted \/ routeLink # "up"
  <2>1. routeRetry' = FALSE /\ UNCHANGED <<routeSyncing, routeResub, routeCallSeq, routeCalls>>
    BY <1>2 DEF Route!subscribe
  <2>2. CallInv' /\ \A w : Newest(w)' <=> Newest(w)
    BY <2>1, CallsStay DEF callVars
  <2> QED
    BY <1>2, <2>1, <2>2 DEF WishInv
<1> QED
  BY <1>1, <1>2

LEMMA AttachKeeps ==
  ASSUME CallInv, WishInv, Route!attach
  PROVE  CallInv' /\ WishInv'
<1>1. routeWanted' = TRUE /\ UNCHANGED <<routeLink, routeWatchSeq, routeWatched>>
  BY DEF Route!attach
<1>2. CASE routeLink = "up"
  BY <1>1, <1>2, Asks DEF Route!attach
<1>3. CASE routeLink # "up"
  <2>1. routeRetry' = FALSE /\ UNCHANGED <<routeSyncing, routeResub, routeCallSeq, routeCalls>>
    BY <1>3 DEF Route!attach
  <2>2. CallInv'
    BY <1>1, <2>1, CallsStay DEF callVars
  <2> QED
    BY <1>1, <1>3, <2>1, <2>2 DEF WishInv
<1> QED
  BY <1>2, <1>3

LEMMA ConnectKeeps ==
  ASSUME CallInv, WishInv, Route!Connect
  PROVE  CallInv' /\ WishInv'
<1>1. routeLink = "down" /\ routeLink' = "up" /\ UNCHANGED <<routeWanted, routeWatchSeq, routeWatched>>
  BY DEF Route!Connect
<1>2. CASE routeWanted
  <2>1. routeWanted' = TRUE
    BY <1>1, <1>2 DEF WishInv
  <2> QED
    BY <1>1, <1>2, <2>1, Asks DEF Route!Connect
<1>3. CASE ~routeWanted
  <2>1. routeRetry' = FALSE /\ UNCHANGED <<routeSyncing, routeResub, routeCallSeq, routeCalls>>
    BY <1>3 DEF Route!Connect
  <2>2. CallInv' /\ \A w : Newest(w)' <=> Newest(w)
    BY <1>1, <2>1, CallsStay DEF callVars
  <2>3. routeWatched = FALSE /\ routeWatchSeq = routeCallSeq
    BY <1>1 DEF WishInv, CallInv
  <2>4. Newest(FALSE)
    BY <2>3 DEF Newest
  <2> QED
    BY <1>1, <1>3, <2>1, <2>2, <2>4 DEF WishInv
<1> QED
  BY <1>2, <1>3

LEMMA UnsubscribeKeeps ==
  ASSUME CallInv, WishInv, Route!unsubscribe
  PROVE  CallInv' /\ WishInv'
<1>1. /\ routeWanted' = FALSE /\ routeRetry' = FALSE /\ routeSyncing' = Route!Stale
      /\ UNCHANGED <<routeLink, routeResub, routeWatchSeq, routeWatched>>
  BY DEF Route!unsubscribe
<1>2. routeSyncing' \in {"no", "current", "stale"}
  BY <1>1 DEF Route!Stale
<1>3. CASE routeLink = "up"
  <2>1. Route!dispatchMethodCall(FALSE)
    BY <1>3 DEF Route!unsubscribe
  <2>2. CallInv' /\ Newest(FALSE)'
    BY <1>1, <2>1, Dispatched
  <2> QED
    BY <1>1, <1>2, <1>3, <2>2 DEF WishInv
<1>4. CASE routeLink # "up"
  <2>1. UNCHANGED <<routeCallSeq, routeCalls>>
    BY <1>4 DEF Route!unsubscribe
  <2>2. CallInv'
    BY <1>1, <2>1, CallsStay DEF callVars
  <2> QED
    BY <1>1, <1>2, <1>4, <2>1, <2>2 DEF WishInv
<1> QED
  BY <1>3, <1>4

LEMMA LinkKeeps ==
  ASSUME CallInv, WishInv, Route!HostLeaves \/ Route!Crash \/ Route!stopRouteWatch \/ Route!handleShutdown
  PROVE  CallInv' /\ WishInv'
<1>1. CASE Route!HostLeaves
  <2>1. /\ routeLink' = "left" /\ routeRetry' = FALSE /\ routeSyncing' = Route!Stale
        /\ UNCHANGED <<routeWanted, routeResub>> /\ UNCHANGED callVars
    BY <1>1 DEF Route!HostLeaves, Route!core, callVars
  <2>2. routeSyncing' \in {"no", "current", "stale"}
    BY <2>1 DEF Route!Stale
  <2> QED
    BY <2>1, <2>2, CallsStay DEF WishInv
<1>2. CASE Route!Crash
  <2>1. /\ routeLink' = "down" /\ routeRetry' = FALSE /\ routeSyncing' = Route!Stale
        /\ UNCHANGED <<routeWanted, routeResub>>
        /\ routeCallSeq' = 0 /\ routeWatchSeq' = 0 /\ routeCalls' = {} /\ routeWatched' = FALSE
    BY <1>2 DEF Route!Crash
  <2>2. routeSyncing' \in {"no", "current", "stale"} /\ routeWatched' \in BOOLEAN
    BY <2>1 DEF Route!Stale
  <2>3. routeCallSeq' \in Nat /\ routeWatchSeq' \in Nat /\ routeWatchSeq' <= routeCallSeq'
    BY <2>1
  <2>4. CallInv'
    BY <2>1, <2>2, <2>3 DEF CallInv
  <2> QED
    BY <2>1, <2>2, <2>4 DEF WishInv
<1>3. CASE Route!stopRouteWatch
  <2>1. routeLink' = "stopping" /\ UNCHANGED <<routeWanted, routeSyncing, routeResub, routeRetry>>
    BY <1>3 DEF Route!stopRouteWatch
  <2> QED
    BY <1>3, <2>1, StopMoves DEF WishInv
<1>4. CASE Route!handleShutdown
  <2>1. /\ routeLink = "stopping" /\ routeLink' = "down" /\ UNCHANGED callVars
        /\ UNCHANGED <<routeWanted, routeSyncing, routeResub, routeRetry>>
    BY <1>4 DEF Route!handleShutdown, Route!core, callVars
  <2>2. UNCHANGED <<routeWatchSeq, routeCallSeq, routeWatched>>
    BY <2>1 DEF callVars
  <2> QED
    BY <2>1, <2>2, CallsStay DEF WishInv
<1> QED
  BY <1>1, <1>2, <1>3, <1>4

LEMMA CallStepKeeps ==
  ASSUME CallInv, WishInv, Route!CallStep
  PROVE  CallInv' /\ WishInv'
<1>1. PICK c \in routeCalls : Route!WatchRefresh(c) \/ Route!handleWatchRoute(c)
  BY DEF Route!CallStep
<1>2. UNCHANGED wishVars
  BY <1>1 DEF Route!WatchRefresh, Route!handleWatchRoute, Route!hostVars, wishVars
<1>3. /\ CallInv' /\ \A w : Newest(w) => Newest(w)'
      /\ routeWatchSeq = routeCallSeq => UNCHANGED <<routeWatchSeq, routeCallSeq, routeWatched>>
  <2>1. CASE Route!WatchRefresh(c)
    BY <2>1, RefreshMoves
  <2>2. CASE Route!handleWatchRoute(c)
    BY <2>2, ApplyMoves
  <2> QED
    BY <1>1, <2>1, <2>2
<1>4. UNCHANGED <<routeLink, routeWanted, routeSyncing, routeResub, routeRetry, routeHost>>
  BY <1>2 DEF wishVars
<1>5. WishInv'
  <2>1. (Newest(TRUE) => Newest(TRUE)') /\ (Newest(FALSE) => Newest(FALSE)')
    BY <1>3
  <2>2. routeLink \in {"stopping", "down"} => routeWatchSeq' = routeCallSeq' /\ ~routeWatched'
    BY <1>3 DEF WishInv
  <2>3. Resubscribes' <=> Resubscribes
    BY <1>4 DEF Resubscribes
  <2> QED
    BY <1>4, <2>1, <2>2, <2>3 DEF WishInv
<1> QED
  BY <1>3, <1>5

LEMMA RepliedKeeps ==
  ASSUME CallInv, WishInv, NEW s \in routeReplies, Route!SubscribeReplied(s)
  PROVE  CallInv' /\ WishInv'
<1>1. /\ UNCHANGED <<routeLink, routeWanted, routeWatchSeq, routeWatched>>
      /\ IF routeSyncing = "current" THEN Route!applySnapshot(s) ELSE UNCHANGED routeHost
  BY DEF Route!SubscribeReplied
<1>2. routeSyncing = "current" => routeHost'.synced = TRUE
  BY <1>1 DEF Route!applySnapshot
<1>3. (routeHost.synced => routeHost'.synced) /\ (routeSyncing = "current" => FALSE \/ routeHost'.synced)
  BY <1>1, <1>2
<1>4. CASE routeSyncing = "no"
  <2>1. UNCHANGED <<routeSyncing, routeResub, routeRetry, routeCallSeq, routeCalls>>
    BY <1>4 DEF Route!SubscribeReplied
  <2> QED
    BY <1>1, <1>3, <2>1, WishStays DEF callVars
<1>5. CASE routeSyncing # "no"
  <2>1. Route!Again(FALSE)
    BY <1>5 DEF Route!SubscribeReplied
  <2> QED
    BY <1>1, <1>3, <1>5, <2>1, AgainKeeps
<1> QED
  BY <1>4, <1>5

LEMMA WishFrame ==
  ASSUME CallInv, WishInv, [Route!Next]_(Route!vars)
  PROVE  \/ Route!attach \/ Route!unsubscribe \/ Route!SubscribeFailed \/ Route!HostLeaves \/ Route!Crash
         \/ Route!stopRouteWatch \/ Route!handleShutdown \/ Route!CallStep
         \/ \E s \in routeReplies : Route!SubscribeReplied(s)
         \/ Route!Retry \/ Route!RouteChanged \/ Route!Connect \/ Route!Answered
         \/ UNCHANGED callVars /\ UNCHANGED wishVars
BY DEF Route!Next, Route!vars, Route!core, Route!life, Route!wire, Route!hostVars, Route!Environment,
       Route!Move, Route!changeRoute, Route!handleStartListener, Route!handleStopListener,
       Route!stopListenersAfterTunClose, Route!handleSetOnDemandPaused, Route!applyConfig,
       Route!CheckStamp, Route!TunClosed, Route!Started, Route!Poll, Route!PollTick,
       Route!PollLook, Route!PollWake, Route!CheckResolve, callVars, wishVars

LEMMA WishStep == CallInv /\ WishInv /\ [Route!Next]_(Route!vars) => CallInv' /\ WishInv'
<1> SUFFICES ASSUME CallInv, WishInv, [Route!Next]_(Route!vars) PROVE CallInv' /\ WishInv'
  OBVIOUS
<1>1. CASE Route!SubscribeFailed
  <2>1. /\ routeSyncing # "no" /\ Route!Again(routeSyncing = "current")
        /\ UNCHANGED <<routeLink, routeWanted, routeWatchSeq, routeWatched, routeHost>>
    BY <1>1 DEF Route!SubscribeFailed
  <2> DEFINE delay == routeSyncing = "current"
  <2>2. delay \in BOOLEAN /\ Route!Again(delay) /\ (routeSyncing = "current" => delay)
    BY <2>1
  <2> HIDE DEF delay
  <2> QED
    BY <2>1, <2>2, AgainKeeps
<1>2. CASE Route!Retry
  BY <1>2, SubscribeKeeps DEF Route!Retry
<1>3. CASE Route!RouteChanged
  <2>1. /\ UNCHANGED callVars /\ UNCHANGED <<routeLink, routeWanted, routeSyncing, routeResub, routeRetry>>
        /\ routeHost'.synced = TRUE
    BY <1>3 DEF Route!RouteChanged, Route!applySnapshot, Route!core, callVars
  <2> QED
    BY <2>1, WishStays
<1>4. CASE Route!Answered
  <2>1. UNCHANGED <<routeLink, routeWanted, routeWatchSeq, routeWatched, routeHost>>
    BY <1>4 DEF Route!Answered
  <2>2. CASE Route!subscribe
    BY <2>1, <2>2, SubscribeKeeps
  <2>3. CASE UNCHANGED <<routeSyncing, routeResub, routeRetry, routeCallSeq, routeCalls>>
    BY <2>1, <2>3, WishStays DEF callVars
  <2> QED
    BY <1>4, <2>2, <2>3 DEF Route!Answered
<1>5. CASE UNCHANGED callVars /\ UNCHANGED wishVars
  BY <1>5, WishStays DEF wishVars
<1> QED
  BY <1>1, <1>2, <1>3, <1>4, <1>5, WishFrame, AttachKeeps, ConnectKeeps, UnsubscribeKeeps, LinkKeeps,
     CallStepKeeps, RepliedKeeps

\* In whatever order the calls of a host take the lock, for any number of them:
\* once they have run, the core publishes the route exactly if the host wants it
\* (handleWatchRoute, stopRouteWatch, RouteTracker._subscribe).
THEOREM WatchIsWanted == Route!Spec => []WatchAgrees
<1>1. CallInv /\ WishInv => WatchAgrees
  <2> SUFFICES ASSUME CallInv, WishInv, Route!Quiet
               PROVE  /\ routeLink = "up" => routeWatched = routeWanted
                      /\ routeLink = "up" /\ routeWanted => routeHost.synced
                      /\ routeLink = "down" => ~routeWatched
    BY DEF WatchAgrees, Route!WatchAgrees
  <2>1. routeCalls = {} /\ routeSyncing = "no" /\ ~routeRetry
    BY DEF Route!Quiet
  <2>2. \A w : Newest(w) => routeWatched = w
    BY <2>1 DEF Newest
  <2>3. routeLink = "up" /\ ~routeWanted => routeWatched = FALSE
    BY <2>2 DEF WishInv
  <2>4. routeLink = "up" /\ routeWanted => routeWatched = TRUE /\ routeHost.synced
    BY <2>1, <2>2 DEF WishInv, Resubscribes
  <2>5. routeWanted \in BOOLEAN
    BY DEF WishInv
  <2> QED
    BY <2>3, <2>4, <2>5 DEF WishInv
<1> QED
  BY <1>1, CallInit, WishStep, PTL DEF Route!Spec

-----------------------------------------------------------------------------
(* The counters of the route, and the answers judged by them.              *)

Counters == [epoch : Nat, version : Nat]
HostRoute == [epoch : Nat, version : Nat, hostEpoch : Nat, synced : BOOLEAN, live : BOOLEAN]
Answer == [pc : {"stamped", "done"}, stamp : Counters, hostEpoch : Nat, exit : Nat]

\* The core has had these counters since it was started.
Within(s) == s.epoch <= routeEpoch /\ s.version <= routeVersion

\* Nothing on its way to the host, and nothing it keeps, is ahead of the core.
CountInv ==
    /\ routeNow \in Nat /\ routePicks \in Nat /\ routePicks <= routeNow
    /\ routeEpoch \in Nat /\ routeVersion \in Nat
    /\ routeHost \in HostRoute
    /\ routeQueue \in Seq(Counters)
    /\ \A i \in 1 .. Len(routeQueue) : Within(routeQueue[i])
    /\ routeReplies \subseteq Counters
    /\ \A s \in routeReplies : Within(s)
    /\ routeHost.synced => Within(routeHost)

\* While the version is that of the stamp, the core has read no picks newer
\* than those the answer was resolved by.
Tells(c) ==
    /\ Within(c.stamp)
    /\ c.exit <= routeNow
    /\ c.stamp.version = routeVersion => routePicks <= c.exit

\* An answer of a core that died has an older epoch of the host's than any
\* the host is synchronised in.
AnswerInv ==
    /\ routeCheck # Route!None =>
         /\ routeCheck \in Answer
         /\ Within(routeCheck.stamp)
         /\ routeCheck.hostEpoch <= routeHost.hostEpoch
         /\ routeCheck.pc = "done" => Tells(routeCheck)
    /\ routeAnswer # Route!None =>
         /\ routeAnswer \in Answer
         /\ routeAnswer.hostEpoch <= routeHost.hostEpoch
         /\ routeHost.synced /\ routeAnswer.hostEpoch = routeHost.hostEpoch => Tells(routeAnswer)

LEMMA CountInit == Route!Init => CountInv /\ AnswerInv
<1> SUFFICES ASSUME Route!Init PROVE CountInv /\ AnswerInv
  OBVIOUS
<1>1. routeHost \in HostRoute /\ routeHost.synced = FALSE
  BY DEF Route!Init, HostRoute
<1>2. routeQueue \in Seq(Counters) /\ Len(routeQueue) = 0 /\ routeReplies = {}
  BY DEF Route!Init
<1>3. routeNow = 1 /\ routePicks = 0 /\ routeEpoch = 0 /\ routeVersion = 0
  BY DEF Route!Init
<1>4. CountInv
  BY <1>1, <1>2, <1>3 DEF CountInv
<1>5. AnswerInv
  BY DEF Route!Init, AnswerInv
<1> QED
  BY <1>4, <1>5

\* A refresh that finds other picks makes a new version.
LEMMA RefreshCounts ==
  ASSUME CountInv, NEW change \in {Route!routeUnchanged, Route!routeMoved, Route!routeReset},
         Route!refreshRouteLocked(change)
  PROVE  /\ routePicks' = routeNow
         /\ routeEpoch' \in Nat /\ routeVersion' \in Nat
         /\ routeEpoch <= routeEpoch' /\ routeVersion <= routeVersion'
         /\ routeVersion' = routeVersion => routePicks' = routePicks
         /\ \/ UNCHANGED routeQueue
            \/ routeQueue' = Append(routeQueue, Route!Stamp(routeEpoch', routeVersion'))
<1> DEFINE moved == IF routeNow # routePicks THEN Route!Max({change, Route!routeMoved}) ELSE change
<1>1. change \in {0, 1, 2}
  BY DEF Route!routeUnchanged, Route!routeMoved, Route!routeReset
<1>2. Route!Max({change, 1}) # 0
  BY <1>1 DEF Route!Max
<1>3. routeNow # routePicks => moved # 0
  BY <1>2 DEF Route!routeMoved
<1>4. /\ routePicks' = routeNow
      /\ routeEpoch' = IF moved = 2 THEN routeEpoch + 1 ELSE routeEpoch
      /\ routeVersion' = IF moved = 0 THEN routeVersion ELSE routeVersion + 1
      /\ \/ UNCHANGED routeQueue
         \/ routeQueue' = Route!enqueueState(routeQueue, Route!Stamp(routeEpoch', routeVersion'))
  BY DEF Route!refreshRouteLocked, Route!routeUnchanged, Route!routeMoved, Route!routeReset
<1> HIDE DEF moved
<1>5. routeEpoch \in Nat /\ routeVersion \in Nat
  BY DEF CountInv
<1>6. /\ routeEpoch' \in Nat /\ routeVersion' \in Nat
      /\ routeEpoch <= routeEpoch' /\ routeVersion <= routeVersion'
      /\ routeVersion' = routeVersion => moved = 0
  BY <1>4, <1>5
<1>7. \/ UNCHANGED routeQueue
      \/ routeQueue' = Append(routeQueue, Route!Stamp(routeEpoch', routeVersion'))
  BY <1>4 DEF Route!enqueueState
<1> QED
  BY <1>3, <1>4, <1>6, <1>7

\* What was within the counters, and told its picks, goes on to.
LEMMA CountersGrow ==
  ASSUME CountInv, routePicks' <= routeNow', routePicks' \in Nat, routeNow' \in Nat, routeNow <= routeNow',
         routeEpoch' \in Nat, routeVersion' \in Nat,
         routeEpoch <= routeEpoch', routeVersion <= routeVersion',
         routeVersion' = routeVersion => routePicks' = routePicks
  PROVE  /\ \A s \in Counters \cup HostRoute : Within(s) => Within(s)'
         /\ \A c \in Answer : Tells(c) => Tells(c)'
<1>0. /\ routeEpoch \in Nat /\ routeVersion \in Nat /\ routeNow \in Nat /\ routePicks \in Nat
  BY DEF CountInv
<1>1. ASSUME NEW s \in Counters \cup HostRoute, Within(s) PROVE Within(s)'
  <2>1. s.epoch \in Nat /\ s.version \in Nat
    BY DEF Counters, HostRoute
  <2> QED
    BY <1>0, <1>1, <2>1 DEF Within
<1>2. ASSUME NEW c \in Answer, Tells(c) PROVE Tells(c)'
  <2>1. c.stamp \in Counters /\ c.exit \in Nat /\ c.stamp.version \in Nat
    BY DEF Answer, Counters
  <2>2. Within(c.stamp)'
    BY <1>1, <1>2, <2>1 DEF Tells
  <2>3. c.exit <= routeNow'
    BY <1>0, <1>2, <2>1 DEF Tells
  <2>4. c.stamp.version = routeVersion' => routePicks' <= c.exit
    BY <1>0, <1>2, <2>1 DEF Tells, Within
  <2> QED
    BY <2>2, <2>3, <2>4 DEF Tells
<1> QED
  BY <1>1, <1>2

LEMMA RefreshKeeps ==
  ASSUME CountInv, AnswerInv, NEW change \in {Route!routeUnchanged, Route!routeMoved, Route!routeReset},
         Route!refreshRouteLocked(change),
         UNCHANGED <<routeNow, routeReplies, routeHost, routeCheck, routeAnswer>>
  PROVE  CountInv' /\ AnswerInv'
<1>0. PICK s, q : s = Route!Stamp(routeEpoch', routeVersion') /\ q = routeQueue'
  OBVIOUS
<1>1. /\ routePicks' = routeNow
      /\ routeEpoch' \in Nat /\ routeVersion' \in Nat
      /\ routeEpoch <= routeEpoch' /\ routeVersion <= routeVersion'
      /\ routeVersion' = routeVersion => routePicks' = routePicks
      /\ q = routeQueue \/ q = Append(routeQueue, s)
  BY <1>0, RefreshCounts
<1>2. routePicks' <= routeNow' /\ routePicks' \in Nat /\ routeNow' \in Nat /\ routeNow <= routeNow'
  BY <1>1 DEF CountInv
<1>3. /\ \A t \in Counters \cup HostRoute : Within(t) => Within(t)'
      /\ \A c \in Answer : Tells(c) => Tells(c)'
  BY <1>1, <1>2, CountersGrow
<1>4. s \in Counters /\ Within(s)'
  BY <1>0, <1>1 DEF Route!Stamp, Counters, Within
<1>5. q \in Seq(Counters) /\ \A i \in 1 .. Len(q) : Within(q[i])'
  <2>0. routeQueue \in Seq(Counters) /\ \A i \in 1 .. Len(routeQueue) : routeQueue[i] \in Counters /\ Within(routeQueue[i])
    BY DEF CountInv
  <2>1. CASE q = routeQueue
    BY <1>3, <2>0, <2>1
  <2>2. CASE q = Append(routeQueue, s)
    <3>1. /\ q \in Seq(Counters) /\ Len(q) = Len(routeQueue) + 1 /\ Len(routeQueue) \in Nat
          /\ \A i \in 1 .. Len(routeQueue) : q[i] = routeQueue[i]
          /\ q[Len(routeQueue) + 1] = s
      BY <1>4, <2>0, <2>2
    <3>2. ASSUME NEW i \in 1 .. Len(q) PROVE Within(q[i])'
      <4>1. CASE i \in 1 .. Len(routeQueue)
        BY <1>3, <2>0, <3>1, <4>1
      <4>2. CASE i = Len(routeQueue) + 1
        BY <1>4, <3>1, <4>2
      <4> QED
        BY <3>1, <4>1, <4>2
    <3> QED
      BY <3>1, <3>2
  <2> QED
    BY <1>1, <2>1, <2>2
<1>6. \A t \in routeReplies' : Within(t)'
  BY <1>3 DEF CountInv
<1>7. routeHost'.synced => Within(routeHost)'
  BY <1>3 DEF CountInv
<1>8. CountInv'
  <2>1. (routeQueue \in Seq(Counters))' /\ (\A i \in 1 .. Len(routeQueue) : Within(routeQueue[i]))'
    BY <1>0, <1>5 DEF Within
  <2> QED
    BY <1>1, <1>2, <1>6, <1>7, <2>1 DEF CountInv
<1>9. routeCheck # Route!None => Within(routeCheck.stamp)' /\ (routeCheck.pc = "done" => Tells(routeCheck)')
  <2> SUFFICES ASSUME routeCheck # Route!None PROVE Within(routeCheck.stamp)' /\ (routeCheck.pc = "done" => Tells(routeCheck)')
    OBVIOUS
  <2>1. routeCheck \in Answer /\ routeCheck.stamp \in Counters /\ Within(routeCheck.stamp)
        /\ (routeCheck.pc = "done" => Tells(routeCheck))
    BY DEF AnswerInv, Answer
  <2>2. PICK c : c = routeCheck
    OBVIOUS
  <2>3. Within(c.stamp)' /\ (c.pc = "done" => Tells(c)')
    BY <1>3, <2>1, <2>2
  <2> QED
    BY <2>2, <2>3 DEF Within, Tells
<1>10. routeAnswer # Route!None /\ routeHost.synced /\ routeAnswer.hostEpoch = routeHost.hostEpoch
         => Tells(routeAnswer)'
  <2> SUFFICES ASSUME routeAnswer # Route!None, routeHost.synced, routeAnswer.hostEpoch = routeHost.hostEpoch
               PROVE  Tells(routeAnswer)'
    OBVIOUS
  <2>1. routeAnswer \in Answer /\ Tells(routeAnswer)
    BY DEF AnswerInv
  <2>2. PICK c : c = routeAnswer
    OBVIOUS
  <2>3. Tells(c)'
    BY <1>3, <2>1, <2>2
  <2> QED
    BY <2>2, <2>3 DEF Within, Tells
<1>11. AnswerInv'
  BY <1>9, <1>10 DEF AnswerInv
<1> QED
  BY <1>8, <1>11

counterVars == <<routeNow, routeEpoch, routeVersion, routePicks>>

\* With the counters as they are, less is on its way and the host keeps what
\* the core has had: it stays so.
LEMMA CountStays ==
  ASSUME CountInv, UNCHANGED counterVars, routeHost' \in HostRoute,
         routeHost'.synced => routeHost'.epoch <= routeEpoch /\ routeHost'.version <= routeVersion,
         routeReplies' \subseteq Counters,
         \A s \in routeReplies' : s \in routeReplies \/ s = Route!Stamp(routeEpoch, routeVersion),
         \/ UNCHANGED routeQueue
         \/ routeQueue' = <<>>
         \/ routeQueue # <<>> /\ routeQueue' = Tail(routeQueue)
  PROVE  CountInv'
<1>1. UNCHANGED <<routeNow, routeEpoch, routeVersion, routePicks>>
  BY DEF counterVars
<1>2. ASSUME NEW s \in routeReplies' PROVE s.epoch <= routeEpoch /\ s.version <= routeVersion
  <2>1. CASE s \in routeReplies
    BY <2>1 DEF CountInv, Within
  <2>2. CASE s = Route!Stamp(routeEpoch, routeVersion)
    BY <2>2 DEF CountInv, Route!Stamp
  <2> QED
    BY <2>1, <2>2
<1>3. PICK q : q = routeQueue'
  OBVIOUS
<1>4. q \in Seq(Counters) /\ \A i \in 1 .. Len(q) : q[i].epoch <= routeEpoch /\ q[i].version <= routeVersion
  <2>0. routeQueue \in Seq(Counters) /\ \A i \in 1 .. Len(routeQueue) : Within(routeQueue[i])
    BY DEF CountInv
  <2>1. CASE UNCHANGED routeQueue
    BY <1>3, <2>0, <2>1 DEF Within
  <2>2. CASE q = <<>>
    <3>1. q \in Seq(Counters) /\ Len(q) = 0
      BY <2>2
    <3> QED
      BY <3>1
  <2>3. CASE routeQueue # <<>> /\ q = Tail(routeQueue)
    <3>1. q \in Seq(Counters) /\ Len(q) = Len(routeQueue) - 1 /\ Len(routeQueue) \in Nat
      BY <2>0, <2>3
    <3>2. \A i \in 1 .. Len(q) : q[i] = routeQueue[i + 1] /\ i + 1 \in 1 .. Len(routeQueue)
      BY <2>0, <2>3, <3>1
    <3> QED
      BY <2>0, <3>1, <3>2 DEF Within
  <2> QED
    BY <1>3, <2>1, <2>2, <2>3
<1>5. /\ (routeQueue \in Seq(Counters))'
      /\ (\A i \in 1 .. Len(routeQueue) : Within(routeQueue[i]))'
      /\ (\A s \in routeReplies : Within(s))'
      /\ (routeHost.synced => Within(routeHost))'
  BY <1>1, <1>2, <1>3, <1>4 DEF Within
<1> QED
  BY <1>1, <1>5 DEF CountInv

LEMMA AnswerStays ==
  ASSUME CountInv, AnswerInv, UNCHANGED counterVars, UNCHANGED routeAnswer,
         UNCHANGED routeCheck \/ routeCheck' = Route!None,
         routeHost' \in HostRoute, routeHost.hostEpoch <= routeHost'.hostEpoch,
         routeHost'.synced => routeHost.synced \/ routeHost.hostEpoch < routeHost'.hostEpoch
  PROVE  AnswerInv'
<1>1. UNCHANGED <<routeNow, routeEpoch, routeVersion, routePicks>>
  BY DEF counterVars
<1>2. routeHost.hostEpoch \in Nat /\ routeHost'.hostEpoch \in Nat
  BY DEF CountInv, HostRoute
<1>3. ASSUME routeCheck # Route!None, UNCHANGED routeCheck
      PROVE  /\ routeCheck.hostEpoch <= routeHost'.hostEpoch
             /\ Within(routeCheck.stamp)'
             /\ (routeCheck.pc = "done" => Tells(routeCheck))'
  <2>1. routeCheck.hostEpoch \in Nat
    BY <1>3 DEF AnswerInv, Answer
  <2> QED
    BY <1>1, <1>2, <1>3, <2>1 DEF AnswerInv, Tells, Within
<1>4. ASSUME routeAnswer # Route!None
      PROVE  /\ routeAnswer.hostEpoch <= routeHost'.hostEpoch
             /\ routeHost'.synced /\ routeAnswer.hostEpoch = routeHost'.hostEpoch => Tells(routeAnswer)'
  <2>1. routeAnswer.hostEpoch \in Nat /\ routeAnswer.hostEpoch <= routeHost.hostEpoch
    BY <1>4 DEF AnswerInv, Answer
  <2>2. ASSUME routeHost'.synced, routeAnswer.hostEpoch = routeHost'.hostEpoch PROVE Tells(routeAnswer)'
    <3>1. Tells(routeAnswer)
      BY <1>2, <1>4, <2>1, <2>2 DEF AnswerInv
    <3> QED
      BY <1>1, <3>1 DEF Tells, Within
  <2> QED
    BY <1>2, <2>1, <2>2
<1> QED
  BY <1>3, <1>4 DEF AnswerInv

LEMMA SnapshotKeeps ==
  ASSUME CountInv, AnswerInv, NEW s \in Counters, Within(s), Route!applySnapshot(s),
         UNCHANGED counterVars, UNCHANGED <<routeCheck, routeAnswer>>, routeReplies' \subseteq routeReplies,
         UNCHANGED routeQueue \/ (routeQueue # <<>> /\ routeQueue' = Tail(routeQueue))
  PROVE  CountInv' /\ AnswerInv'
<1> DEFINE n == IF routeHost.synced THEN routeHost.hostEpoch ELSE routeHost.hostEpoch + 1
<1>1. routeHost.hostEpoch \in Nat /\ s.epoch \in Nat /\ s.version \in Nat /\ routeReplies \subseteq Counters
  BY DEF CountInv, HostRoute, Counters
<1>2. routeHost' = [epoch |-> s.epoch, version |-> s.version, synced |-> TRUE, live |-> TRUE, hostEpoch |-> n]
  BY DEF Route!applySnapshot
<1>3. n \in Nat /\ routeHost.hostEpoch <= n /\ (routeHost.synced \/ routeHost.hostEpoch < n)
  BY <1>1
<1> HIDE DEF n
<1>4. /\ routeHost' \in HostRoute /\ routeHost'.hostEpoch = n
      /\ routeHost'.epoch = s.epoch /\ routeHost'.version = s.version
  BY <1>1, <1>2, <1>3 DEF HostRoute
<1>5. CountInv'
  <2>1. routeReplies' \subseteq Counters /\ \A t \in routeReplies' : t \in routeReplies
    BY <1>1
  <2>2. routeHost'.epoch <= routeEpoch /\ routeHost'.version <= routeVersion
    BY <1>4 DEF Within
  <2> QED
    BY <1>4, <2>1, <2>2, CountStays
<1>6. AnswerInv'
  BY <1>3, <1>4, AnswerStays
<1> QED
  BY <1>5, <1>6

\* The steps that leave the counters, the host and the answers alone.
judgeVars == <<routeNow, routeEpoch, routeVersion, routePicks, routeQueue, routeReplies, routeHost,
    routeCheck, routeAnswer>>

LEMMA JudgeStays ==
  ASSUME CountInv, AnswerInv, UNCHANGED judgeVars
  PROVE  CountInv' /\ AnswerInv'
BY DEF CountInv, AnswerInv, Within, Tells, judgeVars

LEMMA HostKeeps ==
  ASSUME CountInv, AnswerInv,
         \/ Route!unsubscribe \/ Route!SubscribeFailed \/ Route!HostLeaves \/ Route!RouteChanged
         \/ \E s \in routeReplies : Route!SubscribeReplied(s)
         \/ \E c \in routeCalls : Route!handleWatchRoute(c)
  PROVE  CountInv' /\ AnswerInv'
<1>0. /\ routeHost \in HostRoute /\ routeHost.hostEpoch \in Nat /\ routeReplies \subseteq Counters
      /\ routeHost.synced => routeHost.epoch <= routeEpoch /\ routeHost.version <= routeVersion
  BY DEF CountInv, HostRoute, Within
<1>1. CASE Route!unsubscribe
  <2>1. /\ UNCHANGED counterVars /\ UNCHANGED <<routeQueue, routeReplies, routeCheck, routeAnswer>>
        /\ routeHost' = [routeHost EXCEPT !.live = FALSE]
    BY <1>1 DEF Route!unsubscribe, Route!wire, counterVars
  <2>2. routeHost' \in HostRoute
        /\ UNCHANGED <<routeHost.epoch, routeHost.version, routeHost.synced, routeHost.hostEpoch>>
    BY <1>0, <2>1 DEF HostRoute
  <2> QED
    BY <1>0, <2>1, <2>2, CountStays, AnswerStays
<1>2. CASE Route!SubscribeFailed
  <2>1. /\ UNCHANGED counterVars /\ UNCHANGED <<routeQueue, routeHost, routeCheck, routeAnswer>>
        /\ routeReplies' = {}
    BY <1>2 DEF Route!SubscribeFailed, counterVars
  <2> QED
    BY <1>0, <2>1, CountStays, AnswerStays
<1>3. CASE Route!HostLeaves
  <2>1. /\ UNCHANGED counterVars /\ UNCHANGED routeAnswer
        /\ routeReplies' = {} /\ routeQueue' = <<>> /\ routeCheck' = Route!None
        /\ Route!dropSync
    BY <1>3 DEF Route!HostLeaves, Route!core, counterVars
  <2> DEFINE h == [routeHost EXCEPT !.synced = FALSE]
  <2>2. routeHost' = [h EXCEPT !.live = FALSE]
    BY <1>0, <2>1 DEF Route!dropSync, HostRoute
  <2>3. h \in HostRoute /\ h.synced = FALSE /\ h.hostEpoch = routeHost.hostEpoch
    BY <1>0 DEF HostRoute
  <2> HIDE DEF h
  <2>4. routeHost' \in HostRoute /\ ~routeHost'.synced /\ routeHost'.hostEpoch = routeHost.hostEpoch
    BY <2>2, <2>3 DEF HostRoute
  <2> QED
    BY <1>0, <2>1, <2>4, CountStays, AnswerStays
<1>4. CASE Route!RouteChanged
  <2>1. /\ UNCHANGED counterVars /\ UNCHANGED <<routeCheck, routeAnswer, routeReplies>>
        /\ routeQueue # <<>> /\ routeQueue' = Tail(routeQueue) /\ Route!applySnapshot(Head(routeQueue))
    BY <1>4 DEF Route!RouteChanged, Route!core, counterVars
  <2>2. PICK s : s = Head(routeQueue)
    OBVIOUS
  <2>3. s \in Counters /\ Within(s)
    <3>1. routeQueue \in Seq(Counters) /\ Len(routeQueue) \in Nat /\ Len(routeQueue) > 0 /\ s = routeQueue[1]
      BY <2>1, <2>2 DEF CountInv
    <3> QED
      BY <3>1 DEF CountInv
  <2>4. Route!applySnapshot(s) /\ routeReplies' \subseteq routeReplies
    BY <2>1, <2>2
  <2> QED
    BY <2>1, <2>3, <2>4, SnapshotKeeps
<1>5. ASSUME NEW s \in routeReplies, Route!SubscribeReplied(s) PROVE CountInv' /\ AnswerInv'
  <2>1. /\ UNCHANGED counterVars /\ UNCHANGED <<routeQueue, routeCheck, routeAnswer>>
        /\ routeReplies' \subseteq routeReplies
        /\ Route!applySnapshot(s) \/ UNCHANGED routeHost
    BY <1>5 DEF Route!SubscribeReplied, counterVars
  <2>2. CASE Route!applySnapshot(s)
    <3>1. s \in Counters /\ Within(s)
      BY DEF CountInv
    <3> QED
      BY <2>1, <2>2, <3>1, SnapshotKeeps
  <2>3. CASE UNCHANGED routeHost
    BY <1>0, <2>1, <2>3, CountStays, AnswerStays
  <2> QED
    BY <2>1, <2>2, <2>3
<1>6. ASSUME NEW c \in routeCalls, Route!handleWatchRoute(c) PROVE CountInv' /\ AnswerInv'
  <2>1. /\ UNCHANGED counterVars /\ UNCHANGED <<routeQueue, routeHost, routeCheck, routeAnswer>>
        /\ \A s \in routeReplies' : s \in routeReplies \/ s = Route!Stamp(routeEpoch, routeVersion)
    BY <1>6 DEF Route!handleWatchRoute, Route!hostVars, counterVars
  <2>2. Route!Stamp(routeEpoch, routeVersion) \in Counters
    BY DEF CountInv, Route!Stamp, Counters
  <2>3. routeReplies' \subseteq Counters
    BY <1>0, <2>1, <2>2
  <2> QED
    BY <1>0, <2>1, <2>3, CountStays, AnswerStays
<1> QED
  BY <1>1, <1>2, <1>3, <1>4, <1>5, <1>6

\* A core that dies takes its counters along: the host has none until it has
\* those of the next, in an epoch of its own that no answer has yet.
LEMMA CrashKeeps ==
  ASSUME CountInv, AnswerInv, Route!Crash
  PROVE  CountInv' /\ AnswerInv'
<1>1. /\ routeEpoch' = 0 /\ routeVersion' = 0 /\ routePicks' = 0 /\ UNCHANGED <<routeNow, routeAnswer>>
      /\ routeReplies' = {} /\ routeQueue' = <<>> /\ routeCheck' = Route!None /\ Route!dropSync
  BY DEF Route!Crash
<1>2. routeHost' \in HostRoute /\ ~routeHost'.synced /\ routeHost'.hostEpoch = routeHost.hostEpoch
  <2> DEFINE h == [routeHost EXCEPT !.synced = FALSE]
  <2>1. routeHost' = [h EXCEPT !.live = FALSE]
    BY <1>1 DEF Route!dropSync, HostRoute, CountInv
  <2>2. h \in HostRoute /\ h.synced = FALSE /\ h.hostEpoch = routeHost.hostEpoch
    BY DEF HostRoute, CountInv
  <2> HIDE DEF h
  <2> QED
    BY <2>1, <2>2 DEF HostRoute
<1>3. CountInv'
  <2>1. (routeQueue \in Seq(Counters))' /\ Len(routeQueue') = 0 /\ routeNow' \in Nat
    BY <1>1 DEF CountInv
  <2> QED
    BY <1>1, <1>2, <2>1 DEF CountInv
<1>4. AnswerInv'
  BY <1>1, <1>2 DEF AnswerInv
<1> QED
  BY <1>3, <1>4

LEMMA MoveKeeps ==
  ASSUME CountInv, AnswerInv, Route!Move
  PROVE  CountInv' /\ AnswerInv'
<1>1. /\ routeNow' = routeNow + 1
      /\ UNCHANGED <<routeEpoch, routeVersion, routePicks, routeQueue, routeReplies, routeHost, routeCheck, routeAnswer>>
  BY DEF Route!Move, Route!core, Route!wire, Route!hostVars
<1>2. CountInv'
  BY <1>1 DEF CountInv, Within
<1>3. ASSUME NEW c \in Answer, Tells(c) PROVE Tells(c)'
  BY <1>1, <1>3 DEF Tells, Within, Answer, CountInv
<1>4. routeCheck # Route!None /\ routeCheck.pc = "done" => Tells(routeCheck)'
  <2>1. PICK c : c = routeCheck
    OBVIOUS
  <2>2. c # Route!None /\ c.pc = "done" => Tells(c)'
    BY <1>3, <2>1 DEF AnswerInv
  <2> QED
    BY <1>1, <2>1, <2>2 DEF Tells, Within
<1>5. routeAnswer # Route!None /\ routeHost.synced /\ routeAnswer.hostEpoch = routeHost.hostEpoch
        => Tells(routeAnswer)'
  <2>1. PICK c : c = routeAnswer
    OBVIOUS
  <2>2. c # Route!None /\ routeHost.synced /\ c.hostEpoch = routeHost.hostEpoch => Tells(c)'
    BY <1>3, <2>1 DEF AnswerInv
  <2> QED
    BY <1>1, <2>1, <2>2 DEF Tells, Within
<1>6. AnswerInv'
  <2>1. routeCheck # Route!None => Within(routeCheck.stamp)'
    BY <1>1 DEF AnswerInv, Within
  <2> QED
    BY <1>1, <1>4, <1>5, <2>1 DEF AnswerInv
<1> QED
  BY <1>2, <1>6

\* The stamp is read before the routes are resolved: picks that move between
\* the two are newer than the stamp says, never older.
LEMMA CheckKeeps ==
  ASSUME CountInv, AnswerInv, Route!CheckStamp \/ Route!CheckResolve \/ Route!Answered
  PROVE  CountInv' /\ AnswerInv'
<1>0. /\ UNCHANGED counterVars /\ UNCHANGED <<routeQueue, routeReplies, routeHost>>
  BY DEF Route!CheckStamp, Route!CheckResolve, Route!Answered, Route!core, Route!wire, Route!hostVars, counterVars
<1>1. UNCHANGED <<routeNow, routeEpoch, routeVersion, routePicks>>
  BY <1>0 DEF counterVars
<1>2. CountInv'
  BY <1>0, <1>1 DEF CountInv, Within
<1>3. /\ routeNow \in Nat /\ routePicks \in Nat /\ routePicks <= routeNow
      /\ routeEpoch \in Nat /\ routeVersion \in Nat /\ routeHost.hostEpoch \in Nat
  BY DEF CountInv, HostRoute
<1>4. CASE Route!CheckStamp
  <2>1. /\ routeCheck' = [pc |-> "stamped", stamp |-> Route!Stamp(routeEpoch, routeVersion),
                          hostEpoch |-> routeHost.hostEpoch, exit |-> 0]
        /\ UNCHANGED routeAnswer
    BY <1>4 DEF Route!CheckStamp, Route!hostVars
  <2>2. Route!Stamp(routeEpoch, routeVersion) \in Counters
    BY <1>3 DEF Route!Stamp, Counters
  <2>3. /\ routeCheck' \in Answer /\ routeCheck'.pc = "stamped"
        /\ routeCheck'.hostEpoch = routeHost.hostEpoch
        /\ routeCheck'.stamp = Route!Stamp(routeEpoch, routeVersion)
    BY <1>3, <2>1, <2>2 DEF Answer
  <2>4. Within(routeCheck.stamp)'
    BY <1>1, <1>3, <2>3 DEF Within, Route!Stamp
  <2>5. (routeAnswer # Route!None /\ routeHost.synced /\ routeAnswer.hostEpoch = routeHost.hostEpoch
           => Tells(routeAnswer))'
    BY <1>0, <1>1, <2>1 DEF AnswerInv, Tells, Within
  <2> QED
    BY <1>0, <1>2, <1>3, <2>1, <2>3, <2>4, <2>5 DEF AnswerInv
<1>5. CASE Route!CheckResolve
  <2>1. /\ routeCheck # Route!None /\ UNCHANGED routeAnswer
        /\ routeCheck' = [routeCheck EXCEPT !.pc = "done", !.exit = routeNow]
    BY <1>5 DEF Route!CheckResolve, Route!hostVars
  <2> DEFINE k == [routeCheck EXCEPT !.pc = "done"]
  <2>2. routeCheck \in Answer /\ routeCheck.hostEpoch <= routeHost.hostEpoch /\ Within(routeCheck.stamp)
    BY <2>1 DEF AnswerInv
  <2>3. routeCheck' = [k EXCEPT !.exit = routeNow]
    BY <2>1, <2>2 DEF Answer
  <2>4. k \in Answer /\ k.stamp = routeCheck.stamp /\ k.hostEpoch = routeCheck.hostEpoch
    BY <2>2 DEF Answer
  <2> HIDE DEF k
  <2>5. /\ routeCheck' \in Answer /\ routeCheck'.stamp = routeCheck.stamp
        /\ routeCheck'.hostEpoch = routeCheck.hostEpoch /\ routeCheck'.exit = routeNow
    BY <1>3, <2>3, <2>4 DEF Answer
  <2>6. Within(routeCheck.stamp)'
    BY <1>1, <2>2, <2>5 DEF Within
  <2>7. Tells(routeCheck)'
    BY <1>1, <1>3, <2>5, <2>6 DEF Tells
  <2>8. (routeAnswer # Route!None /\ routeHost.synced /\ routeAnswer.hostEpoch = routeHost.hostEpoch
           => Tells(routeAnswer))'
    BY <1>0, <1>1, <2>1 DEF AnswerInv, Tells, Within
  <2> QED
    BY <1>0, <1>2, <2>1, <2>2, <2>5, <2>6, <2>7, <2>8 DEF AnswerInv
<1>6. CASE Route!Answered
  <2>1. /\ routeCheck # Route!None /\ routeCheck.pc = "done"
        /\ routeAnswer' = routeCheck /\ routeCheck' = Route!None
    BY <1>6 DEF Route!Answered
  <2>2. Tells(routeAnswer)'
    BY <1>1, <2>1 DEF AnswerInv, Tells, Within
  <2> QED
    BY <1>0, <1>2, <2>1, <2>2 DEF AnswerInv
<1> QED
  BY <1>4, <1>5, <1>6

\* The steps in which the tracker reads the picks again.
Refreshes(change) ==
    /\ Route!refreshRouteLocked(change)
    /\ UNCHANGED <<routeNow, routeReplies, routeHost, routeCheck, routeAnswer>>

LEMMA JudgeFrame ==
  ASSUME [Route!Next]_(Route!vars)
  PROVE  \/ Route!unsubscribe \/ Route!SubscribeFailed \/ Route!HostLeaves \/ Route!RouteChanged
         \/ \E s \in routeReplies : Route!SubscribeReplied(s)
         \/ \E c \in routeCalls : Route!handleWatchRoute(c)
         \/ Route!Crash \/ Route!Move
         \/ Route!CheckStamp \/ Route!CheckResolve \/ Route!Answered
         \/ \E change \in {Route!routeUnchanged, Route!routeMoved, Route!routeReset} : Refreshes(change)
         \/ UNCHANGED judgeVars
<1>1. CASE Route!Environment
  BY <1>1 DEF Route!Environment, Route!changeRoute, Route!handleStartListener, Route!handleStopListener,
       Route!stopListenersAfterTunClose, Route!handleSetOnDemandPaused, Route!applyConfig, Route!attach,
       Route!core, Route!life, Route!wire, Route!hostVars, Refreshes, judgeVars
<1>2. CASE Route!TunClosed \/ Route!Started \/ Route!stopRouteWatch \/ Route!handleShutdown
  BY <1>2 DEF Route!TunClosed, Route!handleStopListener, Route!Started, Route!stopRouteWatch,
       Route!handleShutdown, Route!core, Route!life, Route!wire, Route!hostVars, Refreshes, judgeVars
<1>3. CASE Route!CallStep
  BY <1>3 DEF Route!CallStep, Route!WatchRefresh, Route!hostVars, Refreshes
<1>4. CASE Route!Poll
  BY <1>4 DEF Route!Poll, Route!PollTick, Route!PollLook, Route!PollWake, Route!wire, Route!hostVars,
              Refreshes, judgeVars
<1>5. CASE Route!Retry \/ Route!Connect
  BY <1>5 DEF Route!Retry, Route!Connect, Route!wire, judgeVars
<1>6. CASE UNCHANGED Route!vars
  BY <1>6 DEF Route!vars, Route!core, Route!wire, Route!hostVars, judgeVars
<1> QED
  BY <1>1, <1>2, <1>3, <1>4, <1>5, <1>6 DEF Route!Next

LEMMA JudgeStep == CountInv /\ AnswerInv /\ [Route!Next]_(Route!vars) => CountInv' /\ AnswerInv'
<1> SUFFICES ASSUME CountInv, AnswerInv, [Route!Next]_(Route!vars) PROVE CountInv' /\ AnswerInv'
  OBVIOUS
<1>1. ASSUME NEW change \in {Route!routeUnchanged, Route!routeMoved, Route!routeReset}, Refreshes(change)
      PROVE  CountInv' /\ AnswerInv'
  BY <1>1, RefreshKeeps DEF Refreshes
<1> QED
  BY <1>1, JudgeFrame, JudgeStays, HostKeeps, CrashKeeps, MoveKeeps, CheckKeeps

\* Whatever is late, lost or overtaken, and however often the core restarts: the
\* host is never ahead of the core, and an answer it takes for fresh was made by
\* the picks of now (refreshRouteLocked, handleCheckRoutes, RouteTracker.isFresh).
THEOREM FreshAnswersAreRight == Route!Spec => []HostJudgesRight
<1>1. CountInv /\ AnswerInv => HostJudgesRight
  <2> SUFFICES ASSUME CountInv, AnswerInv PROVE HostJudgesRight
    OBVIOUS
  <2>1. routeHost.synced => routeHost.epoch <= routeEpoch /\ routeHost.version <= routeVersion
    BY DEF CountInv, Within
  <2>2. ASSUME routeAnswer # Route!None, Route!isFresh(routeAnswer), routePicks = routeNow,
               Route!Stamp(routeHost.epoch, routeHost.version) = Route!Stamp(routeEpoch, routeVersion)
        PROVE  routeAnswer.exit = routeNow
    <3>1. routeAnswer \in Answer /\ Tells(routeAnswer)
      BY <2>2 DEF AnswerInv, Route!isFresh
    <3>2. routeAnswer.stamp = Route!Stamp(routeEpoch, routeVersion)
      BY <2>2 DEF Route!isFresh
    <3>3. routeAnswer.stamp.version = routeVersion
      BY <3>2 DEF Route!Stamp
    <3>4. routeAnswer.exit \in Nat /\ routeNow \in Nat
      BY <3>1 DEF Answer, CountInv
    <3> QED
      BY <2>2, <3>1, <3>3, <3>4 DEF Tells
  <2> QED
    BY <2>1, <2>2 DEF HostJudgesRight, Route!HostJudgesRight
<1> QED
  BY <1>1, CountInit, JudgeStep, PTL DEF Route!Spec

=============================================================================
