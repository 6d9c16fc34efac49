---------------------------- MODULE MessageQueues ----------------------------
(***************************************************************************)
(* The queues between the core's goroutines and the batcher that sends     *)
(* their events to the host (core/message.go).  A queue is its length; a   *)
(* select that finds nothing ready takes its default, so each is one step. *)
(***************************************************************************)
EXTENDS Naturals, FiniteSets

CONSTANTS
    Senders,               \* goroutines that send events
    messageQueueSize, messageBatchSize, messagePriorityBurst, messageEvictAttempts

VARIABLES
    len,     \* queue -> messages in it
    sender,  \* goroutine -> where it is in sendMessage
    at,      \* the select the batcher is at
    burst,   \* priorityBurst
    batch,   \* messages in the batch
    waited   \* history: priority messages taken while bulk messages waited

vars == <<len, sender, at, burst, batch, waited>>

Queues == {"state", "priority", "bulk"}
Classes == {"state", "priority", "bulk", "yielding"}
Idle == [pc |-> "idle", queue |-> "state", attempt |-> 0, rivals |-> 0]

Init ==
    /\ len = [q \in Queues |-> 0]
    /\ sender = [s \in Senders |-> Idle]
    /\ at = "state" /\ burst = 0 /\ batch = 0 /\ waited = 0

\* classOfMessage: the queue of a class, and whether it evicts from it.
QueueOf(class) == IF class = "yielding" THEN "bulk" ELSE class
Evicts(class) == class \in {"priority", "bulk"}

\* A message enters queue q; the senders still trying to have a new rival.
Enqueued(s, q) ==
    /\ len' = [len EXCEPT ![q] = @ + 1]
    /\ sender' = [t \in Senders |->
         IF t = s THEN Idle
         ELSE IF sender[t].pc # "idle" /\ sender[t].queue = q
                THEN [sender[t] EXCEPT !.rivals = IF @ < messageEvictAttempts THEN @ + 1 ELSE @] ELSE sender[t]]

\* sendMessage; enqueueState gives the message up when the queue is full.
sendMessage(s, class) ==
    LET q == QueueOf(class) IN
    /\ sender[s].pc = "idle"
    /\ IF Evicts(class)
         THEN /\ sender' = [sender EXCEPT ![s] = [pc |-> "try", queue |-> q, attempt |-> 0, rivals |-> 0]]
              /\ UNCHANGED len
         ELSE IF len[q] < messageQueueSize THEN Enqueued(s, q) ELSE UNCHANGED <<len, sender>>
    /\ UNCHANGED <<at, burst, batch, waited>>

\* enqueueLatest: put the message in ...
Put(s) ==
    LET q == sender[s].queue IN
    /\ sender[s].pc = "try"
    /\ IF len[q] < messageQueueSize THEN Enqueued(s, q)
       ELSE /\ sender' = [sender EXCEPT ![s].pc = "evict"]
            /\ UNCHANGED len
    /\ UNCHANGED <<at, burst, batch, waited>>

\* Mutant: one attempt less.
MutEvict(s) ==
    LET q == sender[s].queue
        n == sender[s].attempt + 1 IN
    /\ sender[s].pc = "evict"
    /\ len' = [len EXCEPT ![q] = IF @ > 0 THEN @ - 1 ELSE 0]
    /\ sender' = [sender EXCEPT ![s].attempt = n,
                                ![s].pc = IF n < messageEvictAttempts - 1 THEN "try" ELSE "gaveUp"]
    /\ waited' = IF len'["bulk"] = 0 THEN 0 ELSE waited
    /\ UNCHANGED <<at, burst, batch>>

\* ... or make room for it and try again, a bounded number of times.
Evict(s) ==
    LET q == sender[s].queue
        n == sender[s].attempt + 1 IN
    /\ sender[s].pc = "evict"
    /\ len' = [len EXCEPT ![q] = IF @ > 0 THEN @ - 1 ELSE 0]
    /\ sender' = [sender EXCEPT ![s].attempt = n,
                                ![s].pc = IF n < messageEvictAttempts THEN "try" ELSE "gaveUp"]
    /\ waited' = IF len'["bulk"] = 0 THEN 0 ELSE waited
    /\ UNCHANGED <<at, burst, batch>>

\* enqueueLatest has returned false.
GaveUp(s) ==
    /\ sender[s].pc = "gaveUp"
    /\ sender' = [sender EXCEPT ![s] = Idle]
    /\ UNCHANGED <<len, at, burst, batch, waited>>

\* take, with the flush of a full batch; a priority message that overtakes a
\* waiting bulk message is counted.
Take(q) ==
    /\ len[q] > 0
    /\ len' = [len EXCEPT ![q] = @ - 1]
    /\ batch' = IF batch + 1 >= messageBatchSize THEN 0 ELSE batch + 1
    /\ waited' = CASE q = "bulk" -> 0
                   [] q = "priority" -> IF len["bulk"] > 0 THEN waited + 1 ELSE 0
                   [] OTHER -> waited
    /\ UNCHANGED sender

Pass(next) == at' = next /\ UNCHANGED <<len, sender, batch, waited>>

\* runMessageBatcher: the state queue comes first ...
BatchState ==
    /\ at = "state"
    /\ \/ Take("state") /\ UNCHANGED <<at, burst>>
       \/ len["state"] = 0 /\ Pass("turn") /\ UNCHANGED burst

\* Mutant: no turn for the bulk queue.
MutBatchTurn == at = "turn" /\ Pass("priority") /\ UNCHANGED burst

\* ... then, after a burst of priority messages, the turn of the bulk queue ...
BatchTurn ==
    /\ at = "turn"
    /\ \/ burst < messagePriorityBurst /\ Pass("priority") /\ UNCHANGED burst
       \/ /\ burst >= messagePriorityBurst
          /\ burst' = 0
          /\ \/ Take("bulk") /\ at' = "state"
             \/ len["bulk"] = 0 /\ Pass("priority")

\* ... then the priority queue ...
BatchPriority ==
    /\ at = "priority"
    /\ \/ Take("priority") /\ burst' = burst + 1 /\ at' = "state"
       \/ len["priority"] = 0 /\ Pass("wait") /\ UNCHANGED burst

\* ... and then whatever comes first, or the deadline of the batch.
BatchWait ==
    /\ at = "wait"
    /\ at' = "state"
    /\ \/ Take("state") /\ UNCHANGED burst
       \/ Take("priority") /\ burst' = burst + 1
       \/ Take("bulk") /\ burst' = 0
       \/ batch > 0 /\ batch' = 0 /\ UNCHANGED <<len, sender, burst, waited>>

Next ==
    \/ \E s \in Senders, c \in Classes : sendMessage(s, c)
    \/ \E s \in Senders : Put(s) \/ Evict(s) \/ GaveUp(s)
    \/ BatchState \/ BatchTurn \/ BatchPriority \/ BatchWait

Spec == Init /\ [][Next]_vars

-----------------------------------------------------------------------------

(* QueuesAreFair: enqueueLatest gives its message up only after other       *)
(* senders filled the room it had made, once for every attempt but the      *)
(* last, so that a sender on its own always gets its message into the       *)
(* queue; and however many priority messages come, no more than a burst of  *)
(* them is taken while a bulk message waits.                                *)
QueuesAreFair ==
    /\ \A s \in Senders : sender[s].pc = "gaveUp" => sender[s].rivals >= messageEvictAttempts - 1
    /\ waited <= messagePriorityBurst
=============================================================================
