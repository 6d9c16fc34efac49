------------------------------ MODULE DelayTests ------------------------------
(***************************************************************************)
(* Delay tests (core/delay.go).  A load balancer is tested by workers that *)
(* take its nodes in turn, each with a slot of the pool all tests share;   *)
(* the first node that answers ends the wait of the others, never a test   *)
(* that has begun.                                                         *)
(***************************************************************************)
EXTENDS Integers, FiniteSets, Sequences, FiniteSetsExt

CONSTANTS
    Nodes,     \* of the balancer: 1 .. Nodes
    Workers,   \* min(len(nodes), cap(delayTestSlots)) of them
    Slots,     \* delayTestConcurrency
    Rivals     \* bound: slots that other tests take

delayTimedOut == -1
delayFailed == -2
Nil == 0       \* no slot: nothing is said of the node

VARIABLES
    wait,     \* the context of the wait: "live", "answered" or "expired"
    next,     \* of the nodes
    worker,   \* worker -> its locals
    rivals,   \* slots other tests hold
    results,  \* the channel of results
    tested,   \* history: node -> what its test said, or Nil
    main,     \* handleTestDelay: "receive", or the answer
    got       \* what it received: value, complete, received

vars == <<wait, next, worker, rivals, results, tested, main, got>>

Init ==
    /\ wait = "live" /\ next = 0
    /\ worker = [w \in Workers |-> [pc |-> "loop", node |-> 0, value |-> Nil]]
    /\ rivals = 0
    /\ results = <<>>
    /\ tested = [n \in 1 .. Nodes |-> Nil]
    /\ main = [pc |-> "receive"]
    /\ got = [value |-> delayFailed, complete |-> TRUE, received |-> 0]

\* delayValue: a delay, "took too long" or "failed".
delayValue(d, timedOut) == IF d > 0 THEN d ELSE IF timedOut THEN delayTimedOut ELSE delayFailed

Used == rivals + Cardinality({w \in Workers : worker[w].pc = "test"})

\* The loop of a worker.
Take(w) ==
    /\ worker[w].pc = "loop"
    /\ IF wait # "live" \/ next >= Nodes
         THEN worker' = [worker EXCEPT ![w].pc = "done"] /\ next' = IF wait # "live" THEN next ELSE next + 1
         ELSE next' = next + 1 /\ worker' = [worker EXCEPT ![w] = [pc |-> "slot", node |-> next + 1, value |-> Nil]]
    /\ UNCHANGED <<wait, rivals, results, tested, main, got>>

\* testProxyDelay: a slot while the wait lasts, or nothing tested.
acquire(w) ==
    /\ worker[w].pc = "slot"
    /\ \/ Used < Slots /\ worker' = [worker EXCEPT ![w].pc = "test"]
       \/ worker' = [worker EXCEPT ![w].pc = "send"]      \* its own deadline, or the wait's
    /\ UNCHANGED <<wait, next, rivals, results, tested, main, got>>

URLTest(w, d, timedOut) ==
    LET v == delayValue(d, timedOut) IN
    /\ worker[w].pc = "test"
    /\ worker' = [worker EXCEPT ![w] = [pc |-> "send", node |-> worker[w].node, value |-> v]]
    /\ tested' = [tested EXCEPT ![worker[w].node] = v]
    /\ wait' = IF v > 0 /\ wait = "live" THEN "answered" ELSE wait     \* stopWaiting
    /\ UNCHANGED <<next, rivals, results, main, got>>

\* The send, or the end once the receiver has answered.
Send(w) ==
    /\ worker[w].pc = "send"
    /\ \/ /\ Len(results) < Cardinality(Workers)
          /\ results' = Append(results, worker[w].value)
          /\ worker' = [worker EXCEPT ![w].pc = "loop"]
       \/ /\ main.pc = "answer"
          /\ worker' = [worker EXCEPT ![w].pc = "done"]
          /\ UNCHANGED results
    /\ UNCHANGED <<wait, next, rivals, tested, main, got>>

Receive ==
    /\ main.pc = "receive" /\ results # <<>>
    /\ results' = Tail(results)
    /\ LET v == Head(results) IN
       IF v > 0
         THEN /\ main' = [pc |-> "answer", value |-> v, tested |-> TRUE]
              /\ wait' = IF wait = "live" THEN "answered" ELSE wait
              /\ UNCHANGED got
         ELSE /\ got' = [value |-> Max({v, got.value}), complete |-> got.complete /\ v # Nil,
                         received |-> got.received + 1]
              /\ UNCHANGED <<main, wait>>
    /\ UNCHANGED <<next, worker, rivals, tested>>

\* Mutant: a value is given though some node was not tested.
MutWhole == got.received > 0

Whole == got.complete /\ got.received = Nodes

\* The channel is closed once every worker is done.
Closed ==
    /\ main.pc = "receive" /\ results = <<>> /\ \A w \in Workers : worker[w].pc = "done"
    /\ main' = [pc |-> "answer", value |-> got.value, tested |-> Whole]
    /\ wait' = IF wait = "live" THEN "answered" ELSE wait
    /\ UNCHANGED <<next, worker, rivals, results, tested, got>>

Expires ==
    /\ wait = "live" /\ main.pc = "receive"
    /\ wait' = "expired"
    /\ UNCHANGED <<next, worker, rivals, results, tested, main, got>>

\* Other tests come and go.
Rival(n) ==
    /\ n \in 0 .. Rivals /\ (n > rivals => Used < Slots) /\ n - rivals \in {-1, 1}
    /\ rivals' = n
    /\ UNCHANGED <<wait, next, worker, results, tested, main, got>>

Next ==
    \/ \E w \in Workers : Take(w) \/ acquire(w) \/ Send(w)
    \/ \E w \in Workers, d \in 0 .. 1, timedOut \in BOOLEAN : URLTest(w, d, timedOut)
    \/ Receive \/ Closed \/ Expires
    \/ \E n \in 0 .. Rivals : Rival(n)

Spec == Init /\ [][Next]_vars

-----------------------------------------------------------------------------

(* BalancerAnswerIsWhole: a delay is that of a node that was tested; a      *)
(* failure or a timeout is said of the balancer only when every node was    *)
(* tested and none answered, and is a timeout if any was; slots are never   *)
(* over their limit, whoever ends in whatever order.                        *)
BalancerAnswerIsWhole ==
    /\ main.pc = "answer" /\ main.tested =>
         IF main.value > 0 THEN \E n \in 1 .. Nodes : tested[n] = main.value
         ELSE /\ \A n \in 1 .. Nodes : tested[n] < 0
              /\ main.value = Max({tested[n] : n \in 1 .. Nodes})
    /\ Used <= Slots
=============================================================================
