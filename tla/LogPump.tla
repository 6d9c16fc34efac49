------------------------------- MODULE LogPump -------------------------------
(***************************************************************************)
(* The pump that forwards mihomo's log to the host (core/log.go).  mihomo  *)
(* hands an event to each subscriber under its own lock and blocks on a    *)
(* full buffer; subscribing and unsubscribing take the same lock.          *)
(***************************************************************************)
EXTENDS Naturals

CONSTANTS
    Pumps,       \* numbers of the pumps, 1 .. n
    LogBuffer    \* capacity of a subscription

VARIABLES
    pump,      \* pump -> its state, its buffer and its flag
    activeLog, \* the pump of activeLog, 0 for none
    caller,    \* the holder of logMu: "idle", or what it does and to whom
    emitting,  \* subscribers the logger still has to serve; it holds the lock
    last       \* pumps made so far

vars == <<pump, activeLog, caller, emitting, last>>

Init ==
    /\ pump = [p \in Pumps |-> [state |-> "none", buf |-> 0, stopped |-> FALSE, reads |-> FALSE]]
    /\ activeLog = 0 /\ caller = "idle" /\ emitting = {} /\ last = 0

\* handleStartLog and handleStopLog begin: the active pump is told to stop.
Begin(want) ==
    /\ caller = "idle" /\ (want = "start" => last + 1 \in Pumps)
    /\ caller' = want
    /\ pump' = IF activeLog = 0 THEN pump ELSE [pump EXCEPT ![activeLog].stopped = TRUE]
    /\ UNCHANGED <<activeLog, emitting, last>>

\* logPump.stop: UnSubscribe closes the subscription, once it has the lock.
stop ==
    /\ caller # "idle" /\ activeLog # 0 /\ emitting = {}
    /\ pump' = [pump EXCEPT ![activeLog].state = "closed"]
    /\ activeLog' = 0
    /\ UNCHANGED <<caller, emitting, last>>

\* The rest of handleStartLog: a new subscription and its pump.
handleStartLog ==
    /\ caller = "start" /\ activeLog = 0 /\ emitting = {}
    /\ last' = last + 1 /\ activeLog' = last + 1
    /\ pump' = [pump EXCEPT ![last + 1].state = "open", ![last + 1].reads = TRUE]
    /\ caller' = "idle"
    /\ UNCHANGED emitting

handleStopLog ==
    /\ caller = "stop" /\ activeLog = 0
    /\ caller' = "idle"
    /\ UNCHANGED <<pump, activeLog, emitting, last>>

\* External: something is logged, to every subscriber there is ...
Emit ==
    /\ emitting = {}
    /\ emitting' = {p \in Pumps : pump[p].state = "open"}
    /\ emitting' # {}
    /\ UNCHANGED <<pump, activeLog, caller, last>>

\* ... which blocks while the buffer of one is full.
Emitted(p) ==
    /\ p \in emitting /\ pump[p].buf < LogBuffer
    /\ pump' = [pump EXCEPT ![p].buf = @ + 1]
    /\ emitting' = emitting \ {p}
    /\ UNCHANGED <<activeLog, caller, last>>

\* Mutant: a pump that was stopped does not read on.
MutRun(p) ==
    /\ pump[p].reads
    /\ pump' = [pump EXCEPT ![p] = IF pump[p].stopped THEN [@ EXCEPT !.reads = FALSE]
                                   ELSE IF pump[p].buf > 0 THEN [pump[p] EXCEPT !.buf = @ - 1] ELSE @]
    /\ UNCHANGED <<activeLog, caller, emitting, last>>

\* logPump.run: it reads on until the subscription is closed and empty.
run(p) ==
    /\ pump[p].reads
    /\ \/ pump[p].buf > 0 /\ pump' = [pump EXCEPT ![p].buf = @ - 1]
       \/ /\ pump[p].buf = 0 /\ pump[p].state = "closed"
          /\ pump' = [pump EXCEPT ![p].reads = FALSE]
    /\ UNCHANGED <<activeLog, caller, emitting, last>>

Next ==
    \/ \E want \in {"start", "stop"} : Begin(want)
    \/ stop \/ handleStartLog \/ handleStopLog \/ Emit
    \/ \E p \in Pumps : Emitted(p) \/ run(p)

Spec == Init /\ [][Next]_vars

(* LoggerIsNotWedged: while the logger is blocked on a full subscription,   *)
(* holding the lock that UnSubscribe needs, the pump of that subscription   *)
(* still reads, whether it was told to stop or not.                         *)
LoggerIsNotWedged ==
    \A p \in emitting : pump[p].buf = LogBuffer => pump[p].reads
=============================================================================
