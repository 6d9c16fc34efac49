---------------------------- MODULE SpeedTestLoad ----------------------------
(***************************************************************************)
(* One direction of a speed test (core/speed_test_measurements.go): streams*)
(* transfer under one byte budget (core/speed_test_budget.go) until the    *)
(* time or the budget is over.  Bytes are units; sizes and times are any.  *)
(***************************************************************************)
EXTENDS Integers, FiniteSets

CONSTANTS
    Streams,   \* transfers side by side
    Limit,     \* the budget of this direction
    Unit       \* reservations are multiples of it

VARIABLES
    used, reserved,  \* speedTestBudget
    stream,   \* stream -> place, reservation, failures, result
    late,     \* stream -> a reservation the HTTP transport still reads from
    loaded,   \* the goroutine of the latency under load
    main,     \* measureLoad: "sampling", "joining" or "returned"
    done,     \* the context of the measurement is over
    frozen,   \* meter.freeze
    counted,  \* bytes the meter counted
    remaining, failed

vars == <<used, reserved, stream, late, loaded, main, done, frozen, counted, remaining, failed>>

NoRes == [amount |-> 0, left |-> 0, closed |-> TRUE]

Init ==
    /\ used = 0 /\ reserved = 0
    /\ stream = [s \in Streams |-> [pc |-> "loop", res |-> NoRes, failures |-> 0, result |-> "none"]]
    /\ late = [s \in Streams |-> NoRes]
    /\ loaded = "tick" /\ main = "sampling" /\ done = FALSE /\ frozen = FALSE
    /\ counted = 0 /\ remaining = Cardinality(Streams) /\ failed = FALSE

\* Mutant: what others have reserved is not subtracted.
MutAmount(wanted) ==
    LET free == Limit - used
    IN ((IF wanted < free THEN wanted ELSE free) \div Unit) * Unit

\* reserve: what is still free, in whole units.
Amount(wanted) ==
    LET free == Limit - used - reserved
    IN ((IF wanted < free THEN wanted ELSE free) \div Unit) * Unit

\* What becomes of a stream; the rest stay as they are.
Becomes(s, pc, res, failures, result) ==
    stream' = [stream EXCEPT ![s] = [pc |-> pc, res |-> res, failures |-> failures, result |-> result]]

Ends(s, result) == Becomes(s, "result", stream[s].res, stream[s].failures, result)

\* transferLoop: the next reservation, of whatever size its speed suggests.
Reserve(s) ==
    /\ stream[s].pc = "loop"
    /\ \/ /\ done /\ Ends(s, "ctx") /\ UNCHANGED reserved
       \/ /\ ~done
          /\ \E wanted \in Unit .. Limit :
               LET n == Amount(wanted) IN
               IF n <= 0 THEN Ends(s, "budget") /\ UNCHANGED reserved
               ELSE /\ reserved' = reserved + n
                    /\ Becomes(s, "transfer", [amount |-> n, left |-> n, closed |-> FALSE],
                               stream[s].failures, stream[s].result)
    /\ UNCHANGED <<used, late, loaded, main, done, frozen, counted, remaining, failed>>

\* consume of a reservation, as both directions do it, piece by piece; the
\* meter counts unless it is frozen.
Consume(s) ==
    /\ stream[s].pc = "transfer"
    /\ \E n \in 1 .. stream[s].res.left :
         /\ Becomes(s, "transfer", [amount |-> stream[s].res.amount, left |-> stream[s].res.left - n,
                                    closed |-> stream[s].res.closed],
                    stream[s].failures, stream[s].result)
         /\ reserved' = reserved - n
         /\ used' = used + n
         /\ counted' = IF frozen THEN counted ELSE counted + n
    /\ UNCHANGED <<late, loaded, main, done, frozen, remaining, failed>>

\* Mutant: a released reservation can still be consumed.
MutReleased(r) == r

\* release
Released(r) == [amount |-> r.amount, left |-> 0, closed |-> TRUE]

\* transfer returns, with its whole reservation or with an error; the HTTP
\* transport may hold the body of a failed upload a little longer.
TransferEnds(s) ==
    LET r == stream[s].res
        whole == r.left = 0
        fails == stream[s].failures + 1 IN
    /\ stream[s].pc = "transfer"
    /\ reserved' = reserved - r.left
    /\ late' = [late EXCEPT ![s] = IF whole THEN NoRes ELSE Released(r)]
    /\ \/ whole /\ Becomes(s, "loop", NoRes, 0, stream[s].result)
       \/ \E panic \in BOOLEAN :
            IF panic \/ (~done /\ fails >= 3) THEN Becomes(s, "result", NoRes, stream[s].failures, "error")
            ELSE IF done THEN Becomes(s, "result", NoRes, stream[s].failures, "ctx")
            ELSE Becomes(s, "loop", NoRes, fails, stream[s].result)
    /\ UNCHANGED <<used, loaded, main, done, frozen, counted, remaining, failed>>

\* speedTestUploadBody.Read after the transfer is over: a reservation that
\* is closed gives nothing, and the body ends.
LateRead(s) ==
    /\ late[s].amount > 0
    /\ late' = [late EXCEPT ![s] = NoRes]
    /\ IF late[s].closed \/ late[s].left = 0 THEN UNCHANGED <<reserved, used>>
       ELSE reserved' = reserved - 1 /\ used' = used + 1
    /\ UNCHANGED <<stream, loaded, main, done, frozen, counted, remaining, failed>>

\* The latency under load, until the context is over.
Loaded ==
    /\ loaded = "tick" \/ loaded = "ping"
    /\ loaded' = IF loaded = "ping" THEN "tick" ELSE IF done THEN "done" ELSE "ping"
    /\ UNCHANGED <<used, reserved, stream, late, main, done, frozen, counted, remaining, failed>>

\* A result is taken: a budget or a context that is over is no failure.
Taken(s) ==
    /\ stream[s].pc = "result"
    /\ Becomes(s, "done", stream[s].res, stream[s].failures, stream[s].result)
    /\ remaining' = remaining - 1
    /\ failed' = (failed \/ stream[s].result = "error")

\* External: the time is over or the test is cancelled.
Over == ~done /\ done' = TRUE /\ UNCHANGED <<used, reserved, stream, late, loaded, main, frozen, counted, remaining, failed>>

\* measureLoad: results come in while it samples ...
Sampling ==
    /\ main = "sampling"
    /\ \/ /\ remaining > 0
          /\ \E s \in Streams : Taken(s)
          /\ UNCHANGED <<main, frozen, done>>
       \/ /\ done \/ remaining = 0
          /\ main' = "joining" /\ frozen' = TRUE /\ done' = TRUE
          /\ UNCHANGED <<stream, remaining, failed>>
    /\ UNCHANGED <<used, reserved, late, loaded, counted>>

\* Mutant: it does not wait for the streams that still transfer.
MutJoin ==
    /\ main = "joining"
    /\ loaded = "done" /\ main' = "returned" /\ UNCHANGED <<stream, remaining, failed>>
    /\ UNCHANGED <<used, reserved, late, loaded, done, frozen, counted>>

\* ... and it joins them all, and the latency, before it returns.
Join ==
    /\ main = "joining"
    /\ \/ remaining > 0 /\ (\E s \in Streams : Taken(s)) /\ UNCHANGED main
       \/ remaining = 0 /\ loaded = "done" /\ main' = "returned" /\ UNCHANGED <<stream, remaining, failed>>
    /\ UNCHANGED <<used, reserved, late, loaded, done, frozen, counted>>

Next ==
    \/ \E s \in Streams : Reserve(s) \/ Consume(s) \/ TransferEnds(s) \/ LateRead(s)
    \/ Loaded \/ Over \/ Sampling \/ Join

Spec == Init /\ [][Next]_vars

-----------------------------------------------------------------------------

\* The units that reservations hold: as many of a stream as its reservation has left.
Held == {h \in Streams \X (1 .. Limit) : h[2] <= stream[h[1]].res.left}

(* BudgetIsKept: the streams together never transfer more than the limit,   *)
(* what is reserved is what their reservations still hold, and a body that  *)
(* is read after its transfer was given up takes nothing.                   *)
BudgetIsKept ==
    /\ used + reserved <= Limit
    /\ reserved = Cardinality(Held)
    /\ counted <= used

(* LoadIsOver: when a measurement returns, no stream and no ping of it is   *)
(* left to run into the next stage, everything reserved is given back, and  *)
(* it is a failure exactly if a stream ended in an error of its own.        *)
LoadIsOver ==
    main = "returned" =>
        /\ \A s \in Streams : stream[s].pc = "done"
        /\ loaded = "done" /\ reserved = 0
        /\ failed = \E s \in Streams : stream[s].result = "error"

(* LoadIsAccounted: no order of streams, deadline, late reads and retries   *)
(* spends past the budget or leaves something behind.                       *)
LoadIsAccounted == BudgetIsKept /\ LoadIsOver
=============================================================================
