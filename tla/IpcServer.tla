------------------------------ MODULE IpcServer ------------------------------
(***************************************************************************)
(* The desktop core's connection to its host (core/server.go): replies and *)
(* event batches are frames that several goroutines write under writeMu,   *)
(* on a stream that a host may stall or break in the middle of a frame.    *)
(***************************************************************************)
EXTENDS Naturals, Sequences

CONSTANTS
    Writers,    \* goroutines that send a frame: replies, the batcher
    FrameSize,  \* pieces a frame may be split into, its length included
    MaxFrames   \* bound: frames sent

VARIABLES
    conn,       \* the connection send uses: "open" or "none"
    closed,     \* the stream is closed
    broken,     \* writes to it fail for good: the host is dead
    writer,     \* goroutine -> idle, or the pieces of its frame written
    reported,   \* deliveryFailureReported
    wire,       \* pieces written so far, as the host will read them
    serving,    \* serve still reads calls
    sent        \* frames sent so far

vars == <<conn, closed, broken, writer, reported, wire, serving, sent>>

Idle == [pc |-> "idle", written |-> 0]

Init ==
    /\ conn = "open" /\ closed = FALSE /\ broken = FALSE
    /\ writer = [w \in Writers |-> Idle]
    /\ reported = FALSE /\ wire = <<>> /\ serving = TRUE /\ sent = 0

\* writeMu
Locked == \E w \in Writers : writer[w].pc = "write"

\* send, up to the copy of the connection: without one the frame is dropped,
\* as is one that is too large, which fails before a byte is written.
send(w) ==
    /\ ~Locked /\ writer[w].pc = "idle" /\ sent < MaxFrames
    /\ sent' = sent + 1
    /\ IF conn = "none"
         THEN reported' = TRUE /\ UNCHANGED writer
         ELSE \/ writer' = [writer EXCEPT ![w].pc = "write"] /\ UNCHANGED reported
              \/ reported' = TRUE /\ UNCHANGED writer
    /\ UNCHANGED <<conn, closed, broken, wire, serving>>

\* writeFrame, writeAll: some pieces of the frame are accepted.
Accepted(w) ==
    /\ writer[w].pc = "write" /\ ~closed /\ ~broken
    /\ \E n \in 1 .. FrameSize - writer[w].written :
         LET done == writer[w].written + n IN
         /\ wire' = wire \o [i \in 1 .. n |-> [by |-> w, piece |-> writer[w].written + i]]
         /\ writer' = [writer EXCEPT ![w] = IF done = FrameSize THEN Idle ELSE [@ EXCEPT !.written = done]]
         /\ reported' = IF done = FrameSize THEN FALSE ELSE reported
    /\ UNCHANGED <<conn, closed, broken, serving, sent>>

\* Mutant: a stall is only waited out by a frame that has none of its bytes
\* on the wire, so that a half-written one is given up.
MutStalled(w) ==
    /\ writer[w].pc = "write" /\ ~closed /\ ~broken
    /\ writer[w].written > 0
    /\ writer' = [writer EXCEPT ![w] = Idle]
    /\ reported' = TRUE
    /\ UNCHANGED <<conn, closed, broken, wire, serving, sent>>

\* resumingWriter.resume: a write that timed out before its first byte drops
\* the frame; a half-written frame is waited out, which leaves all as it is.
Stalled(w) ==
    /\ writer[w].pc = "write" /\ ~closed /\ ~broken
    /\ writer[w].written = 0
    /\ writer' = [writer EXCEPT ![w] = Idle]
    /\ reported' = TRUE
    /\ UNCHANGED <<conn, closed, broken, wire, serving, sent>>

\* A write fails for good, or its deadline cannot be set again: a frame that
\* is half on the wire takes the connection with it.
Failed(w) ==
    /\ writer[w].pc = "write"
    /\ closed \/ broken \/ writer[w].written > 0
    /\ writer' = [writer EXCEPT ![w] = Idle]
    /\ reported' = TRUE
    /\ IF writer[w].written = 0
         THEN UNCHANGED <<conn, closed>>
         ELSE conn' = "none" /\ closed' = TRUE
    /\ UNCHANGED <<broken, wire, serving, sent>>

\* External: the host dies.
HostDies == ~broken /\ broken' = TRUE /\ UNCHANGED <<conn, closed, writer, reported, wire, serving, sent>>

\* serve: a read fails, the connection is closed and the core releases.
serveEnds ==
    /\ serving /\ (closed \/ broken)
    /\ serving' = FALSE
    /\ conn' = "none" /\ closed' = TRUE
    /\ UNCHANGED <<broken, writer, reported, wire, sent>>

Next ==
    \/ \E w \in Writers : send(w) \/ Accepted(w) \/ Stalled(w) \/ Failed(w)
    \/ HostDies \/ serveEnds

Spec == Init /\ [][Next]_vars

-----------------------------------------------------------------------------

(* FramesAreWhole: what the host reads is one frame after the other, each   *)
(* by one writer and in order; nothing follows a frame that was given up    *)
(* half written, so the host never takes payload for a length.              *)
FramesAreWhole ==
    \A i \in 2 .. Len(wire) :
        IF wire[i - 1].piece = FrameSize THEN wire[i].piece = 1
        ELSE wire[i] = [by |-> wire[i - 1].by, piece |-> wire[i - 1].piece + 1]
=============================================================================
