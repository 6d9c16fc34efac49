---------------------------- MODULE RequestTraffic ----------------------------
(***************************************************************************)
(* The reports of what open connections transfer (core/request_traffic.go) *)
(* while the host is in the foreground.  A connection is announced before  *)
(* mihomo's manager stores it, and it is gone from there once it closes.   *)
(***************************************************************************)
EXTENDS Naturals, Sequences

CONSTANTS
    Requests,      \* connections
    MaxTotal,      \* bound: bytes a connection transfers
    CloseRetries,  \* requestTrafficCloseRetries
    MaxSeq         \* bound: calls that change the foreground

VARIABLES
    conns,       \* request -> its state, in the manager and its total
    foreground,  \* hostForeground
    fgSeq,       \* hostForegroundSeq
    fgCalls,     \* setHostForeground calls that still run
    calls,       \* their number so far
    requests,    \* the watch: request -> the total reported, fresh, closedReports
    running,     \* requestTrafficWatch.running
    runners,     \* places of the goroutines of runRequestTrafficWatch
    known,       \* request -> the total the host has
    excused      \* history: requests dropped while hidden or after the retries

vars == <<conns, foreground, fgSeq, fgCalls, calls, requests, running, runners, known, excused>>

Unheard == MaxTotal + 1  \* the -1 of resume: no total compares equal to it

Init ==
    /\ conns = [r \in Requests |-> [state |-> "none", total |-> 0]]
    /\ foreground = TRUE /\ fgSeq = 0 /\ fgCalls = {} /\ calls = 0
    /\ requests = <<>> /\ running = FALSE /\ runners = <<>>
    /\ known = [r \in Requests |-> 0] /\ excused = {}

Watched == DOMAIN requests

\* requestTrafficWatch.insert for requests with the totals they are watched
\* from; a runner is started when there is none.
insert(totals) ==
    /\ requests' = [r \in Watched \cup DOMAIN totals |->
         IF r \in Watched THEN requests[r] ELSE [reported |-> totals[r], fresh |-> TRUE, closed |-> 0]]
    /\ running' = (running \/ DOMAIN totals # {})
    /\ runners' = IF running \/ DOMAIN totals = {} THEN runners ELSE Append(runners, "clear")

\* mihomo announces a connection: notify looks at the foreground ...
announce(r) ==
    /\ conns[r].state = "none"
    /\ conns' = [conns EXCEPT ![r].state = IF foreground THEN "announced" ELSE "opening"]
    /\ excused' = IF foreground THEN excused ELSE excused \cup {r}
    /\ UNCHANGED <<foreground, fgSeq, fgCalls, calls, requests, running, runners, known>>

\* ... and watchRequestTraffic adds it, whatever has become of that.
watchRequestTraffic(r) ==
    /\ conns[r].state = "announced"
    /\ conns' = [conns EXCEPT ![r].state = "opening"]
    /\ insert([q \in {r} |-> conns[q].total])
    /\ UNCHANGED <<foreground, fgSeq, fgCalls, calls, known, excused>>

\* External: the manager stores the connection, which transfers and closes.
Stored(r) == conns[r].state = "opening" /\ conns' = [conns EXCEPT ![r].state = "open"]
Transfer(r) == /\ conns[r].state = "open" /\ conns[r].total < MaxTotal
               /\ conns' = [conns EXCEPT ![r].total = @ + 1]
Close(r) == conns[r].state = "open" /\ conns' = [conns EXCEPT ![r].state = "closed"]
Connection(r) ==
    /\ Stored(r) \/ Transfer(r) \/ Close(r)
    /\ UNCHANGED <<foreground, fgSeq, fgCalls, calls, requests, running, runners, known, excused>>

\* The host is shown or hidden; calls run on goroutines of their own.
HostShows(f) ==
    /\ calls < MaxSeq
    /\ calls' = calls + 1
    /\ fgCalls' = fgCalls \cup {[seq |-> calls + 1, foreground |-> f]}
    /\ UNCHANGED <<conns, foreground, fgSeq, requests, running, runners, known, excused>>

\* setHostForeground: an older call is ignored; back in the foreground, every
\* connection of the manager is watched from a total that is always reported.
setHostForeground(c) ==
    /\ fgCalls' = fgCalls \ {c}
    /\ IF c.seq < fgSeq THEN UNCHANGED <<fgSeq, foreground, requests, running, runners>>
       ELSE /\ fgSeq' = c.seq
            /\ foreground' = c.foreground
            /\ IF c.foreground /\ ~foreground
                 THEN insert([r \in {q \in Requests : conns[q].state = "open"} |-> Unheard])
                 ELSE UNCHANGED <<requests, running, runners>>
    /\ UNCHANGED <<conns, calls, known, excused>>

Returned(i) == runners' = [j \in 1 .. Len(runners) - 1 |-> IF j < i THEN runners[j] ELSE runners[j + 1]]
Goes(i, place) == runners' = [runners EXCEPT ![i] = place]

\* Mutant: the watch is cleared, but it still counts as running.
MutClearUnless(i) ==
    /\ runners[i] = "clear"
    /\ IF foreground
         THEN Goes(i, "collect") /\ UNCHANGED <<requests, running, excused>>
         ELSE /\ requests' = <<>>
              /\ UNCHANGED running
              /\ excused' = excused \cup Watched
              /\ Returned(i)
    /\ UNCHANGED <<conns, foreground, fgSeq, fgCalls, calls, known>>

\* A tick of runRequestTrafficWatch, first clearUnless: nobody listens.
clearUnless(i) ==
    /\ runners[i] = "clear"
    /\ IF foreground
         THEN Goes(i, "collect") /\ UNCHANGED <<requests, running, excused>>
         ELSE /\ requests' = <<>>
              /\ running' = FALSE
              /\ excused' = excused \cup Watched
              /\ Returned(i)
    /\ UNCHANGED <<conns, foreground, fgSeq, fgCalls, calls, known>>

\* A request counts its reports from the first that finds it closed; on its
\* first report it may still be opening.
Counted(r) ==
    IF requests[r].closed > 0 \/ (~requests[r].fresh /\ conns[r].state # "open")
      THEN requests[r].closed + 1 ELSE requests[r].closed

\* Mutant: a closed request is forgotten although its report was refused.
MutForgotten(r, queued) == Counted(r) > 0

\* Which of them the report is the last of.
Forgotten(r, queued) == Counted(r) > 0 /\ (queued \/ Counted(r) > CloseRetries)

\* collect: one report of all totals that changed, which the bulk queue takes
\* or refuses.  The manager stores a connection well within the interval.
collect(i, queued) ==
    LET changed == {r \in Watched : conns[r].total # requests[r].reported}
        kept == {r \in Watched : ~Forgotten(r, queued \/ changed = {})} IN
    /\ runners[i] = "collect"
    /\ \A r \in Watched : ~requests[r].fresh => conns[r].state \notin {"announced", "opening"}
    /\ requests' = [r \in kept |->
         [reported |-> IF queued THEN conns[r].total ELSE requests[r].reported,
          fresh |-> FALSE, closed |-> Counted(r)]]
    /\ known' = [r \in Requests |-> IF queued /\ r \in changed THEN conns[r].total ELSE known[r]]
    /\ excused' = IF queued THEN excused
                  ELSE excused \cup {r \in Watched \ kept : Counted(r) > CloseRetries}
    /\ running' = (kept # {})
    /\ IF kept # {} THEN Goes(i, "clear") ELSE Returned(i)
    /\ UNCHANGED <<conns, foreground, fgSeq, fgCalls, calls>>

Next ==
    \/ \E r \in Requests : announce(r) \/ watchRequestTraffic(r) \/ Connection(r)
    \/ \E f \in BOOLEAN : HostShows(f)
    \/ \E c \in fgCalls : setHostForeground(c)
    \/ \E i \in 1 .. Len(runners) : clearUnless(i) \/ \E queued \in BOOLEAN : collect(i, queued)

Spec == Init /\ [][Next]_vars

-----------------------------------------------------------------------------

(* RunnerIsThere: the watch has exactly one goroutine while it has requests *)
(* to report, however adding, reporting and hiding the host interleave.     *)
RunnerIsThere ==
    /\ Len(runners) = IF running THEN 1 ELSE 0
    /\ Watched # {} => running

(* FinalTotalIsReported: a request the watch has let go has its last total  *)
(* with the host, unless the host was hidden or the queue refused each of   *)
(* the retries.                                                             *)
FinalTotalIsReported ==
    \A r \in Requests :
        conns[r].state = "closed" /\ r \notin Watched /\ r \notin excused => known[r] = conns[r].total

(* TrafficIsReported: both, the watch is served and it loses no total.      *)
TrafficIsReported == RunnerIsThere /\ FinalTotalIsReported
=============================================================================
