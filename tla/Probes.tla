-------------------------------- MODULE Probes --------------------------------
(***************************************************************************)
(* Probes through the core (core/probe.go, core/slots.go) and the doctor's *)
(* reach test, which takes a slot of the same pool (core/doctor.go).  A    *)
(* probe says over which route it was made; configurations are applied     *)
(* while it waits for a slot, dials, is handled by the tunnel, or is       *)
(* redirected.                                                             *)
(***************************************************************************)
EXTENDS Naturals, FiniteSets

CONSTANTS
    Requests,          \* calls of runProbe and handleReach
    probeConcurrency,  \* slots
    MaxDials,          \* bound: dials of one request, one and its redirects
    MaxEpoch           \* bound: configurations applied

VARIABLES
    epoch,   \* of the route, as routeStamp reads it
    config,  \* what the tunnel routes by: the number of the configuration
    apply,   \* "idle", "suspended" or "bump": how far applyConfig is
    slots,   \* the requests that hold a slot
    req,     \* request -> its locals
    conn,    \* <<request, dial>> -> "none", "piped", "refused", "tracked", "closed"
    pending  \* pendingProbeRoutes

vars == <<epoch, config, apply, slots, req, conn, pending>>

Dials == Requests \X (1 .. MaxDials)
Free == [pc |-> "free"]

Init ==
    /\ epoch = 0 /\ config = 0 /\ apply = "idle"
    /\ slots = {}
    /\ req = [r \in Requests |-> Free]
    /\ conn = [d \in Dials |-> "none"]
    /\ pending = {}

-----------------------------------------------------------------------------
(* applyConfig, as far as probes see it: mihomo suspends the tunnel, swaps  *)
(* the rules and runs again, and the epoch moves after that.                *)
Suspend ==
    /\ apply = "idle" /\ epoch < MaxEpoch
    /\ apply' = "suspended" /\ config' = config + 1
    /\ UNCHANGED <<epoch, slots, req, conn, pending>>

Resume == apply = "suspended" /\ apply' = "bump" /\ UNCHANGED <<epoch, config, slots, req, conn, pending>>

bumpRouteEpoch ==
    /\ apply = "bump"
    /\ apply' = "idle" /\ epoch' = epoch + 1
    /\ UNCHANGED <<config, slots, req, conn, pending>>

-----------------------------------------------------------------------------
(* runProbe. *)

\* What a request has to say, and where it goes on.
Answered(x, place, says) == [x EXCEPT !.pc = place, !.answer = says]

\* A dial was sent.
Sent(x) == [x EXCEPT !.pc = "sent", !.dials = x.dials + 1]

\* The routes its nth dial was made over, unless it has moved on.
RoutedOver(x, n) ==
    IF x.pc # "free" /\ x.dials = n /\ x.answer = "none" THEN [x EXCEPT !.over = config] ELSE x

\* The stamp and the proxy; one the configuration does not have ends it.
\* over: the configuration the pinned proxy is of, or the tunnel routed by.
runProbe(r, pinned, known) ==
    /\ req[r] = Free
    /\ req' = [req EXCEPT ![r] = [pc |-> IF pinned /\ ~known THEN "done" ELSE "wait", stamp |-> epoch, dials |-> 0,
                                  pinned |-> pinned, over |-> config, ctx |-> "live", answer |-> IF pinned /\ ~known THEN "failed" ELSE "none"]]
    /\ UNCHANGED <<epoch, config, apply, slots, conn, pending>>

\* handleReach takes its slot, then the stamp, then the route (reachSteps.run
\* up to pickNode; the stages before and after it dial connections of their
\* own, which they close).
handleReach(r) ==
    /\ req[r] = Free /\ Cardinality(slots) < probeConcurrency
    /\ slots' = slots \cup {r}
    /\ req' = [req EXCEPT ![r] = [pc |-> "reach", stamp |-> epoch, dials |-> 0, pinned |-> FALSE,
                                  over |-> config, ctx |-> "live", answer |-> "none"]]
    /\ UNCHANGED <<epoch, config, apply, conn, pending>>

Reached(x) == [x EXCEPT !.pc = "reached", !.over = config]
pickNode(r) ==
    /\ req[r].pc = "reach"
    /\ req' = [req EXCEPT ![r] = Reached(req[r])]
    /\ UNCHANGED <<epoch, config, apply, slots, conn, pending>>

\* The stage it came to: "done", or the one that failed.
reachSteps(r, stage) ==
    /\ IF stage \in {"dns", "route"} THEN req[r].pc = "reach" ELSE req[r].pc = "reached"
    /\ req' = [req EXCEPT ![r] = Answered(req[r], "done", IF stage = "done" THEN "ok" ELSE "failed")]
    /\ slots' = slots \ {r}
    /\ UNCHANGED <<epoch, config, apply, conn, pending>>

\* slots.acquireWithin: a slot, or nothing said (nil) once the wait is over
\* or the parent's context is.
acquireWithin(r) ==
    /\ req[r].pc = "wait"
    /\ \/ /\ Cardinality(slots) < probeConcurrency
          /\ slots' = slots \cup {r}
          /\ req' = [req EXCEPT ![r].pc = "dial"]
       \/ /\ req' = [req EXCEPT ![r] = Answered(req[r], "done", "nil")]
          /\ UNCHANGED slots
    /\ UNCHANGED <<epoch, config, apply, conn, pending>>

\* probeDialer.dial: pinned, through the proxy that was looked up; else by
\* a pipe that a goroutine hands to the tunnel, once it is not suspended.
dial(r) ==
    LET d == <<r, req[r].dials + 1>> IN
    /\ req[r].pc = "dial" /\ req[r].dials < MaxDials /\ req[r].ctx = "live"
    /\ IF ~req[r].pinned
         THEN /\ apply # "suspended"      \* awaitTunnel
              /\ conn' = [conn EXCEPT ![d] = "piped"]
              /\ pending' = pending \cup {d}
              /\ req' = [req EXCEPT ![r] = Sent(req[r])]
         ELSE /\ conn' = [conn EXCEPT ![d] = "tracked"]
              /\ UNCHANGED pending
              /\ req' = [req EXCEPT ![r] = Sent(req[r])]
    /\ UNCHANGED <<epoch, config, apply, slots>>

\* The tunnel takes the connection: it routes it and registers a tracker,
\* whose hook is notifyProbeRoute; suspended, it refuses.
notifyProbeRoute(d) ==
    /\ conn[d] = "piped"
    /\ IF apply = "suspended"
         THEN conn' = [conn EXCEPT ![d] = "refused"] /\ UNCHANGED <<pending, req>>
         ELSE /\ conn' = [conn EXCEPT ![d] = "tracked"]
              /\ pending' = pending \ {d}
              /\ req' = [req EXCEPT ![d[1]] = RoutedOver(req[d[1]], d[2])]
    /\ UNCHANGED <<epoch, config, apply, slots>>

\* Mutant: the answer is stamped as it comes.
MutResponse(r, final) ==
    /\ req[r].pc = "sent" /\ conn[<<r, req[r].dials>>] = "tracked"
    /\ final \/ req[r].dials < MaxDials
    /\ req' = [req EXCEPT ![r] = IF final THEN [req[r] EXCEPT !.pc = "release", !.answer = "ok", !.stamp = epoch]
                                  ELSE [req[r] EXCEPT !.pc = "dial"]]
    /\ UNCHANGED <<epoch, config, apply, slots, conn, pending>>

\* The response: final, or a redirect to another host.
Response(r, final) ==
    /\ req[r].pc = "sent" /\ conn[<<r, req[r].dials>>] = "tracked"
    /\ final \/ req[r].dials < MaxDials
    /\ req' = [req EXCEPT ![r] = IF final THEN Answered(req[r], "release", "ok") ELSE [req[r] EXCEPT !.pc = "dial"]]
    /\ UNCHANGED <<epoch, config, apply, slots, conn, pending>>

\* client.Do fails: the deadline, a cancelled parent, a failed connection.
Fails(r) ==
    /\ req[r].pc \in {"dial", "sent"}
    /\ req' = [req EXCEPT ![r] = Answered(req[r], "release", "failed")]
    /\ UNCHANGED <<epoch, config, apply, slots, conn, pending>>

\* routedConn.Close, of a connection the HTTP client is done with: by its
\* own goroutines, so possibly after the answer.
Close(d) ==
    /\ conn[d] \in {"piped", "refused", "tracked"}
    /\ conn[d] = "refused" \/ d[2] < req[d[1]].dials \/ req[d[1]].pc \in {"release", "done"}
    /\ conn' = [conn EXCEPT ![d] = "closed"]
    /\ pending' = pending \ {d}
    /\ UNCHANGED <<epoch, config, apply, slots, req>>

\* The deferred release of the slot.
release(r) ==
    /\ req[r].pc = "release"
    /\ slots' = slots \ {r}
    /\ req' = [req EXCEPT ![r].pc = "done"]
    /\ UNCHANGED <<epoch, config, apply, conn, pending>>

\* The answer has left and nothing of the request is open: it is made again.
Return(r) ==
    /\ req[r].pc = "done" /\ \A d \in Dials : d[1] = r => conn[d] \in {"none", "closed"}
    /\ req' = [req EXCEPT ![r] = Free]
    /\ conn' = [d \in Dials |-> IF d[1] = r THEN "none" ELSE conn[d]]
    /\ UNCHANGED <<epoch, config, apply, slots, pending>>

\* The parent cancels: another source has answered, a newer check asks.
CancelParent(r) ==
    /\ req[r].pc \in {"wait", "dial", "sent"} /\ req[r].ctx = "live"
    /\ req' = [req EXCEPT ![r].ctx = "cancelled"]
    /\ UNCHANGED <<epoch, config, apply, slots, conn, pending>>

Next ==
    \/ Suspend \/ Resume \/ bumpRouteEpoch
    \/ \E r \in Requests :
         \/ \E pinned, known \in BOOLEAN : runProbe(r, pinned, known)
         \/ \E stage \in {"dns", "route", "resolve", "tcp", "handshake", "done"} : reachSteps(r, stage)
         \/ \E final \in BOOLEAN : Response(r, final)
         \/ handleReach(r) \/ pickNode(r) \/ acquireWithin(r) \/ dial(r) \/ Fails(r)
         \/ release(r) \/ Return(r) \/ CancelParent(r)
    \/ \E d \in Dials : notifyProbeRoute(d) \/ Close(d)

Spec == Init /\ [][Next]_vars

-----------------------------------------------------------------------------

Holders == {r \in Requests : req[r].pc \in {"dial", "sent", "release", "reach", "reached"}}

(* ProbeTellsItsRoute: with no configuration under way, an answer that is   *)
(* stamped with the epoch of now was made over the routes of now: the host  *)
(* never takes what an older configuration answered for the current one.    *)
(* Slots are those of the requests at work, however they end, and a route   *)
(* is awaited only for a connection the tunnel has not routed.              *)
ProbeTellsItsRoute ==
    /\ \A r \in Requests : req[r].pc = "done" /\ req[r].answer = "ok" /\ apply = "idle" /\ req[r].stamp = epoch
         => req[r].over = config
    /\ slots = Holders /\ Cardinality(slots) <= probeConcurrency
    /\ pending = {d \in Dials : conn[d] \in {"piped", "refused"}}
=============================================================================
