------------------------------ MODULE RouteWatch ------------------------------
(***************************************************************************)
(* The route tracker of the core (core/route.go), the lifecycle it follows *)
(* (core/lifecycle.go), the order of method calls (core/method.go) and the *)
(* host's copy of the route (lib/providers/route_state.dart).              *)
(*                                                                         *)
(* The picks of all groups, the versions of the proxy providers and the    *)
(* strategies of the rule sets are one number that grows with every move   *)
(* mihomo makes: a pick that moves and moves back between two reads is not *)
(* a move to the tracker.  Under selectMu a refresh is one step, the event *)
(* it publishes included.  A call takes two: the refresh, then the change  *)
(* under the tracker's own lock.                                           *)
(***************************************************************************)
EXTENDS Naturals, Sequences, FiniteSetsExt, SequencesExt

CONSTANTS
    StateQueueSize,  \* messageQueueSize of the state queue
    Budget           \* bound: steps of the environment

VARIABLES
    now,        \* mihomo's picks, provider versions and rule sets
    isRunning, paused, fullStop, config, listeners,
    configMu,   \* "free", or what the holder of the lock has still to do
    closing,    \* stopListenersAfterTunClose has decided to stop
    starts,     \* generations of the channel listenersStarted
    epoch, version, picks, watched, watchSeq,   \* routeTracker
    poll,       \* pollRoute: its place and the channel it read
    callSeq, calls,  \* methodCallSeq; watchRoute calls that still run
    replies,    \* replies of watchRoute(true) on their way
    queue,      \* RouteChanged events on their way
    check,      \* a checkRoutes or probe call, from its stamp to its answer
    link,       \* the host's connection
    wanted,     \* somebody watches, the application is visible and ready
    syncing,    \* the subscription asked for: no, current, stale generation
    resub, retry, host,
    answer,     \* the answer the host keeps
    asked,      \* history: what the user asked of the listeners last
    spent       \* steps of the environment so far

core == <<epoch, version, picks, watched, watchSeq, poll, callSeq, calls>>
life == <<isRunning, paused, fullStop, config, listeners, configMu, closing, starts, asked>>
wire == <<replies, queue>>
hostVars == <<link, wanted, syncing, resub, retry, host, answer>>
vars == <<now, core, life, wire, hostVars, check, spent>>

None == [none |-> TRUE]
Stamp(e, v) == [epoch |-> e, version |-> v]

\* The environment takes one of its steps.
Env == /\ spent < Budget
       /\ spent' = spent + 1

Init ==
    /\ now = 1
    /\ isRunning = FALSE /\ paused = FALSE /\ fullStop = FALSE
    /\ config = TRUE /\ listeners = "none"
    /\ configMu = "free" /\ closing = FALSE /\ starts = 0
    /\ epoch = 0 /\ version = 0 /\ picks = 0
    /\ watched = FALSE /\ watchSeq = 0
    /\ poll = [pc |-> "none", started |-> 0]
    /\ callSeq = 0 /\ calls = {} /\ replies = {} /\ queue = <<>>
    /\ check = None
    /\ link = "up" /\ wanted = FALSE
    /\ syncing = "no" /\ resub = FALSE /\ retry = FALSE
    /\ host = [epoch |-> 0, version |-> 0, hostEpoch |-> 0, synced |-> FALSE, live |-> FALSE]
    /\ answer = None
    /\ asked = [on |-> FALSE, pause |-> "no"]
    /\ spent = 0

-----------------------------------------------------------------------------
(* The tracker. *)

routeUnchanged == 0
routeMoved == 1
routeReset == 2

\* enqueueState: a full queue drops the new event.
enqueueState(q, e) == IF Len(q) < StateQueueSize THEN Append(q, e) ELSE q

\* refreshRouteLocked, the reads of readPicks and readRuleSets included.
refreshRouteLocked(change) ==
    LET moved == IF now # picks THEN Max({change, routeMoved}) ELSE change IN
    /\ picks' = now
    /\ epoch' = IF moved = routeReset THEN epoch + 1 ELSE epoch
    /\ version' = IF moved = routeUnchanged THEN version ELSE version + 1
    /\ queue' = IF moved # routeUnchanged /\ watched
                  THEN enqueueState(queue, Stamp(epoch', version')) ELSE queue

\* refreshRoute from a provider update or from a poll that was cancelled
\* after its tick; changeRoute(routeMoved) from a geo update.
changeRoute(change) ==
    /\ refreshRouteLocked(change)
    /\ UNCHANGED <<now, watched, watchSeq, poll, callSeq, calls, life, replies, hostVars, check>>

\* dispatchMethodCall: calls are numbered as they arrive and run on their own.
dispatchMethodCall(watch) ==
    /\ callSeq' = callSeq + 1
    /\ calls' = calls \cup {[seq |-> callSeq + 1, watch |-> watch, pc |-> "refresh"]}

\* handleWatchRoute, first the refresh ...
WatchRefresh(c) ==
    /\ c.pc = "refresh"
    /\ refreshRouteLocked(routeUnchanged)
    /\ calls' = (calls \ {c}) \cup {[c EXCEPT !.pc = "apply"]}
    /\ UNCHANGED <<now, watched, watchSeq, poll, callSeq, life, replies, hostVars, check, spent>>

\* Mutant: the watch that runs last wins.
MutHandleWatchRoute(c) ==
    /\ c.pc = "apply"
    /\ watchSeq' = c.seq
    /\ watched' = c.watch
    /\ poll' = IF ~c.watch THEN [poll EXCEPT !.pc = "none"]
               ELSE IF poll.pc = "none" THEN [poll EXCEPT !.pc = "tick"] ELSE poll
    /\ calls' = calls \ {c}
    /\ replies' = IF c.watch /\ link = "up" THEN replies \cup {Stamp(epoch, version)} ELSE replies
    /\ UNCHANGED <<now, epoch, version, picks, callSeq, life, queue, hostVars, check, spent>>

\* ... then the change; a call that a newer one overtook only answers.  The
\* reply is on its way as soon as the lock is free.
handleWatchRoute(c) ==
    /\ c.pc = "apply"
    /\ IF c.seq < watchSeq
         THEN UNCHANGED <<watchSeq, watched, poll>>
         ELSE /\ watchSeq' = c.seq
              /\ watched' = c.watch
              /\ poll' = IF ~c.watch THEN [poll EXCEPT !.pc = "none"]
                         ELSE IF poll.pc = "none" THEN [poll EXCEPT !.pc = "tick"] ELSE poll
    /\ calls' = calls \ {c}
    /\ replies' = IF c.watch /\ link = "up" THEN replies \cup {Stamp(epoch, version)} ELSE replies
    /\ UNCHANGED <<now, epoch, version, picks, callSeq, life, queue, hostVars, check, spent>>

\* pollRoute: a tick, with the channel of the next start read before the flag.
PollTick ==
    /\ poll.pc = "tick"
    /\ poll' = [pc |-> "look", started |-> starts]
    /\ UNCHANGED <<now, epoch, version, picks, watched, watchSeq, callSeq, calls, life, wire, hostVars, check, spent>>

\* A running core is read again; the poll of a stopped one parks.
PollLook ==
    /\ poll.pc = "look"
    /\ \/ /\ isRunning
          /\ refreshRouteLocked(routeUnchanged)
          /\ poll' = [poll EXCEPT !.pc = "tick"]
       \/ /\ ~isRunning
          /\ poll' = [poll EXCEPT !.pc = "parked"]
          /\ UNCHANGED <<epoch, version, picks, queue>>
    /\ UNCHANGED <<now, watched, watchSeq, callSeq, calls, life, replies, hostVars, check, spent>>

\* The channel it read is closed.
PollWake ==
    /\ poll.pc = "parked" /\ poll.started < starts
    /\ poll' = [poll EXCEPT !.pc = "tick"]
    /\ UNCHANGED <<now, epoch, version, picks, watched, watchSeq, callSeq, calls, life, wire, hostVars, check, spent>>

-----------------------------------------------------------------------------
(* The lifecycle, under configMu. *)

\* updateListeners for a configuration and the flags as they are after the
\* step: external listeners, reduced to which of them are open.
updateListeners(run, p, full) ==
    IF ~config \/ ~run THEN listeners
    ELSE IF p /\ full THEN "none" ELSE IF p THEN "noTun" ELSE "all"

\* handleStartListener up to the flag.
handleStartListener ==
    /\ configMu = "free"
    /\ isRunning' = TRUE
    /\ configMu' = "start"
    /\ asked' = [on |-> TRUE, pause |-> IF asked.on THEN asked.pause ELSE "no"]
    /\ UNCHANGED <<now, core, paused, fullStop, config, listeners, closing, starts, wire, hostVars, check>>

\* Mutant: the start is not signalled.
MutStarted ==
    /\ configMu = "start"
    /\ listeners' = updateListeners(isRunning, paused, fullStop)
    /\ refreshRouteLocked(routeReset)
    /\ configMu' = "free"
    /\ UNCHANGED <<starts, now, watched, watchSeq, poll, callSeq, calls, isRunning, paused, fullStop, config, closing, asked, replies, hostVars, check, spent>>

\* The rest of it: signalListenersStarted, the listeners and the new epoch.
Started ==
    /\ configMu = "start"
    /\ starts' = starts + 1
    /\ listeners' = updateListeners(isRunning, paused, fullStop)
    /\ refreshRouteLocked(routeReset)
    /\ configMu' = "free"
    /\ UNCHANGED <<now, watched, watchSeq, poll, callSeq, calls, isRunning, paused, fullStop, config, closing, asked, replies, hostVars, check, spent>>

\* Mutant: a stop leaves the pause in place.
MutHandleStopListener ==
    /\ configMu = "free"
    /\ isRunning' = FALSE /\ listeners' = "none"
    /\ asked' = [on |-> FALSE, pause |-> "no"]
    /\ UNCHANGED <<now, core, paused, fullStop, config, configMu, starts, wire, hostVars, check>>

\* handleStopListener
handleStopListener ==
    /\ configMu = "free"
    /\ isRunning' = FALSE /\ paused' = FALSE /\ listeners' = "none"
    /\ asked' = [on |-> FALSE, pause |-> "no"]
    /\ UNCHANGED <<now, core, fullStop, config, configMu, starts, wire, hostVars, check>>

\* stopListenersAfterTunClose looks at the flags without the lock and stops
\* later, whatever they are by then.
stopListenersAfterTunClose ==
    /\ isRunning /\ ~paused /\ ~closing
    /\ closing' = TRUE
    /\ UNCHANGED <<now, core, isRunning, paused, fullStop, config, listeners, configMu, starts, asked, wire, hostVars, check>>

\* handleSetOnDemandPaused on a running core.
handleSetOnDemandPaused(p, full) ==
    /\ configMu = "free" /\ isRunning
    /\ fullStop' = full /\ paused' = p
    /\ listeners' = updateListeners(isRunning, p, full)
    /\ refreshRouteLocked(routeReset)
    /\ asked' = [asked EXCEPT !.pause = IF ~p THEN "no" ELSE IF full THEN "full" ELSE "tun"]
    /\ UNCHANGED <<now, watched, watchSeq, poll, callSeq, calls, isRunning, config, configMu, closing, starts, replies, hostVars, check>>

\* A configuration is applied: the listeners follow, the epoch is new.
applyConfig ==
    /\ configMu = "free"
    /\ config' = TRUE
    /\ listeners' = IF ~isRunning THEN listeners
                    ELSE IF paused /\ fullStop THEN "none" ELSE IF paused THEN "noTun" ELSE "all"
    /\ refreshRouteLocked(routeReset)
    /\ UNCHANGED <<now, watched, watchSeq, poll, callSeq, calls, isRunning, paused, fullStop, configMu, closing, starts, asked, replies, hostVars, check>>

\* stopRouteWatch, which handleShutdown calls first: the stop is newer than
\* every call dispatched so far.
stopRouteWatch ==
    /\ link = "left"
    /\ callSeq' = callSeq + 1
    /\ watchSeq' = Max({watchSeq, callSeq + 1})
    /\ watched' = FALSE
    /\ poll' = [poll EXCEPT !.pc = "none"]
    /\ link' = "stopping"
    /\ UNCHANGED <<now, epoch, version, picks, calls, life, wire, wanted, syncing, resub, retry, host, answer, check, spent>>

\* The rest of handleShutdown, under configMu.
handleShutdown ==
    /\ link = "stopping" /\ configMu = "free"
    /\ isRunning' = FALSE /\ paused' = FALSE /\ listeners' = "none" /\ config' = FALSE
    /\ asked' = [on |-> FALSE, pause |-> "no"]
    /\ link' = "down"
    /\ UNCHANGED <<now, core, fullStop, configMu, closing, starts, wire, wanted, syncing, resub, retry, host, answer, check, spent>>

-----------------------------------------------------------------------------
(* The host's RouteTracker. *)

\* _subscribe, when it is ready and none is asked for: the call is sent.
Subscribe ==
    /\ syncing' = "current" /\ resub' = FALSE /\ retry' = FALSE
    /\ dispatchMethodCall(TRUE)

\* _subscribe
subscribe ==
    IF ~wanted \/ link # "up"
      THEN retry' = FALSE /\ UNCHANGED <<syncing, resub, callSeq, calls>>
    ELSE IF syncing # "no"
      THEN resub' = TRUE /\ retry' = FALSE /\ UNCHANGED <<syncing, callSeq, calls>>
    ELSE Subscribe

\* ++_generation: a subscription under way is not the current one any more.
Stale == IF syncing = "no" THEN "no" ELSE "stale"

\* Mutant: a host that reads the counters anew keeps its epoch.
MutApplySnapshot(s) ==
    host' = [epoch |-> s.epoch, version |-> s.version, hostEpoch |-> host.hostEpoch, synced |-> TRUE, live |-> TRUE]

\* applySnapshot, for the reply and for an event alike.
applySnapshot(s) ==
    host' = [epoch |-> s.epoch, version |-> s.version, synced |-> TRUE, live |-> TRUE,
             hostEpoch |-> IF host.synced THEN host.hostEpoch ELSE host.hostEpoch + 1]

\* attach, or the application comes to the front.
attach ==
    /\ ~wanted
    /\ wanted' = TRUE
    /\ IF link # "up" THEN retry' = FALSE /\ UNCHANGED <<syncing, resub, callSeq, calls>>
       ELSE IF syncing # "no" THEN resub' = TRUE /\ retry' = FALSE /\ UNCHANGED <<syncing, callSeq, calls>>
       ELSE Subscribe
    /\ UNCHANGED <<now, epoch, version, picks, watched, watchSeq, poll, life, wire, link, host, answer, check>>

\* _unsubscribe
unsubscribe ==
    /\ wanted
    /\ wanted' = FALSE
    /\ retry' = FALSE
    /\ syncing' = Stale
    /\ host' = [host EXCEPT !.live = FALSE]
    /\ IF link = "up" THEN dispatchMethodCall(FALSE) ELSE UNCHANGED <<callSeq, calls>>
    /\ UNCHANGED <<now, epoch, version, picks, watched, watchSeq, poll, life, wire, link, resub, answer, check>>

\* What follows the await in _subscribe: a further one, when it was asked for.
\* It is ready only while somebody watches and the core is connected.
Again(delay) ==
    /\ IF resub /\ wanted /\ link = "up" THEN Subscribe
       ELSE /\ syncing' = "no"
            /\ retry' = (delay /\ ~resub)
            /\ UNCHANGED <<resub, callSeq, calls>>

\* The reply of the subscription that is under way; that of an older call
\* may be taken for it, which its id rules out in the code.
SubscribeReplied(s) ==
    /\ s \in replies
    /\ replies' = replies \ {s}
    /\ IF syncing = "current" THEN applySnapshot(s) ELSE UNCHANGED host
    /\ IF syncing = "no" THEN UNCHANGED <<syncing, resub, retry, callSeq, calls>> ELSE Again(FALSE)
    /\ UNCHANGED <<now, epoch, version, picks, watched, watchSeq, poll, life, queue, link, wanted, answer, check, spent>>

\* It fails: the connection broke, or nothing came in time.
SubscribeFailed ==
    /\ syncing # "no"
    /\ Again(syncing = "current")
    /\ replies' = {}
    /\ UNCHANGED <<now, epoch, version, picks, watched, watchSeq, poll, life, queue, link, wanted, host, answer, check>>

\* _retryLater
Retry ==
    /\ retry
    /\ subscribe
    /\ UNCHANGED <<now, epoch, version, picks, watched, watchSeq, poll, life, wire, link, wanted, host, answer, check, spent>>

\* A RouteChanged event reaches the host, which applies it whatever it has.
RouteChanged ==
    /\ queue # <<>>
    /\ applySnapshot(Head(queue))
    /\ queue' = Tail(queue)
    /\ UNCHANGED <<now, core, life, replies, link, wanted, syncing, resub, retry, answer, check, spent>>

\* Mutant: the counters count as read although they belong to the old core.
MutDropSync == host' = [host EXCEPT !.live = FALSE]

\* _dropSync, when the core is not connected any more.
dropSync == host' = [host EXCEPT !.synced = FALSE, !.live = FALSE]

\* The host leaves the core, which goes on and shuts down in its own time.
HostLeaves ==
    /\ link = "up"
    /\ link' = "left"
    /\ retry' = FALSE /\ syncing' = Stale
    /\ dropSync
    /\ replies' = {} /\ queue' = <<>> /\ check' = None
    /\ UNCHANGED <<now, core, life, wanted, resub, answer>>

\* The process of the core dies and is started anew; the host learns of it.
Crash ==
    /\ link = "up"
    /\ link' = "down"
    /\ retry' = FALSE /\ syncing' = Stale
    /\ dropSync
    /\ epoch' = 0 /\ version' = 0 /\ picks' = 0 /\ watched' = FALSE /\ watchSeq' = 0
    /\ poll' = [pc |-> "none", started |-> 0]
    /\ callSeq' = 0 /\ calls' = {} /\ replies' = {} /\ queue' = <<>> /\ check' = None
    /\ isRunning' = FALSE /\ paused' = FALSE /\ fullStop' = FALSE /\ config' = FALSE
    /\ listeners' = "none" /\ configMu' = "free" /\ closing' = FALSE /\ starts' = 0
    /\ asked' = [on |-> FALSE, pause |-> "no"]
    /\ UNCHANGED <<now, wanted, resub, answer>>

\* The core is connected: the host subscribes.
Connect ==
    /\ link = "down"
    /\ link' = "up"
    /\ IF ~wanted THEN retry' = FALSE /\ UNCHANGED <<syncing, resub, callSeq, calls>>
       ELSE IF syncing # "no" THEN resub' = TRUE /\ retry' = FALSE /\ UNCHANGED <<syncing, callSeq, calls>>
       ELSE Subscribe
    /\ UNCHANGED <<now, epoch, version, picks, watched, watchSeq, poll, life, wire, wanted, host, answer, check, spent>>

-----------------------------------------------------------------------------
(* Answers and the route they were produced under. *)

\* handleCheckRoutes reads the stamp ...
CheckStamp ==
    /\ link = "up" /\ check = None
    /\ check' = [pc |-> "stamped", stamp |-> Stamp(epoch, version), hostEpoch |-> host.hostEpoch, exit |-> 0]
    /\ UNCHANGED <<now, core, life, wire, hostVars>>

\* Mutant: the stamp is read after the routes were resolved.
MutCheckResolve ==
    /\ check # None /\ check.pc \in {"stamped", "resolved"}
    /\ check' = IF check.pc = "stamped" THEN [check EXCEPT !.pc = "resolved", !.exit = now]
                ELSE [check EXCEPT !.pc = "done", !.stamp = Stamp(epoch, version)]
    /\ UNCHANGED <<now, core, life, wire, hostVars, spent>>

\* ... then resolves the routes.
CheckResolve ==
    /\ check # None /\ check.pc = "stamped"
    /\ check' = [check EXCEPT !.pc = "done", !.exit = now]
    /\ UNCHANGED <<now, core, life, wire, hostVars, spent>>

\* hasMovedSince, and isFresh
isFresh(c) ==
    /\ host.synced
    /\ c.stamp = Stamp(host.epoch, host.version)
    /\ c.hostEpoch = host.hostEpoch

\* isBehind
isBehind(s) == s.epoch > host.epoch \/ s.version > host.version

\* The answer arrives; one that is ahead of the host makes it read again.
Answered ==
    /\ check # None /\ check.pc = "done"
    /\ answer' = check
    /\ check' = None
    /\ IF isBehind(check.stamp) THEN subscribe ELSE UNCHANGED <<syncing, resub, retry, callSeq, calls>>
    /\ UNCHANGED <<now, epoch, version, picks, watched, watchSeq, poll, life, wire, link, wanted, host, spent>>

\* External: mihomo moves a pick, loads a provider or a rule set.
Move ==
    /\ now' = now + 1
    /\ UNCHANGED <<core, life, wire, hostVars, check>>

-----------------------------------------------------------------------------

Environment ==
    /\ Env
    /\ \/ Move
       \/ \E c \in {routeUnchanged, routeMoved} : changeRoute(c)
       \/ handleStartListener
       \/ handleStopListener /\ UNCHANGED closing
       \/ stopListenersAfterTunClose
       \/ \E p, f \in BOOLEAN : handleSetOnDemandPaused(p, f)
       \/ applyConfig
       \/ attach \/ unsubscribe
       \/ SubscribeFailed
       \/ HostLeaves \/ Crash
       \/ CheckStamp

\* The stop that stopListenersAfterTunClose decided on.
TunClosed == closing /\ closing' = FALSE /\ handleStopListener /\ UNCHANGED spent

Poll == PollTick \/ PollLook \/ PollWake
CallStep == \E c \in calls : WatchRefresh(c) \/ handleWatchRoute(c)

Next ==
    \/ Environment
    \/ TunClosed
    \/ Started \/ stopRouteWatch \/ handleShutdown
    \/ CallStep
    \/ Poll
    \/ \E s \in replies : SubscribeReplied(s)
    \/ Retry \/ RouteChanged \/ Connect
    \/ CheckResolve \/ Answered

Spec == Init /\ [][Next]_vars

-----------------------------------------------------------------------------

\* Nothing is under way between the host and the core.
Quiet == calls = {} /\ replies = {} /\ queue = <<>> /\ syncing = "no" /\ ~retry

(* WatchAgrees: once the calls of a host have all run, in whatever order    *)
(* their goroutines took the lock, the core publishes the route exactly if  *)
(* the host still wants it; after the host left and the core shut down,     *)
(* nobody is published to, also by a watch that ran after the stop.         *)
WatchAgrees ==
    Quiet => /\ link = "up" => watched = wanted
             /\ link = "up" /\ wanted => host.synced
             /\ link = "down" => ~watched

(* HostJudgesRight: the counters the host judges answers by are never ahead *)
(* of the core it is connected to, crashes and late replies included.  (A   *)
(* host that is behind, of a reply that an event overtook or an event that  *)
(* was dropped, is told so by the next answer; one that is ahead would      *)
(* never be.)  And an answer that it takes for fresh, while its counters    *)
(* are those of the core and the core has read the picks, was resolved by   *)
(* the picks of now.                                                        *)
HostJudgesRight ==
    /\ link = "up" /\ host.synced => host.epoch <= epoch /\ host.version <= version
    /\ answer # None /\ isFresh(answer) /\ link = "up" /\ picks = now
         /\ Stamp(host.epoch, host.version) = Stamp(epoch, version)
       => answer.exit = now

(* ListenersAsAsked: with a configuration, and no lifecycle call under way, *)
(* the open listeners are those of the last start, stop or pause: a start   *)
(* after a stop is never paused by a pause of before.                       *)
ListenersAsAsked ==
    config /\ configMu = "free" =>
        listeners = IF ~asked.on \/ asked.pause = "full" THEN "none"
                    ELSE IF asked.pause = "tun" THEN "noTun" ELSE "all"

(* PollIsAwake: while the core publishes the route and runs, the poll will *)
(* read the picks again: it never waits for a start that has already been, *)
(* also when the core started as the poll was about to park.               *)
PollIsAwake ==
    watched /\ isRunning /\ configMu = "free" =>
        \/ poll.pc \in {"tick", "look"}
        \/ poll.pc = "parked" /\ poll.started < starts

(* LifecycleIsFollowed: the listeners and the poll follow the starts, stops *)
(* and pauses in the order they took configMu (lifecycle.go, route.go).     *)
LifecycleIsFollowed == ListenersAsAsked /\ PollIsAwake
=============================================================================
