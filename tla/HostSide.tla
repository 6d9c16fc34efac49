------------------------------- MODULE HostSide -------------------------------
(***************************************************************************)
(* The parts that carry events to the host, side by side: each run of the  *)
(* specification is one of one part, while the others keep their state.    *)
(* CoreServices runs them beside the services of the core.                 *)
(***************************************************************************)
EXTENDS Naturals

VARIABLES len, sender, at, burst, batch, waited
VARIABLES conn, closed, broken, writer, reported, wire, serving, sent
VARIABLES conns, foreground, fgSeq, fgCalls, calls, requests, running, runners, known, excused
VARIABLES pump, activeLog, caller, emitting, last
VARIABLES
    routeNow, routeIsRunning, routePaused, routeFullStop, routeConfig, routeListeners,
    routeConfigMu, routeClosing, routeStarts, routeEpoch, routeVersion, routePicks, routeWatched,
    routeWatchSeq, routePoll, routeCallSeq, routeCalls, routeReplies, routeQueue, routeCheck,
    routeLink, routeWanted, routeSyncing, routeResub, routeRetry, routeHost, routeAnswer,
    routeAsked, routeSpent
VARIABLE part

messageVars == <<len, sender, at, burst, batch, waited>>
serverVars == <<conn, closed, broken, writer, reported, wire, serving, sent>>
trafficVars == <<conns, foreground, fgSeq, fgCalls, calls, requests, running, runners, known, excused>>
logVars == <<pump, activeLog, caller, emitting, last>>
routeVars == <<
    routeNow, routeIsRunning, routePaused, routeFullStop, routeConfig, routeListeners,
    routeConfigMu, routeClosing, routeStarts, routeEpoch, routeVersion, routePicks, routeWatched,
    routeWatchSeq, routePoll, routeCallSeq, routeCalls, routeReplies, routeQueue, routeCheck,
    routeLink, routeWanted, routeSyncing, routeResub, routeRetry, routeHost, routeAnswer,
    routeAsked, routeSpent>>

CONSTANTS
    Senders, messageQueueSize, messageBatchSize, messagePriorityBurst, messageEvictAttempts,
    Writers, FrameSize, MaxFrames,
    Requests, MaxTotal, CloseRetries, MaxSeq,
    Pumps, LogBuffer,
    StateQueueSize, Budget

ASSUME QueueAssumption ==
    /\ messageQueueSize \in Nat \ {0}
    /\ messagePriorityBurst \in Nat \ {0}
    /\ messageEvictAttempts \in Nat

ASSUME FrameAssumption == FrameSize \in Nat \ {0}

ASSUME TrafficAssumption == MaxTotal \in Nat

Messages == INSTANCE MessageQueues
Server == INSTANCE IpcServer
Traffic == INSTANCE RequestTraffic
Log == INSTANCE LogPump
Route == INSTANCE RouteWatch WITH
    now <- routeNow, isRunning <- routeIsRunning,
    paused <- routePaused, fullStop <- routeFullStop, config <- routeConfig,
    listeners <- routeListeners, configMu <- routeConfigMu, closing <- routeClosing,
    starts <- routeStarts, epoch <- routeEpoch, version <- routeVersion, picks <- routePicks,
    watched <- routeWatched, watchSeq <- routeWatchSeq, poll <- routePoll, callSeq <- routeCallSeq,
    calls <- routeCalls, replies <- routeReplies, queue <- routeQueue, check <- routeCheck,
    link <- routeLink, wanted <- routeWanted, syncing <- routeSyncing, resub <- routeResub,
    retry <- routeRetry, host <- routeHost, answer <- routeAnswer, asked <- routeAsked,
    spent <- routeSpent

HostParts == {"messages", "server", "traffic", "log", "route"}

HostInit == Messages!Init /\ Server!Init /\ Traffic!Init /\ Log!Init /\ Route!Init

HostNext ==
    \/ part = "messages" /\ Messages!Next /\ UNCHANGED <<serverVars, trafficVars, logVars, routeVars>>
    \/ part = "server" /\ Server!Next /\ UNCHANGED <<messageVars, trafficVars, logVars, routeVars>>
    \/ part = "traffic" /\ Traffic!Next /\ UNCHANGED <<messageVars, serverVars, logVars, routeVars>>
    \/ part = "log" /\ Log!Next /\ UNCHANGED <<messageVars, serverVars, trafficVars, routeVars>>
    \/ part = "route" /\ Route!Next /\ UNCHANGED <<messageVars, serverVars, trafficVars, logVars>>

hostVars == <<messageVars, serverVars, trafficVars, logVars, routeVars>>

(* A message is given up only to other senders, and bulk has its turn.      *)
QueuesAreFair == Messages!QueuesAreFair
(* What the host reads is one whole frame after the other.                  *)
FramesAreWhole == Server!FramesAreWhole
(* The traffic watch has its goroutine, and lets no last total go unsent.   *)
TrafficIsReported == Traffic!TrafficIsReported
(* mihomo's logger never waits for a pump that does not read.               *)
LoggerIsNotWedged == Log!LoggerIsNotWedged
(* The core publishes the route exactly to a host that wants it.            *)
WatchAgrees == Route!WatchAgrees
(* The host is never ahead of the core, and trusts no answer of old picks.  *)
HostJudgesRight == Route!HostJudgesRight
(* The listeners and the poll are those of the last start, stop or pause.   *)
LifecycleIsFollowed == Route!LifecycleIsFollowed
=============================================================================
