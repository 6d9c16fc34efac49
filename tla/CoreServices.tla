------------------------------ MODULE CoreServices -----------------------------
(***************************************************************************)
(* The services of the core beside its router, and the parts that carry    *)
(* events to the host, side by side: each run of the specification is one  *)
(* of one of them, while the others keep their state.                      *)
(***************************************************************************)
EXTENDS HostSide, Sequences

CONSTANTS
    Actors,      \* whoever runs at the same time: handlers, workers, walks
    Conns, Policies, PolicyEpochs,
    Ids, Urls, Headers, maxConcurrent, maxRedirects, wireLimit, maxBytes,
    Callers, Geos, Providers,
    probeConcurrency, MaxDials, ProbeEpochs,
    Sources, lookupConcurrency, LookupEpochs,
    Services, Wanted, checkConcurrency,
    Nodes, Slots, Rivals,
    Order, Inodes

\* A race has sources to ask, and asks at least one at a time
\* (params.Urls is refused empty; outboundIpConcurrency).
ASSUME LookupAssumption == Sources \in Nat \ {0} /\ lookupConcurrency \in Nat \ {0}

\* A sweep checks some services, and has a name.
ASSUME CheckAssumption ==
    /\ \A wanted \in Wanted : wanted \in Seq(Services) /\ wanted # <<>>
    /\ checkConcurrency \in Nat
    /\ "none" \notin Actors

\* The pool of probes is of some size (probeConcurrency), and redirects end.
ASSUME ProbeAssumption == probeConcurrency \in Nat /\ MaxDials \in Nat

\* Limits of subscription fetches, and what params.Headers may hold.
ASSUME FetchAssumption ==
    /\ maxConcurrent \in Nat /\ wireLimit \in Nat
    /\ Headers \subseteq SUBSET {"agent", "credential"}

\* A balancer has nodes, and the pool of delay tests is of some size.
ASSUME DelayAssumption == Nodes \in Nat \ {0} /\ Slots \in Nat

\* A file is not a word of the model.
ASSUME FileAssumption == Inodes \cap {"none", "user"} = {}

VARIABLES polActive, polEpoch, polFile, polFailedSave, polMode, polGlobalMode, polApplied,
    polHolder, polConn
VARIABLES fetchActive, fetchFetch, fetchSnapshot
VARIABLES updClaim, updCaller, updAuto, updInstalled, updUnseen, updWanted, updRegistered
VARIABLES probeEpoch, probeConfig, probeApply, probeSlots, probeReq, probeConn, probePending
VARIABLES outEpoch, outLookup, outClaims, outAnswers
VARIABLES svcClaims, svcSlots, svcSweep
VARIABLES delayWait, delayNext, delayWorker, delayRivals, delayResults, delayTested, delayMain,
    delayGot
VARIABLES fileAt, fileOwner, fileLinked, filePending, fileWalker, fileWriter
VARIABLES startMode, startPc, startLife, startHost, startPid, startHandle, startHeld, startAcl,
    startWatchdog, startJob, startCommitted, startWatching, startPeer

policyVars == <<polActive, polEpoch, polFile, polFailedSave, polMode, polGlobalMode, polApplied, polHolder,
    polConn>>
fetchVars == <<fetchActive, fetchFetch, fetchSnapshot>>
updateVars == <<updClaim, updCaller, updAuto, updInstalled, updUnseen, updWanted, updRegistered>>
probeVars == <<probeEpoch, probeConfig, probeApply, probeSlots, probeReq, probeConn, probePending>>
outboundVars == <<outEpoch, outLookup, outClaims, outAnswers>>
checkVars == <<svcClaims, svcSlots, svcSweep>>
delayVars == <<delayWait, delayNext, delayWorker, delayRivals, delayResults, delayTested, delayMain,
    delayGot>>
filesVars == <<fileAt, fileOwner, fileLinked, filePending, fileWalker, fileWriter>>
startupVars == <<startMode, startPc, startLife, startHost, startPid, startHandle, startHeld, startAcl,
    startWatchdog, startJob, startCommitted, startWatching, startPeer>>

Policy == INSTANCE ProviderPolicy WITH
    MaxEpoch <- PolicyEpochs, active <- polActive, epoch <- polEpoch, file <- polFile,
    failedSave <- polFailedSave, mode <- polMode, globalMode <- polGlobalMode,
    applied <- polApplied, holder <- polHolder, conn <- polConn
Fetch == INSTANCE SubscriptionFetch WITH
    Fetches <- Actors, active <- fetchActive, fetch <- fetchFetch, snapshot <- fetchSnapshot
Updates == INSTANCE ResourceUpdates WITH
    claim <- updClaim, caller <- updCaller, auto <- updAuto, installed <- updInstalled,
    unseen <- updUnseen, wanted <- updWanted, registered <- updRegistered
Probe == INSTANCE Probes WITH
    Requests <- Actors, MaxEpoch <- ProbeEpochs, epoch <- probeEpoch, config <- probeConfig,
    apply <- probeApply, slots <- probeSlots, req <- probeReq, conn <- probeConn,
    pending <- probePending
Outbound == INSTANCE OutboundIp WITH
    Lookups <- Actors, concurrency <- lookupConcurrency, MaxEpoch <- LookupEpochs,
    epoch <- outEpoch, lookup <- outLookup, claims <- outClaims, answers <- outAnswers
Checks == INSTANCE ServiceChecks WITH
    Sweeps <- Actors, concurrency <- checkConcurrency, claims <- svcClaims, slots <- svcSlots,
    sweep <- svcSweep
Delays == INSTANCE DelayTests WITH
    Workers <- Actors, wait <- delayWait, next <- delayNext, worker <- delayWorker,
    rivals <- delayRivals, results <- delayResults, tested <- delayTested, main <- delayMain,
    got <- delayGot
Files == INSTANCE FileOwnership WITH
    Walkers <- Actors, at <- fileAt, owner <- fileOwner, linked <- fileLinked,
    pending <- filePending, walker <- fileWalker, writer <- fileWriter
Startup == INSTANCE ManagedStartup WITH
    mode <- startMode, pc <- startPc, life <- startLife, host <- startHost, pid <- startPid,
    handle <- startHandle, held <- startHeld, acl <- startAcl, watchdog <- startWatchdog,
    job <- startJob, committed <- startCommitted, watching <- startWatching, peer <- startPeer

Init ==
    /\ part \in HostParts \cup {"policy", "fetch", "update", "probe", "outbound", "check", "delay", "files", "startup"}
    /\ HostInit
    /\ Policy!Init /\ Fetch!Init /\ Updates!Init /\ Probe!Init /\ Outbound!Init
    /\ Checks!Init /\ Delays!Init /\ Files!Init /\ Startup!Init
    /\ part # "startup" => startMode = "managed"

servicesVars == <<policyVars, fetchVars, updateVars, probeVars, outboundVars, checkVars, delayVars, filesVars, startupVars>>

Next ==
    /\ UNCHANGED part
    /\ \/ HostNext /\ UNCHANGED servicesVars
       \/ part = "policy" /\ Policy!Next
          /\ UNCHANGED <<hostVars, fetchVars, updateVars, probeVars, outboundVars, checkVars, delayVars, filesVars, startupVars>>
       \/ part = "fetch" /\ Fetch!Next
          /\ UNCHANGED <<hostVars, policyVars, updateVars, probeVars, outboundVars, checkVars, delayVars, filesVars, startupVars>>
       \/ part = "update" /\ Updates!Next
          /\ UNCHANGED <<hostVars, policyVars, fetchVars, probeVars, outboundVars, checkVars, delayVars, filesVars, startupVars>>
       \/ part = "probe" /\ Probe!Next
          /\ UNCHANGED <<hostVars, policyVars, fetchVars, updateVars, outboundVars, checkVars, delayVars, filesVars, startupVars>>
       \/ part = "outbound" /\ Outbound!Next
          /\ UNCHANGED <<hostVars, policyVars, fetchVars, updateVars, probeVars, checkVars, delayVars, filesVars, startupVars>>
       \/ part = "check" /\ Checks!Next
          /\ UNCHANGED <<hostVars, policyVars, fetchVars, updateVars, probeVars, outboundVars, delayVars, filesVars, startupVars>>
       \/ part = "delay" /\ Delays!Next
          /\ UNCHANGED <<hostVars, policyVars, fetchVars, updateVars, probeVars, outboundVars, checkVars, filesVars, startupVars>>
       \/ part = "files" /\ Files!Next
          /\ UNCHANGED <<hostVars, policyVars, fetchVars, updateVars, probeVars, outboundVars, checkVars, delayVars, startupVars>>
       \/ part = "startup" /\ Startup!Next
          /\ UNCHANGED <<hostVars, policyVars, fetchVars, updateVars, probeVars, outboundVars, checkVars, delayVars, filesVars>>

vars == <<part, hostVars, servicesVars>>

Spec == Init /\ [][Next]_vars

(* No open connection, and no restart, is past the policy in force.         *)
PolicyHolds == Policy!PolicyHolds
(* Credentials stay with their origin, and fetches with their limits.       *)
FetchIsContained == Fetch!FetchIsContained
(* A manual update keeps its claim from its first to its last step.         *)
ClaimHasItsOwner == Updates!ClaimHasItsOwner
(* An answer stamped with the epoch of now was made over the routes of now. *)
ProbeTellsItsRoute == Probe!ProbeTellsItsRoute
(* A lookup fails only after every source, and none of its epoch stops it.  *)
RaceIsFair == Outbound!RaceIsFair
(* The newest check of a service is the one that runs.                      *)
NewestCheckStands == Checks!NewestCheckStands
(* A balancer is said to fail only when all of its nodes were tested.       *)
BalancerAnswerIsWhole == Delays!BalancerAnswerIsWhole
(* A file that is root's has a walk that comes by it.                       *)
NothingStaysRoots == Files!NothingStaysRoots
(* A core that serves holds, and stops with, the process that launched it.  *)
CoreIsAnchored == Startup!CoreIsAnchored
=============================================================================
