----------------------------- MODULE RcxMachine -----------------------------
(***************************************************************************)
(* Suspicion, confirmation and failover in the automatic-routing machine   *)
(* (core/rcx/machine.go, driven by core/rcx/engine.go).                    *)
(*                                                                         *)
(* A group keeps a current node.  Failed dials make it suspect; the planner*)
(* then buys a check of the current node together with one of a standby,   *)
(* and the two results decide whether the node is dead or the link is down.*)
(* Checks run on their own goroutines: a result may come back after the    *)
(* network changed, after the user moved the group, or after the group was *)
(* dropped and bound again.                                                *)
(*                                                                         *)
(* Every input holds the engine lock until it has settled every group and  *)
(* planned the next checks (Engine.stepLocked): `phase` leaves "idle" with *)
(* the input and only the rest of that step can run until it is back.      *)
(*                                                                         *)
(* Left open here: the order of the ranking (tiers, scores), so the best   *)
(* candidate is any eligible member; the token buckets, so a check may not *)
(* be affordable; the activity windows of maintenance and discovery.  The  *)
(* groups follow a profile that neither pauses nor fixes a member nor falls*)
(* back to DIRECT when stranded, in the tunnel mode that uses them.        *)
(***************************************************************************)
EXTENDS Naturals, FiniteSets

CONSTANTS
    Groups,           \* select groups bound to a profile
    Keys,             \* node identities
    Members,          \* group -> its nodes, when the config has the group
    Envs,             \* network environments
    None,             \* no node, no job, no confirmation, any network
    Inputs,           \* the optional inputs of this instance
    MaxInputs,        \* bound: inputs of the host in one behaviour
    MaxReports,       \* bound: reports of mihomo in one behaviour
    Rebinds,          \* what SetTopology may leave bound: sets of groups
    SuspectDials,     \* suspectDialFails
    ProbeConcurrency, \* probeConcurrency
    RecoverPassSize,  \* recoverPassSize
    LinkTicks,        \* linkWindow, in ticks of probeRepeatGap
    LastPass,         \* last index of recoverBackoff
    Backoff           \* recoverBackoff, in the same ticks

\* The user's actions, and the inputs an instance may leave out to stay small.
UserActions == {"change", "pin", "here", "auto", "manual"}
AllInputs == UserActions \cup
    {"check", "pick", "test", "doze", "stop", "resume", "stale", "refuse",
     "improve"}

ASSUME MachineAssumption ==
    /\ None \notin Keys \cup Envs \cup Groups
    /\ IsFiniteSet(Keys)
    /\ Members \in [Groups -> SUBSET Keys]
    /\ Inputs \subseteq AllInputs
    /\ MaxInputs \in Nat
    /\ MaxReports \in Nat
    /\ Rebinds \subseteq SUBSET Groups
    /\ SuspectDials \in Nat \ {0}
    /\ ProbeConcurrency \in Nat \ {0}
    /\ RecoverPassSize \in Nat \ {0}
    /\ LinkTicks \in Nat \ {0}
    /\ LastPass \in Nat
    /\ Backoff \in [0..LastPass -> Nat]

VARIABLES
    running,     \* the core routes
    doze,        \* Android Doze: mode Sleep
    envKey,      \* the network the device is on
    facts,       \* network -> node -> what is known
    link,        \* ticks for which the link stays proven (linkOKAt)
    bound,       \* groups of m.groups
    group,       \* group -> groupState
    control,     \* group -> controlRecord, kept while the group is away
    inflight,    \* node -> the check that runs on it, or None
    gap,         \* nodes probed less than probeRepeatGap ago
    phase,       \* "idle", or how far the step under e.mu got
    todo,        \* groups the settle or plan loop has still to visit
    inputs,      \* inputs of the host so far
    reports,     \* reports of mihomo so far
    heard        \* history: ticks for which a success of any network is recent

vars == <<running, doze, envKey, facts, link, bound, group, control,
          inflight, gap, phase, todo, inputs, reports, heard>>

-----------------------------------------------------------------------------
(* Evidence: Facts of one node on one network.                             *)

\* failRun only matters up to 2.  Two fields are history: whether the engine's
\* own last recorded check of the node failed, and on which network it ran.
Facts == [health : {"unknown", "alive", "stale", "dead"}, failRun : 0..2,
          dials : 0..SuspectDials, failed : BOOLEAN, from : Envs \cup {None}]

NoFacts == [health |-> "unknown", failRun |-> 0, dials |-> 0,
            failed |-> FALSE, from |-> None]

noteOK(f) == [f EXCEPT !.health = "alive", !.failRun = 0, !.dials = 0]

\* The node is not dead yet; a success that is older no longer counts as alive.
noteProbeFail(f) ==
    [f EXCEPT !.health = IF @ = "alive" THEN "stale" ELSE @,
              !.failRun = IF @ = 2 THEN 2 ELSE @ + 1]

markDead(f) == [f EXCEPT !.health = "dead"]

\* Mutant: failed dials keep adding up past the threshold.
MutNoteDialFail(f) == [f EXCEPT !.dials = @ + 1]

\* Failed dials within dialFailWindow; more than SuspectDials say no more.
noteDialFail(f) ==
    [f EXCEPT !.dials = IF @ = SuspectDials THEN @ ELSE @ + 1]

dead(k) == facts[envKey][k].health = "dead"

-----------------------------------------------------------------------------
(* Groups, confirmations and checks.                                       *)

Confirmation == [key : Keys, standby : Keys \cup {None}, pending : Nat,
                 failed : BOOLEAN, standbyDown : BOOLEAN]

GroupState == [members : SUBSET Keys, now : Keys \cup {None},
               action : {"hold", "switch", "stranded", "manual"},
               force : BOOLEAN, suspect : BOOLEAN,
               confirm : Confirmation \cup {None},
               recoverPass : 0..LastPass, recoverAt : Nat]

NewGroup == [members |-> {}, now |-> None, action |-> "hold", force |-> FALSE,
             suspect |-> FALSE, confirm |-> None, recoverPass |-> 0,
             recoverAt |-> 0]

Control == [mode : {"auto", "pinned", "manual"}, pin : Keys \cup {None},
            pinEnv : Envs \cup {None}, excluded : SUBSET Keys]

NewControl == [mode |-> "auto", pin |-> None, pinEnv |-> None,
               excluded |-> {}]

\* A check; env is history: the network it was sent on.  The job itself
\* carries a network only when it is a diagnosis.
Job == [group : Groups, kind : {"confirm", "standby", "recover", "check", "user"},
        env : Envs]

\* nil is neither a check nor a confirmation.
ASSUME NoneAssumption == None \notin Job \cup Confirmation

Busy == {k \in Keys : inflight[k] # None}

Confirming(k, g) ==
    /\ inflight[k] # None
    /\ inflight[k].kind \in {"confirm", "standby"}
    /\ inflight[k].group = g

\* groupOf: the bound groups the node is a member of.
groupOf(k) == {g \in bound : k \in group[g].members}

TypeOK ==
    /\ running \in BOOLEAN
    /\ doze \in BOOLEAN
    /\ envKey \in Envs
    /\ facts \in [Envs -> [Keys -> Facts]]
    /\ link \in 0..LinkTicks
    /\ bound \subseteq Groups
    /\ group \in [Groups -> GroupState]
    /\ control \in [Groups -> Control]
    /\ inflight \in [Keys -> Job \cup {None}]
    /\ gap \subseteq Keys
    /\ phase \in {"idle", "settle", "plan"}
    /\ todo \subseteq Groups
    /\ inputs \in Nat
    /\ reports \in Nat
    /\ heard \in 0..LinkTicks

\* newMachine, before the first SetTopology.
Init ==
    /\ running = FALSE
    /\ doze = FALSE
    /\ envKey \in Envs
    /\ facts = [e \in Envs |-> [k \in Keys |-> NoFacts]]
    /\ link = 0
    /\ bound = {}
    /\ group = [g \in Groups |-> NewGroup]
    /\ control = [g \in Groups |-> NewControl]
    /\ inflight = [k \in Keys |-> None]
    /\ gap = {}
    /\ phase = "idle"
    /\ todo = {}
    /\ inputs = 0
    /\ reports = 0
    /\ heard = 0

\* Every input ends in Engine.stepLocked.
stepLocked == phase = "idle" /\ phase' = "settle"

\* The host's inputs and mihomo's reports, which an instance bounds.
hostInput ==
    /\ inputs < MaxInputs
    /\ inputs' = inputs + 1
    /\ UNCHANGED reports

report ==
    /\ reports < MaxReports
    /\ reports' = reports + 1
    /\ UNCHANGED inputs

-----------------------------------------------------------------------------
(* Results of checks.                                                      *)

linkProven == link > 0

\* confirmation.record: whichever check of the group came back.
record(c, job, failed) ==
    [c EXCEPT !.pending = @ - 1,
              !.failed = IF job.kind = "confirm" THEN failed ELSE @,
              !.standbyDown = IF job.kind = "standby" THEN failed ELSE @]

\* The next recovery pass waits out the backoff of its number.
backOff(gs) ==
    LET pass == IF gs.recoverPass = LastPass THEN LastPass
                ELSE gs.recoverPass + 1
    IN [gs EXCEPT !.recoverPass = pass, !.recoverAt = Backoff[pass]]

\* Mutant: the unproven link is not held against the verdict.
MutLinkLooksDown(c, proven) == c.standby # None /\ c.standbyDown

\* resolveConfirm's second case: both checks failed, or there was no standby
\* to compare with while nothing else proves the link.
LinkLooksDown(c, proven) ==
    \/ c.standby # None /\ c.standbyDown
    \/ c.standby = None /\ ~proven

\* Mutant: a confirmation whose suspect answered stays open.
MutResolved(gs, c, proven) ==
    IF c.failed THEN [gs EXCEPT !.confirm = None, !.suspect = FALSE]
    ELSE [gs EXCEPT !.confirm = c]

\* resolveConfirm on the group.
resolved(gs, c, proven) ==
    LET cleared == [gs EXCEPT !.confirm = None, !.suspect = FALSE]
    IN IF c.failed /\ LinkLooksDown(c, proven) THEN backOff(cleared)
       ELSE cleared

\* resetRecover: a success ends the backoff of every group with the node.
resetRecover(gs) == [gs EXCEPT !.recoverPass = 0, !.recoverAt = 0]

FailedTwice(f) == f.failRun >= 2

\* onProbeResult of a node check: it is recorded on the network of now.
ProbeResult(k, ok) ==
    /\ stepLocked
    /\ inflight[k] # None
    /\ LET job == inflight[k]
           g == job.group
           f0 == [facts[envKey][k] EXCEPT !.failed = ~ok, !.from = job.env]
           noted == IF ok THEN noteOK(f0) ELSE noteProbeFail(f0)
           proven == ok \/ linkProven
           pair == /\ g \in bound
                   /\ group[g].confirm # None
                   /\ job.kind \in {"confirm", "standby"}
           c == record(group[g].confirm, job, ~ok)
           done == pair /\ c.pending <= 0
           condemned ==
             IF done /\ c.failed /\ ~LinkLooksDown(c, proven) THEN {c.key}
             ELSE IF ~pair /\ ~ok /\ proven /\ FailedTwice(noted) THEN {k}
             ELSE {}
           recovered(h) == IF ok /\ h \in groupOf(k) THEN resetRecover(group[h])
                           ELSE group[h]
       IN /\ facts' = [facts EXCEPT ![envKey] =
                         [n \in Keys |->
                           LET f == IF n = k THEN noted ELSE @[n]
                           IN IF n \in condemned THEN markDead(f) ELSE f]]
          /\ group' = [h \in Groups |->
                         IF h = g /\ done THEN resolved(recovered(g), c, proven)
                         ELSE IF h = g /\ pair
                           THEN [recovered(g) EXCEPT !.confirm = c]
                         ELSE recovered(h)]
          /\ link' = IF ok THEN LinkTicks ELSE link
          /\ heard' = IF ok THEN LinkTicks ELSE heard
    /\ inflight' = [inflight EXCEPT ![k] = None]
    /\ todo' = bound
    /\ UNCHANGED <<running, doze, envKey, bound, control, gap, inputs,
                   reports>>

-----------------------------------------------------------------------------
(* Reports of mihomo, drained by the engine.                               *)

\* keysOf: only nodes of bound groups are known.
Known == {k \in Keys : groupOf(k) # {}}

\* onTraffic: data moved through the nodes.
Traffic(k) ==
    /\ stepLocked
    /\ report
    /\ k \in Known
    /\ facts' = [facts EXCEPT ![envKey][k] = noteOK(@)]
    /\ link' = LinkTicks
    /\ heard' = LinkTicks
    /\ todo' = bound
    /\ UNCHANGED <<running, doze, envKey, bound, group, control, inflight,
                   gap>>

\* onDialFailures: enough failed dials make the node suspect in every group
\* that uses it now.
DialFailure(k) ==
    /\ stepLocked
    /\ report
    /\ k \in Known
    /\ LET f == noteDialFail(facts[envKey][k])
       IN /\ facts' = [facts EXCEPT ![envKey][k] = f]
          /\ group' = [g \in Groups |->
                         IF /\ f.dials = SuspectDials
                            /\ g \in groupOf(k)
                            /\ group[g].now = k
                         THEN [group[g] EXCEPT !.suspect = TRUE]
                         ELSE group[g]]
    /\ todo' = bound
    /\ UNCHANGED <<running, doze, envKey, link, bound, control, inflight,
                   gap, heard>>

\* onURLTest: somebody else's test of a node the engine is not probing.
URLTest(k, ok) ==
    /\ stepLocked
    /\ report
    /\ "test" \in Inputs
    /\ k \in Known
    /\ inflight[k] = None
    /\ facts' = [facts EXCEPT ![envKey][k] =
                   IF ok THEN noteOK(@) ELSE noteProbeFail(@)]
    /\ link' = IF ok THEN LinkTicks ELSE link
    /\ heard' = IF ok THEN LinkTicks ELSE heard
    /\ todo' = bound
    /\ UNCHANGED <<running, doze, envKey, bound, group, control, inflight,
                   gap>>

-----------------------------------------------------------------------------
(* Inputs from the host.                                                   *)

SetRunning(on) ==
    /\ stepLocked
    /\ hostInput
    /\ on \/ "stop" \in Inputs
    /\ running # on
    /\ running' = on
    /\ todo' = bound
    /\ UNCHANGED <<doze, envKey, facts, link, bound, group, control,
                   inflight, gap, heard>>

\* onHints: Doze begins or ends.
Doze(on) ==
    /\ stepLocked
    /\ hostInput
    /\ "doze" \in Inputs
    /\ doze # on
    /\ doze' = on
    /\ todo' = bound
    /\ UNCHANGED <<running, envKey, facts, link, bound, group, control,
                   inflight, gap, heard>>

\* onHints: another network.  The proof of the link and the backoffs go;
\* suspicion, confirmations and running checks stay.
ChangeNetwork(e) ==
    /\ stepLocked
    /\ hostInput
    /\ e # envKey
    /\ envKey' = e
    /\ link' = 0
    /\ group' = [g \in Groups |-> IF g \in bound THEN resetRecover(group[g])
                                  ELSE group[g]]
    /\ todo' = bound
    /\ UNCHANGED <<running, doze, facts, bound, control, inflight, gap,
                   heard>>

\* onHints: the device woke from sleep.
Resume ==
    /\ stepLocked
    /\ hostInput
    /\ "resume" \in Inputs
    /\ link' = 0
    /\ todo' = bound
    /\ UNCHANGED <<running, doze, envKey, facts, bound, group, control,
                   inflight, gap, heard>>

\* rebuild on a new topology or user layer: a group that stays bound keeps its
\* state, one that comes back starts afresh, and the config says which member
\* each group uses and whether it has the group at all.
Rebuild(next, offered, current) ==
    /\ stepLocked
    /\ hostInput
    /\ bound' = next
    /\ group' = [g \in Groups |->
                   IF g \notin next THEN NewGroup
                   ELSE LET kept == IF g \in bound THEN group[g] ELSE NewGroup
                        IN IF g \in offered
                             THEN [kept EXCEPT !.members = Members[g],
                                               !.now = current[g]]
                             ELSE [kept EXCEPT !.members = {}, !.now = None]]
    /\ todo' = next
    /\ UNCHANGED <<running, doze, envKey, facts, link, control, inflight,
                   gap, heard>>

SetTopology ==
    \E next \in Rebinds : \E offered \in SUBSET next :
      \E current \in [Groups -> Keys] :
        /\ \A g \in Groups : IF g \in offered THEN current[g] \in Members[g]
                             ELSE current[g] = CHOOSE k \in Keys : TRUE
        /\ Rebuild(next, offered, current)

\* onManualPick: mihomo already moved the group; it is pinned unless manual.
ManualPick(g, k) ==
    /\ stepLocked
    /\ hostInput
    /\ g \in bound
    /\ k \in group[g].members
    /\ "pick" \in Inputs
    /\ group' = [group EXCEPT ![g].now = k]
    /\ control' = [control EXCEPT ![g] =
                     IF @.mode = "manual" THEN @
                     ELSE [@ EXCEPT !.mode = "pinned", !.pin = k,
                                    !.pinEnv = None]]
    /\ todo' = bound
    /\ UNCHANGED <<running, doze, envKey, facts, link, bound, inflight, gap,
                   heard>>

Unpinned(c) == [c EXCEPT !.mode = "auto", !.pin = None, !.pinEnv = None]

\* Change server: the node in use is passed over until its cooldown ends.
SetAside(c, S) == [c EXCEPT !.excluded = @ \cup S]

\* Act: change, pin (here or everywhere), auto, manual.
Act(g, a, k) ==
    /\ stepLocked
    /\ hostInput
    /\ g \in bound
    /\ a \in UserActions \cap Inputs
    /\ a \in {"pin", "here"} => k \in group[g].members
    /\ control' = [control EXCEPT ![g] =
         CASE a = "change" ->
                SetAside(IF @.mode = "pinned" THEN Unpinned(@) ELSE @,
                         {group[g].now} \cap group[g].members)
           [] a = "pin" -> [@ EXCEPT !.mode = "pinned", !.pin = k, !.pinEnv = None]
           [] a = "here" -> [@ EXCEPT !.mode = "pinned", !.pin = k, !.pinEnv = envKey]
           [] a = "auto" -> Unpinned(@)
           [] a = "manual" -> [Unpinned(@) EXCEPT !.mode = "manual"]]
    /\ group' = IF a = "change" THEN [group EXCEPT ![g].force = TRUE] ELSE group
    /\ todo' = bound
    /\ UNCHANGED <<running, doze, envKey, facts, link, bound, inflight, gap,
                   heard>>

\* Act(check): a user check of every member that is not being probed, past
\* the concurrency limit and the repeat gap.
CheckAll(g) ==
    /\ stepLocked
    /\ hostInput
    /\ g \in bound
    /\ "check" \in Inputs
    /\ LET started == group[g].members \ Busy
       IN /\ inflight' = [k \in Keys |->
                            IF k \in started
                              THEN [group |-> g, kind |-> "user", env |-> envKey]
                            ELSE inflight[k]]
          /\ gap' = gap \cup started
    /\ todo' = bound
    /\ UNCHANGED <<running, doze, envKey, facts, link, bound, group, control,
                   heard>>

\* onTimer with nothing to drain.
OnTimer ==
    /\ stepLocked
    /\ todo' = bound
    /\ UNCHANGED <<running, doze, envKey, facts, link, bound, group, control,
                   inflight, gap, heard, inputs, reports>>

-----------------------------------------------------------------------------
(* Time.                                                                   *)

Less(n) == IF n = 0 THEN 0 ELSE n - 1

\* One probeRepeatGap passes.  It is longer than probeTimeout, so a
\* confirming check that was running has come back, and longer than
\* dialFailWindow, so earlier failed dials no longer count.
Tick ==
    /\ phase = "idle"
    /\ \A k \in Busy : inflight[k].kind \notin {"confirm", "standby"}
    /\ link' = Less(link)
    /\ heard' = Less(heard)
    /\ gap' = {}
    /\ group' = [g \in Groups |-> [group[g] EXCEPT !.recoverAt = Less(@)]]
    /\ facts' = [e \in Envs |-> [k \in Keys |-> [facts[e][k] EXCEPT !.dials = 0]]]
    /\ UNCHANGED <<running, doze, envKey, bound, control, inflight, phase,
                   todo, inputs, reports>>

\* A success is no longer fresh.
Age(e, k) ==
    /\ phase = "idle"
    /\ hostInput
    /\ "stale" \in Inputs
    /\ facts[e][k].health = "alive"
    /\ facts' = [facts EXCEPT ![e][k].health = "stale"]
    /\ UNCHANGED <<running, doze, envKey, link, bound, group, control,
                   inflight, gap, phase, todo, heard>>

\* The cooldown of Change server ends; nextDue armed the timer for it.
Cooled(g, k) ==
    /\ stepLocked
    /\ k \in control[g].excluded
    /\ control' = [control EXCEPT ![g].excluded = @ \ {k}]
    /\ todo' = bound
    /\ UNCHANGED <<running, doze, envKey, facts, link, bound, group,
                   inflight, gap, heard, inputs, reports>>

-----------------------------------------------------------------------------
(* The rest of the step: settle every group, then plan.                    *)

eligible(g) ==
    {k \in group[g].members : ~dead(k) /\ k \notin control[g].excluded}

\* A pin on another network does not hold.
pinned(g) ==
    /\ control[g].mode = "pinned"
    /\ control[g].pinEnv \in {None, envKey}

\* Mutant: a pin holds on a dead node.
MutPinHolds(g) == pinned(g) /\ control[g].pin \in group[g].members

\* The pinned node is used as long as it is a candidate.
PinHolds(g) == pinned(g) /\ control[g].pin \in eligible(g)

\* Decide's initial choice and failover.
MustLeave(g) == group[g].now \notin group[g].members \/ dead(group[g].now)

\* Decide, with the ranking left open: the action and the target it may give.
Decide(g) ==
    LET now == group[g].now
        hold == [action |-> "hold", target |-> now]
        switchTo(S) == {[action |-> "switch", target |-> k] : k \in S}
        best == eligible(g)
        moveOn == IF group[g].force THEN switchTo(best \ {now}) ELSE {}
    IN IF control[g].mode = "manual" THEN {[action |-> "manual", target |-> now]}
       ELSE IF PinHolds(g)
         THEN IF now = control[g].pin THEN {hold} ELSE switchTo({control[g].pin})
       ELSE IF best = {}
         THEN IF now \in control[g].excluded \cap group[g].members THEN {hold}
              ELSE {[action |-> "stranded", target |-> now]}
       ELSE IF MustLeave(g) THEN switchTo(best)
       ELSE IF group[g].force /\ now \notin best THEN moveOn
       ELSE IF now \in control[g].excluded THEN {hold}
       ELSE {hold} \cup moveOn
            \cup switchTo({k \in best \ {now} : facts[envKey][k].health = "alive"})

\* Mutant: only the first group is settled.
MutVisited(g) ==
    IF phase = "settle" /\ running /\ ~doze THEN todo' = bound /\ phase' = "plan"
    ELSE todo' = {} /\ phase' = "idle"

\* The loop moves on: to the next group, to the planner, or out of the step.
Visited(g) ==
    IF todo # {g} THEN todo' = todo \ {g} /\ UNCHANGED phase
    ELSE IF phase = "settle" /\ running /\ ~doze
      THEN todo' = bound /\ phase' = "plan"
    ELSE todo' = {} /\ phase' = "idle"

\* settle after a successful rt.Select: the new current node is not suspect.
Selected(gs, k) == [gs EXCEPT !.now = k, !.action = "switch", !.suspect = FALSE]

\* settle of one group; rt.Select may refuse.
Settle(g) ==
    /\ phase = "settle"
    /\ g \in todo
    /\ IF group[g].members = {} THEN UNCHANGED group
       ELSE \E d \in Decide(g) :
              LET gs == [group[g] EXCEPT !.force = FALSE]
                  moves == /\ d.action = "switch"
                           /\ running
                           /\ d.target # group[g].now
              IN \/ /\ ~moves
                    /\ group' = [group EXCEPT ![g] = [gs EXCEPT !.action = d.action]]
                 \/ /\ moves
                    /\ group' = [group EXCEPT ![g] = Selected(gs, d.target)]
                 \/ /\ moves
                    /\ "refuse" \in Inputs
                    /\ group' = [group EXCEPT ![g] = [gs EXCEPT !.action = "stranded"]]
    /\ Visited(g)
    /\ UNCHANGED <<running, doze, envKey, facts, link, bound, control,
                   inflight, gap, heard, inputs, reports>>

free == IF Cardinality(Busy) >= ProbeConcurrency THEN 0
        ELSE ProbeConcurrency - Cardinality(Busy)

needsRecovery(g) ==
    /\ group[g].members # {}
    /\ \/ group[g].action = "stranded"
       \/ \A k \in eligible(g) :
            facts[envKey][k].health # "alive" /\ k # group[g].now

\* Mutant: the limit is not enforced.
MutAddable(S) == S \cap Busy = {}

\* plan's add for a set of nodes: they are free, not probed within the repeat
\* gap (a confirming check may be) and within the concurrency limit.
Addable(S) ==
    /\ S \cap Busy = {}
    /\ Cardinality(S) <= free

\* plan: one confirmation at a time, and not before the backoff of a network
\* that looked down is over.
MayConfirm(gs) == gs.confirm = None /\ gs.recoverAt = 0

Launch(g, S, kind) ==
    [k \in Keys |-> IF k \in S THEN [group |-> g, kind |-> kind, env |-> envKey]
                    ELSE inflight[k]]

\* Mutant: a standby that was refused is waited for.
MutPair(k, s) ==
    [key |-> k, standby |-> s, pending |-> 2, failed |-> FALSE,
     standbyDown |-> FALSE]

\* The confirmation waits for the checks that were really sent.
Pair(k, s) ==
    [key |-> k, standby |-> s, pending |-> IF s = None THEN 1 ELSE 2,
     failed |-> FALSE, standbyDown |-> FALSE]

\* A suspect current node and the best standby are checked together.
Confirm(g) ==
    /\ group[g].suspect
    /\ MayConfirm(group[g])
    /\ group[g].now \in group[g].members
    /\ LET k == group[g].now
       IN \/ /\ Addable({k})
             /\ inflight' = Launch(g, {k}, "confirm")
             /\ gap' = gap \cup {k}
             /\ group' = [group EXCEPT ![g].confirm = Pair(k, None)]
          \/ \E s \in eligible(g) \ {k} :
               /\ Addable({k, s})
               /\ s \notin gap
               /\ inflight' = [Launch(g, {k}, "confirm") EXCEPT ![s] =
                                 [group |-> g, kind |-> "standby", env |-> envKey]]
               /\ gap' = gap \cup {k, s}
               /\ group' = [group EXCEPT ![g].confirm = Pair(k, s)]

\* A group with nothing that works looks for something that does.
Recover(g) ==
    /\ ~group[g].suspect
    /\ needsRecovery(g)
    /\ group[g].recoverAt = 0
    /\ \E S \in SUBSET (group[g].members \ (control[g].excluded \cup gap)) :
         /\ S # {}
         /\ Addable(S)
         /\ Cardinality(S) <= RecoverPassSize
         /\ inflight' = Launch(g, S, "recover")
         /\ gap' = gap \cup S
         /\ group' = [group EXCEPT ![g] = backOff(@)]

\* Needs, maintenance and discovery, as far as window and budget allow.
Improve(g) ==
    /\ "improve" \in Inputs
    /\ ~group[g].suspect
    /\ ~(needsRecovery(g) /\ group[g].recoverAt = 0)
    /\ \E S \in SUBSET (group[g].members \ gap) :
         /\ S # {}
         /\ Addable(S)
         /\ inflight' = Launch(g, S, "check")
         /\ gap' = gap \cup S
    /\ UNCHANGED group

\* plan for one group: nothing for a manual group, and nothing when no check
\* is due or affordable.
Plan(g) ==
    /\ phase = "plan"
    /\ g \in todo
    /\ \/ control[g].mode # "manual" /\ (Confirm(g) \/ Recover(g) \/ Improve(g))
       \/ UNCHANGED <<group, inflight, gap>>
    /\ Visited(g)
    /\ UNCHANGED <<running, doze, envKey, facts, link, bound, control, heard,
                   inputs, reports>>

\* No group is bound: the step has nothing to visit.
NothingToVisit ==
    /\ phase # "idle"
    /\ todo = {}
    /\ phase' = "idle"
    /\ UNCHANGED <<running, doze, envKey, facts, link, bound, group, control,
                   inflight, gap, todo, heard, inputs, reports>>

-----------------------------------------------------------------------------

Next ==
    \/ \E k \in Keys, ok \in BOOLEAN : ProbeResult(k, ok) \/ URLTest(k, ok)
    \/ \E k \in Keys : Traffic(k) \/ DialFailure(k)
    \/ \E on \in BOOLEAN : SetRunning(on) \/ Doze(on)
    \/ \E e \in Envs : ChangeNetwork(e)
    \/ Resume
    \/ SetTopology
    \/ \E g \in Groups, k \in Keys : ManualPick(g, k) \/ Cooled(g, k)
    \/ \E g \in Groups, a \in UserActions, k \in Keys : Act(g, a, k)
    \/ \E g \in Groups : CheckAll(g)
    \/ OnTimer
    \/ Tick
    \/ \E e \in Envs, k \in Keys : Age(e, k)
    \/ \E g \in Groups : Settle(g) \/ Plan(g)
    \/ NothingToVisit

Spec == Init /\ [][Next]_vars

\* A check ends within its timeouts, and a step under e.mu runs to its end.
Fairness ==
    /\ \A k \in Keys : SF_vars(\E ok \in BOOLEAN : ProbeResult(k, ok))
    /\ WF_vars(\E g \in Groups : Settle(g) \/ Plan(g))
    /\ WF_vars(NothingToVisit)

FairSpec == Spec /\ Fairness

-----------------------------------------------------------------------------
(* Properties.                                                             *)

\* A confirmation never outlives the checks that can end it: at least as many
\* confirming checks of the group run as it waits for, whatever results, user
\* moves, network changes and rebuilds come between (plan, record, rebuild).
ConfirmIsAwaited ==
    \A g \in bound :
      group[g].confirm # None =>
        /\ group[g].confirm.pending > 0
        /\ group[g].confirm.pending <= Cardinality({k \in Keys : Confirming(k, g)})

\* After every step, a routed group that is not in manual mode is off a dead
\* node as soon as another member is eligible, unless the runtime refused the
\* switch: also when the death was found through another group that shares
\* the node (settle visits every group after every input).
FailoverDone ==
    phase = "idle" =>
      \A g \in bound :
        (/\ running
         /\ control[g].mode # "manual"
         /\ group[g].now \in group[g].members
         /\ dead(group[g].now)
         /\ eligible(g) # {}) => group[g].action = "stranded"

NewlyDead(k) == ~dead(k) /\ dead(k)'

\* Failures seen while nothing gets through condemn no server: a node only
\* dies within linkWindow of a success of some node (escrow in linkProven and
\* resolveConfirm).  A group that is dropped while a confirming check of it
\* runs, and comes back with another node, breaks it: the late result counts
\* for the new confirmation (RcxMachine_proofs states what is needed).
NothingThroughCondemnsNobody ==
    [][\A k \in Keys : (envKey' = envKey /\ NewlyDead(k)) => heard' > 0]_vars

\* A node is only marked dead when the engine's last check of that very node
\* failed (onProbeResult, resolveConfirm).
DeathIsEarned ==
    [][\A k \in Keys : (envKey' = envKey /\ NewlyDead(k)) =>
         facts'[envKey][k].failed]_vars

\* A node is only marked dead on a network on which its last check ran: what
\* is known of a node is known per network.
DeathIsLocal ==
    [][\A k \in Keys : (envKey' = envKey /\ NewlyDead(k)) =>
         facts'[envKey][k].from = envKey]_vars

\* Planned checks stay within probeConcurrency; only the user's own check of
\* a whole group goes beyond it.
PlannerIsBounded ==
    Cardinality({k \in Busy : inflight[k].kind # "user"}) <= ProbeConcurrency

\* Every confirmation ends.
ConfirmEnds ==
    \A g \in Groups : (group[g].confirm # None) ~> (group[g].confirm = None)

=============================================================================
