-------------------------- MODULE RcxMachine_proofs --------------------------
(***************************************************************************)
(* Proofs about RcxMachine, for any groups, nodes, networks and limits.    *)
(***************************************************************************)
EXTENDS RcxMachine, FiniteSetTheorems, TLAPS

-----------------------------------------------------------------------------
(* Types: what one field of a record may be set to, and the operators that *)
(* set several.                                                            *)

\* The facts of a node stay facts whatever one field is set to.
LEMMA FactsField ==
  ASSUME NEW f \in Facts
  PROVE  /\ \A h \in {"unknown", "alive", "stale", "dead"} : [f EXCEPT !.health = h] \in Facts
         /\ \A n \in 0..2 : [f EXCEPT !.failRun = n] \in Facts
         /\ \A n \in 0..SuspectDials : [f EXCEPT !.dials = n] \in Facts
         /\ \A b \in BOOLEAN : [f EXCEPT !.failed = b] \in Facts
         /\ \A e \in Envs \cup {None} : [f EXCEPT !.from = e] \in Facts
BY DEF Facts

\* What evidence.go notes about a node are facts again.
LEMMA NotesType ==
  ASSUME NEW f \in Facts
  PROVE  /\ noteOK(f) \in Facts
         /\ noteProbeFail(f) \in Facts
         /\ markDead(f) \in Facts
         /\ noteDialFail(f) \in Facts
<1>1. noteOK(f) \in Facts
  <2> DEFINE f1 == [f EXCEPT !.health = "alive"]
             f2 == [f1 EXCEPT !.failRun = 0]
  <2>1. noteOK(f) = [f2 EXCEPT !.dials = 0]
    BY DEF noteOK
  <2>2. f1 \in Facts
    BY FactsField
  <2> HIDE DEF f1
  <2>3. f2 \in Facts
    BY <2>2 DEF Facts
  <2> HIDE DEF f2
  <2>4. [f2 EXCEPT !.dials = 0] \in Facts
    BY <2>3, MachineAssumption, SMTT(30) DEF Facts
  <2> QED
    BY <2>1, <2>4
<1>2. noteProbeFail(f) \in Facts
  <2> DEFINE h == IF f.health = "alive" THEN "stale" ELSE f.health
             n == IF f.failRun = 2 THEN 2 ELSE f.failRun + 1
             f1 == [f EXCEPT !.health = h]
  <2>1. noteProbeFail(f) = [f1 EXCEPT !.failRun = n]
    BY DEF noteProbeFail
  <2>2. h \in {"unknown", "alive", "stale", "dead"} /\ n \in 0..2
    BY DEF Facts
  <2> HIDE DEF h, n
  <2>3. f1 \in Facts
    BY <2>2, FactsField
  <2> HIDE DEF f1
  <2> QED
    BY <2>1, <2>2, <2>3, FactsField
<1>3. markDead(f) \in Facts
  BY FactsField DEF markDead
<1>4. noteDialFail(f) \in Facts
  BY MachineAssumption, SMTT(30) DEF Facts, noteDialFail
<1> QED
  BY <1>1, <1>2, <1>3, <1>4

\* A group stays a group whatever one field is set to.
LEMMA GroupField ==
  ASSUME NEW gs \in GroupState
  PROVE  /\ \A S \in SUBSET Keys : [gs EXCEPT !.members = S] \in GroupState
         /\ \A k \in Keys \cup {None} : [gs EXCEPT !.now = k] \in GroupState
         /\ \A x \in {"hold", "switch", "stranded", "manual"} : [gs EXCEPT !.action = x] \in GroupState
         /\ \A b \in BOOLEAN : [gs EXCEPT !.force = b] \in GroupState
         /\ \A b \in BOOLEAN : [gs EXCEPT !.suspect = b] \in GroupState
         /\ \A c \in Confirmation \cup {None} : [gs EXCEPT !.confirm = c] \in GroupState
         /\ \A n \in 0..LastPass : [gs EXCEPT !.recoverPass = n] \in GroupState
         /\ \A n \in Nat : [gs EXCEPT !.recoverAt = n] \in GroupState
BY DEF GroupState

\* backOff and resetRecover set the two fields of recovery only.
LEMMA RecoveryType ==
  ASSUME NEW gs \in GroupState
  PROVE  /\ backOff(gs) \in GroupState
         /\ resetRecover(gs) \in GroupState
<1> DEFINE pass == IF gs.recoverPass = LastPass THEN LastPass ELSE gs.recoverPass + 1
           first == [gs EXCEPT !.recoverPass = 0]
<1>1. pass \in 0..LastPass
  BY MachineAssumption DEF GroupState
<1>2. Backoff[pass] \in Nat
  BY <1>1, MachineAssumption
<1>3. backOff(gs) = [[gs EXCEPT !.recoverPass = pass] EXCEPT !.recoverAt = Backoff[pass]]
  BY DEF backOff
<1>4. resetRecover(gs) = [first EXCEPT !.recoverAt = 0]
  BY DEF resetRecover
<1> HIDE DEF pass
<1>5. [gs EXCEPT !.recoverPass = pass] \in GroupState
  BY <1>1, GroupField
<1>6. first \in GroupState
  BY MachineAssumption DEF GroupState
<1> HIDE DEF first
<1>7. backOff(gs) \in GroupState
  BY <1>2, <1>3, <1>5, GroupField
<1>8. resetRecover(gs) \in GroupState
  BY <1>4, <1>6 DEF GroupState
<1> QED
  BY <1>7, <1>8

\* resolveConfirm leaves a group without a confirmation.
LEMMA ResolvedType ==
  ASSUME NEW gs \in GroupState, NEW c, NEW proven \in BOOLEAN
  PROVE  resolved(gs, c, proven) \in GroupState
<1> DEFINE ended == [gs EXCEPT !.confirm = None]
           cleared == [ended EXCEPT !.suspect = FALSE]
<1>1. [gs EXCEPT !.confirm = None, !.suspect = FALSE] = cleared
  OBVIOUS
<1>2. ended \in GroupState
  BY GroupField
<1> HIDE DEF ended
<1>3. cleared \in GroupState
  BY <1>2, GroupField
<1> HIDE DEF cleared
<1>4. backOff(cleared) \in GroupState
  BY <1>3, RecoveryType
<1> QED
  BY <1>1, <1>3, <1>4 DEF resolved

\* confirmation.record leaves a confirmation as long as it still waits.
LEMMA RecordType ==
  ASSUME NEW c \in Confirmation, NEW job \in Job, NEW failed \in BOOLEAN,
         ~(record(c, job, failed).pending <= 0)
  PROVE  record(c, job, failed) \in Confirmation
<1> DEFINE d == IF job.kind = "confirm" THEN failed ELSE c.failed
           s == IF job.kind = "standby" THEN failed ELSE c.standbyDown
           c1 == [c EXCEPT !.pending = c.pending - 1]
           c2 == [c1 EXCEPT !.failed = d]
<1>1. record(c, job, failed) = [c2 EXCEPT !.standbyDown = s]
  BY DEF record
<1>2. d \in BOOLEAN /\ s \in BOOLEAN
  BY DEF Confirmation
<1>3. c.pending - 1 \in Nat
  BY DEF Confirmation, record
<1> HIDE DEF d, s
<1>4. c1 \in Confirmation
  BY <1>3 DEF Confirmation
<1> HIDE DEF c1
<1>5. c2 \in Confirmation
  BY <1>2, <1>4 DEF Confirmation
<1> HIDE DEF c2
<1>6. [c2 EXCEPT !.standbyDown = s] \in Confirmation
  BY <1>2, <1>5 DEF Confirmation
<1> QED
  BY <1>1, <1>6

-----------------------------------------------------------------------------
(* Type correctness.                                                       *)

\* A confirmation that is sent waits for its one or two checks.
LEMMA PairType ==
  ASSUME NEW k \in Keys, NEW s \in Keys \cup {None}
  PROVE  Pair(k, s) \in Confirmation
BY DEF Pair, Confirmation

\* What the user's choice does to the control of a group.
LEMMA UnpinnedType ==
  ASSUME NEW c \in Control
  PROVE  Unpinned(c) \in Control
<1> DEFINE c1 == [c EXCEPT !.mode = "auto"]
           c2 == [c1 EXCEPT !.pin = None]
<1>1. Unpinned(c) = [c2 EXCEPT !.pinEnv = None]
  BY DEF Unpinned
<1>2. c1 \in Control
  BY DEF Control
<1> HIDE DEF c1
<1>3. c2 \in Control
  BY <1>2 DEF Control
<1> HIDE DEF c2
<1> QED
  BY <1>1, <1>3 DEF Control

\* pin and pick: the mode, the node and the network of the pin.
LEMMA PinnedType ==
  ASSUME NEW c \in Control, NEW k \in Keys, NEW e \in Envs \cup {None}
  PROVE  [c EXCEPT !.mode = "pinned", !.pin = k, !.pinEnv = e] \in Control
<1> DEFINE c1 == [c EXCEPT !.mode = "pinned"]
           c2 == [c1 EXCEPT !.pin = k]
<1>1. [c EXCEPT !.mode = "pinned", !.pin = k, !.pinEnv = e] = [c2 EXCEPT !.pinEnv = e]
  OBVIOUS
<1>2. c1 \in Control
  BY DEF Control
<1> HIDE DEF c1
<1>3. c2 \in Control
  BY <1>2 DEF Control
<1> HIDE DEF c2
<1> QED
  BY <1>1, <1>3 DEF Control

\* The variables an input leaves alone keep their types; this is what is
\* left to show for each action.
LEMMA StepType ==
  ASSUME TypeOK, stepLocked, todo' \subseteq Groups,
         hostInput \/ report \/ UNCHANGED <<inputs, reports>>
  PROVE  /\ phase' \in {"idle", "settle", "plan"}
         /\ todo' \subseteq Groups
         /\ inputs' \in Nat
         /\ reports' \in Nat
BY DEF TypeOK, stepLocked, hostInput, report

\* Decide only names members of the group.
LEMMA DecideType ==
  ASSUME TypeOK, NEW g \in Groups, NEW d \in Decide(g)
  PROVE  /\ d.action \in {"hold", "switch", "stranded", "manual"}
         /\ d.action = "switch" => d.target \in group[g].members /\ d.target \in Keys
         /\ d.action = "switch" => d.target \in eligible(g)
<1>1. eligible(g) \subseteq group[g].members /\ group[g].members \subseteq Keys
  BY DEF eligible, TypeOK, GroupState
<1> QED
  BY <1>1 DEF Decide, PinHolds

\* The loop over the groups moves on to groups.
LEMMA VisitedType ==
  ASSUME TypeOK, NEW g \in Groups, Visited(g)
  PROVE  /\ phase' \in {"idle", "settle", "plan"}
         /\ todo' \subseteq Groups
BY DEF TypeOK, Visited

\* onProbeResult keeps the types: a result is noted, recorded and resolved.
LEMMA ProbeResultType ==
  ASSUME TypeOK, NEW k \in Keys, NEW ok \in BOOLEAN, ProbeResult(k, ok)
  PROVE  TypeOK'
<1> DEFINE job == inflight[k]
           g == job.group
           f1 == [facts[envKey][k] EXCEPT !.failed = ~ok]
           f0 == [f1 EXCEPT !.from = job.env]
           noted == IF ok THEN noteOK(f0) ELSE noteProbeFail(f0)
           proven == ok \/ linkProven
           pair == /\ g \in bound
                   /\ group[g].confirm # None
                   /\ job.kind \in {"confirm", "standby"}
           c == record(group[g].confirm, job, ~ok)
           done == pair /\ c.pending <= 0
           condemned ==
             IF done /\ c.failed /\ ~LinkLooksDown(c, proven) THEN {c.key}
             ELSE IF ~pair /\ ~ok /\ proven /\ FailedTwice(noted) THEN {k}
             ELSE {}
           recovered(h) == IF ok /\ h \in groupOf(k) THEN resetRecover(group[h])
                           ELSE group[h]
<1>1. job \in Job /\ g \in Groups
  BY DEF ProbeResult, TypeOK, Job
<1>2. noted \in Facts
  <2> DEFINE f == facts[envKey][k]
  <2>1. f \in Facts
    BY DEF TypeOK
  <2> HIDE DEF f
  <2>2. [f EXCEPT !.failed = ~ok] \in Facts
    BY <2>1, FactsField
  <2>3. f1 \in Facts
    BY <2>2 DEF f
  <2> HIDE DEF f1
  <2>4. job.env \in Envs
    BY <1>1 DEF Job
  <2>5. f0 \in Facts
    BY <2>3, <2>4, FactsField
  <2> QED
    BY <2>5, NotesType
<1>3. \A h \in Groups : recovered(h) \in GroupState
  BY RecoveryType DEF TypeOK
<1>4. facts' \in [Envs -> [Keys -> Facts]]
  <2>1. facts' = [facts EXCEPT ![envKey] =
                    [n \in Keys |-> IF n \in condemned
                                      THEN markDead(IF n = k THEN noted ELSE facts[envKey][n])
                                      ELSE IF n = k THEN noted ELSE facts[envKey][n]]]
    BY DEF ProbeResult, TypeOK
  <2> HIDE DEF noted, condemned
  <2>2. \A n \in Keys : (IF n = k THEN noted ELSE facts[envKey][n]) \in Facts
    BY <1>2 DEF TypeOK
  <2>3. \A n \in Keys : markDead(IF n = k THEN noted ELSE facts[envKey][n]) \in Facts
    BY <2>2, NotesType
  <2> QED
    BY <2>1, <2>2, <2>3 DEF TypeOK
<1>5. group' \in [Groups -> GroupState]
  <2>1. group' = [h \in Groups |->
                    IF h = g /\ done THEN resolved(recovered(g), c, proven)
                    ELSE IF h = g /\ pair THEN [recovered(g) EXCEPT !.confirm = c]
                    ELSE recovered(h)]
    BY DEF ProbeResult
  <2>2. resolved(recovered(g), c, proven) \in GroupState
    BY <1>1, <1>3, ResolvedType DEF linkProven, TypeOK
  <2>3. pair /\ ~done => c \in Confirmation
    BY <1>1, RecordType DEF TypeOK, GroupState
  <2>4. pair /\ ~done => [recovered(g) EXCEPT !.confirm = c] \in GroupState
    BY <1>1, <1>3, <2>3, GroupField
  <2> HIDE DEF pair, done, c, recovered, proven, g
  <2> QED
    BY <1>3, <2>1, <2>2, <2>4
<1>6. link' \in 0..LinkTicks /\ heard' \in 0..LinkTicks
  BY MachineAssumption DEF ProbeResult, TypeOK
<1>7. inflight' \in [Keys -> Job \cup {None}]
  BY DEF ProbeResult, TypeOK
<1>8. stepLocked /\ todo' \subseteq Groups /\ UNCHANGED <<running, doze, envKey, bound, control, gap, inputs, reports>>
  BY DEF ProbeResult, TypeOK
<1> QED
  BY <1>4, <1>5, <1>6, <1>7, <1>8, StepType DEF TypeOK

\* The reports of mihomo keep the types.
LEMMA ReportType ==
  ASSUME TypeOK, NEW k \in Keys, NEW ok \in BOOLEAN,
         URLTest(k, ok) \/ Traffic(k) \/ DialFailure(k)
  PROVE  TypeOK'
<1> DEFINE f == facts[envKey][k]
<1>1. /\ f \in Facts
      /\ noteOK(f) \in Facts
      /\ noteProbeFail(f) \in Facts
      /\ noteDialFail(f) \in Facts
  BY NotesType DEF TypeOK
<1>2. stepLocked /\ report /\ todo' \subseteq Groups
  BY DEF URLTest, Traffic, DialFailure, TypeOK
<1>3. CASE URLTest(k, ok)
  <2>1. facts' \in [Envs -> [Keys -> Facts]]
    BY <1>1, <1>3 DEF URLTest, TypeOK
  <2>2. link' \in 0..LinkTicks /\ heard' \in 0..LinkTicks
    BY <1>3, MachineAssumption DEF URLTest, TypeOK
  <2> QED
    BY <1>2, <1>3, <2>1, <2>2, StepType DEF URLTest, TypeOK
<1>4. CASE Traffic(k)
  <2>1. facts' \in [Envs -> [Keys -> Facts]]
    BY <1>1, <1>4 DEF Traffic, TypeOK
  <2>2. link' \in 0..LinkTicks /\ heard' \in 0..LinkTicks
    BY <1>4, MachineAssumption DEF Traffic, TypeOK
  <2> QED
    BY <1>2, <1>4, <2>1, <2>2, StepType DEF Traffic, TypeOK
<1>5. CASE DialFailure(k)
  <2>1. facts' \in [Envs -> [Keys -> Facts]]
    BY <1>1, <1>5 DEF DialFailure, TypeOK
  <2>2. \A g \in Groups : [group[g] EXCEPT !.suspect = TRUE] \in GroupState
    BY GroupField DEF TypeOK
  <2>3. group' \in [Groups -> GroupState]
    BY <1>5, <2>2 DEF DialFailure, TypeOK
  <2> QED
    BY <1>2, <1>5, <2>1, <2>3, StepType DEF DialFailure, TypeOK
<1> QED
  BY <1>3, <1>4, <1>5

\* A new topology keeps the types: a group is bound afresh, kept or left.
LEMMA RebuildType ==
  ASSUME TypeOK, NEW next \in Rebinds, NEW offered \in SUBSET next, NEW current \in [Groups -> Keys],
         Rebuild(next, offered, current)
  PROVE  TypeOK'
<1> DEFINE kept(g) == IF g \in bound THEN group[g] ELSE NewGroup
<1>1. next \subseteq Groups
  BY MachineAssumption
<1>2. NewGroup \in GroupState
  BY MachineAssumption DEF NewGroup, GroupState
<1>3. \A g \in Groups : kept(g) \in GroupState
  BY <1>2 DEF TypeOK
<1>4. \A g \in Groups : /\ [kept(g) EXCEPT !.members = Members[g], !.now = current[g]] \in GroupState
                        /\ [kept(g) EXCEPT !.members = {}, !.now = None] \in GroupState
  <2> TAKE g \in Groups
  <2> HIDE DEF kept
  <2> DEFINE some == [kept(g) EXCEPT !.members = Members[g]]
             none == [kept(g) EXCEPT !.members = {}]
  <2>1. /\ [kept(g) EXCEPT !.members = Members[g], !.now = current[g]] = [some EXCEPT !.now = current[g]]
        /\ [kept(g) EXCEPT !.members = {}, !.now = None] = [none EXCEPT !.now = None]
    OBVIOUS
  <2>2. some \in GroupState /\ none \in GroupState
    BY <1>3, GroupField, MachineAssumption
  <2> HIDE DEF some, none
  <2> QED
    BY <2>1, <2>2, GroupField
<1>5. group' = [g \in Groups |->
                  IF g \notin next THEN NewGroup
                  ELSE IF g \in offered THEN [kept(g) EXCEPT !.members = Members[g], !.now = current[g]]
                  ELSE [kept(g) EXCEPT !.members = {}, !.now = None]]
  BY DEF Rebuild
<1> HIDE DEF kept
<1>6. group' \in [Groups -> GroupState]
  BY <1>2, <1>4, <1>5
<1>7. stepLocked /\ hostInput /\ todo' \subseteq Groups /\ bound' \subseteq Groups
  BY <1>1 DEF Rebuild
<1> QED
  BY <1>6, <1>7, StepType DEF Rebuild, TypeOK

\* The user's picks and actions keep the types.
LEMMA UserType ==
  ASSUME TypeOK, NEW g \in Groups, NEW k \in Keys, NEW a \in UserActions,
         ManualPick(g, k) \/ Cooled(g, k) \/ Act(g, a, k) \/ CheckAll(g)
  PROVE  TypeOK'
<1>1. CASE ManualPick(g, k)
  <2>1. [control[g] EXCEPT !.mode = "pinned", !.pin = k, !.pinEnv = None] \in Control
    BY PinnedType DEF TypeOK
  <2>2. control' \in [Groups -> Control]
    BY <1>1, <2>1 DEF ManualPick, TypeOK
  <2>3. [group[g] EXCEPT !.now = k] \in GroupState
    BY GroupField DEF TypeOK
  <2>4. group' \in [Groups -> GroupState]
    BY <1>1, <2>3 DEF ManualPick, TypeOK
  <2>5. stepLocked /\ hostInput /\ todo' \subseteq Groups
    BY <1>1 DEF ManualPick, TypeOK
  <2> QED
    BY <1>1, <2>2, <2>4, <2>5, StepType DEF ManualPick, TypeOK
<1>2. CASE Cooled(g, k)
  <2>1. control' \in [Groups -> Control]
    BY <1>2, SMTT(30) DEF Cooled, TypeOK, Control
  <2>2. stepLocked /\ todo' \subseteq Groups /\ UNCHANGED <<inputs, reports>>
    BY <1>2 DEF Cooled, TypeOK
  <2> QED
    BY <1>2, <2>1, <2>2, StepType DEF Cooled, TypeOK
<1>3. CASE Act(g, a, k)
  <2> DEFINE c == control[g]
             held == IF c.mode = "pinned" THEN Unpinned(c) ELSE c
             free0 == Unpinned(c)
  <2>1. c \in Control /\ held \in Control /\ free0 \in Control
    BY UnpinnedType DEF TypeOK
  <2>2. /\ [c EXCEPT !.mode = "pinned", !.pin = k, !.pinEnv = None] \in Control
        /\ [c EXCEPT !.mode = "pinned", !.pin = k, !.pinEnv = envKey] \in Control
    BY <2>1, PinnedType DEF TypeOK
  <2> HIDE DEF held, free0
  <2>3. /\ SetAside(held, {group[g].now} \cap group[g].members) \in Control
        /\ [free0 EXCEPT !.mode = "manual"] \in Control
    BY <2>1 DEF Control, TypeOK, GroupState, SetAside
  <2>4. \E x \in Control : control' = [control EXCEPT ![g] = x]
    <3>1. CASE a = "change"
      <4> DEFINE x == SetAside(held, {group[g].now} \cap group[g].members)
      <4>1. control' = [control EXCEPT ![g] = x]
        BY <1>3, <3>1 DEF Act, held
      <4> QED
        BY <2>3, <4>1
    <3>2. CASE a = "pin"
      BY <1>3, <2>2, <3>2 DEF Act, TypeOK
    <3>3. CASE a = "here"
      BY <1>3, <2>2, <3>3 DEF Act, TypeOK
    <3>4. CASE a = "auto"
      BY <1>3, <2>1, <3>4 DEF Act, free0, TypeOK
    <3>5. CASE a = "manual"
      BY <1>3, <2>3, <3>5 DEF Act, free0, TypeOK
    <3> QED
      BY <3>1, <3>2, <3>3, <3>4, <3>5 DEF UserActions
  <2>8. control' \in [Groups -> Control]
    BY <2>4 DEF TypeOK
  <2>5. [group[g] EXCEPT !.force = TRUE] \in GroupState
    BY GroupField DEF TypeOK
  <2>6. group' \in [Groups -> GroupState]
    BY <1>3, <2>5 DEF Act, TypeOK
  <2>7. stepLocked /\ hostInput /\ todo' \subseteq Groups
    BY <1>3 DEF Act, TypeOK
  <2> QED
    BY <1>3, <2>6, <2>7, <2>8, StepType DEF Act, TypeOK
<1>4. CASE CheckAll(g)
  <2>1. inflight' \in [Keys -> Job \cup {None}] /\ gap' \subseteq Keys
    BY <1>4 DEF CheckAll, TypeOK, Job, GroupState
  <2>2. stepLocked /\ hostInput /\ todo' \subseteq Groups
    BY <1>4 DEF CheckAll, TypeOK
  <2> QED
    BY <1>4, <2>1, <2>2, StepType DEF CheckAll, TypeOK
<1> QED
  BY <1>1, <1>2, <1>3, <1>4

\* settle keeps the types.
LEMMA SettleType ==
  ASSUME TypeOK, NEW g \in Groups, Settle(g)
  PROVE  TypeOK'
<1> DEFINE gs == [group[g] EXCEPT !.force = FALSE]
<1>1. gs \in GroupState
  BY GroupField DEF TypeOK
<1>2. group' \in [Groups -> GroupState]
  <2>1. CASE group[g].members = {}
    BY <2>1 DEF Settle, TypeOK
  <2>2. CASE group[g].members # {}
    <3>1. PICK d \in Decide(g) :
            \/ group' = [group EXCEPT ![g] = [gs EXCEPT !.action = d.action]]
            \/ d.action = "switch" /\ group' = [group EXCEPT ![g] = Selected(gs, d.target)]
            \/ group' = [group EXCEPT ![g] = [gs EXCEPT !.action = "stranded"]]
      BY <2>2 DEF Settle
    <3>2. /\ d.action \in {"hold", "switch", "stranded", "manual"}
          /\ d.action = "switch" => d.target \in Keys
      BY DecideType
    <3> HIDE DEF gs
    <3>3. /\ [gs EXCEPT !.action = d.action] \in GroupState
          /\ [gs EXCEPT !.action = "stranded"] \in GroupState
      BY <1>1, <3>2, GroupField
    <3>4. d.action = "switch" => Selected(gs, d.target) \in GroupState
      <4> HAVE d.action = "switch"
      <4> DEFINE s1 == [gs EXCEPT !.now = d.target]
                 s2 == [s1 EXCEPT !.action = "switch"]
      <4>1. Selected(gs, d.target) = [s2 EXCEPT !.suspect = FALSE]
        BY DEF Selected
      <4>2. s1 \in GroupState
        BY <1>1, <3>2, GroupField
      <4> HIDE DEF s1
      <4>3. s2 \in GroupState
        BY <4>2, GroupField
      <4> HIDE DEF s2
      <4> QED
        BY <4>1, <4>3, GroupField
    <3> QED
      BY <3>1, <3>3, <3>4 DEF TypeOK
  <2> QED
    BY <2>1, <2>2
<1> QED
  BY <1>2, VisitedType DEF Settle, TypeOK

\* What the planner sends are checks.
LEMMA LaunchType ==
  ASSUME TypeOK, NEW g \in Groups, NEW S,
         NEW kind \in {"confirm", "standby", "recover", "check", "user"}
  PROVE  Launch(g, S, kind) \in [Keys -> Job \cup {None}]
BY DEF Launch, TypeOK, Job

\* plan keeps the types.
LEMMA PlanType ==
  ASSUME TypeOK, NEW g \in Groups, Plan(g)
  PROVE  TypeOK'
<1>1. group[g].members \subseteq Keys /\ group[g] \in GroupState
  BY DEF TypeOK, GroupState
<1>2. /\ group' \in [Groups -> GroupState]
      /\ inflight' \in [Keys -> Job \cup {None}]
      /\ gap' \subseteq Keys
  <2>1. CASE UNCHANGED <<group, inflight, gap>>
    BY <2>1 DEF TypeOK
  <2>2. CASE Confirm(g)
    <3> DEFINE k == group[g].now
    <3>1. k \in Keys
      BY <1>1, <2>2 DEF Confirm
    <3>2. CASE /\ inflight' = Launch(g, {k}, "confirm")
               /\ gap' = gap \cup {k}
               /\ group' = [group EXCEPT ![g].confirm = Pair(k, None)]
      <4>1. Pair(k, None) \in Confirmation
        BY <3>1, PairType
      <4>2. [group[g] EXCEPT !.confirm = Pair(k, None)] \in GroupState
        BY <1>1, <4>1, GroupField
      <4> QED
        BY <3>1, <3>2, <4>2, LaunchType DEF TypeOK
    <3>3. ASSUME NEW s \in eligible(g) \ {k},
                 inflight' = [Launch(g, {k}, "confirm") EXCEPT ![s] =
                                [group |-> g, kind |-> "standby", env |-> envKey]],
                 gap' = gap \cup {k, s},
                 group' = [group EXCEPT ![g].confirm = Pair(k, s)]
          PROVE  /\ group' \in [Groups -> GroupState]
                 /\ inflight' \in [Keys -> Job \cup {None}]
                 /\ gap' \subseteq Keys
      <4>1. s \in Keys
        BY <1>1 DEF eligible
      <4>2. Pair(k, s) \in Confirmation
        BY <3>1, <4>1, PairType
      <4>3. [group[g] EXCEPT !.confirm = Pair(k, s)] \in GroupState
        BY <1>1, <4>2, GroupField
      <4>4. [group |-> g, kind |-> "standby", env |-> envKey] \in Job
        BY DEF Job, TypeOK
      <4>5. inflight' \in [Keys -> Job \cup {None}]
        BY <3>3, <4>4, LaunchType
      <4> QED
        BY <3>1, <3>3, <4>1, <4>3, <4>5 DEF TypeOK
    <3> QED
      BY <2>2, <3>2, <3>3 DEF Confirm
  <2>3. CASE Recover(g)
    BY <1>1, <2>3, LaunchType, RecoveryType DEF Recover, TypeOK
  <2>4. CASE Improve(g)
    BY <1>1, <2>4, LaunchType DEF Improve, TypeOK
  <2> QED
    BY <2>1, <2>2, <2>3, <2>4 DEF Plan
<1> QED
  BY <1>2, VisitedType DEF Plan, TypeOK

\* Time keeps the types.
LEMMA TimeType ==
  ASSUME TypeOK, Tick \/ \E e \in Envs, k \in Keys : Age(e, k)
  PROVE  TypeOK'
<1>1. \A n \in Nat : Less(n) \in Nat /\ Less(n) <= n
  BY DEF Less
<1>2. CASE Tick
  <2>1. ASSUME NEW g \in Groups PROVE [group[g] EXCEPT !.recoverAt = Less(@)] \in GroupState
    <3> DEFINE gs == group[g]
    <3>1. gs \in GroupState
      BY DEF TypeOK
    <3> HIDE DEF gs
    <3>2. Less(gs.recoverAt) \in Nat
      BY <1>1, <3>1 DEF GroupState
    <3>3. [gs EXCEPT !.recoverAt = Less(gs.recoverAt)] \in GroupState
      BY <3>1, <3>2, GroupField
    <3> QED
      BY <3>3 DEF gs
  <2>2. group' \in [Groups -> GroupState]
    BY <1>2, <2>1 DEF Tick
  <2>3. ASSUME NEW e \in Envs, NEW k \in Keys PROVE [facts[e][k] EXCEPT !.dials = 0] \in Facts
    <3> DEFINE f == facts[e][k]
    <3>1. f \in Facts
      BY DEF TypeOK
    <3> HIDE DEF f
    <3>2. [f EXCEPT !.dials = 0] \in Facts
      BY <3>1, MachineAssumption DEF Facts
    <3> QED
      BY <3>2 DEF f
  <2>4. facts' \in [Envs -> [Keys -> Facts]]
    BY <1>2, <2>3 DEF Tick
  <2>5. link' \in 0..LinkTicks /\ heard' \in 0..LinkTicks
    BY <1>1, <1>2, MachineAssumption DEF Tick, TypeOK
  <2> QED
    BY <1>2, <2>2, <2>4, <2>5 DEF Tick, TypeOK
<1>3. ASSUME NEW e \in Envs, NEW k \in Keys, Age(e, k)
      PROVE  TypeOK'
  <2> DEFINE f == facts[e][k]
  <2>3. f \in Facts
    BY DEF TypeOK
  <2> HIDE DEF f
  <2>4. [f EXCEPT !.health = "stale"] \in Facts
    BY <2>3, FactsField
  <2>1. [facts[e][k] EXCEPT !.health = "stale"] \in Facts
    BY <2>4 DEF f
  <2>2. facts' \in [Envs -> [Keys -> Facts]]
    BY <1>3, <2>1 DEF Age, TypeOK
  <2> QED
    BY <1>3, <2>2 DEF Age, TypeOK, hostInput
<1> QED
  BY <1>2, <1>3

\* The remaining inputs keep the types.
LEMMA HintsType ==
  ASSUME TypeOK,
         \/ \E on \in BOOLEAN : SetRunning(on) \/ Doze(on)
         \/ \E e \in Envs : ChangeNetwork(e)
         \/ Resume \/ OnTimer \/ NothingToVisit
  PROVE  TypeOK'
<1>1. ASSUME NEW on \in BOOLEAN, SetRunning(on) PROVE TypeOK'
  BY <1>1 DEF SetRunning, TypeOK, stepLocked, hostInput
<1>2. ASSUME NEW on \in BOOLEAN, Doze(on) PROVE TypeOK'
  BY <1>2 DEF Doze, TypeOK, stepLocked, hostInput
<1>3. ASSUME NEW e \in Envs, ChangeNetwork(e) PROVE TypeOK'
  <2>1. group' \in [Groups -> GroupState]
    BY <1>3, RecoveryType DEF ChangeNetwork, TypeOK
  <2>2. link' \in 0..LinkTicks
    BY <1>3, MachineAssumption DEF ChangeNetwork
  <2> QED
    BY <1>3, <2>1, <2>2 DEF ChangeNetwork, TypeOK, stepLocked, hostInput
<1>4. CASE Resume
  <2>1. link' \in 0..LinkTicks
    BY <1>4, MachineAssumption DEF Resume
  <2> QED
    BY <1>4, <2>1 DEF Resume, TypeOK, stepLocked, hostInput
<1>5. CASE OnTimer
  BY <1>5 DEF OnTimer, TypeOK, stepLocked
<1>6. CASE NothingToVisit
  BY <1>6 DEF NothingToVisit, TypeOK
<1> QED
  BY <1>1, <1>2, <1>3, <1>4, <1>5, <1>6

\* Every input and every step under e.mu keeps the types.
LEMMA TypeStep == TypeOK /\ [Next]_vars => TypeOK'
<1> SUFFICES ASSUME TypeOK, [Next]_vars PROVE TypeOK'
  OBVIOUS
<1>1. ASSUME NEW k \in Keys, NEW ok \in BOOLEAN, ProbeResult(k, ok) PROVE TypeOK'
  BY <1>1, ProbeResultType
<1>2. ASSUME NEW k \in Keys, NEW ok \in BOOLEAN, URLTest(k, ok) \/ Traffic(k) \/ DialFailure(k)
      PROVE  TypeOK'
  BY <1>2, ReportType
<1>3. ASSUME SetTopology PROVE TypeOK'
  BY <1>3, RebuildType DEF SetTopology
<1>4. ASSUME NEW g \in Groups, NEW k \in Keys, NEW a \in UserActions,
             ManualPick(g, k) \/ Cooled(g, k) \/ Act(g, a, k)
      PROVE  TypeOK'
  BY <1>4, UserType
<1>5. ASSUME NEW g \in Groups, CheckAll(g) PROVE TypeOK'
  <2>1. CASE Keys = {}
    BY <1>5, <2>1 DEF CheckAll, TypeOK, stepLocked, hostInput, GroupState
  <2>2. CASE Keys # {}
    BY <1>5, <2>2, UserType DEF UserActions
  <2> QED
    BY <2>1, <2>2
<1>6. ASSUME NEW g \in Groups, Settle(g) \/ Plan(g) PROVE TypeOK'
  BY <1>6, SettleType, PlanType
<1>7. CASE UNCHANGED vars
  BY <1>7 DEF vars, TypeOK
<1> QED
  BY <1>1, <1>2, <1>3, <1>4, <1>5, <1>6, <1>7, TimeType, HintsType DEF Next, UserActions

\* newMachine starts with the types.
LEMMA InitType == Init => TypeOK
<1> SUFFICES ASSUME Init PROVE TypeOK
  OBVIOUS
<1>1. NoFacts \in Facts
  BY MachineAssumption DEF NoFacts, Facts
<1>2. NewGroup \in GroupState
  BY MachineAssumption DEF NewGroup, GroupState
<1>3. NewControl \in Control
  BY DEF NewControl, Control
<1>4. /\ facts \in [Envs -> [Keys -> Facts]]
      /\ group \in [Groups -> GroupState]
      /\ control \in [Groups -> Control]
  BY <1>1, <1>2, <1>3 DEF Init
<1>5. link \in 0..LinkTicks /\ heard \in 0..LinkTicks
  BY MachineAssumption DEF Init
<1> QED
  BY <1>4, <1>5 DEF Init, TypeOK

\* The machine keeps its types, for any number of groups, nodes and networks
\* (machine.go, evidence.go).
THEOREM TypeCorrect == Spec => []TypeOK
BY InitType, TypeStep, PTL DEF Spec

-----------------------------------------------------------------------------
(* Checks in flight.                                                       *)

Planned == {k \in Busy : inflight[k].kind # "user"}

\* The steps that start or end a check, or that replace the groups.
Sends ==
    \/ \E k \in Keys, ok \in BOOLEAN : ProbeResult(k, ok)
    \/ SetTopology
    \/ \E g \in Groups : CheckAll(g) \/ Plan(g)

\* What settle leaves of a group: its members and its confirmation.
LEMMA SettleKeeps ==
  ASSUME TypeOK, NEW g \in Groups, Settle(g), NEW h \in Groups
  PROVE  /\ group'[h].confirm = group[h].confirm
         /\ group'[h].members = group[h].members
         /\ h # g => group'[h] = group[h]
<1>1. group[g] \in GroupState /\ group[h] \in GroupState
  BY DEF TypeOK
<1>2. CASE group[g].members = {}
  BY <1>2 DEF Settle
<1>3. CASE group[g].members # {}
  <2> DEFINE gs == [group[g] EXCEPT !.force = FALSE]
  <2>1. PICK d \in Decide(g) :
          \/ group' = [group EXCEPT ![g] = [gs EXCEPT !.action = d.action]]
          \/ group' = [group EXCEPT ![g] = Selected(gs, d.target)]
          \/ group' = [group EXCEPT ![g] = [gs EXCEPT !.action = "stranded"]]
    BY <1>3 DEF Settle
  <2>2. gs.confirm = group[g].confirm /\ gs.members = group[g].members /\ gs \in GroupState
    BY <1>1 DEF GroupState
  <2> HIDE DEF gs
  <2>3. /\ [gs EXCEPT !.action = d.action].confirm = gs.confirm
        /\ [gs EXCEPT !.action = "stranded"].confirm = gs.confirm
        /\ Selected(gs, d.target).confirm = gs.confirm
        /\ [gs EXCEPT !.action = d.action].members = gs.members
        /\ [gs EXCEPT !.action = "stranded"].members = gs.members
        /\ Selected(gs, d.target).members = gs.members
    BY <2>2 DEF Selected, GroupState
  <2> QED
    BY <1>1, <2>1, <2>2, <2>3 DEF TypeOK
<1> QED
  BY <1>2, <1>3

\* Every other step leaves the running checks, the bound groups and their
\* confirmations as they are: user moves, reports, network changes, time.
LEMMA QuietStep ==
  ASSUME TypeOK, [Next]_vars, ~Sends
  PROVE  /\ inflight' = inflight
         /\ bound' = bound
         /\ \A h \in Groups : group'[h].confirm = group[h].confirm
<1>0. group \in [Groups -> GroupState]
  BY DEF TypeOK
<1>1. ASSUME NEW k \in Keys, NEW ok \in BOOLEAN, URLTest(k, ok) \/ Traffic(k) \/ DialFailure(k)
      PROVE  /\ inflight' = inflight /\ bound' = bound
             /\ \A h \in Groups : group'[h].confirm = group[h].confirm
  BY <1>0, <1>1 DEF URLTest, Traffic, DialFailure, GroupState
<1>2. ASSUME NEW on \in BOOLEAN, NEW e \in Envs,
             SetRunning(on) \/ Doze(on) \/ ChangeNetwork(e) \/ Resume \/ OnTimer \/ NothingToVisit
      PROVE  /\ inflight' = inflight /\ bound' = bound
             /\ \A h \in Groups : group'[h].confirm = group[h].confirm
  BY <1>0, <1>2 DEF SetRunning, Doze, ChangeNetwork, Resume, OnTimer, NothingToVisit, resetRecover,
                    GroupState
<1>3. ASSUME NEW g \in Groups, NEW k \in Keys, NEW a \in UserActions,
             ManualPick(g, k) \/ Cooled(g, k) \/ Act(g, a, k)
      PROVE  /\ inflight' = inflight /\ bound' = bound
             /\ \A h \in Groups : group'[h].confirm = group[h].confirm
  BY <1>0, <1>3 DEF ManualPick, Cooled, Act, GroupState
<1>4. ASSUME NEW e \in Envs, NEW k \in Keys, Age(e, k)
      PROVE  /\ inflight' = inflight /\ bound' = bound
             /\ \A h \in Groups : group'[h].confirm = group[h].confirm
  BY <1>4 DEF Age
<1>5. CASE Tick
  BY <1>0, <1>5 DEF Tick, GroupState
<1>6. ASSUME NEW g \in Groups, Settle(g)
      PROVE  /\ inflight' = inflight /\ bound' = bound
             /\ \A h \in Groups : group'[h].confirm = group[h].confirm
  BY <1>6, SettleKeeps DEF Settle
<1>7. CASE UNCHANGED vars
  BY <1>7 DEF vars
<1>8. \E e \in Envs : TRUE
  BY DEF TypeOK
<1> QED
  BY <1>1, <1>2, <1>3, <1>4, <1>5, <1>6, <1>7, <1>8 DEF Next, Sends, UserActions

\* A check of the planner goes to nodes that are free, within the limit; the
\* rest of the checks run on.
LEMMA PlanSends ==
  ASSUME TypeOK, NEW g \in Groups, Plan(g)
  PROVE  \/ inflight' = inflight
         \/ \E S \in SUBSET Keys :
              /\ Addable(S)
              /\ \A k \in Keys \ S : inflight'[k] = inflight[k]
<1>1. group[g].members \subseteq Keys /\ inflight \in [Keys -> Job \cup {None}]
  BY DEF TypeOK, GroupState
<1>2. CASE Confirm(g)
  <2> DEFINE k == group[g].now
  <2>1. CASE Addable({k}) /\ inflight' = Launch(g, {k}, "confirm")
    <3>1. {k} \in SUBSET Keys
      BY <1>1, <1>2 DEF Confirm
    <3>2. \A j \in Keys \ {k} : inflight'[j] = inflight[j]
      BY <2>1 DEF Launch
    <3> QED
      BY <2>1, <3>1, <3>2
  <2>2. ASSUME NEW s \in eligible(g) \ {k}, Addable({k, s}),
               inflight' = [Launch(g, {k}, "confirm") EXCEPT ![s] =
                              [group |-> g, kind |-> "standby", env |-> envKey]]
        PROVE  \E S \in SUBSET Keys :
                 Addable(S) /\ \A j \in Keys \ S : inflight'[j] = inflight[j]
    <3>1. {k, s} \in SUBSET Keys
      BY <1>1, <1>2 DEF Confirm, eligible
    <3>2. \A j \in Keys \ {k, s} : inflight'[j] = inflight[j]
      BY <2>2 DEF Launch
    <3> QED
      BY <2>2, <3>1, <3>2
  <2> QED
    BY <1>2, <2>1, <2>2 DEF Confirm
<1>3. CASE Recover(g)
  BY <1>1, <1>3 DEF Recover, Launch
<1>4. CASE Improve(g)
  BY <1>1, <1>4 DEF Improve, Launch
<1> QED
  BY <1>2, <1>3, <1>4 DEF Plan

\* One step keeps the number of planned checks within probeConcurrency.
LEMMA PlannedStep ==
  ASSUME TypeOK, PlannerIsBounded, [Next]_vars
  PROVE  PlannerIsBounded'
<1>0. /\ IsFiniteSet(Keys) /\ ProbeConcurrency \in Nat
      /\ \A S \in SUBSET Keys : IsFiniteSet(S) /\ Cardinality(S) \in Nat
  BY MachineAssumption, FS_Subset, FS_CardinalityType
<1>1. SUFFICES Cardinality(Planned') <= ProbeConcurrency
  BY DEF PlannerIsBounded, Planned
<1>2. Planned \in SUBSET Keys /\ Planned' \in SUBSET Keys /\ Busy \in SUBSET Keys
  BY DEF Planned, Busy
<1>3. Cardinality(Planned) <= ProbeConcurrency
  BY DEF PlannerIsBounded, Planned
<1>4. ASSUME Planned' \subseteq Planned PROVE Cardinality(Planned') <= ProbeConcurrency
  BY <1>0, <1>2, <1>3, <1>4, FS_Subset
<1>5. CASE inflight' = inflight
  BY <1>4, <1>5 DEF Planned, Busy
<1>6. ASSUME NEW k \in Keys, NEW ok \in BOOLEAN, ProbeResult(k, ok)
      PROVE  Cardinality(Planned') <= ProbeConcurrency
  <2>1. inflight' = [inflight EXCEPT ![k] = None]
    BY <1>6 DEF ProbeResult
  <2> QED
    BY <1>4, <2>1 DEF Planned, Busy, TypeOK
<1>7. ASSUME NEW g \in Groups, CheckAll(g)
      PROVE  Cardinality(Planned') <= ProbeConcurrency
  <2>1. \A k \in Keys : \/ inflight'[k] = inflight[k]
                        \/ inflight'[k].kind = "user"
    BY <1>7 DEF CheckAll
  <2> QED
    BY <1>4, <2>1 DEF Planned, Busy
<1>8. ASSUME NEW S \in SUBSET Keys, Addable(S),
             \A k \in Keys \ S : inflight'[k] = inflight[k]
      PROVE  Cardinality(Planned') <= ProbeConcurrency
  <2>1. Planned' \subseteq Busy \cup S
    BY <1>8 DEF Planned, Busy
  <2>2. CASE Cardinality(Busy) >= ProbeConcurrency
    <3>1. S = {}
      BY <1>0, <1>2, <1>8, <2>2, FS_EmptySet DEF Addable, free
    <3> QED
      BY <1>4, <1>8, <3>1 DEF Planned, Busy
  <2>3. CASE ~(Cardinality(Busy) >= ProbeConcurrency)
    <3>1. Cardinality(S) <= ProbeConcurrency - Cardinality(Busy)
      BY <1>8, <2>3 DEF Addable, free
    <3>2. /\ IsFiniteSet(Busy \cup S)
          /\ Cardinality(Busy \cup S) = Cardinality(Busy) + Cardinality(S) - Cardinality(Busy \cap S)
      BY <1>0, <1>2, FS_Union
    <3>3. Cardinality(Busy \cap S) = 0
      BY <1>8, FS_EmptySet DEF Addable
    <3>4. Cardinality(Planned') <= Cardinality(Busy \cup S)
      BY <2>1, <3>2, FS_Subset
    <3> QED
      BY <1>0, <1>2, <3>1, <3>2, <3>3, <3>4
  <2> QED
    BY <2>2, <2>3
<1>9. ASSUME NEW g \in Groups, Plan(g)
      PROVE  Cardinality(Planned') <= ProbeConcurrency
  BY <1>5, <1>8, <1>9, PlanSends
<1>10. CASE SetTopology
  BY <1>5, <1>10 DEF SetTopology, Rebuild
<1>11. CASE ~Sends
  BY <1>5, <1>11, QuietStep
<1> QED
  BY <1>6, <1>7, <1>9, <1>10, <1>11 DEF Sends

\* The planner stays within probeConcurrency, however many checks of the user
\* run beside it (plan's free, checkAllLocked).
THEOREM PlannerBound == Spec => []PlannerIsBounded
<1>1. Init => PlannerIsBounded
  <2> SUFFICES ASSUME Init PROVE PlannerIsBounded
    OBVIOUS
  <2>1. {k \in Busy : inflight[k].kind # "user"} = {}
    BY DEF Init, Busy
  <2>2. Cardinality({k \in Busy : inflight[k].kind # "user"}) = 0
    BY <2>1, FS_EmptySet
  <2> QED
    BY <2>2, MachineAssumption DEF PlannerIsBounded
<1>2. TypeOK /\ PlannerIsBounded /\ [Next]_vars => PlannerIsBounded'
  BY PlannedStep
<1> QED
  BY <1>1, <1>2, TypeCorrect, PTL DEF Spec

-----------------------------------------------------------------------------
(* Confirmations and the checks they wait for.                             *)

\* The confirming checks of a group that run.
Awaited(g) == {k \in Keys : Confirming(k, g)}

\* The backoff of a group moves nothing but its recovery pass.
LEMMA RecoveryKeeps ==
  ASSUME NEW gs \in GroupState
  PROVE  \A r \in {backOff(gs), resetRecover(gs)} :
           /\ r.confirm = gs.confirm
           /\ r.suspect = gs.suspect
           /\ r.members = gs.members
           /\ r.now = gs.now
           /\ r.action = gs.action
<1> DEFINE same(r) == /\ r.confirm = gs.confirm /\ r.suspect = gs.suspect
                      /\ r.members = gs.members /\ r.now = gs.now /\ r.action = gs.action
<1>1. ASSUME NEW n \in 0..LastPass, NEW t \in Nat
      PROVE  same([gs EXCEPT !.recoverPass = n, !.recoverAt = t])
  <2> DEFINE s1 == [gs EXCEPT !.recoverPass = n]
             s2 == [s1 EXCEPT !.recoverAt = t]
  <2>1. s1 \in GroupState /\ same(s1)
    BY <1>1, GroupField DEF GroupState
  <2>2. s2 = [gs EXCEPT !.recoverPass = n, !.recoverAt = t]
    OBVIOUS
  <2> HIDE DEF s1
  <2>3. same(s2)
    BY <2>1 DEF GroupState
  <2> QED
    BY <2>2, <2>3
<1> DEFINE pass == IF gs.recoverPass = LastPass THEN LastPass ELSE gs.recoverPass + 1
<1>2. pass \in 0..LastPass /\ 0 \in 0..LastPass /\ Backoff[pass] \in Nat
  BY MachineAssumption DEF GroupState
<1>3. backOff(gs) = [gs EXCEPT !.recoverPass = pass, !.recoverAt = Backoff[pass]]
  BY DEF backOff
<1>4. resetRecover(gs) = [gs EXCEPT !.recoverPass = 0, !.recoverAt = 0]
  BY DEF resetRecover
<1> HIDE DEF same, pass
<1>5. same(backOff(gs)) /\ same(resetRecover(gs))
  BY <1>1, <1>2, <1>3, <1>4, ZenonT(40)
<1> QED
  BY <1>5 DEF same

\* What a result does to the confirmation of each group, and to the checks.
LEMMA ResultConfirm ==
  ASSUME TypeOK, NEW k \in Keys, NEW ok \in BOOLEAN, ProbeResult(k, ok),
         NEW h \in Groups
  PROVE  LET job  == inflight[k]
             pair == /\ job.group \in bound
                     /\ group[job.group].confirm # None
                     /\ job.kind \in {"confirm", "standby"}
             c    == record(group[job.group].confirm, job, ~ok)
         IN  /\ inflight' = [inflight EXCEPT ![k] = None]
             /\ bound' = bound
             /\ ~(h = job.group /\ pair) => group'[h].confirm = group[h].confirm
             /\ (h = job.group /\ pair) =>
                  group'[h].confirm = IF c.pending <= 0 THEN None ELSE c
<1> DEFINE job == inflight[k]
           g == job.group
           proven == ok \/ linkProven
           pair == /\ g \in bound
                   /\ group[g].confirm # None
                   /\ job.kind \in {"confirm", "standby"}
           c == record(group[g].confirm, job, ~ok)
           done == pair /\ c.pending <= 0
           recovered(i) == IF ok /\ i \in groupOf(k) THEN resetRecover(group[i])
                           ELSE group[i]
<1>1. /\ group' = [i \in Groups |->
                     IF i = g /\ done THEN resolved(recovered(g), c, proven)
                     ELSE IF i = g /\ pair THEN [recovered(g) EXCEPT !.confirm = c]
                     ELSE recovered(i)]
      /\ inflight' = [inflight EXCEPT ![k] = None]
      /\ bound' = bound
  BY DEF ProbeResult
<1>2. \A i \in Groups : group[i] \in GroupState
  BY DEF TypeOK
<1>3. \A i \in Groups : recovered(i) \in GroupState /\ recovered(i).confirm = group[i].confirm
  BY <1>2, RecoveryType, RecoveryKeeps
<1> HIDE DEF recovered
<1>4. ASSUME NEW i \in Groups
      PROVE  /\ [recovered(i) EXCEPT !.confirm = c].confirm = c
             /\ resolved(recovered(i), c, proven).confirm = None
  <2> DEFINE r == recovered(i)
             s1 == [r EXCEPT !.confirm = None]
             s2 == [s1 EXCEPT !.suspect = FALSE]
  <2>1. r \in GroupState
    BY <1>3
  <2> HIDE DEF r
  <2>2. s1 \in GroupState /\ s1.confirm = None
    BY <2>1, GroupField DEF GroupState
  <2>3. resolved(r, c, proven) \in {s2, backOff(s2)}
    BY DEF resolved
  <2> HIDE DEF s1
  <2>4. s2 \in GroupState
    BY <2>2, GroupField
  <2>5. s2.confirm = s1.confirm
    BY <2>2 DEF GroupState
  <2> HIDE DEF s2
  <2>6. backOff(s2).confirm = None
    BY <2>2, <2>4, <2>5, RecoveryKeeps
  <2>7. resolved(r, c, proven).confirm = None
    BY <2>2, <2>3, <2>5, <2>6
  <2>8. [r EXCEPT !.confirm = c].confirm = c
    BY <2>1 DEF GroupState
  <2> QED
    BY <2>7, <2>8 DEF r
<1> HIDE DEF c
<1>5. group'[h] = IF h = g /\ done THEN resolved(recovered(g), c, proven)
                  ELSE IF h = g /\ pair THEN [recovered(g) EXCEPT !.confirm = c]
                  ELSE recovered(h)
  BY <1>1
<1>6. ASSUME ~(h = g /\ pair) PROVE group'[h].confirm = group[h].confirm
  BY <1>3, <1>5, <1>6
<1>7. ASSUME h = g /\ pair PROVE group'[h].confirm = IF c.pending <= 0 THEN None ELSE c
  BY <1>4, <1>5, <1>7
<1> QED
  BY <1>1, <1>6, <1>7 DEF c

\* What plan does to confirmations: a group that had none gets one, for one
\* check or for two that were really sent; any other check it sends confirms
\* nothing, and no check is taken away.
LEMMA PlanConfirm ==
  ASSUME TypeOK, NEW g \in Groups, Plan(g)
  PROVE  /\ bound' = bound
         /\ \A j \in Busy : inflight'[j] = inflight[j]
         /\ \/ /\ \A h \in Groups : group'[h].confirm = group[h].confirm
               /\ \A j \in Keys \ Busy : \/ inflight'[j] = None
                                         \/ inflight'[j].kind \notin {"confirm", "standby"}
            \/ /\ \A h \in Groups \ {g} : group'[h].confirm = group[h].confirm
               /\ group[g].confirm = None
               /\ \E k \in Keys, s \in Keys \cup {None} :
                    /\ group'[g].confirm = Pair(k, s)
                    /\ k # s
                    /\ \A j \in Keys \ {k, s} : inflight'[j] = inflight[j]
                    /\ inflight'[k] = [group |-> g, kind |-> "confirm", env |-> envKey]
                    /\ s # None => inflight'[s] = [group |-> g, kind |-> "standby", env |-> envKey]
<1>0. /\ group \in [Groups -> GroupState] /\ group[g] \in GroupState
      /\ group[g].members \subseteq Keys
      /\ inflight \in [Keys -> Job \cup {None}]
  BY DEF TypeOK, GroupState
<1>1. \A j \in Busy : inflight'[j] = inflight[j]
  BY PlanSends DEF Addable, Busy
<1>2. bound' = bound
  BY DEF Plan
<1> DEFINE job(kind) == [group |-> g, kind |-> kind, env |-> envKey]
<1>3. CASE Confirm(g)
  <2> DEFINE k == group[g].now
             L == Launch(g, {k}, "confirm")
  <2>1. k \in Keys /\ group[g].confirm = None /\ k # None
    BY <1>0, <1>3, MachineAssumption DEF Confirm, MayConfirm
  <2>2. L[k] = job("confirm") /\ \A j \in Keys \ {k} : L[j] = inflight[j]
    BY <2>1 DEF Launch
  <2>3. L \in [Keys -> Job \cup {None}]
    BY LaunchType
  <2>4. \/ /\ inflight' = L
           /\ group' = [group EXCEPT ![g].confirm = Pair(k, None)]
        \/ \E s \in eligible(g) \ {k} :
             /\ inflight' = [L EXCEPT ![s] = job("standby")]
             /\ group' = [group EXCEPT ![g].confirm = Pair(k, s)]
    BY <1>3 DEF Confirm
  <2> HIDE DEF k, L, job
  <2>5. ASSUME NEW c, group' = [group EXCEPT ![g].confirm = c]
        PROVE  /\ group'[g].confirm = c
               /\ \A h \in Groups \ {g} : group'[h].confirm = group[h].confirm
    BY <1>0, <2>5 DEF GroupState
  <2>6. CASE /\ inflight' = L
             /\ group' = [group EXCEPT ![g].confirm = Pair(k, None)]
    <3>1. /\ group'[g].confirm = Pair(k, None)
          /\ \A h \in Groups \ {g} : group'[h].confirm = group[h].confirm
      BY <2>5, <2>6
    <3> QED
      BY <1>1, <1>2, <2>1, <2>2, <2>6, <3>1 DEF job
  <2>7. CASE \E s \in eligible(g) \ {k} :
             /\ inflight' = [L EXCEPT ![s] = job("standby")]
             /\ group' = [group EXCEPT ![g].confirm = Pair(k, s)]
    <3>1. PICK s \in eligible(g) \ {k} :
             /\ inflight' = [L EXCEPT ![s] = job("standby")]
             /\ group' = [group EXCEPT ![g].confirm = Pair(k, s)]
      BY <2>7
    <3>2. s \in Keys
      BY <1>0 DEF eligible
    <3>3. /\ group'[g].confirm = Pair(k, s)
          /\ \A h \in Groups \ {g} : group'[h].confirm = group[h].confirm
      BY <2>5, <3>1
    <3>4. /\ inflight'[k] = job("confirm") /\ inflight'[s] = job("standby")
          /\ \A j \in Keys \ {k, s} : inflight'[j] = inflight[j]
      BY <2>1, <2>2, <2>3, <3>1, <3>2
    <3> QED
      BY <1>1, <1>2, <2>1, <3>1, <3>2, <3>3, <3>4 DEF job
  <2> QED
    BY <2>4, <2>6, <2>7
<1>4. CASE Recover(g)
  <2>1. group' = [group EXCEPT ![g] = backOff(group[g])]
    BY <1>4 DEF Recover
  <2>2. backOff(group[g]).confirm = group[g].confirm
    BY <1>0, RecoveryKeeps
  <2>3. \A j \in Keys : inflight'[j] = inflight[j] \/ inflight'[j].kind = "recover"
    BY <1>4 DEF Recover, Launch
  <2> QED
    BY <1>0, <1>1, <1>2, <2>1, <2>2, <2>3 DEF Busy
<1>5. CASE Improve(g)
  <2>1. \A j \in Keys : inflight'[j] = inflight[j] \/ inflight'[j].kind = "check"
    BY <1>5 DEF Improve, Launch
  <2> QED
    BY <1>1, <1>2, <1>5, <2>1 DEF Improve, Busy
<1>6. CASE UNCHANGED <<group, inflight>>
  BY <1>1, <1>2, <1>6 DEF Busy
<1> QED
  BY <1>3, <1>4, <1>5, <1>6 DEF Plan

\* A confirmation that is sent is awaited, and the others still are.
LEMMA PlanAwaits ==
  ASSUME TypeOK, NEW g \in Groups, Plan(g), NEW h \in Groups
  PROVE  /\ bound' = bound
         /\ Awaited(h) \subseteq Awaited(h)'
         /\ \/ group'[h].confirm = group[h].confirm
            \/ \E k \in Keys, s \in Keys \cup {None} :
                 /\ group'[h].confirm = Pair(k, s)
                 /\ k # s
                 /\ {k, s} \ {None} \subseteq Awaited(h)'
<1>1. Awaited(h) \subseteq Awaited(h)'
  BY PlanConfirm DEF Awaited, Confirming, Busy
<1>2. ASSUME NEW kind \in {"confirm", "standby"}, NEW k \in Keys,
             inflight'[k] = [group |-> h, kind |-> kind, env |-> envKey]
      PROVE  k \in Awaited(h)'
  <2> DEFINE job == [group |-> h, kind |-> kind, env |-> envKey]
  <2>1. job # None /\ job.group = h /\ job.kind = kind
    BY NoneAssumption DEF Job, TypeOK
  <2> HIDE DEF job
  <2> QED
    BY <1>2, <2>1 DEF Awaited, Confirming, job
<1>3. CASE group'[h].confirm # group[h].confirm
  <2>1. PICK k \in Keys, s \in Keys \cup {None} :
          /\ group'[h].confirm = Pair(k, s)
          /\ k # s
          /\ inflight'[k] = [group |-> h, kind |-> "confirm", env |-> envKey]
          /\ s # None => inflight'[s] = [group |-> h, kind |-> "standby", env |-> envKey]
    BY <1>3, PlanConfirm, ZenonT(40)
  <2>2. {k, s} \ {None} \subseteq Awaited(h)'
    BY <1>2, <2>1
  <2> QED
    BY <1>1, <2>1, <2>2, PlanConfirm
<1> QED
  BY <1>1, <1>3, PlanConfirm

\* A result counts once.
LEMMA RecordPending ==
  ASSUME NEW c \in Confirmation, NEW job \in Job, NEW failed \in BOOLEAN
  PROVE  record(c, job, failed).pending = c.pending - 1
BY DEF record, Confirmation

\* One step keeps every confirmation waiting for checks that run.
LEMMA AwaitedStep ==
  ASSUME TypeOK, ConfirmIsAwaited, [Next]_vars
  PROVE  ConfirmIsAwaited'
<1> DEFINE waits(c, S) == c # None => c.pending > 0 /\ c.pending <= Cardinality(S)
<1>0. /\ IsFiniteSet(Keys)
      /\ \A S \in SUBSET Keys : IsFiniteSet(S) /\ Cardinality(S) \in Nat
      /\ bound \subseteq Groups
      /\ \A h \in Groups : group[h].confirm \in Confirmation \cup {None}
      /\ \A h \in Groups : Awaited(h) \in SUBSET Keys
  BY MachineAssumption, FS_Subset, FS_CardinalityType DEF TypeOK, GroupState, Awaited
<1>1. \A h \in bound : waits(group[h].confirm, Awaited(h))
  BY DEF ConfirmIsAwaited, Awaited
<1>2. SUFFICES ASSUME NEW h \in bound' PROVE waits(group'[h].confirm, Awaited(h)')
  BY DEF ConfirmIsAwaited, Awaited
<1>3. h \in Groups /\ TypeOK'
  BY TypeStep DEF TypeOK
<1>4. ASSUME h \in bound, group'[h].confirm = group[h].confirm, Awaited(h) \subseteq Awaited(h)'
      PROVE  waits(group'[h].confirm, Awaited(h)')
  <2>1. Awaited(h)' \in SUBSET Keys
    BY DEF Awaited
  <2>2. Cardinality(Awaited(h)) <= Cardinality(Awaited(h)')
    BY <1>0, <1>4, <2>1, FS_Subset
  <2> QED
    BY <1>0, <1>1, <1>3, <1>4, <2>1, <2>2 DEF Confirmation
<1>5. ASSUME NEW k \in Keys, NEW ok \in BOOLEAN, ProbeResult(k, ok)
      PROVE  waits(group'[h].confirm, Awaited(h)')
  <2> DEFINE job == inflight[k]
             pair == /\ job.group \in bound
                     /\ group[job.group].confirm # None
                     /\ job.kind \in {"confirm", "standby"}
             c == record(group[job.group].confirm, job, ~ok)
  <2>1. /\ inflight' = [inflight EXCEPT ![k] = None]
        /\ bound' = bound
        /\ ~(h = job.group /\ pair) => group'[h].confirm = group[h].confirm
        /\ (h = job.group /\ pair) => group'[h].confirm = IF c.pending <= 0 THEN None ELSE c
    BY <1>3, <1>5, ResultConfirm
  <2>2. job # None
    BY <1>5 DEF ProbeResult
  <2>3. CASE h = job.group /\ pair
    <3>1. group[h].confirm \in Confirmation /\ c.pending = group[h].confirm.pending - 1
      <4>1. job \in Job /\ (~ok) \in BOOLEAN
        BY <2>2 DEF TypeOK
      <4>2. group[h].confirm \in Confirmation
        BY <1>0, <1>3, <2>3
      <4> QED
        BY <2>3, <4>1, <4>2, RecordPending
    <3>2. Awaited(h)' = Awaited(h) \ {k} /\ k \in Awaited(h)
      BY <2>1, <2>2, <2>3 DEF Awaited, Confirming, TypeOK
    <3>3. Cardinality(Awaited(h)') = Cardinality(Awaited(h)) - 1
      BY <1>0, <1>3, <3>2, FS_RemoveElement
    <3>4. /\ group[h].confirm.pending <= Cardinality(Awaited(h))
          /\ group[h].confirm.pending \in Nat /\ Cardinality(Awaited(h)) \in Nat
      BY <1>0, <1>1, <1>3, <2>3, <3>1 DEF Confirmation
    <3>5. group'[h].confirm = IF c.pending <= 0 THEN None ELSE c
      BY <2>1, <2>3
    <3> HIDE DEF c, pair
    <3> QED
      BY <3>1, <3>3, <3>4, <3>5
  <2>4. CASE ~(h = job.group /\ pair)
    <3>1. CASE group[h].confirm = None
      BY <2>1, <2>4, <3>1
    <3>2. CASE group[h].confirm # None
      <4>1. ~Confirming(k, h)
        BY <1>2, <2>1, <2>4, <3>2 DEF Confirming
      <4>2. Awaited(h) \subseteq Awaited(h)'
        BY <2>1, <4>1 DEF Awaited, Confirming, TypeOK
      <4> QED
        BY <1>2, <1>4, <2>1, <2>4, <4>2
    <3> QED
      BY <3>1, <3>2
  <2> QED
    BY <2>3, <2>4
<1>6. CASE SetTopology
  <2>1. PICK next \in Rebinds : \E offered \in SUBSET next : \E current \in [Groups -> Keys] :
          Rebuild(next, offered, current)
    BY <1>6 DEF SetTopology
  <2>7. PICK offered \in SUBSET next, current \in [Groups -> Keys] :
          Rebuild(next, offered, current)
    BY <2>1
  <2> DEFINE kept == IF h \in bound THEN group[h] ELSE NewGroup
  <2>2. /\ bound' = next /\ inflight' = inflight
        /\ group'[h] = IF h \in offered
                         THEN [kept EXCEPT !.members = Members[h], !.now = current[h]]
                       ELSE [kept EXCEPT !.members = {}, !.now = None]
    BY <1>2, <1>3, <2>7 DEF Rebuild
  <2>3. kept \in GroupState
    <3>1. NewGroup \in GroupState
      BY MachineAssumption DEF NewGroup, GroupState
    <3> QED
      BY <1>3, <3>1 DEF TypeOK
  <2>4. kept.confirm = IF h \in bound THEN group[h].confirm ELSE None
    BY DEF NewGroup
  <2> HIDE DEF kept
  <2>5. group'[h].confirm = kept.confirm
    BY <2>2, <2>3 DEF GroupState
  <2>6. Awaited(h)' = Awaited(h)
    BY <2>2 DEF Awaited, Confirming
  <2> QED
    BY <1>1, <1>4, <2>4, <2>5, <2>6
<1>7. ASSUME NEW g \in Groups, CheckAll(g)
      PROVE  waits(group'[h].confirm, Awaited(h)')
  <2>1. bound' = bound /\ group' = group
    BY <1>7 DEF CheckAll
  <2>2. Awaited(h) \subseteq Awaited(h)'
    BY <1>7 DEF CheckAll, Awaited, Confirming, Busy
  <2> QED
    BY <1>2, <1>4, <2>1, <2>2
<1>8. ASSUME NEW g \in Groups, Plan(g)
      PROVE  waits(group'[h].confirm, Awaited(h)')
  <2>1. bound' = bound /\ Awaited(h) \subseteq Awaited(h)'
    BY <1>3, <1>8, PlanAwaits
  <2>2. CASE group'[h].confirm = group[h].confirm
    BY <1>2, <1>4, <2>1, <2>2
  <2>3. CASE group'[h].confirm # group[h].confirm
    <3>1. PICK k \in Keys, s \in Keys \cup {None} :
            group'[h].confirm = Pair(k, s) /\ k # s /\ {k, s} \ {None} \subseteq Awaited(h)'
      BY <1>3, <1>8, <2>3, PlanAwaits
    <3>2. Awaited(h)' \in SUBSET Keys /\ k # None
      BY MachineAssumption DEF Awaited
    <3>3. CASE s = None
      <4>1. Cardinality({k}) = 1 /\ {k} \subseteq Awaited(h)'
        BY <3>1, <3>2, FS_Singleton
      <4>2. 1 <= Cardinality(Awaited(h)')
        BY <1>0, <3>2, <4>1, FS_Subset
      <4> QED
        BY <3>1, <3>3, <4>2 DEF Pair
    <3>4. CASE s # None
      <4>1. {k, s} \in SUBSET Awaited(h)'
        BY <3>1, <3>2, <3>4
      <4>2. Cardinality({k, s}) = 2
        <5>1. {k, s} = {k} \cup {s} /\ Cardinality({k}) = 1 /\ IsFiniteSet({k})
          BY FS_Singleton
        <5>2. s \notin {k}
          BY <3>1
        <5>3. Cardinality({k} \cup {s}) = Cardinality({k}) + 1
          BY <5>1, <5>2, FS_AddElement
        <5> QED
          BY <5>1, <5>3
      <4>3. 2 <= Cardinality(Awaited(h)')
        BY <1>0, <3>2, <4>1, <4>2, FS_Subset
      <4> QED
        BY <3>1, <3>4, <4>3 DEF Pair
    <3> QED
      BY <3>3, <3>4
  <2> QED
    BY <2>2, <2>3
<1>9. CASE ~Sends
  <2>1. inflight' = inflight /\ bound' = bound /\ group'[h].confirm = group[h].confirm
    BY <1>3, <1>9, QuietStep
  <2>2. Awaited(h)' = Awaited(h)
    BY <2>1 DEF Awaited, Confirming
  <2> QED
    BY <1>2, <1>4, <2>1, <2>2
<1> QED
  BY <1>5, <1>6, <1>7, <1>8, <1>9 DEF Sends

\* No confirmation waits for a check that is not running, whatever results,
\* moves of the user, network changes and rebuilds come between (plan, record,
\* rebuild): the confirmation of a group cannot stay open for good.
THEOREM ConfirmationsAreAwaited == Spec => []ConfirmIsAwaited
<1>1. Init => ConfirmIsAwaited
  BY DEF Init, ConfirmIsAwaited
<1>2. TypeOK /\ ConfirmIsAwaited /\ [Next]_vars => ConfirmIsAwaited'
  BY AwaitedStep
<1> QED
  BY <1>1, <1>2, TypeCorrect, PTL DEF Spec

-----------------------------------------------------------------------------
(* Failover.                                                               *)

\* The group is off a dead node, or has nowhere to go, or was refused.
Settled(g) ==
    (/\ running
     /\ control[g].mode # "manual"
     /\ group[g].now \in group[g].members
     /\ dead(group[g].now)
     /\ eligible(g) # {}) => group[g].action = "stranded"

\* The inductive form of FailoverDone: while the settle loop runs, it holds
\* of the groups the loop is done with.
FailoverInv ==
    \A g \in bound : (phase = "settle" /\ g \in todo) \/ Settled(g)

\* Nothing Settled looks at has changed.
LEMMA SettledKept ==
  ASSUME NEW g, Settled(g), running' = running, control' = control,
         envKey' = envKey,
         group'[g].now = group[g].now, group'[g].members = group[g].members,
         group'[g].action = group[g].action,
         group[g].members \subseteq Keys,
         \A k \in Keys : facts'[envKey][k].health = "dead" <=> facts[envKey][k].health = "dead"
  PROVE  Settled(g)'
BY DEF Settled, dead, eligible

\* Decide offers to switch only to eligible members, and keeps a group on a
\* dead node only if it has no eligible member or is in manual mode.
LEMMA DecideLeaves ==
  ASSUME NEW g, NEW d \in Decide(g)
  PROVE  /\ d.action = "switch" => d.target \in eligible(g)
         /\ (/\ control[g].mode # "manual"
             /\ dead(group[g].now)
             /\ eligible(g) # {}) => d.action = "switch" /\ d.target # group[g].now
<1>1. dead(group[g].now) => group[g].now \notin eligible(g)
  BY DEF eligible
<1>2. \A S, x : x \in {[action |-> "switch", target |-> k] : k \in S} =>
                   x.action = "switch" /\ x.target \in S
  OBVIOUS
<1>3. PinHolds(g) => control[g].pin \in eligible(g)
  BY DEF PinHolds
<1> QED
  BY <1>1, <1>2, <1>3 DEF Decide, MustLeave

\* settle leaves its group settled.
LEMMA SettleSettles ==
  ASSUME TypeOK, NEW g \in Groups, Settle(g)
  PROVE  Settled(g)'
<1>1. /\ UNCHANGED <<running, envKey, facts, control>>
      /\ group[g] \in GroupState /\ group'[g] \in GroupState
      /\ group'[g].members = group[g].members
  BY SettleKeeps, SettleType DEF Settle, TypeOK
<1>2. /\ eligible(g)' = eligible(g)
      /\ \A k : dead(k)' <=> dead(k)
  BY <1>1 DEF eligible, dead
<1>3. CASE group[g].members = {}
  BY <1>1, <1>3 DEF Settled
<1>4. CASE group[g].members # {}
  <2> DEFINE gs == [group[g] EXCEPT !.force = FALSE]
  <2>1. PICK d \in Decide(g) :
          \/ /\ ~(d.action = "switch" /\ running /\ d.target # group[g].now)
             /\ group' = [group EXCEPT ![g] = [gs EXCEPT !.action = d.action]]
          \/ /\ d.action = "switch"
             /\ group' = [group EXCEPT ![g] = Selected(gs, d.target)]
          \/ group' = [group EXCEPT ![g] = [gs EXCEPT !.action = "stranded"]]
    BY <1>4 DEF Settle
  <2>2. gs \in GroupState /\ gs.now = group[g].now
    <3>1. gs \in GroupState
      BY <1>1, GroupField
    <3>2. gs.now = group[g].now
      BY <1>1 DEF GroupState
    <3> QED
      BY <3>1, <3>2
  <2> HIDE DEF gs
  <2>3. CASE /\ ~(d.action = "switch" /\ running /\ d.target # group[g].now)
             /\ group' = [group EXCEPT ![g] = [gs EXCEPT !.action = d.action]]
    <3>1. group'[g].now = group[g].now
      BY <2>2, <2>3 DEF TypeOK, GroupState
    <3> QED
      BY <1>1, <1>2, <2>3, <3>1, DecideLeaves DEF Settled
  <2>4. CASE /\ d.action = "switch"
             /\ group' = [group EXCEPT ![g] = Selected(gs, d.target)]
    <3>1. group'[g].now = d.target
      BY <2>2, <2>4 DEF TypeOK, GroupState, Selected
    <3>2. ~dead(d.target)
      BY <2>4, DecideLeaves DEF eligible
    <3> QED
      BY <1>2, <3>1, <3>2 DEF Settled
  <2>5. CASE group' = [group EXCEPT ![g] = [gs EXCEPT !.action = "stranded"]]
    <3>1. group'[g].action = "stranded"
      BY <2>2, <2>5 DEF TypeOK, GroupState
    <3> QED
      BY <3>1 DEF Settled
  <2> QED
    BY <2>1, <2>3, <2>4, <2>5
<1> QED
  BY <1>3, <1>4

\* Every input leaves all bound groups to the settle loop.
LEMMA InputsSettle ==
  ASSUME [Next]_vars
  PROVE  \/ phase' = "settle" /\ todo' = bound'
         \/ Tick \/ NothingToVisit \/ UNCHANGED vars
         \/ \E e \in Envs, k \in Keys : Age(e, k)
         \/ \E g \in Groups : Settle(g) \/ Plan(g)
<1> DEFINE left == phase' = "settle" /\ todo' = bound'
<1>1. ASSUME NEW k \in Keys, NEW ok \in BOOLEAN,
             ProbeResult(k, ok) \/ URLTest(k, ok) \/ Traffic(k) \/ DialFailure(k)
      PROVE  left
  BY <1>1 DEF ProbeResult, URLTest, Traffic, DialFailure, stepLocked
<1>2. ASSUME NEW on \in BOOLEAN, SetRunning(on) \/ Doze(on) PROVE left
  BY <1>2 DEF SetRunning, Doze, stepLocked
<1>3. ASSUME NEW e \in Envs, ChangeNetwork(e) PROVE left
  BY <1>3 DEF ChangeNetwork, stepLocked
<1>4. ASSUME Resume \/ OnTimer \/ SetTopology PROVE left
  BY <1>4 DEF Resume, OnTimer, SetTopology, Rebuild, stepLocked
<1>5. ASSUME NEW g \in Groups, NEW k \in Keys, ManualPick(g, k) \/ Cooled(g, k) PROVE left
  BY <1>5 DEF ManualPick, Cooled, stepLocked
<1>6. ASSUME NEW g \in Groups, NEW k \in Keys, NEW a \in UserActions, Act(g, a, k) PROVE left
  BY <1>6 DEF Act, stepLocked
<1>7. ASSUME NEW g \in Groups, CheckAll(g) PROVE left
  BY <1>7 DEF CheckAll, stepLocked
<1> HIDE DEF left
<1>8. \/ left
      \/ Tick \/ NothingToVisit \/ UNCHANGED vars
      \/ \E e \in Envs, k \in Keys : Age(e, k)
      \/ \E g \in Groups : Settle(g) \/ Plan(g)
  BY <1>1, <1>2, <1>3, <1>4, <1>5, <1>6, <1>7 DEF Next
<1> QED
  BY <1>8 DEF left

\* plan leaves the node and the action of every group alone.
LEMMA PlanKeeps ==
  ASSUME TypeOK, NEW g \in Groups, Plan(g), NEW h \in Groups
  PROVE  /\ group'[h].now = group[h].now
         /\ group'[h].members = group[h].members
         /\ group'[h].action = group[h].action
<1>1. group[g] \in GroupState /\ group[h] \in GroupState
  BY DEF TypeOK
<1>2. CASE UNCHANGED group
  BY <1>2
<1>3. CASE Confirm(g)
  <2>1. PICK c : group' = [group EXCEPT ![g].confirm = c]
    BY <1>3 DEF Confirm
  <2> QED
    BY <1>1, <2>1 DEF TypeOK, GroupState
<1>4. CASE Recover(g)
  <2>1. group' = [group EXCEPT ![g] = backOff(group[g])]
    BY <1>4 DEF Recover
  <2> QED
    BY <1>1, <2>1, RecoveryKeeps DEF TypeOK
<1> QED
  BY <1>2, <1>3, <1>4 DEF Plan, Improve

\* One step keeps the groups the settle loop is done with settled.
LEMMA FailoverStep ==
  ASSUME TypeOK, FailoverInv, [Next]_vars
  PROVE  FailoverInv'
<1>0. /\ bound \subseteq Groups
      /\ \A h \in Groups : group[h] \in GroupState /\ group[h].members \subseteq Keys
      /\ facts \in [Envs -> [Keys -> Facts]] /\ envKey \in Envs
  BY DEF TypeOK, GroupState
<1>1. CASE phase' = "settle" /\ todo' = bound'
  BY <1>1 DEF FailoverInv
<1>2. ASSUME NEW g \in Groups, Settle(g) PROVE FailoverInv'
  <2>1. SUFFICES ASSUME NEW h \in bound', ~(phase' = "settle" /\ h \in todo') PROVE Settled(h)'
    BY DEF FailoverInv
  <2>2. bound' = bound /\ h \in Groups
    BY <1>0, <1>2, <2>1 DEF Settle
  <2>3. CASE h = g
    BY <1>2, <2>3, SettleSettles
  <2>4. CASE h # g
    <3>1. h \notin todo
      BY <1>2, <2>1, <2>4 DEF Settle, Visited
    <3>2. Settled(h)
      BY <2>2, <3>1 DEF FailoverInv
    <3>3. group'[h] = group[h]
      BY <1>2, <2>2, <2>4, SettleKeeps
    <3> QED
      BY <1>0, <1>2, <2>2, <3>2, <3>3, SettledKept DEF Settle
  <2> QED
    BY <2>3, <2>4
<1>3. ASSUME NEW g \in Groups, Plan(g) PROVE FailoverInv'
  <2>1. SUFFICES ASSUME NEW h \in bound' PROVE Settled(h)'
    BY DEF FailoverInv
  <2>2. bound' = bound /\ h \in Groups /\ phase = "plan"
    BY <1>0, <1>3, <2>1 DEF Plan
  <2>3. Settled(h)
    BY <2>1, <2>2 DEF FailoverInv
  <2> QED
    BY <1>0, <1>3, <2>2, <2>3, PlanKeeps, SettledKept DEF Plan
<1>4. CASE NothingToVisit
  BY <1>4 DEF NothingToVisit, FailoverInv, Settled, dead, eligible
<1>5. CASE UNCHANGED vars
  BY <1>5 DEF vars, FailoverInv, Settled, dead, eligible
<1>6. CASE Tick
  <2>1. SUFFICES ASSUME NEW h \in bound' PROVE Settled(h)'
    BY DEF FailoverInv
  <2>2. h \in Groups /\ Settled(h)
    BY <1>0, <1>6, <2>1 DEF Tick, FailoverInv
  <2>3. /\ group'[h].now = group[h].now /\ group'[h].members = group[h].members
        /\ group'[h].action = group[h].action
    BY <1>0, <1>6, <2>2 DEF Tick, GroupState
  <2>4. \A k \in Keys : facts'[envKey][k].health = facts[envKey][k].health
    BY <1>0, <1>6 DEF Tick, Facts
  <2> QED
    BY <1>0, <1>6, <2>2, <2>3, <2>4, SettledKept DEF Tick
<1>7. ASSUME NEW e \in Envs, NEW k \in Keys, Age(e, k) PROVE FailoverInv'
  <2>1. SUFFICES ASSUME NEW h \in bound' PROVE Settled(h)'
    BY DEF FailoverInv
  <2>2. h \in Groups /\ Settled(h)
    BY <1>0, <1>7, <2>1 DEF Age, FailoverInv
  <2>3. \A j \in Keys : facts'[envKey][j].health = "dead" <=> facts[envKey][j].health = "dead"
    BY <1>0, <1>7 DEF Age, Facts
  <2> QED
    BY <1>0, <1>7, <2>2, <2>3, SettledKept DEF Age
<1> QED
  BY <1>1, <1>2, <1>3, <1>4, <1>5, <1>6, <1>7, InputsSettle

\* After every step no routed group stays on a node known dead while it has
\* another to go to, for any number of groups that share nodes: settle visits
\* every bound group after every input (Engine.stepLocked, settle, Decide).
THEOREM FailoverIsDone == Spec => []FailoverDone
<1>1. Init => FailoverInv
  BY DEF Init, FailoverInv
<1>2. TypeOK /\ FailoverInv /\ [Next]_vars => FailoverInv'
  BY FailoverStep
<1>3. FailoverInv => FailoverDone
  BY DEF FailoverInv, FailoverDone, Settled
<1> QED
  BY <1>1, <1>2, <1>3, TypeCorrect, PTL DEF Spec

-----------------------------------------------------------------------------
(* Escrow: nothing is condemned while nothing gets through.                *)

\* No group leaves while a confirming check of it runs.  Without it a result
\* of the old confirmation counts for the one the group starts when it is
\* bound again, and the theorem fails: TLC finds that with three nodes.
ConfirmingGroupStays == \A g \in bound \ bound' : Awaited(g) = {}

Sent(k, g) == IF k \in Awaited(g) THEN 1 ELSE 0

\* An open confirmation c of group g: the checks that run are its own, each
\* as what it was sent for, and a standby that answered was heard.
Paired(g, c) ==
    /\ c.key # c.standby
    /\ Awaited(g) \subseteq {c.key, c.standby}
    /\ c.key \in Awaited(g) => inflight[c.key].kind = "confirm"
    /\ c.standby \in Awaited(g) => inflight[c.standby].kind = "standby"
    /\ c.pending = Sent(c.key, g) + Sent(c.standby, g)
    /\ c.pending > 0
    /\ (c.standby # None /\ c.standby \notin Awaited(g) /\ ~c.standbyDown) => heard > 0

GroupEscrow(g) ==
    IF g \in bound /\ group[g].confirm # None THEN Paired(g, group[g].confirm)
    ELSE Awaited(g) = {}

EscrowInv ==
    /\ link <= heard
    /\ todo \subseteq bound
    /\ \A g \in Groups : GroupEscrow(g)

\* A step that neither sends nor ends a check of the group keeps its part.
LEMMA EscrowKept ==
  ASSUME NEW g \in Groups, GroupEscrow(g),
         g \in bound' <=> g \in bound,
         group'[g].confirm = group[g].confirm,
         Awaited(g)' = Awaited(g),
         \A k \in Awaited(g) : inflight'[k] = inflight[k],
         heard > 0 => heard' > 0
  PROVE  GroupEscrow(g)'
BY DEF GroupEscrow, Paired, Sent

\* What a result leaves in a confirmation.
LEMMA RecordKeeps ==
  ASSUME NEW c \in Confirmation, NEW job \in Job, NEW failed \in BOOLEAN
  PROVE  LET d == record(c, job, failed)
         IN  /\ d.key = c.key /\ d.standby = c.standby
             /\ d.standbyDown = IF job.kind = "standby" THEN failed ELSE c.standbyDown
<1> DEFINE d1 == IF job.kind = "confirm" THEN failed ELSE c.failed
           s1 == IF job.kind = "standby" THEN failed ELSE c.standbyDown
           c1 == [c EXCEPT !.pending = c.pending - 1]
           c2 == [c1 EXCEPT !.failed = d1]
           c3 == [c2 EXCEPT !.standbyDown = s1]
<1>1. record(c, job, failed) = c3
  BY DEF record
<1> HIDE DEF d1, s1
<1>2. c3.key = c.key /\ c3.standby = c.standby /\ c3.standbyDown = s1
  BY DEF Confirmation
<1> HIDE DEF c3
<1> QED
  BY <1>1, <1>2 DEF s1

\* A result keeps the escrow of every group.
LEMMA ResultEscrow ==
  ASSUME TypeOK, EscrowInv, NEW k \in Keys, NEW ok \in BOOLEAN, ProbeResult(k, ok),
         NEW h \in Groups
  PROVE  GroupEscrow(h)'
<1> DEFINE job == inflight[k]
           g == job.group
           old == group[g].confirm
           pair == g \in bound /\ old # None /\ job.kind \in {"confirm", "standby"}
           c == record(old, job, ~ok)
<1>1. /\ job \in Job /\ g \in Groups /\ (~ok) \in BOOLEAN
      /\ LinkTicks \in Nat \ {0} /\ heard \in Nat
      /\ heard' = IF ok THEN LinkTicks ELSE heard
  BY MachineAssumption DEF ProbeResult, TypeOK, Job
<1>2. /\ inflight' = [inflight EXCEPT ![k] = None] /\ inflight \in [Keys -> Job \cup {None}]
      /\ bound' = bound
      /\ ~(h = g /\ pair) => group'[h].confirm = group[h].confirm
      /\ (h = g /\ pair) => group'[h].confirm = IF c.pending <= 0 THEN None ELSE c
  BY ResultConfirm DEF TypeOK
<1>3. GroupEscrow(h) /\ GroupEscrow(g) /\ job # None
  BY <1>1 DEF EscrowInv, ProbeResult
<1>4. CASE ~Confirming(k, h)
  <2>1. Awaited(h)' = Awaited(h) /\ \A j \in Awaited(h) : inflight'[j] = inflight[j]
    BY <1>2, <1>4 DEF Awaited, Confirming
  <2>2. ~(h = g /\ pair)
    BY <1>3, <1>4 DEF Confirming
  <2> QED
    BY <1>1, <1>2, <1>3, <2>1, <2>2, EscrowKept
<1>5. CASE Confirming(k, h)
  <2>1. h = g /\ job.kind \in {"confirm", "standby"} /\ k \in Awaited(h) /\ pair
    BY <1>3, <1>5 DEF Confirming, Awaited, GroupEscrow
  <2>2. PICK o, n : o = old /\ n = c
    OBVIOUS
  <2>3. Paired(h, o) /\ o \in Confirmation
    BY <1>1, <1>3, <2>1, <2>2 DEF GroupEscrow, TypeOK, GroupState
  <2>4. Awaited(h)' = Awaited(h) \ {k} /\ \A j \in Awaited(h) \ {k} : inflight'[j] = inflight[j]
    BY <1>2 DEF Awaited, Confirming
  <2>5. /\ n.pending = o.pending - 1 /\ n.key = o.key /\ n.standby = o.standby
        /\ n.standbyDown = IF job.kind = "standby" THEN ~ok ELSE o.standbyDown
    <3>1. PICK f \in BOOLEAN : f = ~ok
      BY <1>1
    <3>2. n = record(o, job, f)
      BY <2>2, <3>1
    <3>3. n.pending = o.pending - 1
      BY <1>1, <2>3, <3>2, RecordPending
    <3>4. /\ n.key = o.key /\ n.standby = o.standby
          /\ n.standbyDown = IF job.kind = "standby" THEN f ELSE o.standbyDown
      BY <1>1, <2>3, <3>2, RecordKeeps
    <3> QED
      BY <3>1, <3>3, <3>4
  <2>6. group'[h].confirm = IF n.pending <= 0 THEN None ELSE n
    BY <1>2, <2>1, <2>2
  <2>7. h \in bound'
    BY <1>2, <2>1
  <2> HIDE DEF c, pair, old
  <2>8. /\ \/ k = o.key /\ job.kind = "confirm"
           \/ k = o.standby /\ job.kind = "standby"
        /\ o.key # o.standby /\ k # None
    BY <2>1, <2>3, MachineAssumption DEF Paired
  <2>9. n.pending = Sent(n.key, h)' + Sent(n.standby, h)'
    <3>1. /\ Sent(n.key, h)' = IF n.key \in Awaited(h)' THEN 1 ELSE 0
          /\ Sent(n.standby, h)' = IF n.standby \in Awaited(h)' THEN 1 ELSE 0
      BY DEF Sent
    <3>2. o.pending = Sent(o.key, h) + Sent(o.standby, h) /\ o.pending \in Nat
      BY <2>3 DEF Paired, Confirmation
    <3>3. CASE k = o.key
      BY <2>1, <2>4, <2>5, <2>8, <3>1, <3>2, <3>3 DEF Sent
    <3>4. CASE k = o.standby
      BY <2>1, <2>4, <2>5, <2>8, <3>1, <3>2, <3>4 DEF Sent
    <3> QED
      BY <2>8, <3>3, <3>4
  <2>10. CASE n.pending <= 0
    <3>1. Awaited(h)' = {}
      BY <2>3, <2>4, <2>5, <2>9, <2>10 DEF Paired, Sent
    <3> QED
      BY <2>6, <2>10, <3>1 DEF GroupEscrow
  <2>11. CASE ~(n.pending <= 0)
    <3>1. n.pending > 0
      BY <2>9, <2>11 DEF Sent
    <3>2. (n.standby # None /\ n.standby \notin Awaited(h)' /\ ~n.standbyDown) => heard' > 0
      <4> HAVE n.standby # None /\ n.standby \notin Awaited(h)' /\ ~n.standbyDown
      <4>1. CASE k = o.standby
        <5>1. job.kind = "standby"
          BY <2>8, <4>1
        <5>2. n.standbyDown = ~ok
          BY <2>5, <5>1
        <5>3. ok
          BY <5>2
        <5> QED
          BY <1>1, <5>3
      <4>2. CASE k = o.key
        <5>1. o.standby \notin Awaited(h) /\ ~o.standbyDown
          BY <2>4, <2>5, <2>8, <4>2
        <5>2. heard > 0
          BY <2>3, <2>5, <5>1 DEF Paired
        <5> QED
          BY <1>1, <5>2
      <4> QED
        BY <2>8, <4>1, <4>2
    <3>3. Paired(h, n)'
      <4>1. n.key # n.standby /\ Awaited(h)' \subseteq {n.key, n.standby}
        BY <2>3, <2>4, <2>5 DEF Paired
      <4>2. /\ n.key \in Awaited(h)' => inflight'[n.key].kind = "confirm"
            /\ n.standby \in Awaited(h)' => inflight'[n.standby].kind = "standby"
        BY <2>3, <2>4, <2>5 DEF Paired
      <4> QED
        BY <2>9, <3>1, <3>2, <4>1, <4>2 DEF Paired
    <3>4. n # None
      <4>1. PICK f \in BOOLEAN : n = record(o, job, f)
        BY <1>1, <2>2 DEF c
      <4>2. n \in Confirmation
        BY <1>1, <2>3, <2>11, <4>1, RecordType
      <4> QED
        BY <4>2, NoneAssumption
    <3> QED
      BY <2>6, <2>7, <2>11, <3>3, <3>4 DEF GroupEscrow, Paired, Sent
  <2> QED
    BY <2>10, <2>11
<1> QED
  BY <1>4, <1>5

\* A new confirmation starts with its own checks and no other.
LEMMA PlanEscrow ==
  ASSUME TypeOK, EscrowInv, NEW g \in Groups, Plan(g), NEW h \in Groups
  PROVE  GroupEscrow(h)'
<1>1. /\ GroupEscrow(h) /\ bound' = bound /\ heard' = heard
      /\ \A j \in Busy : inflight'[j] = inflight[j]
      /\ inflight \in [Keys -> Job \cup {None}]
  BY PlanConfirm DEF EscrowInv, Plan, TypeOK
<1>2. CASE /\ \A i \in Groups : group'[i].confirm = group[i].confirm
           /\ \A j \in Keys \ Busy : \/ inflight'[j] = None
                                     \/ inflight'[j].kind \notin {"confirm", "standby"}
  <2>1. Awaited(h)' = Awaited(h) /\ \A j \in Awaited(h) : inflight'[j] = inflight[j]
    BY <1>1, <1>2 DEF Awaited, Confirming, Busy
  <2> QED
    BY <1>1, <1>2, <2>1, EscrowKept
<1>3. ASSUME NEW k \in Keys, NEW s \in Keys \cup {None},
             \A i \in Groups \ {g} : group'[i].confirm = group[i].confirm,
             group[g].confirm = None,
             group'[g].confirm = Pair(k, s), k # s,
             \A j \in Keys \ {k, s} : inflight'[j] = inflight[j],
             inflight'[k] = [group |-> g, kind |-> "confirm", env |-> envKey],
             s # None => inflight'[s] = [group |-> g, kind |-> "standby", env |-> envKey]
      PROVE  GroupEscrow(h)'
  <2> DEFINE job(kind) == [group |-> g, kind |-> kind, env |-> envKey]
  <2>1. \A kind \in {"confirm", "standby"} :
          job(kind) # None /\ job(kind).group = g /\ job(kind).kind = kind
    BY NoneAssumption DEF Job, TypeOK
  <2>2. inflight'[k] = job("confirm") /\ (s # None => inflight'[s] = job("standby")) /\ k # None
    BY <1>3, MachineAssumption
  <2> HIDE DEF job
  <2>3. /\ k \notin Busy /\ s \notin Busy
    <3>1. \A j \in Keys : Confirming(j, g) => j \in Awaited(g)
      BY DEF Awaited
    <3>2. GroupEscrow(g)
      BY DEF EscrowInv
    <3>3. Awaited(g) = {}
      BY <1>3, <3>2 DEF GroupEscrow
    <3>4. ~Confirming(k, g) /\ (s # None => ~Confirming(s, g))
      BY <3>1, <3>3
    <3>5. k \notin Busy
      BY <1>1, <2>1, <2>2, <3>4 DEF Confirming
    <3>6. s # None => s \notin Busy
      BY <1>1, <2>1, <2>2, <3>4 DEF Confirming
    <3> QED
      BY <3>5, <3>6, MachineAssumption DEF Busy
  <2>4. CASE h # g
    <3>1. \A j \in Awaited(h) : j \in Busy /\ inflight'[j] = inflight[j]
      BY <1>1 DEF Awaited, Confirming, Busy
    <3>2. ~Confirming(k, h)' /\ (s # None => ~Confirming(s, h)')
      BY <2>1, <2>2, <2>4 DEF Confirming
    <3>3. Awaited(h)' \subseteq Awaited(h)
      BY <1>3, <3>2, MachineAssumption DEF Awaited, Confirming
    <3>4. Awaited(h) \subseteq Awaited(h)'
      BY <3>1 DEF Awaited, Confirming
    <3> QED
      BY <1>1, <1>3, <2>4, <3>1, <3>3, <3>4, EscrowKept
  <2>5. CASE h = g
    <3>1. Awaited(g) = {}
      BY <1>1, <1>3, <2>5 DEF GroupEscrow
    <3>2. Awaited(g)' = {k, s} \ {None}
      <4>1. Confirming(k, g)' /\ (s # None => Confirming(s, g)')
        BY <2>1, <2>2 DEF Confirming
      <4>2. \A j \in Keys \ {k, s} : ~Confirming(j, g)'
        BY <1>3, <3>1 DEF Awaited, Confirming
      <4> QED
        BY <2>2, <4>1, <4>2, MachineAssumption DEF Awaited
    <3>3. g \in bound'
      BY <1>1 DEF Plan, EscrowInv
    <3>4. PICK c : c = Pair(k, s)
      OBVIOUS
    <3>5. /\ c.key = k /\ c.standby = s /\ c.pending = IF s = None THEN 1 ELSE 2
          /\ c \in Confirmation /\ c # None
      <4>1. c \in Confirmation
        BY <3>4, PairType
      <4> QED
        BY <3>4, <4>1, NoneAssumption DEF Pair
    <3>6. /\ Sent(c.key, g)' = 1
          /\ Sent(c.standby, g)' = IF s = None THEN 0 ELSE 1
      BY <2>2, <3>2, <3>5 DEF Sent
    <3>7. Paired(g, c)'
      BY <1>3, <2>1, <2>2, <3>2, <3>5, <3>6 DEF Paired
    <3> QED
      BY <1>3, <2>5, <3>3, <3>4, <3>5, <3>7 DEF GroupEscrow, Paired, Sent
  <2> QED
    BY <2>4, <2>5
<1> QED
  BY <1>2, <1>3, PlanConfirm

\* The link is never thought proven for longer than something was heard, and
\* only time takes that away.
LEMMA HeardStep ==
  ASSUME TypeOK, link <= heard, [Next]_vars
  PROVE  /\ link' <= heard'
         /\ heard > 0 => heard' > 0 \/ Tick
<1>0. link \in Nat /\ heard \in Nat /\ LinkTicks \in Nat \ {0} /\ heard <= LinkTicks
  BY MachineAssumption DEF TypeOK
<1> DEFINE good == link' <= heard' /\ (heard > 0 => heard' > 0 \/ Tick)
<1>1. ASSUME NEW k \in Keys, NEW ok \in BOOLEAN,
             ProbeResult(k, ok) \/ URLTest(k, ok) \/ Traffic(k) \/ DialFailure(k)
      PROVE  good
  <2>1. \/ link' = LinkTicks /\ heard' = LinkTicks
        \/ link' = link /\ heard' = heard
    BY <1>1 DEF ProbeResult, URLTest, Traffic, DialFailure
  <2> QED
    BY <1>0, <2>1
<1>2. ASSUME link' \in {0, link}, heard' = heard PROVE good
  BY <1>0, <1>2
<1>3. ASSUME Tick PROVE good
  <2>1. link' = Less(link) /\ heard' = Less(heard)
    BY <1>3 DEF Tick
  <2> QED
    BY <1>0, <1>3, <2>1 DEF Less
<1>4. ASSUME NEW on \in BOOLEAN, SetRunning(on) \/ Doze(on) PROVE good
  BY <1>2, <1>4 DEF SetRunning, Doze
<1>5. ASSUME NEW e \in Envs, ChangeNetwork(e) PROVE good
  BY <1>2, <1>5 DEF ChangeNetwork
<1>6. ASSUME Resume \/ OnTimer \/ NothingToVisit \/ SetTopology \/ UNCHANGED vars PROVE good
  BY <1>2, <1>6 DEF Resume, OnTimer, NothingToVisit, SetTopology, Rebuild, vars
<1>7. ASSUME NEW g \in Groups, NEW k \in Keys, NEW a \in UserActions,
             ManualPick(g, k) \/ Cooled(g, k) \/ Act(g, a, k)
      PROVE  good
  BY <1>2, <1>7 DEF ManualPick, Cooled, Act
<1>8. ASSUME NEW g \in Groups, CheckAll(g) \/ Settle(g) \/ Plan(g) PROVE good
  BY <1>2, <1>8 DEF CheckAll, Settle, Plan
<1>9. ASSUME NEW e \in Envs, NEW k \in Keys, Age(e, k) PROVE good
  BY <1>2, <1>9 DEF Age
<1> HIDE DEF good
<1>10. good
  BY <1>1, <1>3, <1>4, <1>5, <1>6, <1>7, <1>8, <1>9 DEF Next, UserActions
<1> QED
  BY <1>10 DEF good

\* One step keeps the escrow, as long as no group leaves its checks behind.
LEMMA EscrowStep ==
  ASSUME TypeOK, EscrowInv, [Next]_vars, [ConfirmingGroupStays]_vars
  PROVE  EscrowInv'
<1>1. link' <= heard' /\ (heard > 0 => heard' > 0 \/ Tick)
  BY HeardStep DEF EscrowInv
<1>2. todo' \subseteq bound'
  <2>1. ASSUME NEW g \in Groups, Settle(g) \/ Plan(g) PROVE todo' \subseteq bound'
    BY <2>1 DEF Settle, Plan, Visited, EscrowInv
  <2>2. ASSUME NEW e \in Envs, NEW k \in Keys, Age(e, k) PROVE todo' \subseteq bound'
    BY <2>2 DEF Age, EscrowInv
  <2> QED
    BY <2>1, <2>2, InputsSettle DEF Tick, NothingToVisit, vars, EscrowInv
<1>3. SUFFICES ASSUME NEW h \in Groups PROVE GroupEscrow(h)'
  BY <1>1, <1>2 DEF EscrowInv
<1>4. GroupEscrow(h)
  BY DEF EscrowInv
<1>5. ASSUME NEW k \in Keys, NEW ok \in BOOLEAN, ProbeResult(k, ok) PROVE GroupEscrow(h)'
  BY <1>5, ResultEscrow
<1>6. ASSUME NEW g \in Groups, Plan(g) PROVE GroupEscrow(h)'
  BY <1>6, PlanEscrow
<1>7. ASSUME NEW g \in Groups, CheckAll(g) PROVE GroupEscrow(h)'
  <2>1. \A j \in Keys : \/ inflight'[j] = inflight[j]
                        \/ inflight[j] = None /\ inflight'[j].kind = "user"
    BY <1>7 DEF CheckAll, Busy
  <2>2. Awaited(h)' = Awaited(h) /\ \A j \in Awaited(h) : inflight'[j] = inflight[j]
    BY <2>1 DEF Awaited, Confirming
  <2> QED
    BY <1>4, <1>7, <2>2, EscrowKept DEF CheckAll
<1>8. CASE Tick
  <2>1. Awaited(h) = {}
    BY <1>8 DEF Tick, Awaited, Confirming, Busy
  <2>2. ~(h \in bound /\ group[h].confirm # None)
    BY <1>4, <2>1 DEF GroupEscrow, Paired, Sent
  <2>3. inflight' = inflight /\ bound' = bound /\ group'[h].confirm = group[h].confirm
    BY <1>8 DEF Tick, TypeOK, GroupState
  <2>4. Awaited(h)' = {}
    BY <2>1, <2>3 DEF Awaited, Confirming
  <2> QED
    BY <2>2, <2>3, <2>4 DEF GroupEscrow
<1>9. CASE SetTopology
  <2>1. PICK next \in Rebinds : \E offered \in SUBSET next : \E current \in [Groups -> Keys] :
          Rebuild(next, offered, current)
    BY <1>9 DEF SetTopology
  <2>2. PICK offered \in SUBSET next, current \in [Groups -> Keys] :
          Rebuild(next, offered, current)
    BY <2>1
  <2> DEFINE kept == IF h \in bound THEN group[h] ELSE NewGroup
  <2>3. /\ bound' = next /\ inflight' = inflight /\ heard' = heard
        /\ group'[h] = IF h \notin next THEN NewGroup
                       ELSE IF h \in offered
                         THEN [kept EXCEPT !.members = Members[h], !.now = current[h]]
                       ELSE [kept EXCEPT !.members = {}, !.now = None]
    BY <2>2 DEF Rebuild
  <2>4. kept \in GroupState /\ NewGroup.confirm = None
    <3>1. NewGroup \in GroupState /\ NewGroup.confirm = None
      BY MachineAssumption DEF NewGroup, GroupState
    <3> QED
      BY <3>1 DEF TypeOK
  <2>5. kept.confirm = IF h \in bound THEN group[h].confirm ELSE None
    BY <2>4
  <2> HIDE DEF kept
  <2>6. h \in next => group'[h].confirm = kept.confirm
    BY <2>3, <2>4 DEF GroupState
  <2>7. Awaited(h)' = Awaited(h)
    BY <2>3 DEF Awaited, Confirming
  <2>8. CASE h \in bound /\ h \in next
    BY <1>4, <2>3, <2>5, <2>6, <2>7, <2>8, EscrowKept
  <2>9. CASE h \notin next
    <3>1. Awaited(h) = {}
      BY <1>4, <2>3, <2>9 DEF ConfirmingGroupStays, GroupEscrow, vars
    <3> QED
      BY <2>3, <2>7, <2>9, <3>1 DEF GroupEscrow
  <2>10. CASE h \notin bound /\ h \in next
    BY <1>4, <2>5, <2>6, <2>7, <2>10 DEF GroupEscrow
  <2> QED
    BY <2>8, <2>9, <2>10
<1>10. CASE ~Sends /\ ~Tick
  <2>1. inflight' = inflight /\ bound' = bound /\ group'[h].confirm = group[h].confirm
    BY <1>10, QuietStep
  <2>2. Awaited(h)' = Awaited(h)
    BY <2>1 DEF Awaited, Confirming
  <2> QED
    BY <1>1, <1>4, <1>10, <2>1, <2>2, EscrowKept
<1> QED
  BY <1>5, <1>6, <1>7, <1>8, <1>9, <1>10 DEF Sends

\* Only a check that comes back makes a node dead that was not.
LEMMA DeathIsAResult ==
  ASSUME TypeOK, [Next]_vars, NEW k \in Keys, envKey' = envKey, NewlyDead(k)
  PROVE  \E j \in Keys, ok \in BOOLEAN : ProbeResult(j, ok)
<1>0. facts \in [Envs -> [Keys -> Facts]] /\ envKey \in Envs /\ facts[envKey][k] \in Facts
  BY DEF TypeOK
<1>1. facts[envKey][k].health # "dead" /\ facts'[envKey][k].health = "dead"
  BY DEF NewlyDead, dead
<1>2. \A f \in Facts : f.health # "dead" =>
        noteOK(f).health # "dead" /\ noteProbeFail(f).health # "dead" /\ noteDialFail(f).health # "dead"
  BY DEF noteOK, noteProbeFail, noteDialFail, Facts
<1>3. facts' # facts
  BY <1>1
<1>4. ASSUME NEW j \in Keys, NEW ok \in BOOLEAN, URLTest(j, ok) \/ Traffic(j) \/ DialFailure(j)
      PROVE  FALSE
  <2> DEFINE f == facts[envKey][j]
  <2>1. \E n \in {noteOK(f), noteProbeFail(f), noteDialFail(f)} :
          facts' = [facts EXCEPT ![envKey] = [@ EXCEPT ![j] = n]]
    BY <1>4 DEF URLTest, Traffic, DialFailure
  <2>2. PICK n \in {noteOK(f), noteProbeFail(f), noteDialFail(f)} :
          facts' = [facts EXCEPT ![envKey] = [facts[envKey] EXCEPT ![j] = n]]
    BY <2>1
  <2>3. facts'[envKey][k] = IF k = j THEN n ELSE facts[envKey][k]
    BY <1>0, <2>2
  <2> QED
    BY <1>0, <1>1, <1>2, <2>2, <2>3
<1>5. ASSUME Tick PROVE FALSE
  BY <1>0, <1>1, <1>5 DEF Tick, Facts
<1>6. ASSUME NEW e \in Envs, NEW j \in Keys, Age(e, j) PROVE FALSE
  BY <1>0, <1>1, <1>6 DEF Age, Facts
<1>7. ASSUME NEW on \in BOOLEAN, SetRunning(on) \/ Doze(on) PROVE FALSE
  BY <1>3, <1>7 DEF SetRunning, Doze
<1>8. ASSUME NEW e \in Envs, ChangeNetwork(e) PROVE FALSE
  BY <1>3, <1>8 DEF ChangeNetwork
<1>9. ASSUME Resume \/ OnTimer \/ NothingToVisit \/ SetTopology \/ UNCHANGED vars PROVE FALSE
  BY <1>3, <1>9 DEF Resume, OnTimer, NothingToVisit, SetTopology, Rebuild, vars
<1>10. ASSUME NEW g \in Groups, NEW j \in Keys, NEW a \in UserActions,
              ManualPick(g, j) \/ Cooled(g, j) \/ Act(g, a, j)
       PROVE  FALSE
  BY <1>3, <1>10 DEF ManualPick, Cooled, Act
<1>11. ASSUME NEW g \in Groups, CheckAll(g) \/ Settle(g) \/ Plan(g) PROVE FALSE
  BY <1>3, <1>11 DEF CheckAll, Settle, Plan
<1> QED
  BY <1>4, <1>5, <1>6, <1>7, <1>8, <1>9, <1>10, <1>11 DEF Next, UserActions

\* A result condemns a node only when something got through.
LEMMA DeathIsHeard ==
  ASSUME TypeOK, EscrowInv, NEW k \in Keys, NEW ok \in BOOLEAN, ProbeResult(k, ok),
         NEW n \in Keys, envKey' = envKey, NewlyDead(n)
  PROVE  heard' > 0
<1> DEFINE job == inflight[k]
           g == job.group
           f0 == [facts[envKey][k] EXCEPT !.failed = ~ok, !.from = job.env]
           noted == IF ok THEN noteOK(f0) ELSE noteProbeFail(f0)
           proven == ok \/ linkProven
           pair == /\ g \in bound
                   /\ group[g].confirm # None
                   /\ job.kind \in {"confirm", "standby"}
           c == record(group[g].confirm, job, ~ok)
           done == pair /\ c.pending <= 0
           condemned ==
             IF done /\ c.failed /\ ~LinkLooksDown(c, proven) THEN {c.key}
             ELSE IF ~pair /\ ~ok /\ proven /\ FailedTwice(noted) THEN {k}
             ELSE {}
<1>1. /\ facts' = [facts EXCEPT ![envKey] =
                    [i \in Keys |-> LET f == IF i = k THEN noted ELSE facts[envKey][i]
                                    IN  IF i \in condemned THEN markDead(f) ELSE f]]
      /\ heard' = IF ok THEN LinkTicks ELSE heard
  BY DEF ProbeResult
<1>2. /\ job \in Job /\ g \in Groups /\ LinkTicks \in Nat \ {0} /\ heard \in Nat /\ link \in Nat
      /\ link <= heard /\ GroupEscrow(g) /\ job # None
  BY MachineAssumption DEF ProbeResult, TypeOK, Job, EscrowInv
<1>3. n \in condemned
  <2>1. facts[envKey][n].health # "dead" /\ facts'[envKey][n].health = "dead"
    BY DEF NewlyDead, dead
  <2>2. facts \in [Envs -> [Keys -> Facts]] /\ envKey \in Envs
    BY DEF TypeOK
  <2>3. noted.health = "dead" => facts[envKey][k].health = "dead"
    <3>1. PICK f \in Facts : f = facts[envKey][k]
      BY <2>2
    <3>2. f0.health = f.health
      BY <3>1 DEF Facts
    <3>3. noteOK(f0).health = "alive" /\ (noteProbeFail(f0).health = "dead" => f0.health = "dead")
      <4> DEFINE f1 == [f EXCEPT !.failed = ~ok]
                 f2 == [f1 EXCEPT !.from = job.env]
      <4>1. f2 \in [health : {"unknown", "alive", "stale", "dead"}, failRun : 0..2,
                    dials : 0..SuspectDials, failed : BOOLEAN, from : Envs \cup {None}]
        BY <1>2 DEF Facts, Job
      <4>2. f2 = f0
        BY <3>1
      <4> HIDE DEF f2, f0
      <4> QED
        BY <4>1, <4>2 DEF noteOK, noteProbeFail
    <3> QED
      BY <3>1, <3>2, <3>3
  <2> HIDE DEF condemned, noted
  <2>4. n \notin condemned => facts'[envKey][n] = IF n = k THEN noted ELSE facts[envKey][n]
    BY <1>1, <2>2
  <2> QED
    BY <2>1, <2>3, <2>4
<1>4. CASE ok
  BY <1>1, <1>2, <1>4
<1>5. CASE ~ok /\ linkProven
  BY <1>1, <1>2, <1>5 DEF linkProven
<1>6. CASE ~ok /\ ~linkProven
  <2>1. done /\ ~LinkLooksDown(c, proven)
    BY <1>3, <1>6
  <2>2. PICK o, d : o = group[g].confirm /\ d = c
    OBVIOUS
  <2>3. o \in Confirmation /\ Paired(g, o)
    BY <1>2, <2>1, <2>2 DEF GroupEscrow, TypeOK, GroupState
  <2>4. /\ d.standby = o.standby /\ d.pending = o.pending - 1
        /\ d.standbyDown = IF job.kind = "standby" THEN TRUE ELSE o.standbyDown
    <3>1. d = record(o, job, TRUE)
      BY <1>6, <2>2
    <3> QED
      BY <1>2, <2>3, <3>1, RecordPending, RecordKeeps
  <2>5. d.standby # None /\ ~d.standbyDown /\ d.pending <= 0
    BY <1>6, <2>1, <2>2 DEF LinkLooksDown
  <2>6. k \in Awaited(g) /\ job.kind = "confirm"
    BY <1>2, <2>1, <2>4, <2>5 DEF Awaited, Confirming
  <2>7. k = o.key
    BY <2>3, <2>6 DEF Paired
  <2>8. o.standby \notin Awaited(g)
    BY <2>3, <2>4, <2>5, <2>6, <2>7 DEF Paired, Sent, Confirmation
  <2>9. heard > 0
    BY <2>3, <2>4, <2>5, <2>6, <2>8 DEF Paired
  <2> QED
    BY <1>1, <1>6, <2>9
<1> QED
  BY <1>4, <1>5, <1>6

\* With nothing heard within linkWindow no check condemns a node, on any
\* number of groups, nodes and networks, as long as no group is dropped while
\* it waits for its confirming checks (linkProven, resolveConfirm, rebuild).
THEOREM NothingThroughNobodyDies ==
  Spec /\ [][ConfirmingGroupStays]_vars => NothingThroughCondemnsNobody
<1>1. Init => EscrowInv
  BY DEF Init, EscrowInv, GroupEscrow, Awaited, Confirming
<1>2. TypeOK /\ EscrowInv /\ [Next]_vars /\ [ConfirmingGroupStays]_vars => EscrowInv'
  BY EscrowStep
<1>3. TypeOK /\ EscrowInv /\ [Next]_vars =>
        [\A k \in Keys : (envKey' = envKey /\ NewlyDead(k)) => heard' > 0]_vars
  BY DeathIsAResult, DeathIsHeard
<1> QED
  BY <1>1, <1>2, <1>3, TypeCorrect, PTL DEF Spec, NothingThroughCondemnsNobody

=============================================================================
