-------------------------- MODULE CoreServices_proofs --------------------------
(***************************************************************************)
(* Proofs about the services of the core, for any number of their callers, *)
(* workers, connections and sources.                                       *)
(***************************************************************************)
EXTENDS CoreServices, FiniteSetTheorems, TLAPS

-----------------------------------------------------------------------------
(* The start of a managed core.                                            *)

\* Which steps are behind a start that has come to step startPc.
Behind(m, s, w) ==
    CASE startMode = "managed" -> m < startPc
      [] startMode = "service" -> s < startPc
      [] OTHER -> w < startPc

StartInv ==
    /\ startMode \in {"managed", "service", "macos"}
    /\ startPc \in 1 .. (IF startMode = "managed" THEN 12 ELSE IF startMode = "service" THEN 6 ELSE 7)
    /\ startHost \in {"alive", "dead"}
    /\ startHost = "alive" => startPid = "host"
    /\ startAcl \in {"own", "granted"}
    /\ CoreIsAnchored
    /\ startLife = "starting" =>
         /\ ~startWatching
         /\ Behind(4, 3, 2) => startHandle = "host"
         /\ Behind(8, 4, 4) => "home" \in startHeld
         /\ startMode = "managed" =>
              /\ startPc > 7 => startJob
              /\ startPc > 10 => startCommitted
         /\ startAcl = "granted" => startMode = "managed" /\ startPc > 6 /\ startPc < 10

\* The place of a step in each of the three starts.
LEMMA Places ==
  ASSUME StartInv, NEW step, Startup!At(step)
  PROVE  /\ step = "parse" => startPc = 1
         /\ step = "open" => startPc = 2 /\ startMode # "macos"
         /\ step = "images" => startPc = 3 /\ startMode = "managed"
         /\ step = "verify" => startPc = IF startMode = "managed" THEN 4 ELSE IF startMode = "service" THEN 3 ELSE 2
         /\ step = "pipe" => startPc = (IF startMode = "managed" THEN 5 ELSE 3) /\ startMode # "service"
         /\ step = "grant" => startPc = 6 /\ startMode = "managed"
         /\ step = "join" => startPc = 7 /\ startMode = "managed"
         /\ step = "home" => startPc = IF startMode = "managed" THEN 8 ELSE 4
         /\ step = "restore" => startPc = 9 /\ startMode = "managed"
         /\ step = "commit" => startPc = (IF startMode = "managed" THEN 10 ELSE 6) /\ startMode # "service"
         /\ step = "configure" => startPc = IF startMode = "managed" THEN 11 ELSE 5
         /\ step = "watch" => startPc = IF startMode = "managed" THEN 12 ELSE IF startMode = "service" THEN 6 ELSE 7
<1>0. Startup!Steps[startMode][startPc] = step
  BY DEF Startup!At
<1>1. CASE startMode = "managed"
  <2>1. <<"parse", "open", "images", "verify", "pipe", "grant", "join", "home", "restore",
          "commit", "configure", "watch">>[startPc] = step
    BY <1>0, <1>1 DEF Startup!Steps
  <2>2. startPc \in 1 .. 12
    BY <1>1 DEF StartInv
  <2> QED
    BY <1>1, <2>1, <2>2
<1>2. CASE startMode = "service"
  <2>1. <<"parse", "open", "verify", "home", "configure", "watch">>[startPc] = step
    BY <1>0, <1>2 DEF Startup!Steps
  <2>2. startPc \in 1 .. 6
    BY <1>2 DEF StartInv
  <2> QED
    BY <1>2, <2>1, <2>2
<1>3. CASE startMode = "macos"
  <2>1. <<"parse", "verify", "pipe", "home", "configure", "commit", "watch">>[startPc] = step
    BY <1>0, <1>3 DEF Startup!Steps
  <2>2. startPc \in 1 .. 7
    BY <1>3 DEF StartInv
  <2> QED
    BY <1>3, <2>1, <2>2
<1> QED
  BY <1>1, <1>2, <1>3 DEF StartInv

LEMMA StartInit == Startup!Init => StartInv
BY DEF Startup!Init, StartInv, Behind, CoreIsAnchored, Startup!CoreIsAnchored

\* A step of the start leaves the launcher and its id alone.
LEMMA StartSteps ==
  ASSUME StartInv,
         \/ Startup!parseWindowsLaunch \/ Startup!OpenProcess \/ Startup!lockWindowsImage
         \/ Startup!verifyWindowsParent \/ Startup!Connect \/ Startup!grant \/ Startup!joinWindowsJob
         \/ Startup!lockWindowsHome \/ Startup!restore \/ Startup!Commit \/ Startup!ConfigureDesktopLaunch
  PROVE  StartInv'
<1>1. CASE Startup!parseWindowsLaunch
  <2>1. startPc = 1 /\ startLife = "starting"
    BY <1>1, Places DEF Startup!parseWindowsLaunch, Startup!At
  <2> QED
    BY <1>1, <2>1 DEF Startup!parseWindowsLaunch, Startup!Then, StartInv, Behind, CoreIsAnchored, Startup!CoreIsAnchored
<1>2. CASE Startup!OpenProcess
  <2>1. startPc = 2 /\ startMode # "macos" /\ startLife = "starting"
    BY <1>2, Places DEF Startup!OpenProcess, Startup!At
  <2> QED
    BY <1>2, <2>1 DEF Startup!OpenProcess, Startup!Then, StartInv, Behind, CoreIsAnchored, Startup!CoreIsAnchored
<1>3. CASE Startup!lockWindowsImage
  <2>1. startPc = 3 /\ startMode = "managed" /\ startLife = "starting"
    BY <1>3, Places DEF Startup!lockWindowsImage, Startup!At
  <2> QED
    BY <1>3, <2>1 DEF Startup!lockWindowsImage, Startup!Then, StartInv, Behind, CoreIsAnchored, Startup!CoreIsAnchored
<1>4. CASE Startup!verifyWindowsParent
  <2>1. /\ startPc = IF startMode = "managed" THEN 4 ELSE IF startMode = "service" THEN 3 ELSE 2
        /\ startLife = "starting"
    BY <1>4, Places DEF Startup!verifyWindowsParent, Startup!At
  <2>2. startHandle' = "host"
    BY <1>4 DEF Startup!verifyWindowsParent, Startup!verifyWindowsProcess
  <2> QED
    BY <1>4, <2>1, <2>2 DEF Startup!verifyWindowsParent, Startup!Then, StartInv, Behind, CoreIsAnchored, Startup!CoreIsAnchored
<1>5. CASE Startup!Connect
  <2>1. startPc = (IF startMode = "managed" THEN 5 ELSE 3) /\ startMode # "service" /\ startLife = "starting"
    BY <1>5, Places DEF Startup!Connect, Startup!At
  <2> QED
    BY <1>5, <2>1 DEF Startup!Connect, Startup!Then, StartInv, Behind, CoreIsAnchored, Startup!CoreIsAnchored
<1>6. CASE Startup!grant
  <2>1. startPc = 6 /\ startMode = "managed" /\ startLife = "starting"
    BY <1>6, Places DEF Startup!grant, Startup!At
  <2> QED
    BY <1>6, <2>1 DEF Startup!grant, Startup!Then, StartInv, Behind, CoreIsAnchored, Startup!CoreIsAnchored
<1>7. CASE Startup!joinWindowsJob
  <2>1. startPc = 7 /\ startMode = "managed" /\ startLife = "starting"
    BY <1>7, Places DEF Startup!joinWindowsJob, Startup!At
  <2> QED
    BY <1>7, <2>1 DEF Startup!joinWindowsJob, Startup!Then, StartInv, Behind, CoreIsAnchored, Startup!CoreIsAnchored
<1>8. CASE Startup!lockWindowsHome
  <2>1. startPc = (IF startMode = "managed" THEN 8 ELSE 4) /\ startLife = "starting"
    BY <1>8, Places DEF Startup!lockWindowsHome, Startup!At
  <2> QED
    BY <1>8, <2>1 DEF Startup!lockWindowsHome, Startup!Then, StartInv, Behind, CoreIsAnchored, Startup!CoreIsAnchored
<1>9. CASE Startup!restore
  <2>1. startPc = 9 /\ startMode = "managed" /\ startLife = "starting"
    BY <1>9, Places DEF Startup!restore, Startup!At
  <2> QED
    BY <1>9, <2>1 DEF Startup!restore, Startup!Then, StartInv, Behind, CoreIsAnchored, Startup!CoreIsAnchored
<1>10. CASE Startup!Commit
  <2>1. startPc = (IF startMode = "managed" THEN 10 ELSE 6) /\ startMode # "service" /\ startLife = "starting"
    BY <1>10, Places DEF Startup!Commit, Startup!At
  <2> QED
    BY <1>10, <2>1 DEF Startup!Commit, Startup!Then, StartInv, Behind, CoreIsAnchored, Startup!CoreIsAnchored
<1>11. CASE Startup!ConfigureDesktopLaunch
  <2>1. startPc = (IF startMode = "managed" THEN 11 ELSE 5) /\ startLife = "starting"
    BY <1>11, Places DEF Startup!ConfigureDesktopLaunch, Startup!At
  <2> QED
    BY <1>11, <2>1 DEF Startup!ConfigureDesktopLaunch, Startup!Then, StartInv, Behind, CoreIsAnchored, Startup!CoreIsAnchored
<1> QED
  BY <1>1, <1>2, <1>3, <1>4, <1>5, <1>6, <1>7, <1>8, <1>9, <1>10, <1>11

\* The last step: what the start has gathered is what the core serves with.
LEMMA StartEnds ==
  ASSUME StartInv, Startup!watchWindowsParent
  PROVE  StartInv'
<1>1. /\ startPc = IF startMode = "managed" THEN 12 ELSE IF startMode = "service" THEN 6 ELSE 7
      /\ startLife = "starting"
  BY Places DEF Startup!watchWindowsParent, Startup!At
<1>2. startHandle = "host" /\ startAcl = "own" /\ "home" \in startHeld
      /\ (startMode = "managed" => startJob /\ startCommitted)
  BY <1>1 DEF StartInv, Behind
<1>3. "home" \in startHeld'
  BY <1>2 DEF Startup!watchWindowsParent
<1> QED
  BY <1>2, <1>3 DEF Startup!watchWindowsParent, StartInv, CoreIsAnchored, Startup!CoreIsAnchored

LEMMA StartStep == StartInv /\ [Startup!Next]_(Startup!vars) => StartInv'
<1> SUFFICES ASSUME StartInv, [Startup!Next]_(Startup!vars) PROVE StartInv'
  OBVIOUS
<1>1. CASE Startup!Fail \/ Startup!WatchdogFires \/ Startup!ParentGone
  BY <1>1 DEF Startup!Fail, Startup!WatchdogFires, Startup!ParentGone, Startup!Exit,
              StartInv, CoreIsAnchored, Startup!CoreIsAnchored
<1>2. CASE Startup!HostDies
  <2>1. CASE startJob /\ startLife \in {"starting", "serving"}
    BY <1>2, <2>1 DEF Startup!HostDies, Startup!Exit, StartInv, CoreIsAnchored, Startup!CoreIsAnchored
  <2>2. CASE ~(startJob /\ startLife \in {"starting", "serving"})
    BY <1>2, <2>2 DEF Startup!HostDies, StartInv, Behind, CoreIsAnchored, Startup!CoreIsAnchored
  <2> QED
    BY <2>1, <2>2
<1>3. CASE Startup!PidReused
  BY <1>3 DEF Startup!PidReused, StartInv, Behind, CoreIsAnchored, Startup!CoreIsAnchored
<1>4. CASE Startup!windowsRPCVerifier
  <2>1. startPid = "host"
    BY <1>4 DEF Startup!windowsRPCVerifier, Startup!verifyWindowsProcess, StartInv
  <2> QED
    BY <1>4, <2>1 DEF Startup!windowsRPCVerifier, StartInv, Behind, CoreIsAnchored, Startup!CoreIsAnchored
<1>5. CASE UNCHANGED Startup!vars
  BY <1>5 DEF Startup!vars, StartInv, Behind, CoreIsAnchored, Startup!CoreIsAnchored
<1> QED
  BY <1>1, <1>2, <1>3, <1>4, <1>5, StartSteps, StartEnds DEF Startup!Next

\* A core that serves holds and watches the process that launched it, in each of
\* the three ways to start and wherever the launcher dies, its id is reused or a
\* step fails (prepareDesktopStartup, windowsRPCVerifier).
THEOREM CoreStaysAnchored == Startup!Spec => []CoreIsAnchored
<1>1. StartInv => CoreIsAnchored
  BY DEF StartInv
<1> QED
  BY <1>1, StartInit, StartStep, PTL DEF Startup!Spec

-----------------------------------------------------------------------------
(* Updates of providers and of geo data.                                   *)

Updating == [pc : {"found", "update", "refresh", "release", "geo", "fetching"}, r : Updates!Resources]
Holding == {"update", "refresh", "release", "geo", "fetching"}

\* A change that nobody has looked at has its update about to look.
UpdateInv ==
    /\ updClaim \in [Updates!Resources -> {"free", "manual", "hook"}]
    /\ updCaller \in [Callers -> Updating \cup {Updates!Idle}]
    /\ updAuto \in [Geos -> {"off", "announced"}]
    /\ \A r \in Updates!Resources : updClaim[r] = "manual" <=> \E c \in Callers : Updates!Holds(c, r)
    /\ \A r \in Updates!Resources, c, d \in Callers : Updates!Holds(c, r) /\ Updates!Holds(d, r) => c = d
    /\ \A g \in Geos : updClaim[g] = "hook" => updAuto[g] = "announced"
    /\ \A r \in updUnseen : \E c \in Callers : updCaller[c].pc = "refresh" /\ updCaller[c].r = r

LEMMA UpdateInit == Updates!Init => UpdateInv
<1> SUFFICES ASSUME Updates!Init PROVE UpdateInv
  OBVIOUS
<1>1. \A c \in Callers : updCaller[c] = Updates!Idle /\ updCaller[c].pc = "idle"
  BY DEF Updates!Init, Updates!Idle
<1>2. \A c \in Callers, r \in Updates!Resources : ~Updates!Holds(c, r)
  BY <1>1 DEF Updates!Holds
<1>3. updCaller \in [Callers -> Updating \cup {Updates!Idle}]
  BY DEF Updates!Init
<1>4. Geos \subseteq Updates!Resources
  BY DEF Updates!Resources
<1> QED
  BY <1>2, <1>3, <1>4 DEF Updates!Init, UpdateInv

\* A caller that holds its claim goes on holding it.
LEMMA HolderMoves ==
  ASSUME UpdateInv, NEW c \in Callers, NEW x \in Updating,
         updCaller[c] \in Updating, updCaller[c].pc \in Holding, x.pc \in Holding, x.r = updCaller[c].r,
         updCaller' = [updCaller EXCEPT ![c] = x], UNCHANGED <<updClaim, updAuto>>,
         \A r \in updUnseen' : \/ r \in updUnseen /\ (r = x.r => x.pc = "refresh" \/ updCaller[c].pc # "refresh")
                               \/ r = x.r /\ x.pc = "refresh"
  PROVE  UpdateInv'
<1>0. updCaller \in [Callers -> Updating \cup {Updates!Idle}]
  BY DEF UpdateInv
<1>1. /\ updCaller' \in [Callers -> Updating \cup {Updates!Idle}]
      /\ \A d \in Callers : updCaller'[d] = IF d = c THEN x ELSE updCaller[d]
  BY <1>0
<1>2. \A d \in Callers, r \in Updates!Resources : Updates!Holds(d, r)' <=> Updates!Holds(d, r)
  BY <1>1 DEF Updates!Holds, Holding
<1>3. ASSUME NEW r \in updUnseen' PROVE \E d \in Callers : updCaller'[d].pc = "refresh" /\ updCaller'[d].r = r
  <2>1. CASE r = x.r /\ x.pc = "refresh"
    BY <1>1, <2>1
  <2>2. CASE r \in updUnseen /\ (r = x.r => x.pc = "refresh" \/ updCaller[c].pc # "refresh")
    <3>1. PICK d \in Callers : updCaller[d].pc = "refresh" /\ updCaller[d].r = r
      BY <2>2 DEF UpdateInv
    <3>2. CASE d = c
      BY <1>1, <2>2, <3>1, <3>2
    <3>3. CASE d # c
      BY <1>1, <3>1, <3>3
    <3> QED
      BY <3>2, <3>3
  <2> QED
    BY <2>1, <2>2
<1> QED
  BY <1>1, <1>2, <1>3 DEF UpdateInv

\* A caller takes a free claim: nobody holds it.
LEMMA ClaimTaken ==
  ASSUME UpdateInv, NEW c \in Callers, NEW x \in Updating, updCaller[c].pc \notin Holding,
         x.pc \in Holding, x.pc # "refresh", updClaim[x.r] = "free",
         updCaller' = [updCaller EXCEPT ![c] = x],
         updClaim' = [updClaim EXCEPT ![x.r] = "manual"], UNCHANGED <<updAuto, updUnseen>>
  PROVE  UpdateInv'
<1>0. /\ updCaller \in [Callers -> Updating \cup {Updates!Idle}]
      /\ updClaim \in [Updates!Resources -> {"free", "manual", "hook"}]
      /\ x.r \in Updates!Resources /\ Geos \subseteq Updates!Resources
  BY DEF UpdateInv, Updating, Updates!Resources
<1>1. /\ updCaller' \in [Callers -> Updating \cup {Updates!Idle}]
      /\ \A d \in Callers : updCaller'[d] = IF d = c THEN x ELSE updCaller[d]
  BY <1>0
<1>2. /\ updClaim' \in [Updates!Resources -> {"free", "manual", "hook"}]
      /\ \A r \in Updates!Resources : updClaim'[r] = IF r = x.r THEN "manual" ELSE updClaim[r]
  BY <1>0
<1>3. \A d \in Callers : ~Updates!Holds(d, x.r)
  BY <1>0 DEF UpdateInv
<1>4. \A r \in Updates!Resources : ~Updates!Holds(c, r)
  BY DEF Updates!Holds, Holding
<1>5. \A d \in Callers, r \in Updates!Resources :
        Updates!Holds(d, r)' <=> (IF d = c THEN r = x.r ELSE Updates!Holds(d, r))
  BY <1>1 DEF Updates!Holds, Holding
<1>6. \A r \in Updates!Resources : updClaim'[r] = "manual" <=> \E d \in Callers : Updates!Holds(d, r)'
  BY <1>2, <1>4, <1>5 DEF UpdateInv
<1>7. \A r \in Updates!Resources, d, e \in Callers : Updates!Holds(d, r)' /\ Updates!Holds(e, r)' => d = e
  BY <1>3, <1>5 DEF UpdateInv
<1>8. \A g \in Geos : updClaim'[g] = "hook" => updAuto'[g] = "announced"
  BY <1>0, <1>2 DEF UpdateInv
<1>9. ASSUME NEW r \in updUnseen PROVE \E d \in Callers : updCaller'[d].pc = "refresh" /\ updCaller'[d].r = r
  <2>1. PICK d \in Callers : updCaller[d].pc = "refresh" /\ updCaller[d].r = r
    BY DEF UpdateInv
  <2>2. d # c
    BY <2>1 DEF Holding
  <2> QED
    BY <1>1, <2>1, <2>2
<1> QED
  BY <1>1, <1>2, <1>6, <1>7, <1>8, <1>9 DEF UpdateInv

\* A caller that holds nothing becomes one that holds nothing.
LEMMA NoHolderMoves ==
  ASSUME UpdateInv, NEW c \in Callers, NEW x \in Updating \cup {Updates!Idle},
         updCaller[c].pc \notin Holding, x.pc \notin Holding,
         updCaller' = [updCaller EXCEPT ![c] = x], UNCHANGED <<updClaim, updAuto, updUnseen>>
  PROVE  UpdateInv'
<1>0. updCaller \in [Callers -> Updating \cup {Updates!Idle}]
  BY DEF UpdateInv
<1>1. /\ updCaller' \in [Callers -> Updating \cup {Updates!Idle}]
      /\ \A d \in Callers : updCaller'[d] = IF d = c THEN x ELSE updCaller[d]
  BY <1>0
<1>2. \A d \in Callers, r \in Updates!Resources : Updates!Holds(d, r)' <=> Updates!Holds(d, r)
  BY <1>1 DEF Updates!Holds, Holding
<1>3. ASSUME NEW r \in updUnseen PROVE \E d \in Callers : updCaller'[d].pc = "refresh" /\ updCaller'[d].r = r
  <2>1. PICK d \in Callers : updCaller[d].pc = "refresh" /\ updCaller[d].r = r
    BY DEF UpdateInv
  <2>2. d # c
    BY <2>1 DEF Holding
  <2> QED
    BY <1>1, <2>1, <2>2
<1> QED
  BY <1>1, <1>2, <1>3 DEF UpdateInv

\* mihomo's own run takes a free claim, and gives back only its own.
LEMMA HookMoves ==
  ASSUME UpdateInv, NEW g \in Geos,
         \/ /\ Updates!claimUpdateAs(g, "hook") /\ updAuto' = [updAuto EXCEPT ![g] = "announced"]
            /\ UNCHANGED updUnseen
         \/ /\ Updates!releaseHookUpdate(g) /\ updAuto' = [updAuto EXCEPT ![g] = "off"]
            /\ updUnseen' \subseteq updUnseen,
         UNCHANGED updCaller
  PROVE  UpdateInv'
<1>0. /\ updClaim \in [Updates!Resources -> {"free", "manual", "hook"}]
      /\ updAuto \in [Geos -> {"off", "announced"}]
      /\ Geos \subseteq Updates!Resources
  BY DEF UpdateInv, Updates!Resources
<1>1. /\ updClaim' \in [Updates!Resources -> {"free", "manual", "hook"}]
      /\ updAuto' \in [Geos -> {"off", "announced"}]
      /\ \A r \in Updates!Resources : updClaim'[r] = "manual" <=> updClaim[r] = "manual"
      /\ \A h \in Geos : updClaim'[h] = "hook" => updAuto'[h] = "announced"
  BY <1>0 DEF UpdateInv, Updates!claimUpdateAs, Updates!releaseHookUpdate
<1>2. \A d \in Callers, r \in Updates!Resources : Updates!Holds(d, r)' <=> Updates!Holds(d, r)
  BY DEF Updates!Holds
<1>3. \A r \in updUnseen' : r \in updUnseen
  OBVIOUS
<1> QED
  BY <1>1, <1>2, <1>3 DEF UpdateInv

LEMMA ReleaseKeeps ==
  ASSUME UpdateInv, NEW c \in Callers, Updates!Release(c)
  PROVE  UpdateInv'
<1> DEFINE q == updCaller[c].r
<1>0. /\ updCaller \in [Callers -> Updating \cup {Updates!Idle}]
      /\ updClaim \in [Updates!Resources -> {"free", "manual", "hook"}]
      /\ Geos \subseteq Updates!Resources
  BY DEF UpdateInv, Updates!Resources
<1>1. /\ updCaller[c].pc = "release" /\ updCaller' = [updCaller EXCEPT ![c] = Updates!Idle]
      /\ updClaim' = [updClaim EXCEPT ![q] = "free"] /\ UNCHANGED <<updAuto, updUnseen>>
  BY DEF Updates!Release, Updates!releaseUpdate
<1>2. q \in Updates!Resources /\ Updates!Holds(c, q)
  BY <1>0, <1>1 DEF Updating, Updates!Idle, Updates!Holds
<1> HIDE DEF q
<1>3. /\ updCaller' \in [Callers -> Updating \cup {Updates!Idle}]
      /\ updCaller'[c].pc = "idle"
      /\ \A d \in Callers : d # c => updCaller'[d] = updCaller[d]
  BY <1>0, <1>1 DEF Updates!Idle
<1>4. /\ updClaim' \in [Updates!Resources -> {"free", "manual", "hook"}]
      /\ \A r \in Updates!Resources : updClaim'[r] = IF r = q THEN "free" ELSE updClaim[r]
  BY <1>0, <1>1
<1>5. \A d \in Callers, r \in Updates!Resources : Updates!Holds(d, r)' <=> d # c /\ Updates!Holds(d, r)
  BY <1>3 DEF Updates!Holds
<1>6. \A r \in Updates!Resources : Updates!Holds(c, r) => r = q
  BY DEF Updates!Holds, q
<1>7. \A d \in Callers : Updates!Holds(d, q) => d = c
  BY <1>2 DEF UpdateInv
<1>8. \A r \in Updates!Resources : updClaim'[r] = "manual" <=> \E d \in Callers : Updates!Holds(d, r)'
  <2> SUFFICES ASSUME NEW r \in Updates!Resources
               PROVE  updClaim'[r] = "manual" <=> \E d \in Callers : Updates!Holds(d, r)'
    OBVIOUS
  <2>1. CASE r = q
    BY <1>4, <1>5, <1>7, <2>1
  <2>2. CASE r # q
    BY <1>4, <1>5, <1>6, <2>2 DEF UpdateInv
  <2> QED
    BY <2>1, <2>2
<1>9. \A r \in Updates!Resources, d, e \in Callers : Updates!Holds(d, r)' /\ Updates!Holds(e, r)' => d = e
  BY <1>5 DEF UpdateInv
<1>10. ASSUME NEW r \in updUnseen PROVE \E d \in Callers : updCaller'[d].pc = "refresh" /\ updCaller'[d].r = r
  <2>1. PICK d \in Callers : updCaller[d].pc = "refresh" /\ updCaller[d].r = r
    BY DEF UpdateInv
  <2> QED
    BY <1>1, <1>3, <2>1
<1>11. \A g \in Geos : updClaim'[g] = "hook" => updAuto'[g] = "announced"
  BY <1>0, <1>1, <1>4 DEF UpdateInv
<1> QED
  BY <1>1, <1>3, <1>4, <1>8, <1>9, <1>10, <1>11 DEF UpdateInv

LEMMA UpdateStep == UpdateInv /\ [Updates!Next]_(Updates!vars) => UpdateInv'
<1> SUFFICES ASSUME UpdateInv, [Updates!Next]_(Updates!vars) PROVE UpdateInv'
  OBVIOUS
<1>0. /\ updCaller \in [Callers -> Updating \cup {Updates!Idle}]
      /\ updClaim \in [Updates!Resources -> {"free", "manual", "hook"}]
      /\ Geos \subseteq Updates!Resources /\ Providers \subseteq Updates!Resources
      /\ Updates!Idle.pc = "idle" /\ "idle" \notin Holding /\ "found" \notin Holding
  BY DEF UpdateInv, Updates!Resources, Updates!Idle, Holding
<1>1. ASSUME NEW c \in Callers, NEW p \in Providers, Updates!lookupExternalProvider(c, p) PROVE UpdateInv'
  <2> DEFINE x == [pc |-> "found", r |-> p]
  <2>1. /\ updCaller' = [updCaller EXCEPT ![c] = x] /\ UNCHANGED <<updClaim, updAuto, updUnseen>>
        /\ updCaller[c].pc = "idle"
    BY <1>0, <1>1 DEF Updates!lookupExternalProvider
  <2>2. x \in Updating /\ x.pc = "found"
    BY <1>0 DEF Updating
  <2> HIDE DEF x
  <2> QED
    BY <1>0, <2>1, <2>2, NoHolderMoves
<1>2. ASSUME NEW c \in Callers, NEW g \in Geos, Updates!handleUpdateGeoData(c, g) PROVE UpdateInv'
  <2> DEFINE x == [pc |-> "geo", r |-> g]
  <2>1. /\ updCaller' = [updCaller EXCEPT ![c] = x] /\ UNCHANGED <<updAuto, updUnseen>>
        /\ updCaller[c].pc = "idle" /\ updClaim[g] = "free" /\ updClaim' = [updClaim EXCEPT ![g] = "manual"]
    BY <1>0, <1>2 DEF Updates!handleUpdateGeoData, Updates!claimUpdateAs
  <2>2. x \in Updating /\ x.pc = "geo" /\ x.r = g /\ "geo" \in Holding
    BY <1>0 DEF Updating, Holding
  <2> HIDE DEF x
  <2> QED
    BY <1>0, <2>1, <2>2, ClaimTaken
<1>3. ASSUME NEW c \in Callers, Updates!updateExternalProvider(c) PROVE UpdateInv'
  <2> DEFINE x == [updCaller[c] EXCEPT !.pc = "update"]
  <2>0. updCaller[c].pc = "found" /\ updCaller[c] \in Updating /\ UNCHANGED <<updAuto, updUnseen>>
    BY <1>0, <1>3 DEF Updates!updateExternalProvider
  <2>1. CASE updClaim[updCaller[c].r] = "free"
    <3>1. /\ updCaller' = [updCaller EXCEPT ![c] = x]
          /\ updClaim' = [updClaim EXCEPT ![updCaller[c].r] = "manual"]
      BY <1>0, <1>3, <2>1 DEF Updates!updateExternalProvider, Updates!claimUpdateAs
    <3>2. x \in Updating /\ x.pc = "update" /\ x.r = updCaller[c].r /\ "update" \in Holding
      BY <2>0 DEF Updating, Holding
    <3> HIDE DEF x
    <3> QED
      BY <1>0, <2>0, <2>1, <3>1, <3>2, ClaimTaken
  <2>2. CASE updClaim[updCaller[c].r] # "free"
    <3>1. updCaller' = [updCaller EXCEPT ![c] = Updates!Idle] /\ UNCHANGED updClaim
      BY <1>0, <1>3, <2>2 DEF Updates!updateExternalProvider, Updates!claimUpdateAs
    <3> QED
      BY <1>0, <2>0, <3>1, NoHolderMoves
  <2> QED
    BY <2>1, <2>2
<1>4. ASSUME NEW c \in Callers, NEW works \in BOOLEAN, Updates!Update(c, works) PROVE UpdateInv'
  <2> DEFINE pc == IF works THEN "refresh" ELSE "release"
             x == [updCaller[c] EXCEPT !.pc = pc]
  <2>1. /\ updCaller[c].pc = "update" /\ updCaller[c] \in Updating /\ updCaller' = [updCaller EXCEPT ![c] = x]
        /\ UNCHANGED <<updClaim, updAuto>>
        /\ updUnseen' = IF works THEN updUnseen \cup {updCaller[c].r} ELSE updUnseen
    BY <1>0, <1>4 DEF Updates!Update
  <2>2. x \in Updating /\ x.pc = pc /\ x.r = updCaller[c].r
    BY <2>1 DEF Updating
  <2>3. pc \in Holding /\ "update" \in Holding
    BY DEF Holding
  <2> HIDE DEF x
  <2> QED
    BY <2>1, <2>2, <2>3, HolderMoves
<1>5. ASSUME NEW c \in Callers, Updates!refreshRoute(c) PROVE UpdateInv'
  <2> DEFINE x == [updCaller[c] EXCEPT !.pc = "release"]
  <2>1. /\ updCaller[c].pc = "refresh" /\ updCaller[c] \in Updating /\ updCaller' = [updCaller EXCEPT ![c] = x]
        /\ UNCHANGED <<updClaim, updAuto>> /\ updUnseen' = {}
    BY <1>0, <1>5 DEF Updates!refreshRoute
  <2>2. x \in Updating /\ x.pc = "release" /\ x.r = updCaller[c].r /\ "release" \in Holding /\ "refresh" \in Holding
    BY <2>1 DEF Updating, Holding
  <2> HIDE DEF x
  <2> QED
    BY <2>1, <2>2, HolderMoves
<1>6. ASSUME NEW c \in Callers,
             Updates!onGeoUpdateBegins(c) \/ \E works \in BOOLEAN : Updates!onGeoUpdateEnds(c, works)
      PROVE  UpdateInv'
  <2>1. PICK pc \in {"fetching", "release"} :
          /\ updCaller' = [updCaller EXCEPT ![c] = [updCaller[c] EXCEPT !.pc = pc]]
          /\ updCaller[c].pc \in {"geo", "fetching"}
          /\ updUnseen' \subseteq updUnseen /\ UNCHANGED updAuto
          /\ Updates!claimUpdateAs(updCaller[c].r, "hook") \/ Updates!releaseHookUpdate(updCaller[c].r)
    BY <1>0, <1>6 DEF Updates!onGeoUpdateBegins, Updates!onGeoUpdateEnds
  <2> DEFINE x == [updCaller[c] EXCEPT !.pc = pc]
  <2>2. updCaller[c] \in Updating /\ updCaller[c].pc \in Holding
    BY <1>0, <2>1 DEF Holding
  <2>3. x \in Updating /\ x.pc = pc /\ x.r = updCaller[c].r /\ pc \in Holding
    BY <2>1, <2>2 DEF Updating, Holding
  <2>4. UNCHANGED updClaim
    <3>1. updCaller[c].r \in Updates!Resources /\ Updates!Holds(c, updCaller[c].r)
      BY <2>2 DEF Updating, Updates!Holds, Holding
    <3>2. updClaim[updCaller[c].r] = "manual"
      BY <3>1 DEF UpdateInv
    <3> QED
      BY <2>1, <3>2 DEF Updates!claimUpdateAs, Updates!releaseHookUpdate
  <2>5. updCaller' = [updCaller EXCEPT ![c] = x]
    BY <2>1
  <2> HIDE DEF x
  <2> QED
    BY <2>1, <2>2, <2>3, <2>4, <2>5, HolderMoves
<1>7. ASSUME NEW g \in Geos, Updates!AutoBegins(g) \/ \E works \in BOOLEAN : Updates!AutoEnds(g, works)
      PROVE  UpdateInv'
  BY <1>7, HookMoves DEF Updates!AutoBegins, Updates!AutoEnds
<1>8. ASSUME UNCHANGED <<updClaim, updCaller, updAuto>>, updUnseen' \subseteq updUnseen PROVE UpdateInv'
  BY <1>8 DEF UpdateInv, Updates!Holds
<1>9. ASSUME NEW ps, Updates!applyConfig(ps) PROVE UpdateInv'
  BY <1>8, <1>9 DEF Updates!applyConfig
<1>10. CASE (\E on \in BOOLEAN : Updates!syncGeoUpdater(on)) \/ Updates!reconcileGeoUpdater
  BY <1>8, <1>10 DEF Updates!syncGeoUpdater, Updates!reconcileGeoUpdater
<1>11. CASE UNCHANGED Updates!vars
  BY <1>8, <1>11 DEF Updates!vars
<1> QED
  BY <1>1, <1>2, <1>3, <1>4, <1>5, <1>6, <1>7, <1>9, <1>10, <1>11, ReleaseKeeps DEF Updates!Next

\* For any resources and callers: a manual update keeps its claim alone to its
\* end, whatever runs of mihomo's own updater begin and end meanwhile
\* (updateClaims, onGeoUpdate).
THEOREM ClaimsAreKept == Updates!Spec => []ClaimHasItsOwner
<1>1. UpdateInv => ClaimHasItsOwner
  <2> SUFFICES ASSUME UpdateInv PROVE ClaimHasItsOwner
    OBVIOUS
  <2>1. ASSUME NEW r \in updUnseen PROVE \E c \in Callers : Updates!Holds(c, r)
    BY DEF UpdateInv, Updates!Holds
  <2> QED
    BY <2>1 DEF UpdateInv, ClaimHasItsOwner, Updates!ClaimHasItsOwner
<1> QED
  BY <1>1, UpdateInit, UpdateStep, PTL DEF Updates!Spec

-----------------------------------------------------------------------------
(* The race for the outbound address.                                      *)

Racer == [pc : {"claim", "race", "unclaim", "over"}, stamp : Nat,
          ctx : {"live", "cancelled", "expired", "over"}, next : Nat, inFlight : Nat, asked : Nat,
          said : {"none", "answer", "stopped", "failed"}]

\* A lookup x with the answers y in its channel, at epoch e.
Runs(x, y, e) ==
    /\ x.stamp <= e
    /\ x.ctx = "cancelled" => x.stamp < e
    /\ x.next <= Sources
    /\ x.pc = "claim" => x.next = 0 /\ x.inFlight = 0 /\ x.asked = 0 /\ y.usable = 0 /\ y.empty = 0
    /\ x.pc \in {"claim", "race"} => x.said = "none"
    /\ x.pc = "race" =>
         /\ x.inFlight = x.asked + y.usable + y.empty
         /\ x.inFlight <= lookupConcurrency
         /\ x.inFlight = 0 => x.next = Sources
    /\ x.said = "failed" => x.next = Sources /\ x.asked = 0 /\ y.usable = 0

\* A race that has come to nothing has no source left and none asked.
RaceInv ==
    /\ outEpoch \in Nat
    /\ outLookup \in [Actors -> Racer \cup {Outbound!Idle}]
    /\ outAnswers \in [Actors -> [usable : Nat, empty : Nat]]
    /\ \A l \in Actors : IF outLookup[l] = Outbound!Idle THEN outAnswers[l] = Outbound!NoAnswers
                         ELSE Runs(outLookup[l], outAnswers[l], outEpoch)
    /\ \A l \in Actors : l \in outClaims => outLookup[l].pc \in {"race", "unclaim"}

\* What asking the next source does to a lookup.
LEMMA StartFields ==
  ASSUME NEW x \in Racer
  PROVE  /\ Outbound!start(x) \in Racer
         /\ Outbound!start(x).pc = x.pc /\ Outbound!start(x).stamp = x.stamp
         /\ Outbound!start(x).ctx = x.ctx /\ Outbound!start(x).said = x.said
         /\ IF x.next >= Sources \/ x.inFlight >= lookupConcurrency THEN Outbound!start(x) = x
            ELSE /\ Outbound!start(x).next = x.next + 1 /\ Outbound!start(x).inFlight = x.inFlight + 1
                 /\ Outbound!start(x).asked = x.asked + 1
<1>1. CASE x.next >= Sources \/ x.inFlight >= lookupConcurrency
  BY <1>1 DEF Outbound!start
<1>2. CASE ~(x.next >= Sources \/ x.inFlight >= lookupConcurrency)
  <2> DEFINE t1 == [x EXCEPT !.next = x.next + 1]
             t2 == [t1 EXCEPT !.inFlight = t1.inFlight + 1]
             t3 == [t2 EXCEPT !.asked = t2.asked + 1]
  <2>1. Outbound!start(x) = t3
    BY <1>2 DEF Outbound!start, Racer
  <2>2. t1 \in Racer /\ t1.next = x.next + 1 /\ t1.inFlight = x.inFlight /\ t1.asked = x.asked
        /\ t1.pc = x.pc /\ t1.stamp = x.stamp /\ t1.ctx = x.ctx /\ t1.said = x.said
    BY DEF Racer
  <2> HIDE DEF t1
  <2>3. t2 \in Racer /\ t2.next = t1.next /\ t2.inFlight = t1.inFlight + 1 /\ t2.asked = t1.asked
        /\ t2.pc = t1.pc /\ t2.stamp = t1.stamp /\ t2.ctx = t1.ctx /\ t2.said = t1.said
    BY <2>2 DEF Racer
  <2> HIDE DEF t2
  <2>4. t3 \in Racer /\ t3.next = t2.next /\ t3.inFlight = t2.inFlight /\ t3.asked = t2.asked + 1
        /\ t3.pc = t2.pc /\ t3.stamp = t2.stamp /\ t3.ctx = t2.ctx /\ t3.said = t2.said
    BY <2>3 DEF Racer
  <2> HIDE DEF t3
  <2> QED
    BY <1>2, <2>1, <2>2, <2>3, <2>4
<1> QED
  BY <1>1, <1>2

\* A race goes on after an answer that was no use, or with nothing new.
LEMMA StartRuns ==
  ASSUME NEW x \in Racer, NEW y \in [usable : Nat, empty : Nat], NEW e \in Nat,
         x.pc = "race", x.said = "none", x.stamp <= e, x.ctx = "cancelled" => x.stamp < e, x.next <= Sources,
         x.inFlight = x.asked + y.usable + y.empty, x.inFlight <= lookupConcurrency
  PROVE  Runs(Outbound!start(x), y, e)
<1> DEFINE z == Outbound!start(x)
<1>0. /\ x.next \in Nat /\ x.inFlight \in Nat /\ x.asked \in Nat /\ x.stamp \in Nat /\ y.usable \in Nat /\ y.empty \in Nat
  BY DEF Racer
<1>1. /\ z \in Racer /\ z.pc = "race" /\ z.stamp = x.stamp /\ z.ctx = x.ctx /\ z.said = "none"
      /\ IF x.next >= Sources \/ x.inFlight >= lookupConcurrency THEN z = x
         ELSE z.next = x.next + 1 /\ z.inFlight = x.inFlight + 1 /\ z.asked = x.asked + 1
  BY StartFields
<1> HIDE DEF z
<1>2. z.next <= Sources
  BY <1>0, <1>1, LookupAssumption
<1>3. z.inFlight = z.asked + y.usable + y.empty
  BY <1>0, <1>1, LookupAssumption
<1>4. z.inFlight <= lookupConcurrency
  BY <1>0, <1>1, LookupAssumption
<1>5. z.inFlight = 0 => z.next = Sources
  <2>1. CASE x.next >= Sources
    <3>1. z = x
      BY <1>1, <2>1
    <3>2. x.next = Sources
      BY <1>0, <2>1, LookupAssumption
    <3> QED
      BY <3>1, <3>2
  <2>2. CASE ~(x.next >= Sources) /\ x.inFlight >= lookupConcurrency
    BY <1>0, <1>1, <2>2, LookupAssumption
  <2>3. CASE ~(x.next >= Sources \/ x.inFlight >= lookupConcurrency)
    BY <1>0, <1>1, <2>3, LookupAssumption
  <2> QED
    BY <2>1, <2>2, <2>3
<1> QED
  BY <1>1, <1>2, <1>3, <1>4, <1>5 DEF Runs, z

\* One lookup moves, and its channel with it.
LEMMA OneLookup ==
  ASSUME RaceInv, NEW l \in Actors, NEW x \in Racer, NEW y \in [usable : Nat, empty : Nat],
         outLookup' = [outLookup EXCEPT ![l] = x], outAnswers' = [outAnswers EXCEPT ![l] = y],
         Runs(x, y, outEpoch), UNCHANGED outEpoch, outClaims' \subseteq outClaims,
         l \in outClaims' => x.pc \in {"race", "unclaim"}
  PROVE  RaceInv'
<1>0. /\ outEpoch \in Nat /\ outLookup \in [Actors -> Racer \cup {Outbound!Idle}]
      /\ outAnswers \in [Actors -> [usable : Nat, empty : Nat]]
  BY DEF RaceInv
<1>1. /\ outLookup' \in [Actors -> Racer \cup {Outbound!Idle}]
      /\ \A m \in Actors : outLookup'[m] = IF m = l THEN x ELSE outLookup[m]
  BY <1>0
<1>2. /\ outAnswers' \in [Actors -> [usable : Nat, empty : Nat]]
      /\ \A m \in Actors : outAnswers'[m] = IF m = l THEN y ELSE outAnswers[m]
  BY <1>0
<1>3. x # Outbound!Idle
  BY DEF Racer, Outbound!Idle
<1>4. \A m \in Actors : IF outLookup'[m] = Outbound!Idle THEN outAnswers'[m] = Outbound!NoAnswers
                         ELSE Runs(outLookup'[m], outAnswers'[m], outEpoch)
  BY <1>1, <1>2, <1>3 DEF RaceInv
<1>5. \A m \in Actors : m \in outClaims' => outLookup'[m].pc \in {"race", "unclaim"}
  BY <1>1 DEF RaceInv
<1> QED
  BY <1>0, <1>1, <1>2, <1>4, <1>5 DEF RaceInv

\* The numbers and the place of a lookup that is under way.
LEMMA Racing ==
  ASSUME RaceInv, NEW l \in Actors, outLookup[l] # Outbound!Idle
  PROVE  /\ outLookup[l] \in Racer /\ Runs(outLookup[l], outAnswers[l], outEpoch)
         /\ outAnswers[l] \in [usable : Nat, empty : Nat]
         /\ outLookup[l].next \in Nat /\ outLookup[l].inFlight \in Nat /\ outLookup[l].asked \in Nat
         /\ outLookup[l].stamp \in Nat /\ outEpoch \in Nat
         /\ outAnswers[l].usable \in Nat /\ outAnswers[l].empty \in Nat
<1>1. outLookup[l] \in Racer /\ outAnswers[l] \in [usable : Nat, empty : Nat] /\ outEpoch \in Nat
  BY DEF RaceInv
<1>2. Runs(outLookup[l], outAnswers[l], outEpoch)
  BY DEF RaceInv
<1> QED
  BY <1>1, <1>2 DEF Racer


\* A source's answer: what was asked is answered.
LEMMA SourceAnswers ==
  ASSUME RaceInv, NEW l \in Actors, NEW usable \in BOOLEAN, Outbound!probeOutboundIpSource(l, usable)
  PROVE  RaceInv'
<1> DEFINE x == [outLookup[l] EXCEPT !.asked = outLookup[l].asked - 1]
           y == IF usable THEN [outAnswers[l] EXCEPT !.usable = outAnswers[l].usable + 1]
                ELSE [outAnswers[l] EXCEPT !.empty = outAnswers[l].empty + 1]
<1>0. outLookup[l] # Outbound!Idle /\ outLookup[l].asked > 0 /\ UNCHANGED <<outEpoch, outClaims>>
  BY DEF Outbound!probeOutboundIpSource
<1>1. outLookup' = [outLookup EXCEPT ![l] = x] /\ outAnswers' = [outAnswers EXCEPT ![l] = y]
  BY DEF Outbound!probeOutboundIpSource, RaceInv
<1>2. /\ x \in Racer /\ x.asked = outLookup[l].asked - 1 /\ x.pc = outLookup[l].pc
      /\ x.stamp = outLookup[l].stamp /\ x.ctx = outLookup[l].ctx /\ x.said = outLookup[l].said
      /\ x.next = outLookup[l].next /\ x.inFlight = outLookup[l].inFlight
  BY <1>0, Racing DEF Racer
<1>3. y \in [usable : Nat, empty : Nat] /\ y.usable + y.empty = outAnswers[l].usable + outAnswers[l].empty + 1
  BY <1>0, Racing
<1> HIDE DEF x, y
<1>4. Runs(x, y, outEpoch)
  <2>1. x.asked + y.usable + y.empty = outLookup[l].asked + outAnswers[l].usable + outAnswers[l].empty
    BY <1>0, <1>2, <1>3, Racing
  <2>2. Runs(outLookup[l], outAnswers[l], outEpoch) /\ outLookup[l].asked # 0
    BY <1>0, Racing
  <2> QED
    BY <1>2, <2>1, <2>2 DEF Runs
<1>5. l \in outClaims => x.pc \in {"race", "unclaim"}
  BY <1>2 DEF RaceInv
<1> QED
  BY <1>0, <1>1, <1>2, <1>3, <1>4, <1>5, OneLookup

\* The race takes an answer, or none, out of the channel.
LEMMA RaceSelects ==
  ASSUME RaceInv, NEW l \in Actors,
         Outbound!AnswerUsable(l) \/ Outbound!AnswerEmpty(l) \/ Outbound!Stagger(l)
  PROVE  RaceInv'
<1>0. /\ outLookup[l].pc = "race" /\ outLookup[l].inFlight > 0 /\ UNCHANGED <<outEpoch, outClaims>>
      /\ outLookup[l] # Outbound!Idle
  BY DEF Outbound!AnswerUsable, Outbound!AnswerEmpty, Outbound!Stagger, Outbound!Idle
<1>1. CASE Outbound!AnswerUsable(l)
  <2> DEFINE x1 == [outLookup[l] EXCEPT !.pc = "unclaim"]
             x2 == [x1 EXCEPT !.said = "answer"]
             x == [x2 EXCEPT !.inFlight = x2.inFlight - 1]
             y == [outAnswers[l] EXCEPT !.usable = outAnswers[l].usable - 1]
  <2>0. outAnswers' = [outAnswers EXCEPT ![l] = y]
    BY <1>1 DEF Outbound!AnswerUsable, RaceInv
  <2>1. outLookup' = [outLookup EXCEPT ![l] = x]
    BY <1>1 DEF Outbound!AnswerUsable, RaceInv
  <2>2. x1 \in Racer /\ x1.pc = "unclaim" /\ x1.stamp = outLookup[l].stamp /\ x1.ctx = outLookup[l].ctx
        /\ x1.next = outLookup[l].next /\ x1.inFlight = outLookup[l].inFlight
    BY <1>0, Racing DEF Racer
  <2> HIDE DEF x1
  <2>3. x2 \in Racer /\ x2.pc = x1.pc /\ x2.stamp = x1.stamp /\ x2.ctx = x1.ctx /\ x2.next = x1.next
        /\ x2.said = "answer" /\ x2.inFlight = x1.inFlight
    BY <2>2 DEF Racer
  <2> HIDE DEF x2
  <2>4. x \in Racer /\ x.pc = x2.pc /\ x.stamp = x2.stamp /\ x.ctx = x2.ctx /\ x.next = x2.next
        /\ x.said = x2.said
    BY <1>0, <2>2, <2>3, Racing DEF Racer
  <2>5. y \in [usable : Nat, empty : Nat]
    BY <1>0, <1>1, Racing DEF Outbound!AnswerUsable
  <2> HIDE DEF x, y
  <2>6. Runs(x, y, outEpoch)
    BY <1>0, <2>2, <2>3, <2>4, Racing DEF Runs
  <2> QED
    BY <1>0, <2>0, <2>1, <2>2, <2>3, <2>4, <2>5, <2>6, OneLookup
<1>2. CASE Outbound!AnswerEmpty(l)
  <2> DEFINE w == [outLookup[l] EXCEPT !.inFlight = outLookup[l].inFlight - 1]
             x == Outbound!start(w)
             y == [outAnswers[l] EXCEPT !.empty = outAnswers[l].empty - 1]
  <2>0. outAnswers' = [outAnswers EXCEPT ![l] = y]
    BY <1>2 DEF Outbound!AnswerEmpty, RaceInv
  <2>1. outLookup' = [outLookup EXCEPT ![l] = x]
    BY <1>2 DEF Outbound!AnswerEmpty, RaceInv
  <2>2. w \in Racer /\ w.pc = "race" /\ w.stamp = outLookup[l].stamp /\ w.ctx = outLookup[l].ctx
        /\ w.next = outLookup[l].next /\ w.said = outLookup[l].said /\ w.asked = outLookup[l].asked
        /\ w.inFlight = outLookup[l].inFlight - 1
    BY <1>0, Racing DEF Racer
  <2>3. y \in [usable : Nat, empty : Nat] /\ y.usable = outAnswers[l].usable /\ y.empty = outAnswers[l].empty - 1
    BY <1>0, <1>2, Racing DEF Outbound!AnswerEmpty
  <2> HIDE DEF w, y
  <2>4. /\ w.said = "none" /\ w.stamp <= outEpoch /\ (w.ctx = "cancelled" => w.stamp < outEpoch)
        /\ w.next <= Sources
    BY <1>0, <2>2, Racing DEF Runs
  <2>5. outLookup[l].inFlight = outLookup[l].asked + outAnswers[l].usable + outAnswers[l].empty
        /\ outLookup[l].inFlight <= lookupConcurrency
    BY <1>0, Racing DEF Runs
  <2>6. w.inFlight = w.asked + y.usable + y.empty /\ w.inFlight <= lookupConcurrency
    BY <1>0, <2>2, <2>3, <2>5, Racing, LookupAssumption
  <2>7. Runs(x, y, outEpoch)
    BY <1>0, <2>2, <2>3, <2>4, <2>6, StartRuns, Racing
  <2>8. x \in Racer /\ x.pc = "race"
    BY <2>2, StartFields
  <2> HIDE DEF x
  <2> QED
    BY <1>0, <2>0, <2>1, <2>3, <2>7, <2>8, OneLookup
<1>3. CASE Outbound!Stagger(l)
  <2> DEFINE x == Outbound!start(outLookup[l])
             y == outAnswers[l]
  <2>1. outLookup' = [outLookup EXCEPT ![l] = x] /\ outAnswers' = [outAnswers EXCEPT ![l] = y]
    BY <1>3 DEF Outbound!Stagger, RaceInv
  <2>2. Runs(x, y, outEpoch)
    BY <1>0, StartRuns, Racing DEF Runs
  <2>3. x \in Racer /\ x.pc = "race"
    BY <1>0, StartFields, Racing
  <2> HIDE DEF x
  <2> QED
    BY <1>0, <2>1, <2>2, <2>3, OneLookup, Racing
<1> QED
  BY <1>1, <1>2, <1>3

\* A race stops, runs out of time or gives its claim back.
LEMMA RaceEnds ==
  ASSUME RaceInv, NEW l \in Actors,
         Outbound!Done(l) \/ Outbound!Expires(l) \/ Outbound!Unclaim(l)
  PROVE  RaceInv'
<1>0. /\ outLookup[l].pc \in {"claim", "race", "unclaim"} /\ UNCHANGED <<outEpoch, outAnswers>>
      /\ outLookup[l] # Outbound!Idle /\ outClaims' \subseteq outClaims
  BY DEF Outbound!Done, Outbound!Expires, Outbound!Unclaim, Outbound!Idle
<1>1. outAnswers' = [outAnswers EXCEPT ![l] = outAnswers[l]]
  BY <1>0 DEF RaceInv
<1>2. CASE Outbound!Done(l)
  <2>0. outLookup[l].pc = "race" /\ UNCHANGED outClaims
    BY <1>2 DEF Outbound!Done
  <2>1. PICK s \in {"stopped", "failed"} :
          /\ outLookup' = [outLookup EXCEPT ![l] = [outLookup[l] EXCEPT !.pc = "unclaim", !.said = s]]
          /\ s = "failed" => outLookup[l].inFlight = 0
    BY <1>2 DEF Outbound!Done, RaceInv
  <2> DEFINE x1 == [outLookup[l] EXCEPT !.pc = "unclaim"]
             x == [x1 EXCEPT !.said = s]
  <2>2. outLookup' = [outLookup EXCEPT ![l] = x]
    BY <2>1
  <2>3. x1 \in Racer /\ x1.pc = "unclaim" /\ x1.stamp = outLookup[l].stamp /\ x1.ctx = outLookup[l].ctx
        /\ x1.next = outLookup[l].next /\ x1.asked = outLookup[l].asked
    BY <1>0, Racing DEF Racer
  <2> HIDE DEF x1
  <2>4. x \in Racer /\ x.pc = x1.pc /\ x.stamp = x1.stamp /\ x.ctx = x1.ctx /\ x.next = x1.next
        /\ x.asked = x1.asked /\ x.said = s
    BY <2>3 DEF Racer
  <2> HIDE DEF x
  <2>5. s = "failed" => outLookup[l].next = Sources /\ outLookup[l].asked = 0 /\ outAnswers[l].usable = 0
    <3>1. s = "failed" => outLookup[l].asked + outAnswers[l].usable + outAnswers[l].empty = 0
                          /\ outLookup[l].next = Sources
      BY <1>0, <2>0, <2>1, Racing DEF Runs
    <3>2. /\ outLookup[l].asked \in Nat /\ outAnswers[l].usable \in Nat /\ outAnswers[l].empty \in Nat
      BY <1>0, Racing
    <3> QED
      BY <3>1, <3>2
  <2>6. Runs(x, outAnswers[l], outEpoch)
    BY <1>0, <2>3, <2>4, <2>5, Racing DEF Runs
  <2> QED
    BY <1>0, <1>1, <2>0, <2>2, <2>3, <2>4, <2>6, OneLookup, Racing
<1>3. CASE Outbound!Expires(l)
  <2> DEFINE x == [outLookup[l] EXCEPT !.ctx = "expired"]
  <2>1. outLookup' = [outLookup EXCEPT ![l] = x] /\ UNCHANGED outClaims
    BY <1>3 DEF Outbound!Expires, RaceInv
  <2>2. x \in Racer /\ x.ctx = "expired" /\ x.pc = outLookup[l].pc /\ x.stamp = outLookup[l].stamp
        /\ x.next = outLookup[l].next /\ x.asked = outLookup[l].asked /\ x.said = outLookup[l].said
        /\ x.inFlight = outLookup[l].inFlight
    BY <1>0, Racing DEF Racer
  <2> HIDE DEF x
  <2>3. Runs(x, outAnswers[l], outEpoch)
    BY <1>0, <2>2, Racing DEF Runs
  <2>4. l \in outClaims => x.pc \in {"race", "unclaim"}
    BY <2>2 DEF RaceInv
  <2> QED
    BY <1>0, <1>1, <2>1, <2>2, <2>3, <2>4, OneLookup, Racing
<1>4. CASE Outbound!Unclaim(l)
  <2> DEFINE c == IF outLookup[l].ctx = "live" THEN "over" ELSE outLookup[l].ctx
             x1 == [outLookup[l] EXCEPT !.pc = "over"]
             x == [x1 EXCEPT !.ctx = c]
  <2>0. outClaims' = outClaims \ {l}
    BY <1>4 DEF Outbound!Unclaim
  <2>1. outLookup' = [outLookup EXCEPT ![l] = x]
    <3>1. outLookup' = [outLookup EXCEPT ![l] = [x1 EXCEPT !.ctx = IF x1.ctx = "live" THEN "over" ELSE x1.ctx]]
      BY <1>4 DEF Outbound!Unclaim, RaceInv
    <3>2. x1.ctx = outLookup[l].ctx
      BY <1>0, Racing DEF Racer
    <3> QED
      BY <3>1, <3>2
  <2>2. x1 \in Racer /\ x1.pc = "over" /\ x1.stamp = outLookup[l].stamp /\ x1.said = outLookup[l].said
        /\ x1.next = outLookup[l].next /\ x1.asked = outLookup[l].asked
    BY <1>0, Racing DEF Racer
  <2>3. c \in {"live", "cancelled", "expired", "over"} /\ (c = "cancelled" => outLookup[l].ctx = "cancelled")
    BY <1>0, Racing DEF Racer
  <2> HIDE DEF x1, c
  <2>4. x \in Racer /\ x.pc = x1.pc /\ x.stamp = x1.stamp /\ x.ctx = c /\ x.next = x1.next
        /\ x.asked = x1.asked /\ x.said = x1.said
    BY <2>2, <2>3 DEF Racer
  <2> HIDE DEF x
  <2>5. Runs(x, outAnswers[l], outEpoch)
    BY <1>0, <2>2, <2>3, <2>4, Racing DEF Runs
  <2> QED
    BY <1>0, <1>1, <2>0, <2>1, <2>4, <2>5, OneLookup, Racing
<1> QED
  BY <1>2, <1>3, <1>4


\* A lookup comes, with the epoch of now; and one leaves.
LEMMA RaceBegins ==
  ASSUME RaceInv, NEW l \in Actors, Outbound!routeStamp(l) \/ Outbound!Over(l)
  PROVE  RaceInv'
<1>0. /\ outEpoch \in Nat /\ outLookup \in [Actors -> Racer \cup {Outbound!Idle}]
      /\ outAnswers \in [Actors -> [usable : Nat, empty : Nat]]
  BY DEF RaceInv
<1>1. CASE Outbound!routeStamp(l)
  <2> DEFINE x == [pc |-> "claim", stamp |-> outEpoch, ctx |-> "live", next |-> 0, inFlight |-> 0,
                   asked |-> 0, said |-> "none"]
  <2>1. outLookup[l] = Outbound!Idle /\ outLookup' = [outLookup EXCEPT ![l] = x]
        /\ UNCHANGED <<outEpoch, outClaims, outAnswers>>
    BY <1>1 DEF Outbound!routeStamp
  <2>2. outAnswers[l] = Outbound!NoAnswers /\ outAnswers' = [outAnswers EXCEPT ![l] = Outbound!NoAnswers]
        /\ Outbound!NoAnswers \in [usable : Nat, empty : Nat]
    BY <1>0, <2>1 DEF RaceInv, Outbound!NoAnswers
  <2>3. x \in Racer /\ Runs(x, Outbound!NoAnswers, outEpoch)
    BY <1>0, LookupAssumption DEF Racer, Runs, Outbound!NoAnswers
  <2>4. l \notin outClaims
    BY <2>1 DEF RaceInv, Outbound!Idle
  <2> HIDE DEF x
  <2> QED
    BY <2>1, <2>2, <2>3, <2>4, OneLookup
<1>2. CASE Outbound!Over(l)
  <2>1. /\ outLookup' = [outLookup EXCEPT ![l] = Outbound!Idle] /\ outLookup[l].pc = "over"
        /\ outAnswers' = [outAnswers EXCEPT ![l] = Outbound!NoAnswers] /\ UNCHANGED <<outEpoch, outClaims>>
    BY <1>2 DEF Outbound!Over
  <2>2. Outbound!NoAnswers \in [usable : Nat, empty : Nat] /\ l \notin outClaims
    BY <2>1 DEF RaceInv, Outbound!NoAnswers
  <2>3. /\ outLookup' \in [Actors -> Racer \cup {Outbound!Idle}]
        /\ \A m \in Actors : outLookup'[m] = IF m = l THEN Outbound!Idle ELSE outLookup[m]
    BY <1>0, <2>1
  <2>4. /\ outAnswers' \in [Actors -> [usable : Nat, empty : Nat]]
        /\ \A m \in Actors : outAnswers'[m] = IF m = l THEN Outbound!NoAnswers ELSE outAnswers[m]
    BY <1>0, <2>1, <2>2
  <2>5. \A m \in Actors : IF outLookup'[m] = Outbound!Idle THEN outAnswers'[m] = Outbound!NoAnswers
                           ELSE Runs(outLookup'[m], outAnswers'[m], outEpoch)
    BY <2>3, <2>4 DEF RaceInv
  <2>6. \A m \in Actors : m \in outClaims => outLookup'[m].pc \in {"race", "unclaim"}
    BY <2>2, <2>3 DEF RaceInv
  <2> QED
    BY <1>0, <2>1, <2>3, <2>4, <2>5, <2>6 DEF RaceInv
<1> QED
  BY <1>1, <1>2

\* A claim stops those of older epochs, and no other.
LEMMA ClaimKeeps ==
  ASSUME RaceInv, NEW l \in Actors, Outbound!claimOutboundIp(l)
  PROVE  RaceInv'
<1> DEFINE stale == {o \in outClaims : outLookup[o].stamp < outLookup[l].stamp}
           w == [outLookup[l] EXCEPT !.pc = "race"]
           x == Outbound!start(w)
           stop(o) == [outLookup[o] EXCEPT !.ctx = "cancelled"]
<1>0. /\ outLookup[l].pc = "claim" /\ outLookup[l] # Outbound!Idle /\ UNCHANGED <<outEpoch, outAnswers>>
      /\ outClaims' = (outClaims \ stale) \cup {l}
  BY DEF Outbound!claimOutboundIp, Outbound!Idle
<1>1. outLookup' = [o \in Actors |-> IF o = l THEN x ELSE IF o \in stale THEN stop(o) ELSE outLookup[o]]
  BY DEF Outbound!claimOutboundIp
<1>2. w \in Racer /\ w.pc = "race" /\ w.stamp = outLookup[l].stamp /\ w.ctx = outLookup[l].ctx
      /\ w.next = outLookup[l].next /\ w.said = outLookup[l].said /\ w.asked = outLookup[l].asked
      /\ w.inFlight = outLookup[l].inFlight
  BY <1>0, Racing DEF Racer
<1> HIDE DEF w
<1>3. /\ w.said = "none" /\ w.stamp <= outEpoch /\ (w.ctx = "cancelled" => w.stamp < outEpoch)
      /\ w.next <= Sources /\ w.inFlight = 0 /\ w.asked = 0
      /\ outAnswers[l].usable = 0 /\ outAnswers[l].empty = 0
  BY <1>0, <1>2, Racing DEF Runs
<1>4. w.inFlight = w.asked + outAnswers[l].usable + outAnswers[l].empty /\ w.inFlight <= lookupConcurrency
  BY <1>3, LookupAssumption
<1>5. x \in Racer /\ x.pc = "race" /\ Runs(x, outAnswers[l], outEpoch)
  BY <1>0, <1>2, <1>3, <1>4, StartFields, StartRuns, Racing
<1>6. x # Outbound!Idle
  BY <1>5 DEF Outbound!Idle
<1> HIDE DEF x
<1>7. ASSUME NEW o \in Actors, o \in stale
      PROVE  stop(o) \in Racer /\ stop(o).pc = outLookup[o].pc /\ Runs(stop(o), outAnswers[o], outEpoch)
  <2>0. outLookup[o].pc \in {"race", "unclaim"} /\ outLookup[o].stamp < outLookup[l].stamp
    BY <1>7 DEF RaceInv
  <2>1. outLookup[o] # Outbound!Idle
    BY <2>0 DEF Outbound!Idle
  <2>2. outLookup[l].stamp <= outEpoch /\ outLookup[l].stamp \in Nat /\ outEpoch \in Nat
        /\ outLookup[o].stamp \in Nat
    BY <1>0, <2>1, Racing DEF Runs
  <2>3. outLookup[o].stamp < outEpoch
    BY <2>0, <2>2
  <2> DEFINE z == stop(o)
  <2>4. z \in Racer /\ z.ctx = "cancelled" /\ z.pc = outLookup[o].pc /\ z.stamp = outLookup[o].stamp
        /\ z.next = outLookup[o].next /\ z.asked = outLookup[o].asked /\ z.said = outLookup[o].said
        /\ z.inFlight = outLookup[o].inFlight
    BY <2>1, Racing DEF Racer
  <2>5. Runs(outLookup[o], outAnswers[o], outEpoch)
    BY <2>1, Racing
  <2> HIDE DEF z
  <2>6. Runs(z, outAnswers[o], outEpoch)
    BY <2>3, <2>4, <2>5 DEF Runs
  <2> QED
    BY <2>4, <2>6 DEF z
<1>8. \A o \in Actors : o \in stale => stop(o) # Outbound!Idle
  <2> SUFFICES ASSUME NEW o \in Actors, o \in stale PROVE stop(o) # Outbound!Idle
    OBVIOUS
  <2>1. outLookup[o].pc \in {"race", "unclaim"}
    BY DEF RaceInv
  <2> QED
    BY <1>7, <2>1 DEF Outbound!Idle
<1>9. \A o \in Actors : outLookup'[o] = IF o = l THEN x ELSE IF o \in stale THEN stop(o) ELSE outLookup[o]
  BY <1>1
<1> HIDE DEF stop, stale
<1>10. outLookup' \in [Actors -> Racer \cup {Outbound!Idle}]
  BY <1>1, <1>5, <1>7 DEF RaceInv
<1>11. \A o \in Actors : IF outLookup'[o] = Outbound!Idle THEN outAnswers[o] = Outbound!NoAnswers
                          ELSE Runs(outLookup'[o], outAnswers[o], outEpoch)
  BY <1>5, <1>6, <1>7, <1>8, <1>9 DEF RaceInv
<1>12. \A o \in Actors : o \in outClaims' => outLookup'[o].pc \in {"race", "unclaim"}
  BY <1>0, <1>5, <1>7, <1>9 DEF RaceInv
<1> QED
  BY <1>0, <1>10, <1>11, <1>12 DEF RaceInv

LEMMA RaceInit == Outbound!Init => RaceInv
BY DEF Outbound!Init, RaceInv, Outbound!NoAnswers

LEMMA RaceStep == RaceInv /\ [Outbound!Next]_(Outbound!vars) => RaceInv'
<1> SUFFICES ASSUME RaceInv, [Outbound!Next]_(Outbound!vars) PROVE RaceInv'
  OBVIOUS
<1>1. CASE Outbound!bumpRouteEpoch
  <2>1. /\ outEpoch' = outEpoch + 1 /\ UNCHANGED <<outLookup, outClaims, outAnswers>> /\ outEpoch \in Nat
        /\ outLookup \in [Actors -> Racer \cup {Outbound!Idle}]
    BY <1>1 DEF Outbound!bumpRouteEpoch, RaceInv
  <2>2. ASSUME NEW l \in Actors, outLookup[l] # Outbound!Idle
        PROVE  Runs(outLookup[l], outAnswers[l], outEpoch + 1)
    <3>1. outLookup[l].stamp <= outEpoch + 1
          /\ (outLookup[l].stamp < outEpoch => outLookup[l].stamp < outEpoch + 1)
      BY <2>1, <2>2, Racing DEF Runs
    <3>2. Runs(outLookup[l], outAnswers[l], outEpoch)
      BY <2>2, Racing
    <3> QED
      BY <3>1, <3>2 DEF Runs
  <2>3. outEpoch' \in Nat
    BY <2>1
  <2> QED
    BY <2>1, <2>2, <2>3 DEF RaceInv
<1>2. CASE UNCHANGED Outbound!vars
  BY <1>2 DEF Outbound!vars, RaceInv
<1> QED
  BY <1>1, <1>2, RaceBegins, ClaimKeeps, RaceSelects, RaceEnds, SourceAnswers DEF Outbound!Next

\* For any number of sources, of sources at a time and of lookups at once: a
\* lookup fails only when every source was asked and none is still to answer, and
\* it is cancelled only by one of a newer route epoch (handleOutboundIp,
\* claimOutboundIp).
THEOREM RacesAreFair == Outbound!Spec => []RaceIsFair
<1>1. RaceInv => RaceIsFair
  <2> SUFFICES ASSUME RaceInv, NEW l \in Actors
               PROVE  /\ outLookup[l] # Outbound!Idle /\ outLookup[l].said = "failed" =>
                           outLookup[l].next = Sources /\ outAnswers[l].usable = 0
                      /\ outLookup[l] # Outbound!Idle /\ outLookup[l].ctx = "cancelled" =>
                           outLookup[l].stamp < outEpoch
                      /\ outLookup[l].pc = "race" =>
                           /\ outLookup[l].inFlight = outLookup[l].asked + outAnswers[l].usable + outAnswers[l].empty
                           /\ outLookup[l].inFlight <= lookupConcurrency
                      /\ l \in outClaims => outLookup[l].pc \in {"race", "unclaim"}
    BY DEF RaceIsFair, Outbound!RaceIsFair
  <2>1. outLookup[l].pc = "race" => outLookup[l] # Outbound!Idle
    BY DEF Outbound!Idle
  <2>2. l \in outClaims => outLookup[l].pc \in {"race", "unclaim"}
    BY DEF RaceInv
  <2>3. CASE outLookup[l] = Outbound!Idle
    BY <2>1, <2>2, <2>3
  <2>4. CASE outLookup[l] # Outbound!Idle
    BY <2>2, <2>4, Racing DEF Runs
  <2> QED
    BY <2>3, <2>4
<1> QED
  BY <1>1, RaceInit, RaceStep, PTL DEF Outbound!Spec

-----------------------------------------------------------------------------
(* Sweeps over the service checks.                                         *)

Stage == {"queued", "granted", "refused", "probing", "judged", "failed", "over"}
Sweep == [pc : {"claim", "queue", "wait"}, wanted : Wanted, at : Nat,
          ctx : [Services -> {"none", "live", "done"}],
          check : UNION {[1 .. n -> Stage] : n \in Nat}]

\* What holds of the sweep x of w when S are the slots in use: a check that was
\* refused its slot has a context that is done, and stays so.
Sweeping(w, x, S) ==
    /\ x.at \in 1 .. Len(x.wanted)
    /\ x.check \in [1 .. Len(x.wanted) -> Stage]
    /\ x.pc = "claim" => \A i \in 1 .. Len(x.wanted) : x.check[i] = "queued"
    /\ x.pc = "queue" => \A i \in 1 .. Len(x.wanted) : i >= x.at => x.check[i] = "queued"
    /\ \A i \in 1 .. Len(x.wanted) :
         /\ x.check[i] = "refused" => x.ctx[x.wanted[i]] = "done"
         /\ <<w, i>> \in S => x.check[i] \in {"granted", "probing", "judged", "failed"}
         /\ x.check[i] \in {"granted", "probing", "judged"} => <<w, i>> \in S

SlotInv ==
    /\ \A v \in Actors, i \in Nat : <<v, i>> \in svcSlots =>
         svcSweep[v] # Checks!Idle /\ i \in 1 .. Len(svcSweep[v].wanted)
    /\ IsFiniteSet(svcSlots)
    /\ Cardinality(svcSlots) <= checkConcurrency

SweepInv ==
    /\ svcSweep \in [Actors -> Sweep \cup {Checks!Idle}]
    /\ \A w \in Actors : svcSweep[w] # Checks!Idle => Sweeping(w, svcSweep[w], svcSlots)

OwnerInv ==
    /\ svcClaims \in [Services -> Actors \cup {"none"}]
    /\ \A w \in Actors, s \in Services :
         svcSweep[w] # Checks!Idle /\ svcSweep[w].ctx[s] = "live" => svcClaims[s] = w
    /\ \A w \in Actors, s \in Services :
         svcClaims[s] = w => svcSweep[w] # Checks!Idle /\ svcSweep[w].ctx[s] # "none"

CheckInv == SlotInv /\ SweepInv /\ OwnerInv

LEMMA SweepIsNotIdle == \A x \in Sweep : x # Checks!Idle
BY DEF Sweep, Checks!Idle

\* The step of w to x touches no other sweep's slots; it gains no live context,
\* and keeps those it has claimed.
SlotsFit(w, x) ==
    /\ IsFiniteSet(svcSlots') /\ Cardinality(svcSlots') <= checkConcurrency
    /\ \A v \in Actors, i \in Nat : v # w => (<<v, i>> \in svcSlots' <=> <<v, i>> \in svcSlots)
    /\ \A i \in Nat : <<w, i>> \in svcSlots' => i \in 1 .. Len(x.wanted)
ContextsFit(w, x) ==
    /\ UNCHANGED svcClaims
    /\ \A s \in Services : x.ctx[s] = "live" => svcSweep[w] # Checks!Idle /\ svcSweep[w].ctx[s] = "live"
    /\ \A s \in Services : svcClaims[s] = w => x.ctx[s] # "none"

\* One sweep moves.
LEMMA OneSweep ==
  ASSUME CheckInv, NEW w \in Actors, NEW x \in Sweep, svcSweep' = [svcSweep EXCEPT ![w] = x],
         Sweeping(w, x, svcSlots'), SlotsFit(w, x), ContextsFit(w, x)
  PROVE  CheckInv'
<1>0. svcSweep \in [Actors -> Sweep \cup {Checks!Idle}]
  BY DEF CheckInv, SweepInv
<1>1. /\ svcSweep' \in [Actors -> Sweep \cup {Checks!Idle}]
      /\ \A v \in Actors : svcSweep'[v] = IF v = w THEN x ELSE svcSweep[v]
  BY <1>0
<1>2. x # Checks!Idle
  BY SweepIsNotIdle
<1>3. SlotInv'
  BY <1>1, <1>2 DEF SlotInv, CheckInv, SlotsFit
<1>4. ASSUME NEW v \in Actors, svcSweep'[v] # Checks!Idle PROVE Sweeping(v, svcSweep'[v], svcSlots')
  <2>1. CASE v = w
    BY <1>1, <2>1
  <2>2. CASE v # w
    <3>1. svcSweep'[v] = svcSweep[v] /\ Sweeping(v, svcSweep[v], svcSlots)
      BY <1>1, <1>4, <2>2 DEF CheckInv, SweepInv
    <3>2. \A i \in 1 .. Len(svcSweep[v].wanted) : <<v, i>> \in svcSlots' <=> <<v, i>> \in svcSlots
      BY <2>2 DEF SlotsFit
    <3> QED
      BY <3>1, <3>2 DEF Sweeping
  <2> QED
    BY <2>1, <2>2
<1>5. OwnerInv'
  BY <1>1, <1>2 DEF OwnerInv, CheckInv, ContextsFit
<1> QED
  BY <1>1, <1>3, <1>4, <1>5 DEF CheckInv, SweepInv

\* What a sweep under way is made of.
LEMMA UnderWay ==
  ASSUME CheckInv, NEW w \in Actors, svcSweep[w] # Checks!Idle
  PROVE  /\ svcSweep[w] \in Sweep /\ Sweeping(w, svcSweep[w], svcSlots)
         /\ svcSweep[w].ctx \in [Services -> {"none", "live", "done"}]
         /\ svcSweep[w].wanted \in Seq(Services) /\ Len(svcSweep[w].wanted) \in Nat
         /\ \A i \in 1 .. Len(svcSweep[w].wanted) : svcSweep[w].wanted[i] \in Services
         /\ svcSweep[w].at \in 1 .. Len(svcSweep[w].wanted)
         /\ svcSweep[w].check \in [1 .. Len(svcSweep[w].wanted) -> Stage]
         /\ \A i \in Nat : <<w, i>> \in svcSlots => i \in 1 .. Len(svcSweep[w].wanted)
<1>1. svcSweep[w] \in Sweep /\ Sweeping(w, svcSweep[w], svcSlots)
  BY DEF CheckInv, SweepInv
<1>2. svcSweep[w].wanted \in Seq(Services) /\ svcSweep[w].ctx \in [Services -> {"none", "live", "done"}]
  BY <1>1, CheckAssumption DEF Sweep
<1>3. Len(svcSweep[w].wanted) \in Nat /\ \A i \in 1 .. Len(svcSweep[w].wanted) : svcSweep[w].wanted[i] \in Services
  BY <1>2
<1>4. svcSweep[w].at \in 1 .. Len(svcSweep[w].wanted) /\ svcSweep[w].check \in [1 .. Len(svcSweep[w].wanted) -> Stage]
  BY <1>1 DEF Sweeping
<1>5. \A i \in Nat : <<w, i>> \in svcSlots => i \in 1 .. Len(svcSweep[w].wanted)
  BY DEF CheckInv, SlotInv
<1> QED
  BY <1>1, <1>2, <1>3, <1>4, <1>5

\* A check of a sweep comes to stage v.
LEMMA StageFields ==
  ASSUME NEW x \in Sweep, NEW i \in 1 .. Len(x.wanted), NEW v \in Stage, Len(x.wanted) \in Nat,
         x.check \in [1 .. Len(x.wanted) -> Stage]
  PROVE  LET y == [x EXCEPT !.check[i] = v] IN
         /\ y \in Sweep /\ y.pc = x.pc /\ y.wanted = x.wanted /\ y.at = x.at /\ y.ctx = x.ctx
         /\ y.check = [x.check EXCEPT ![i] = v]
         /\ y.check \in [1 .. Len(x.wanted) -> Stage]
<1> DEFINE c == [x.check EXCEPT ![i] = v]
           y == [x EXCEPT !.check = c]
<1>1. c \in [1 .. Len(x.wanted) -> Stage]
  OBVIOUS
<1>2. c \in UNION {[1 .. n -> Stage] : n \in Nat}
  BY <1>1
<1> HIDE DEF c
<1>3. y \in Sweep /\ y.pc = x.pc /\ y.wanted = x.wanted /\ y.at = x.at /\ y.ctx = x.ctx /\ y.check = c
  BY <1>2 DEF Sweep
<1>4. [x EXCEPT !.check[i] = v] = y
  BY DEF c
<1> HIDE DEF y
<1> QED
  BY <1>1, <1>3, <1>4 DEF c


\* A check that has left the queue comes to stage v, with or without its slot.
LEMMA StageMoves ==
  ASSUME CheckInv, NEW w \in Actors, svcSweep[w] # Checks!Idle, NEW i \in 1 .. Len(svcSweep[w].wanted),
         NEW v \in Stage \ {"refused"}, svcSweep[w].check[i] # "queued",
         svcSweep' = [svcSweep EXCEPT ![w].check[i] = v], UNCHANGED svcClaims,
         \/ /\ svcSlots' = svcSlots
            /\ <<w, i>> \in svcSlots => v \in {"granted", "probing", "judged", "failed"}
            /\ v \in {"granted", "probing", "judged"} => <<w, i>> \in svcSlots
         \/ svcSlots' = svcSlots \ {<<w, i>>} /\ v = "over"
  PROVE  CheckInv'
<1> DEFINE x == svcSweep[w]
           y == [x EXCEPT !.check[i] = v]
<1>0. svcSweep \in [Actors -> Sweep \cup {Checks!Idle}]
  BY DEF CheckInv, SweepInv
<1>1. svcSweep' = [svcSweep EXCEPT ![w] = y]
  BY <1>0
<1>2. /\ x \in Sweep /\ Sweeping(w, x, svcSlots) /\ Len(x.wanted) \in Nat
      /\ x.check \in [1 .. Len(x.wanted) -> Stage]
      /\ \A j \in Nat : <<w, j>> \in svcSlots => j \in 1 .. Len(x.wanted)
  BY UnderWay
<1>3. /\ y \in Sweep /\ y.pc = x.pc /\ y.wanted = x.wanted /\ y.at = x.at /\ y.ctx = x.ctx
      /\ y.check = [x.check EXCEPT ![i] = v] /\ y.check \in [1 .. Len(x.wanted) -> Stage]
  BY <1>2, StageFields
<1> HIDE DEF y
<1>4. \A j \in 1 .. Len(x.wanted) : y.check[j] = IF j = i THEN v ELSE x.check[j]
  BY <1>2, <1>3
<1>5. \A u \in Actors, j \in Nat : (u # w \/ j # i) => (<<u, j>> \in svcSlots' <=> <<u, j>> \in svcSlots)
  OBVIOUS
<1>6. IsFiniteSet(svcSlots') /\ Cardinality(svcSlots') <= checkConcurrency
  <2>1. IsFiniteSet(svcSlots) /\ Cardinality(svcSlots) <= checkConcurrency /\ Cardinality(svcSlots) \in Nat
    BY FS_CardinalityType DEF CheckInv, SlotInv
  <2>2. CASE svcSlots' = svcSlots
    BY <2>1, <2>2
  <2>3. CASE svcSlots' = svcSlots \ {<<w, i>>}
    <3>1. IsFiniteSet(svcSlots')
          /\ Cardinality(svcSlots') = IF <<w, i>> \in svcSlots THEN Cardinality(svcSlots) - 1 ELSE Cardinality(svcSlots)
      BY <2>1, <2>3, FS_RemoveElement
    <3> QED
      BY <2>1, <3>1, CheckAssumption
  <2> QED
    BY <2>2, <2>3
<1>7. Sweeping(w, y, svcSlots')
  <2>1. \A j \in 1 .. Len(y.wanted) :
          /\ y.check[j] = "refused" => y.ctx[y.wanted[j]] = "done"
          /\ <<w, j>> \in svcSlots' => y.check[j] \in {"granted", "probing", "judged", "failed"}
          /\ y.check[j] \in {"granted", "probing", "judged"} => <<w, j>> \in svcSlots'
    <3> SUFFICES ASSUME NEW j \in 1 .. Len(x.wanted)
                 PROVE  /\ y.check[j] = "refused" => y.ctx[y.wanted[j]] = "done"
                        /\ <<w, j>> \in svcSlots' => y.check[j] \in {"granted", "probing", "judged", "failed"}
                        /\ y.check[j] \in {"granted", "probing", "judged"} => <<w, j>> \in svcSlots'
      BY <1>3
    <3>1. CASE j = i
      BY <1>4, <3>1
    <3>2. CASE j # i
      BY <1>2, <1>3, <1>4, <1>5, <3>2 DEF Sweeping
    <3> QED
      BY <3>1, <3>2
  <2>2. y.pc = "claim" => \A j \in 1 .. Len(y.wanted) : y.check[j] = "queued"
    BY <1>2, <1>3 DEF Sweeping
  <2>3. y.pc = "queue" => \A j \in 1 .. Len(y.wanted) : j >= y.at => y.check[j] = "queued"
    BY <1>2, <1>3, <1>4 DEF Sweeping
  <2> QED
    BY <1>2, <1>3, <2>1, <2>2, <2>3 DEF Sweeping
<1>8. ContextsFit(w, y)
  BY <1>3 DEF CheckInv, OwnerInv, ContextsFit
<1>9. SlotsFit(w, y)
  BY <1>2, <1>3, <1>5, <1>6 DEF SlotsFit
<1>10. y \in Sweep
  BY <1>3
<1> QED
  BY <1>1, <1>7, <1>8, <1>9, <1>10, OneSweep

\* The stages of a check, from its slot to the end.
LEMMA ChecksRun ==
  ASSUME CheckInv, NEW w \in Actors, svcSweep[w].pc \in {"queue", "wait"}, NEW i \in DOMAIN svcSweep[w].check,
         \/ Checks!runServiceCheck(w, i) \/ Checks!release(w, i)
         \/ \E status \in {"judged", "failed"} : Checks!Judged(w, i, status)
  PROVE  CheckInv'
<1> DEFINE x == svcSweep[w]
<1>0. svcSweep[w] # Checks!Idle /\ svcSweep \in [Actors -> Sweep \cup {Checks!Idle}]
  BY DEF Checks!Idle, CheckInv, SweepInv
<1>1. i \in 1 .. Len(x.wanted) /\ x.check[i] \in Stage /\ Sweeping(w, x, svcSlots)
  <2>1. Sweeping(w, x, svcSlots) /\ x.check \in [1 .. Len(x.wanted) -> Stage]
    BY <1>0, UnderWay
  <2> QED
    BY <2>1
<1>2. /\ x.check[i] = "refused" => x.ctx[x.wanted[i]] = "done"
      /\ <<w, i>> \in svcSlots => x.check[i] \in {"granted", "probing", "judged", "failed"}
      /\ x.check[i] \in {"granted", "probing", "judged"} => <<w, i>> \in svcSlots
  BY <1>1 DEF Sweeping
<1>3. CASE Checks!runServiceCheck(w, i)
  <2> DEFINE v == IF x.ctx[x.wanted[i]] = "done" THEN "failed"
                  ELSE IF x.check[i] = "granted" THEN "probing" ELSE "unpaid"
  <2>1. /\ x.check[i] \in {"granted", "refused"} /\ UNCHANGED <<svcClaims, svcSlots>>
        /\ svcSweep' = [svcSweep EXCEPT ![w].check[i] = v]
    BY <1>3 DEF Checks!runServiceCheck
  <2>2. v \in {"failed", "probing"} /\ (v = "probing" => x.check[i] = "granted")
    BY <1>2, <2>1
  <2> HIDE DEF v
  <2>3. v \in Stage \ {"refused"} /\ x.check[i] # "queued"
    BY <2>1, <2>2 DEF Stage
  <2> QED
    BY <1>0, <1>1, <1>2, <2>1, <2>2, <2>3, StageMoves
<1>4. CASE Checks!release(w, i)
  <2>1. /\ x.check[i] # "queued" /\ svcSlots' = svcSlots \ {<<w, i>>} /\ UNCHANGED svcClaims
        /\ svcSweep' = [svcSweep EXCEPT ![w].check[i] = "over"]
    BY <1>4 DEF Checks!release
  <2>2. "over" \in Stage \ {"refused"}
    BY DEF Stage
  <2> QED
    BY <1>0, <1>1, <2>1, <2>2, StageMoves
<1>5. ASSUME NEW status \in {"judged", "failed"}, Checks!Judged(w, i, status) PROVE CheckInv'
  <2>1. /\ x.check[i] \in {"probing", "unpaid"} /\ UNCHANGED <<svcClaims, svcSlots>>
        /\ svcSweep' = [svcSweep EXCEPT ![w].check[i] = status]
    BY <1>5 DEF Checks!Judged
  <2>2. status \in Stage \ {"refused"} /\ x.check[i] # "queued" /\ x.check[i] = "probing"
    BY <1>1, <2>1 DEF Stage
  <2> QED
    BY <1>0, <1>1, <1>2, <2>1, <2>2, StageMoves
<1> QED
  BY <1>3, <1>4, <1>5

\* The turn of the next service, in the one loop and in the other.
LEMMA TurnFields ==
  ASSUME NEW x \in Sweep, x.at \in 1 .. Len(x.wanted), Len(x.wanted) \in Nat
  PROVE  /\ Checks!Claimed(x) \in Sweep /\ Checks!Queued(x) \in Sweep
         /\ Checks!Claimed(x).wanted = x.wanted /\ Checks!Claimed(x).ctx = x.ctx /\ Checks!Claimed(x).check = x.check
         /\ Checks!Queued(x).wanted = x.wanted /\ Checks!Queued(x).ctx = x.ctx /\ Checks!Queued(x).check = x.check
         /\ Checks!Claimed(x).at \in 1 .. Len(x.wanted) /\ Checks!Queued(x).at \in 1 .. Len(x.wanted)
         /\ Checks!Claimed(x).pc \in {x.pc, "queue"}
         /\ \/ Checks!Queued(x).pc = "wait"
            \/ Checks!Queued(x).pc = x.pc /\ Checks!Queued(x).at = x.at + 1
<1>1. CASE x.at = Len(x.wanted)
  <2> DEFINE t == [x EXCEPT !.pc = "queue"]
             u == [t EXCEPT !.at = 1]
             q == [x EXCEPT !.pc = "wait"]
  <2>1. Checks!Claimed(x) = u /\ Checks!Queued(x) = q
    BY <1>1 DEF Checks!Claimed, Checks!Queued
  <2>2. t \in Sweep /\ t.wanted = x.wanted /\ t.ctx = x.ctx /\ t.check = x.check /\ t.pc = "queue"
    BY DEF Sweep
  <2> HIDE DEF t
  <2>3. u \in Sweep /\ u.wanted = t.wanted /\ u.ctx = t.ctx /\ u.check = t.check /\ u.pc = t.pc /\ u.at = 1
    BY <2>2 DEF Sweep
  <2>4. q \in Sweep /\ q.wanted = x.wanted /\ q.ctx = x.ctx /\ q.check = x.check /\ q.pc = "wait" /\ q.at = x.at
    BY DEF Sweep
  <2>5. 1 \in 1 .. Len(x.wanted)
    BY <1>1
  <2> HIDE DEF u, q
  <2> QED
    BY <2>1, <2>2, <2>3, <2>4, <2>5
<1>2. CASE x.at # Len(x.wanted)
  <2> DEFINE u == [x EXCEPT !.at = x.at + 1]
  <2>1. Checks!Claimed(x) = u /\ Checks!Queued(x) = u
    BY <1>2 DEF Checks!Claimed, Checks!Queued
  <2>2. u \in Sweep /\ u.wanted = x.wanted /\ u.ctx = x.ctx /\ u.check = x.check /\ u.pc = x.pc /\ u.at = x.at + 1
    BY DEF Sweep
  <2>3. x.at + 1 \in 1 .. Len(x.wanted)
    BY <1>2
  <2> HIDE DEF u
  <2> QED
    BY <2>1, <2>2, <2>3
<1> QED
  BY <1>1, <1>2


\* How many slots are in use, for the checks as for the theorems on finite sets.
LEMMA SlotCount == Checks!Cardinality(svcSlots) = Cardinality(svcSlots)
BY DEF Checks!Cardinality, Cardinality

\* The next check of a sweep leaves the queue, with a slot or without.
LEMMA AcquireKeeps ==
  ASSUME CheckInv, NEW w \in Actors, Checks!acquire(w)
  PROVE  CheckInv'
<1> DEFINE x == svcSweep[w]
           i == x.at
<1>0. x.pc = "queue" /\ x # Checks!Idle /\ UNCHANGED svcClaims
  BY DEF Checks!acquire, Checks!Idle
<1>1. /\ x \in Sweep /\ Sweeping(w, x, svcSlots) /\ Len(x.wanted) \in Nat /\ i \in 1 .. Len(x.wanted)
      /\ x.check \in [1 .. Len(x.wanted) -> Stage]
      /\ \A j \in Nat : <<w, j>> \in svcSlots => j \in 1 .. Len(x.wanted)
  BY <1>0, UnderWay
<1>2. \A j \in 1 .. Len(x.wanted) : j >= i => x.check[j] = "queued"
  BY <1>0, <1>1 DEF Sweeping
<1>3. x.check[i] = "queued" /\ <<w, i>> \notin svcSlots
  BY <1>1, <1>2 DEF Sweeping
<1>4. PICK v \in {"granted", "refused"} :
        /\ svcSweep' = [svcSweep EXCEPT ![w] = Checks!Queued([x EXCEPT !.check[i] = v])]
        /\ v = "granted" => Cardinality(svcSlots) < checkConcurrency /\ svcSlots' = svcSlots \cup {<<w, i>>}
        /\ v = "refused" => x.ctx[x.wanted[i]] = "done" /\ svcSlots' = svcSlots
  BY SlotCount DEF Checks!acquire, Checks!Service
<1> HIDE DEF i
<1> DEFINE y == [x EXCEPT !.check[i] = v]
           z == Checks!Queued(y)
<1>5. /\ y \in Sweep /\ y.pc = x.pc /\ y.wanted = x.wanted /\ y.at = x.at /\ y.ctx = x.ctx
      /\ y.check = [x.check EXCEPT ![i] = v] /\ y.check \in [1 .. Len(x.wanted) -> Stage]
  <2>1. v \in Stage
    BY DEF Stage
  <2> QED
    BY <1>1, <2>1, StageFields
<1>6. svcSweep' = [svcSweep EXCEPT ![w] = z]
  BY <1>4
<1> HIDE DEF y
<1>7. /\ z \in Sweep /\ z.wanted = x.wanted /\ z.ctx = x.ctx /\ z.check = y.check /\ z.at \in 1 .. Len(x.wanted)
      /\ z.pc = "wait" \/ (z.pc = "queue" /\ z.at = i + 1)
  <2>1. y.at \in 1 .. Len(y.wanted) /\ Len(y.wanted) \in Nat
    BY <1>1, <1>5 DEF i
  <2>2. /\ z \in Sweep /\ z.wanted = y.wanted /\ z.ctx = y.ctx /\ z.check = y.check
        /\ z.at \in 1 .. Len(y.wanted) /\ (z.pc = "wait" \/ (z.pc = y.pc /\ z.at = y.at + 1))
    BY <1>5, <2>1, TurnFields
  <2> QED
    BY <1>0, <1>5, <2>2 DEF i
<1> HIDE DEF z
<1>8. \A j \in 1 .. Len(x.wanted) : z.check[j] = IF j = i THEN v ELSE x.check[j]
  BY <1>1, <1>5, <1>7
<1>9. IsFiniteSet(svcSlots') /\ Cardinality(svcSlots') <= checkConcurrency
  <2>1. IsFiniteSet(svcSlots) /\ Cardinality(svcSlots) <= checkConcurrency /\ Cardinality(svcSlots) \in Nat
    BY FS_CardinalityType DEF CheckInv, SlotInv
  <2>2. CASE v = "refused"
    BY <1>4, <2>1, <2>2
  <2>3. CASE v = "granted"
    <3>1. IsFiniteSet(svcSlots') /\ Cardinality(svcSlots') = Cardinality(svcSlots) + 1
      BY <1>3, <1>4, <2>1, <2>3, FS_AddElement
    <3> QED
      BY <1>4, <2>1, <2>3, <3>1, CheckAssumption
  <2> QED
    BY <2>2, <2>3
<1>10. \A u \in Actors, j \in Nat : (u # w \/ j # i) => (<<u, j>> \in svcSlots' <=> <<u, j>> \in svcSlots)
  BY <1>4
<1>11. Sweeping(w, z, svcSlots')
  <2>1. \A j \in 1 .. Len(z.wanted) :
          /\ z.check[j] = "refused" => z.ctx[z.wanted[j]] = "done"
          /\ <<w, j>> \in svcSlots' => z.check[j] \in {"granted", "probing", "judged", "failed"}
          /\ z.check[j] \in {"granted", "probing", "judged"} => <<w, j>> \in svcSlots'
    <3> SUFFICES ASSUME NEW j \in 1 .. Len(x.wanted)
                 PROVE  /\ z.check[j] = "refused" => z.ctx[z.wanted[j]] = "done"
                        /\ <<w, j>> \in svcSlots' => z.check[j] \in {"granted", "probing", "judged", "failed"}
                        /\ z.check[j] \in {"granted", "probing", "judged"} => <<w, j>> \in svcSlots'
      BY <1>7
    <3>1. CASE j = i
      BY <1>3, <1>4, <1>7, <1>8, <3>1
    <3>2. CASE j # i
      BY <1>1, <1>7, <1>8, <1>10, <3>2 DEF Sweeping
    <3> QED
      BY <3>1, <3>2
  <2>2. z.pc = "queue" => \A j \in 1 .. Len(z.wanted) : j >= z.at => z.check[j] = "queued"
    BY <1>1, <1>2, <1>7, <1>8
  <2>3. z.pc # "claim" /\ z.check \in [1 .. Len(z.wanted) -> Stage]
    BY <1>5, <1>7
  <2> QED
    BY <1>7, <2>1, <2>2, <2>3 DEF Sweeping
<1>12. ContextsFit(w, z)
  BY <1>0, <1>7 DEF CheckInv, OwnerInv, ContextsFit
<1>13. SlotsFit(w, z)
  <2>1. \A j \in Nat : <<w, j>> \in svcSlots' => j \in 1 .. Len(z.wanted)
    BY <1>1, <1>7, <1>10
  <2> QED
    BY <1>9, <1>10, <2>1 DEF SlotsFit
<1>14. z \in Sweep
  BY <1>7
<1> QED
  BY <1>6, <1>11, <1>12, <1>13, <1>14, OneSweep

\* A sweep comes: nothing of an earlier one is left.
LEMMA SweepBegins ==
  ASSUME CheckInv, NEW w \in Actors, NEW wanted \in Wanted, Checks!handleServiceCheck(w, wanted)
  PROVE  CheckInv'
<1> DEFINE c == [s \in Services |-> "none"]
           k == [i \in 1 .. Len(wanted) |-> "queued"]
           x == [pc |-> "claim", wanted |-> wanted, at |-> 1, ctx |-> c, check |-> k]
<1>1. svcSweep[w] = Checks!Idle /\ svcSweep' = [svcSweep EXCEPT ![w] = x] /\ UNCHANGED <<svcClaims, svcSlots>>
  BY DEF Checks!handleServiceCheck
<1>2. wanted \in Seq(Services) /\ Len(wanted) \in Nat /\ Len(wanted) > 0
  BY CheckAssumption
<1>3. c \in [Services -> {"none", "live", "done"}] /\ \A s \in Services : c[s] = "none"
  OBVIOUS
<1>4. k \in [1 .. Len(wanted) -> Stage] /\ \A i \in 1 .. Len(wanted) : k[i] = "queued"
  BY DEF Stage
<1>5. k \in UNION {[1 .. n -> Stage] : n \in Nat}
  BY <1>2, <1>4
<1> HIDE DEF c, k
<1>6. x \in Sweep /\ x.pc = "claim" /\ x.wanted = wanted /\ x.at = 1 /\ x.ctx = c /\ x.check = k
  BY <1>3, <1>5 DEF Sweep
<1> HIDE DEF x
<1>7. \A i \in Nat : <<w, i>> \notin svcSlots
  BY <1>1 DEF CheckInv, SlotInv
<1>8. 1 \in 1 .. Len(wanted)
  BY <1>2
<1>9. Sweeping(w, x, svcSlots')
  <2>1. \A i \in 1 .. Len(wanted) : <<w, i>> \notin svcSlots'
    BY <1>1, <1>2, <1>7
  <2> QED
    BY <1>4, <1>6, <1>8, <2>1 DEF Sweeping
<1>10. ContextsFit(w, x)
  BY <1>1, <1>3, <1>6 DEF CheckInv, OwnerInv, ContextsFit
<1>11. SlotsFit(w, x)
  BY <1>1, <1>7 DEF CheckInv, SlotInv, SlotsFit
<1>12. x \in Sweep
  BY <1>6
<1> QED
  BY <1>1, <1>9, <1>10, <1>11, <1>12, OneSweep

\* The budget of a sweep is over.
LEMMA SweepExpires ==
  ASSUME CheckInv, NEW w \in Actors, Checks!Expires(w)
  PROVE  CheckInv'
<1> DEFINE x == svcSweep[w]
           c == [s \in Services |-> IF x.ctx[s] = "none" THEN "none" ELSE "done"]
           y == [x EXCEPT !.ctx = c]
<1>0. x.pc \in {"queue", "wait"} /\ x # Checks!Idle /\ UNCHANGED <<svcClaims, svcSlots>>
  BY DEF Checks!Expires, Checks!Idle
<1>1. svcSweep' = [svcSweep EXCEPT ![w] = y]
  BY DEF Checks!Expires, CheckInv, SweepInv
<1>2. /\ x \in Sweep /\ Sweeping(w, x, svcSlots) /\ Len(x.wanted) \in Nat
      /\ \A i \in 1 .. Len(x.wanted) : x.wanted[i] \in Services
      /\ \A j \in Nat : <<w, j>> \in svcSlots => j \in 1 .. Len(x.wanted)
  BY <1>0, UnderWay
<1>3. c \in [Services -> {"none", "live", "done"}] /\ \A s \in Services : c[s] = IF x.ctx[s] = "none" THEN "none" ELSE "done"
  OBVIOUS
<1> HIDE DEF c
<1>4. y \in Sweep /\ y.pc = x.pc /\ y.wanted = x.wanted /\ y.at = x.at /\ y.ctx = c /\ y.check = x.check
  BY <1>2, <1>3 DEF Sweep
<1> HIDE DEF y
<1>5. Sweeping(w, y, svcSlots')
  <2>1. \A i \in 1 .. Len(x.wanted) : x.check[i] = "refused" => c[x.wanted[i]] = "done"
    BY <1>2, <1>3 DEF Sweeping
  <2> QED
    BY <1>0, <1>2, <1>4, <2>1 DEF Sweeping
<1>6. ContextsFit(w, y)
  BY <1>0, <1>3, <1>4 DEF CheckInv, OwnerInv, ContextsFit
<1>7. SlotsFit(w, y)
  BY <1>0, <1>2, <1>4 DEF CheckInv, SlotInv, SlotsFit
<1>8. y \in Sweep
  BY <1>4
<1> QED
  BY <1>1, <1>5, <1>6, <1>7, <1>8, OneSweep


\* A sweep comes to its next service, for which it needs no claim or takes it.
LEMMA ClaimServiceKeeps ==
  ASSUME CheckInv, NEW w \in Actors, Checks!claimService(w)
  PROVE  CheckInv'
<1> DEFINE x == svcSweep[w]
           s == x.wanted[x.at]
<1>0. x.pc = "claim" /\ x # Checks!Idle /\ UNCHANGED svcSlots
  BY DEF Checks!claimService, Checks!Idle
<1>1. /\ x \in Sweep /\ Sweeping(w, x, svcSlots) /\ Len(x.wanted) \in Nat /\ x.at \in 1 .. Len(x.wanted)
      /\ x.check \in [1 .. Len(x.wanted) -> Stage] /\ s \in Services
      /\ x.ctx \in [Services -> {"none", "live", "done"}]
      /\ \A j \in Nat : <<w, j>> \in svcSlots => j \in 1 .. Len(x.wanted)
  BY <1>0, UnderWay
<1>2. \A i \in 1 .. Len(x.wanted) : x.check[i] = "queued" /\ <<w, i>> \notin svcSlots
  BY <1>0, <1>1 DEF Sweeping
<1>3. ASSUME NEW y \in Sweep, y.wanted = x.wanted, y.at = x.at, y.check = x.check, y.pc = x.pc
      PROVE  /\ Checks!Claimed(y) \in Sweep /\ Checks!Claimed(y).ctx = y.ctx
             /\ Checks!Claimed(y).wanted = x.wanted /\ Sweeping(w, Checks!Claimed(y), svcSlots)
  <2> DEFINE z == Checks!Claimed(y)
  <2>1. /\ z \in Sweep /\ z.wanted = y.wanted /\ z.ctx = y.ctx /\ z.check = y.check
        /\ z.at \in 1 .. Len(y.wanted)
    BY <1>1, <1>3, TurnFields
  <2> HIDE DEF z
  <2>2. Sweeping(w, z, svcSlots)
    <3>1. /\ z.wanted = x.wanted /\ z.check = x.check /\ z.check \in [1 .. Len(z.wanted) -> Stage]
          /\ z.at \in 1 .. Len(z.wanted)
      BY <1>1, <1>3, <2>1
    <3>2. \A i \in 1 .. Len(z.wanted) : z.check[i] = "queued" /\ <<w, i>> \notin svcSlots
      BY <1>2, <3>1
    <3> QED
      BY <3>1, <3>2 DEF Sweeping
  <2> QED
    BY <1>3, <2>1, <2>2 DEF z
<1>4. CASE x.ctx[s] # "none"
  <2> DEFINE z == Checks!Claimed(x)
  <2>1. svcSweep' = [svcSweep EXCEPT ![w] = z] /\ UNCHANGED svcClaims
    BY <1>4 DEF Checks!claimService, Checks!Service
  <2>2. z \in Sweep /\ z.ctx = x.ctx /\ z.wanted = x.wanted /\ Sweeping(w, z, svcSlots)
    BY <1>1, <1>3
  <2> HIDE DEF z
  <2>3. ContextsFit(w, z)
    BY <1>0, <2>1, <2>2 DEF CheckInv, OwnerInv, ContextsFit
  <2>4. SlotsFit(w, z)
    BY <1>0, <1>1, <2>2 DEF CheckInv, SlotInv, SlotsFit
  <2>5. Sweeping(w, z, svcSlots') /\ z \in Sweep
    BY <1>0, <2>2
  <2> QED
    BY <2>1, <2>3, <2>4, <2>5, OneSweep
<1>5. CASE x.ctx[s] = "none"
  <2> DEFINE c == [x.ctx EXCEPT ![s] = "live"]
             y == [x EXCEPT !.ctx = c]
             z == Checks!Claimed(y)
             done(v) == [svcSweep[v] EXCEPT !.ctx = [svcSweep[v].ctx EXCEPT ![s] = "done"]]
  <2>1. svcSweep' = [v \in Actors |-> IF v = w THEN z ELSE IF svcClaims[s] = v THEN done(v) ELSE svcSweep[v]]
    BY <1>5 DEF Checks!claimService, Checks!Service
  <2>2. svcClaims' = [svcClaims EXCEPT ![s] = w]
    BY <1>5 DEF Checks!claimService, Checks!Service
  <2>3. c \in [Services -> {"none", "live", "done"}] /\ \A t \in Services : c[t] = IF t = s THEN "live" ELSE x.ctx[t]
    BY <1>1
  <2> HIDE DEF c
  <2>4. y \in Sweep /\ y.wanted = x.wanted /\ y.at = x.at /\ y.check = x.check /\ y.pc = x.pc /\ y.ctx = c
    BY <1>1, <2>3 DEF Sweep
  <2> HIDE DEF y
  <2>5. z \in Sweep /\ z.ctx = c /\ z.wanted = x.wanted /\ Sweeping(w, z, svcSlots) /\ z # Checks!Idle
    BY <1>3, <2>4, SweepIsNotIdle
  <2> HIDE DEF z
  <2>6. ASSUME NEW v \in Actors, svcClaims[s] = v, v # w
        PROVE  /\ done(v) \in Sweep /\ Sweeping(v, done(v), svcSlots) /\ done(v).wanted = svcSweep[v].wanted
               /\ \A t \in Services : done(v).ctx[t] = IF t = s THEN "done" ELSE svcSweep[v].ctx[t]
    <3> DEFINE u == svcSweep[v]
               d == [u.ctx EXCEPT ![s] = "done"]
               r == [u EXCEPT !.ctx = d]
    <3>1. u # Checks!Idle
      BY <1>1, <2>6 DEF CheckInv, OwnerInv
    <3>2. /\ u \in Sweep /\ Sweeping(v, u, svcSlots) /\ u.ctx \in [Services -> {"none", "live", "done"}]
          /\ \A i \in 1 .. Len(u.wanted) : u.wanted[i] \in Services
      BY <3>1, UnderWay
    <3>3. d \in [Services -> {"none", "live", "done"}] /\ \A t \in Services : d[t] = IF t = s THEN "done" ELSE u.ctx[t]
      BY <1>1, <3>2
    <3> HIDE DEF d
    <3>4. r \in Sweep /\ r.wanted = u.wanted /\ r.at = u.at /\ r.check = u.check /\ r.pc = u.pc /\ r.ctx = d
      BY <3>2, <3>3 DEF Sweep
    <3>5. done(v) = r
      BY DEF d
    <3> HIDE DEF r
    <3>6. \A i \in 1 .. Len(u.wanted) : u.check[i] = "refused" => d[u.wanted[i]] = "done"
      BY <3>2, <3>3 DEF Sweeping
    <3>7. Sweeping(v, r, svcSlots)
      BY <3>2, <3>4, <3>6 DEF Sweeping
    <3> HIDE DEF done
    <3> QED
      BY <3>3, <3>4, <3>5, <3>7
  <2>7. \A v \in Actors : svcClaims[s] = v /\ v # w => done(v) # Checks!Idle
    BY <2>6, SweepIsNotIdle
  <2> HIDE DEF done
  <2>8. \A v \in Actors : svcSweep'[v] = IF v = w THEN z ELSE IF svcClaims[s] = v THEN done(v) ELSE svcSweep[v]
    BY <2>1
  <2>9. svcSweep' \in [Actors -> Sweep \cup {Checks!Idle}]
    BY <2>1, <2>5, <2>6 DEF CheckInv, SweepInv
  <2>10. /\ svcClaims' \in [Services -> Actors \cup {"none"}]
         /\ \A t \in Services : svcClaims'[t] = IF t = s THEN w ELSE svcClaims[t]
    BY <1>1, <2>2 DEF CheckInv, OwnerInv
  <2>11. ASSUME NEW v \in Actors, svcSweep'[v] # Checks!Idle PROVE Sweeping(v, svcSweep'[v], svcSlots')
    BY <1>0, <2>5, <2>6, <2>8, <2>11 DEF CheckInv, SweepInv
  <2>12. ASSUME NEW v \in Actors, NEW i \in Nat, <<v, i>> \in svcSlots
         PROVE  svcSweep'[v] # Checks!Idle /\ i \in 1 .. Len(svcSweep'[v].wanted)
    <3>1. svcSweep[v] # Checks!Idle /\ i \in 1 .. Len(svcSweep[v].wanted)
      BY <2>12 DEF CheckInv, SlotInv
    <3> QED
      BY <2>5, <2>6, <2>7, <2>8, <3>1
  <2>13. SlotInv'
    BY <1>0, <2>12 DEF CheckInv, SlotInv
  <2>14. ASSUME NEW v \in Actors, NEW t \in Services, svcSweep'[v] # Checks!Idle, svcSweep'[v].ctx[t] = "live"
         PROVE  svcClaims'[t] = v
    <3>1. CASE v = w
      <4>1. svcSweep'[v].ctx = c
        BY <2>5, <2>8, <3>1
      <4>2. CASE t = s
        BY <2>10, <3>1, <4>2
      <4>3. CASE t # s
        <5>1. x.ctx[t] = "live"
          BY <2>3, <2>14, <4>1, <4>3
        <5> QED
          BY <1>0, <2>10, <3>1, <4>3, <5>1 DEF CheckInv, OwnerInv
      <4> QED
        BY <4>2, <4>3
    <3>2. CASE v # w /\ svcClaims[s] = v
      <4>1. t # s /\ svcSweep[v].ctx[t] = "live"
        BY <2>6, <2>8, <2>14, <3>2
      <4>2. svcSweep[v] # Checks!Idle
        BY <1>1, <3>2 DEF CheckInv, OwnerInv
      <4> QED
        BY <2>10, <4>1, <4>2 DEF CheckInv, OwnerInv
    <3>3. CASE v # w /\ svcClaims[s] # v
      <4>1. svcSweep'[v] = svcSweep[v]
        BY <2>8, <3>3
      <4>2. svcClaims[t] = v
        BY <2>14, <4>1 DEF CheckInv, OwnerInv
      <4> QED
        BY <2>10, <3>3, <4>2
    <3> QED
      BY <3>1, <3>2, <3>3
  <2>15. ASSUME NEW v \in Actors, NEW t \in Services, svcClaims'[t] = v
         PROVE  svcSweep'[v] # Checks!Idle /\ svcSweep'[v].ctx[t] # "none"
    <3>1. CASE t = s
      <4>1. v = w /\ svcSweep'[v] = z /\ z.ctx[t] = "live"
        BY <1>1, <2>3, <2>5, <2>8, <2>10, <2>15, <3>1
      <4> QED
        BY <2>5, <4>1
    <3>2. CASE t # s
      <4>1. svcClaims[t] = v
        BY <2>10, <2>15, <3>2
      <4>2. svcSweep[v] # Checks!Idle /\ svcSweep[v].ctx[t] # "none"
        BY <4>1 DEF CheckInv, OwnerInv
      <4>3. CASE v = w
        BY <2>3, <2>5, <2>8, <3>2, <4>2, <4>3
      <4>4. CASE v # w
        BY <2>6, <2>7, <2>8, <3>2, <4>2, <4>4
      <4> QED
        BY <4>3, <4>4
    <3> QED
      BY <3>1, <3>2
  <2>16. OwnerInv'
    BY <2>10, <2>14, <2>15 DEF OwnerInv
  <2> QED
    BY <2>9, <2>11, <2>13, <2>16 DEF CheckInv, SweepInv
<1> QED
  BY <1>4, <1>5

\* A sweep whose checks are over holds no slot: it gives its claims back, those
\* that are still its own, and returns.
LEMMA SweepEnds ==
  ASSUME CheckInv, NEW w \in Actors, Checks!Return(w) \/ \E s \in Services : Checks!Unclaim(w, s)
  PROVE  CheckInv'
<1> DEFINE x == svcSweep[w]
<1>0. /\ x.pc = "wait" /\ x # Checks!Idle /\ UNCHANGED svcSlots
      /\ \A i \in DOMAIN x.check : x.check[i] = "over"
  BY DEF Checks!Return, Checks!Unclaim, Checks!Idle
<1>1. /\ x \in Sweep /\ Sweeping(w, x, svcSlots) /\ Len(x.wanted) \in Nat
      /\ x.check \in [1 .. Len(x.wanted) -> Stage] /\ x.ctx \in [Services -> {"none", "live", "done"}]
      /\ \A j \in Nat : <<w, j>> \in svcSlots => j \in 1 .. Len(x.wanted)
  BY <1>0, UnderWay
<1>2. \A i \in 1 .. Len(x.wanted) : x.check[i] = "over"
  BY <1>0, <1>1
<1>3. \A j \in Nat : <<w, j>> \notin svcSlots
  BY <1>1, <1>2 DEF Sweeping
<1>4. svcSweep \in [Actors -> Sweep \cup {Checks!Idle}]
  BY DEF CheckInv, SweepInv
<1>5. CASE Checks!Return(w)
  <2>1. /\ svcSweep' = [svcSweep EXCEPT ![w] = Checks!Idle] /\ UNCHANGED svcClaims
        /\ \A s \in Services : x.ctx[s] = "none"
    BY <1>5 DEF Checks!Return
  <2>2. /\ svcSweep' \in [Actors -> Sweep \cup {Checks!Idle}]
        /\ \A v \in Actors : svcSweep'[v] = IF v = w THEN Checks!Idle ELSE svcSweep[v]
    BY <1>4, <2>1
  <2>3. SlotInv'
    BY <1>0, <1>3, <2>2 DEF CheckInv, SlotInv
  <2>4. SweepInv'
    BY <1>0, <2>2 DEF CheckInv, SweepInv
  <2>5. OwnerInv'
    BY <2>1, <2>2 DEF CheckInv, OwnerInv
  <2> QED
    BY <2>3, <2>4, <2>5 DEF CheckInv
<1>6. ASSUME NEW s \in Services, Checks!Unclaim(w, s) PROVE CheckInv'
  <2> DEFINE c == [x.ctx EXCEPT ![s] = "none"]
             y == [x EXCEPT !.ctx = c]
  <2>1. svcSweep' = [svcSweep EXCEPT ![w] = y]
    BY <1>4, <1>6 DEF Checks!Unclaim
  <2>2. svcClaims' = IF svcClaims[s] = w THEN [svcClaims EXCEPT ![s] = "none"] ELSE svcClaims
    BY <1>6 DEF Checks!Unclaim
  <2>3. c \in [Services -> {"none", "live", "done"}] /\ \A t \in Services : c[t] = IF t = s THEN "none" ELSE x.ctx[t]
    BY <1>1
  <2> HIDE DEF c
  <2>4. /\ y \in Sweep /\ y.wanted = x.wanted /\ y.at = x.at /\ y.check = x.check /\ y.pc = x.pc /\ y.ctx = c
        /\ y # Checks!Idle
    BY <1>1, <2>3, SweepIsNotIdle DEF Sweep
  <2> HIDE DEF y
  <2>5. /\ svcSweep' \in [Actors -> Sweep \cup {Checks!Idle}]
        /\ \A v \in Actors : svcSweep'[v] = IF v = w THEN y ELSE svcSweep[v]
    BY <1>4, <2>1, <2>4
  <2>6. /\ svcClaims' \in [Services -> Actors \cup {"none"}]
        /\ svcClaims'[s] # w
        /\ \A t \in Services : svcClaims'[t] = svcClaims[t] \/ (t = s /\ svcClaims'[t] = "none" /\ svcClaims[t] = w)
    BY <2>2, CheckAssumption DEF CheckInv, OwnerInv
  <2>7. SlotInv'
    BY <1>0, <1>3, <2>5 DEF CheckInv, SlotInv
  <2>8. Sweeping(w, y, svcSlots)
    BY <1>0, <1>1, <1>2, <2>4 DEF Sweeping
  <2>9. SweepInv'
    BY <1>0, <2>5, <2>8 DEF CheckInv, SweepInv
  <2>10. \A v \in Actors, t \in Services : svcSweep'[v] # Checks!Idle /\ svcSweep'[v].ctx[t] = "live" => svcClaims'[t] = v
    <3> SUFFICES ASSUME NEW v \in Actors, NEW t \in Services, svcSweep'[v] # Checks!Idle, svcSweep'[v].ctx[t] = "live"
                 PROVE  svcClaims'[t] = v
      OBVIOUS
    <3>1. svcSweep[v] # Checks!Idle /\ svcSweep[v].ctx[t] = "live" /\ (v = w => t # s)
      BY <1>0, <2>3, <2>4, <2>5
    <3>2. svcClaims[t] = v
      BY <3>1 DEF CheckInv, OwnerInv
    <3> QED
      BY <2>6, <3>1, <3>2
  <2>11. \A v \in Actors, t \in Services : svcClaims'[t] = v => svcSweep'[v] # Checks!Idle /\ svcSweep'[v].ctx[t] # "none"
    <3> SUFFICES ASSUME NEW v \in Actors, NEW t \in Services, svcClaims'[t] = v
                 PROVE  svcSweep'[v] # Checks!Idle /\ svcSweep'[v].ctx[t] # "none"
      OBVIOUS
    <3>1. svcClaims[t] = v /\ (t = s => v # w)
      BY <2>6, CheckAssumption
    <3>2. svcSweep[v] # Checks!Idle /\ svcSweep[v].ctx[t] # "none"
      BY <3>1 DEF CheckInv, OwnerInv
    <3> QED
      BY <2>3, <2>4, <2>5, <3>1, <3>2
  <2> QED
    BY <2>6, <2>7, <2>9, <2>10, <2>11 DEF CheckInv, OwnerInv
<1> QED
  BY <1>5, <1>6

LEMMA CheckInit == Checks!Init => CheckInv
<1> SUFFICES ASSUME Checks!Init PROVE CheckInv
  OBVIOUS
<1>1. IsFiniteSet(svcSlots) /\ Cardinality(svcSlots) = 0 /\ svcSlots = {}
  BY FS_EmptySet DEF Checks!Init
<1>2. SlotInv
  BY <1>1, CheckAssumption DEF SlotInv
<1>3. SweepInv
  BY DEF Checks!Init, SweepInv
<1>4. OwnerInv
  BY CheckAssumption DEF Checks!Init, OwnerInv
<1> QED
  BY <1>2, <1>3, <1>4 DEF CheckInv

LEMMA CheckStep == CheckInv /\ [Checks!Next]_(Checks!vars) => CheckInv'
<1> SUFFICES ASSUME CheckInv, [Checks!Next]_(Checks!vars) PROVE CheckInv'
  OBVIOUS
<1>1. CASE UNCHANGED Checks!vars
  BY <1>1 DEF Checks!vars, CheckInv, SlotInv, SweepInv, OwnerInv
<1> QED
  BY <1>1, SweepBegins, ClaimServiceKeeps, AcquireKeeps, SweepEnds, SweepExpires, ChecksRun DEF Checks!Next

\* For any number of sweeps over any services, with any number of slots: only the
\* sweep that asked last still checks a service, and no check sends a request
\* without a slot (claimService, serviceCheckSlots).
THEOREM NewestChecksStand == Checks!Spec => []NewestCheckStands
<1>1. CheckInv => NewestCheckStands
  <2> SUFFICES ASSUME CheckInv PROVE NewestCheckStands
    OBVIOUS
  <2>1. \A s \in Services : Checks!Live(s) \subseteq {w \in Actors : svcClaims[s] = w}
    BY DEF CheckInv, OwnerInv, Checks!Live
  <2>2. \A s \in Services : svcClaims[s] # "none" =>
          svcSweep[svcClaims[s]] # Checks!Idle /\ svcSweep[svcClaims[s]].ctx[s] # "none"
    BY DEF CheckInv, OwnerInv
  <2>3. Checks!Cardinality(svcSlots) <= checkConcurrency
    BY SlotCount DEF CheckInv, SlotInv
  <2>4. ASSUME NEW w \in Actors, svcSweep[w] # Checks!Idle, NEW i \in DOMAIN svcSweep[w].check
        PROVE  /\ svcSweep[w].check[i] # "unpaid"
               /\ <<w, i>> \in svcSlots => svcSweep[w].check[i] \in {"granted", "probing", "judged", "failed"}
               /\ svcSweep[w].check[i] \in {"granted", "probing", "judged"} => <<w, i>> \in svcSlots
    <3>1. Sweeping(w, svcSweep[w], svcSlots) /\ svcSweep[w].check \in [1 .. Len(svcSweep[w].wanted) -> Stage]
      BY <2>4, UnderWay
    <3>2. i \in 1 .. Len(svcSweep[w].wanted) /\ svcSweep[w].check[i] \in Stage
      BY <3>1
    <3> QED
      BY <3>1, <3>2 DEF Sweeping, Stage
  <2> QED
    BY <2>1, <2>2, <2>3, <2>4 DEF NewestCheckStands, Checks!NewestCheckStands
<1> QED
  BY <1>1, CheckInit, CheckStep, PTL DEF Checks!Spec

-----------------------------------------------------------------------------
(* The limits of a provider.                                               *)

Connection == [pc : {"new", "stamped", "dialled", "registered", "open"}, gen : Nat, global : BOOLEAN,
               via : BOOLEAN, allowed : BOOLEAN, excluded : BOOLEAN]

\* In the mode that sends everything over one node, that node is allowed.
ByTheRules(x) ==
    x.gen # 0 /\ x.via => (polActive.what.restricted => x.allowed) /\ ~polActive.what.noGlobal

EpochInv ==
    /\ polEpoch \in Nat
    /\ polActive # Policy!None => polActive.epoch = polEpoch
    /\ polConn \in [Conns -> Connection]
    /\ \A c \in Conns : polConn[c].gen <= polEpoch

\* The hook is behind the mode for a moment only.
ModeInv == polHolder.pc # "hook" => (polMode = "global" => polGlobalMode)

\* Once the old connections are closed, those that are open are not refused.
OpenInv ==
    polHolder.pc # "close" /\ Policy!enforced(polActive) =>
        \A c \in Conns : polConn[c].pc = "open" => ~Policy!refuses(polConn[c])

\* A connection of this generation was dialled under this policy and, but for
\* the moment before the hook, in the mode the policy knew of.
DialInv ==
    polHolder.pc # "hook" /\ Policy!enforced(polActive) =>
        \A c \in Conns : polConn[c].pc \in {"dialled", "registered", "open"} /\ polConn[c].gen = polActive.epoch
            => ByTheRules(polConn[c])

Saving == polHolder.pc = "save" \/ (polHolder.pc = "close" /\ polHolder.then = "save")
FileInv ==
    /\ Saving => polActive.what = Policy!Blocked
    /\ ~Saving /\ polActive # Policy!None /\ ~polFailedSave => polFile = polActive.what

PolicyInv == EpochInv /\ ModeInv /\ OpenInv /\ DialInv /\ FileInv

LEMMA FreshType == Policy!Fresh \in Connection /\ Policy!Fresh.pc = "new" /\ Policy!Fresh.gen = 0
BY DEF Policy!Fresh, Connection

LEMMA PolicyInit == Policy!Init => PolicyInv
<1> SUFFICES ASSUME Policy!Init PROVE PolicyInv
  OBVIOUS
<1>1. polConn \in [Conns -> Connection] /\ \A c \in Conns : polConn[c].pc = "new" /\ polConn[c].gen = 0
  BY FreshType DEF Policy!Init
<1> QED
  BY <1>1 DEF Policy!Init, PolicyInv, EpochInv, ModeInv, OpenInv, DialInv, FileInv, Saving, Policy!Idle, Policy!enforced

\* What a connection may come to under the policy in force.
Lawful(x) ==
    /\ x \in Connection /\ x.gen <= polEpoch
    /\ x.pc = "open" /\ Policy!enforced(polActive) => ~Policy!refuses(x)
    /\ x.pc \in {"dialled", "registered", "open"} /\ x.gen = polActive.epoch /\ Policy!enforced(polActive)
         /\ polHolder.pc # "hook" => ByTheRules(x)
SamePolicy == UNCHANGED <<polActive, polEpoch, polFile, polFailedSave, polMode, polGlobalMode, polApplied, polHolder>>

LEMMA OneConnection ==
  ASSUME PolicyInv, NEW c \in Conns, NEW x, polConn' = [polConn EXCEPT ![c] = x], SamePolicy, Lawful(x)
  PROVE  PolicyInv'
<1> USE DEF Lawful, SamePolicy
<1>1. /\ polConn' \in [Conns -> Connection]
      /\ \A d \in Conns : polConn'[d] = IF d = c THEN x ELSE polConn[d]
  BY DEF PolicyInv, EpochInv
<1>2. EpochInv'
  BY <1>1 DEF PolicyInv, EpochInv
<1>3. ModeInv' /\ FileInv'
  BY DEF PolicyInv, ModeInv, FileInv, Saving
<1>4. OpenInv'
  BY <1>1 DEF PolicyInv, OpenInv, Policy!enforced, Policy!refuses
<1>5. DialInv'
  BY <1>1 DEF PolicyInv, DialInv, Policy!enforced, ByTheRules
<1> QED
  BY <1>2, <1>3, <1>4, <1>5 DEF PolicyInv

\* The hooks of a connection.
LEMMA HooksKeep ==
  ASSUME PolicyInv, NEW c \in Conns,
         \/ \E b \in BOOLEAN : Policy!providerPolicyMetadata(c, b) \/ Policy!providerPolicyDial(c, b)
         \/ Policy!Join(c) \/ Policy!providerPolicyAdmit(c)
  PROVE  PolicyInv'
<1>0. /\ polEpoch \in Nat /\ polConn \in [Conns -> Connection] /\ polConn[c] \in Connection
      /\ polConn[c].gen \in Nat /\ polConn[c].gen <= polEpoch
  BY DEF PolicyInv, EpochInv, Connection
<1>1. SamePolicy
  <2>1. CASE \E b \in BOOLEAN : Policy!providerPolicyMetadata(c, b)
    BY <2>1 DEF Policy!providerPolicyMetadata, SamePolicy
  <2>2. CASE \E b \in BOOLEAN : Policy!providerPolicyDial(c, b)
    BY <2>2 DEF Policy!providerPolicyDial, SamePolicy
  <2>3. CASE Policy!Join(c) \/ Policy!providerPolicyAdmit(c)
    BY <2>3 DEF Policy!Join, Policy!providerPolicyAdmit, SamePolicy
  <2> QED
    BY <2>1, <2>2, <2>3
<1>2. ASSUME polConn' = [polConn EXCEPT ![c] = Policy!Fresh] PROVE PolicyInv'
  <2>1. Lawful(Policy!Fresh)
    BY <1>0, FreshType DEF Lawful
  <2> QED
    BY <1>1, <1>2, <2>1, OneConnection
<1>3. ASSUME NEW b \in BOOLEAN, Policy!providerPolicyMetadata(c, b) PROVE PolicyInv'
  <2> DEFINE e == Policy!enforced(polActive)
             g == IF e THEN polActive.epoch ELSE 0
             m == e /\ polGlobalMode
             x == [pc |-> "stamped", gen |-> g, global |-> m, via |-> FALSE, allowed |-> FALSE, excluded |-> b]
  <2>1. polConn' = [polConn EXCEPT ![c] = IF e /\ Policy!refuses(x) THEN Policy!Fresh ELSE x]
    BY <1>3 DEF Policy!providerPolicyMetadata
  <2>2. g \in Nat /\ g <= polEpoch
    BY <1>0 DEF PolicyInv, EpochInv, Policy!enforced
  <2>3. m \in BOOLEAN
    OBVIOUS
  <2> HIDE DEF g, m
  <2>4. x \in Connection /\ x.pc = "stamped" /\ x.gen = g
    BY <2>2, <2>3 DEF Connection
  <2> HIDE DEF x
  <2>5. Lawful(x)
    BY <2>2, <2>4 DEF Lawful
  <2>6. CASE polConn' = [polConn EXCEPT ![c] = x]
    BY <1>1, <2>5, <2>6, OneConnection
  <2> QED
    BY <1>2, <2>1, <2>6
<1>4. ASSUME NEW b \in BOOLEAN, Policy!providerPolicyDial(c, b) PROVE PolicyInv'
  <2> DEFINE e == Policy!enforced(polActive)
             y == polConn[c]
             no == Policy!refusesDial(y, b)
             x == Policy!Dialled(y, b)
             limited == polActive.what.restricted \/ polActive.what.noGlobal
  <2>1. polConn' = [polConn EXCEPT ![c] = IF e /\ no THEN Policy!Fresh ELSE x]
    BY <1>4 DEF Policy!providerPolicyDial
  <2>2. x \in Connection /\ x.pc = "dialled" /\ x.gen = y.gen /\ (x.via <=> polMode = "global") /\ x.allowed = b
    <3> DEFINE x1 == [y EXCEPT !.pc = "dialled"]
               g == (polMode = "global")
               x2 == [x1 EXCEPT !.via = g]
               x3 == [x2 EXCEPT !.allowed = b]
    <3>1. x = x3
      BY DEF Policy!Dialled
    <3>2. x1 \in Connection /\ x1.pc = "dialled" /\ x1.gen = y.gen
      BY <1>0 DEF Connection
    <3> HIDE DEF x1
    <3>3. g \in BOOLEAN
      OBVIOUS
    <3> HIDE DEF g
    <3>4. x2 \in Connection /\ x2.pc = x1.pc /\ x2.gen = x1.gen /\ x2.via = g
      BY <3>2, <3>3 DEF Connection
    <3> HIDE DEF x2
    <3>5. x3 \in Connection /\ x3.pc = x2.pc /\ x3.gen = x2.gen /\ x3.via = x2.via /\ x3.allowed = b
      BY <3>4 DEF Connection
    <3> HIDE DEF x3
    <3> QED
      BY <3>1, <3>2, <3>4, <3>5 DEF g
  <2> HIDE DEF x
  <2>5. CASE ~(e /\ no)
    <3>1. polConn' = [polConn EXCEPT ![c] = x]
      BY <2>1, <2>5
    <3>2. ASSUME e, polHolder.pc # "hook" PROVE ByTheRules(x)
      <4> SUFFICES ASSUME x.gen # 0, x.via PROVE (polActive.what.restricted => x.allowed) /\ ~polActive.what.noGlobal
        BY DEF ByTheRules
      <4>1. polGlobalMode
        BY <2>2, <3>2 DEF PolicyInv, ModeInv
      <4>2. limited => Policy!providerPolicyCandidate(b)
        BY <2>5, <3>2, <4>1 DEF Policy!refusesDial
      <4>3. limited => ~polActive.what.noGlobal /\ b
        BY <3>2, <4>2 DEF Policy!providerPolicyCandidate, Policy!allowsGlobal, Policy!enforced
      <4> QED
        BY <2>2, <4>3
    <3>3. Lawful(x)
      BY <1>0, <2>2, <3>2 DEF Lawful
    <3> QED
      BY <1>1, <3>1, <3>3, OneConnection
  <2> QED
    BY <1>2, <2>1, <2>5
<1>5. ASSUME Policy!Join(c) \/ Policy!providerPolicyAdmit(c), NEW pc \in {"registered", "open"},
             polConn' = [polConn EXCEPT ![c] = [polConn[c] EXCEPT !.pc = pc]],
             polConn[c].pc \in {"dialled", "registered"},
             pc = "open" /\ Policy!enforced(polActive) => ~Policy!refuses(polConn[c])
      PROVE  PolicyInv'
  <2> DEFINE y == polConn[c]
             x == [y EXCEPT !.pc = pc]
  <2>1. x \in Connection /\ x.pc = pc /\ x.gen = y.gen /\ x.via = y.via /\ x.allowed = y.allowed
        /\ x.excluded = y.excluded
    BY <1>0, <1>5 DEF Connection
  <2>2. polConn' = [polConn EXCEPT ![c] = x]
    BY <1>5
  <2> HIDE DEF x
  <2>3. Policy!refuses(x) <=> Policy!refuses(y)
    BY <2>1 DEF Policy!refuses
  <2>4. ByTheRules(x) <=> ByTheRules(y)
    BY <2>1 DEF ByTheRules
  <2>5. y.gen = polActive.epoch /\ Policy!enforced(polActive) /\ polHolder.pc # "hook" => ByTheRules(y)
    BY <1>5 DEF PolicyInv, DialInv
  <2>6. Lawful(x)
    BY <1>0, <1>5, <2>1, <2>3, <2>4, <2>5 DEF Lawful
  <2> QED
    BY <1>1, <2>2, <2>6, OneConnection
<1>6. CASE Policy!Join(c)
  BY <1>0, <1>5, <1>6 DEF Policy!Join
<1>7. CASE Policy!providerPolicyAdmit(c)
  BY <1>0, <1>2, <1>5, <1>7 DEF Policy!providerPolicyAdmit
<1> QED
  BY <1>3, <1>4, <1>6, <1>7


\* The policy is replaced, and the connections of the old one are to be closed.
LEMMA PolicyReplaced ==
  ASSUME PolicyInv, NEW what, polEpoch' = polEpoch + 1, polActive' = Policy!At(what, polEpoch + 1),
         UNCHANGED polConn, polHolder'.pc # "hook",
         Policy!enforced(polActive') => polHolder'.pc = "close"
  PROVE  EpochInv' /\ OpenInv' /\ DialInv'
<1>0. polEpoch \in Nat /\ polConn \in [Conns -> Connection] /\ \A c \in Conns : polConn[c].gen <= polEpoch
  BY DEF PolicyInv, EpochInv
<1>1. polActive'.epoch = polEpoch + 1
  BY DEF Policy!At
<1>2. EpochInv'
  BY <1>0, <1>1 DEF EpochInv, Connection
<1>3. \A c \in Conns : polConn[c].gen # polEpoch + 1
  BY <1>0 DEF Connection
<1>4. DialInv'
  BY <1>1, <1>3 DEF DialInv
<1>5. OpenInv'
  BY DEF OpenInv
<1> QED
  BY <1>2, <1>4, <1>5

\* An installation: the new policy is saved, then in force.
LEMMA InstallKeeps ==
  ASSUME PolicyInv, NEW saves \in BOOLEAN, Policy!installProviderPolicy(saves)
  PROVE  PolicyInv'
<1>0. polHolder.pc = "install" /\ UNCHANGED <<polMode, polApplied, polConn>>
  BY DEF Policy!installProviderPolicy
<1>1. CASE ~saves
  <2>1. polHolder'.pc = "block" /\ UNCHANGED <<polFile, polFailedSave, polEpoch, polGlobalMode, polActive>>
    BY <1>1 DEF Policy!installProviderPolicy
  <2>2. EpochInv' /\ ModeInv' /\ OpenInv' /\ DialInv'
    BY <1>0, <2>1 DEF PolicyInv, EpochInv, ModeInv, OpenInv, DialInv, ByTheRules, Policy!enforced, Policy!refuses
  <2>3. FileInv'
    BY <1>0, <2>1 DEF PolicyInv, FileInv, Saving
  <2> QED
    BY <2>2, <2>3 DEF PolicyInv
<1>2. CASE saves
  <2>1. /\ polFile' = polHolder.what /\ polEpoch' = polEpoch + 1 /\ polGlobalMode' = (polMode = "global")
        /\ polActive' = Policy!At(polHolder.what, polEpoch + 1)
    BY <1>2 DEF Policy!installProviderPolicy
  <2>2. /\ polHolder'.pc \in {"close", "mode"} /\ polHolder'.then = "mode"
        /\ Policy!enforced(polActive') => polHolder'.pc = "close"
    <3> DEFINE pc == IF Policy!enforced(polActive') \/ Policy!enforced(polActive) THEN "close" ELSE "mode"
    <3>1. polHolder' = [pc |-> pc, then |-> "mode", mode |-> polHolder.mode]
      BY <1>2 DEF Policy!installProviderPolicy
    <3>2. polHolder'.pc = pc /\ polHolder'.then = "mode"
      BY <3>1
    <3> HIDE <3>1
    <3> QED
      BY <3>2
  <2>3. EpochInv' /\ OpenInv' /\ DialInv'
    BY <1>0, <2>1, <2>2, PolicyReplaced
  <2>4. ModeInv'
    BY <1>0, <2>1 DEF ModeInv
  <2>5. polActive'.what = polFile'
    BY <2>1 DEF Policy!At
  <2>6. FileInv'
    BY <2>2, <2>5 DEF FileInv, Saving
  <2> QED
    BY <2>3, <2>4, <2>6 DEF PolicyInv
<1> QED
  BY <1>1, <1>2

\* Everything is blocked, then closed, then saved.
LEMMA BlockKeeps ==
  ASSUME PolicyInv, Policy!blockProviderPolicy \/ \E saves \in BOOLEAN : Policy!saveProviderPolicy(saves)
  PROVE  PolicyInv'
<1>1. CASE Policy!blockProviderPolicy
  <2>1. /\ polHolder.pc = "block" /\ polEpoch' = polEpoch + 1 /\ polActive' = Policy!At(Policy!Blocked, polEpoch + 1)
        /\ polHolder'.pc = "close" /\ polHolder'.then = "save"
        /\ UNCHANGED <<polFile, polFailedSave, polMode, polGlobalMode, polApplied, polConn>>
    BY <1>1 DEF Policy!blockProviderPolicy
  <2>2. EpochInv' /\ OpenInv' /\ DialInv'
    BY <2>1, PolicyReplaced
  <2>3. ModeInv'
    BY <2>1 DEF PolicyInv, ModeInv
  <2>4. FileInv'
    BY <2>1 DEF FileInv, Saving, Policy!At
  <2> QED
    BY <2>2, <2>3, <2>4 DEF PolicyInv
<1>2. ASSUME NEW saves \in BOOLEAN, Policy!saveProviderPolicy(saves) PROVE PolicyInv'
  <2>1. /\ polHolder.pc = "save" /\ polHolder'.pc = "idle"
        /\ polFile' = (IF saves THEN Policy!Blocked ELSE polFile) /\ polFailedSave' = ~saves
        /\ UNCHANGED <<polActive, polEpoch, polMode, polGlobalMode, polApplied, polConn>>
    BY <1>2 DEF Policy!saveProviderPolicy, Policy!Idle
  <2>2. EpochInv' /\ ModeInv' /\ OpenInv' /\ DialInv'
    BY <2>1 DEF PolicyInv, EpochInv, ModeInv, OpenInv, DialInv, ByTheRules, Policy!enforced, Policy!refuses
  <2>3. polActive.what = Policy!Blocked
    BY <2>1 DEF PolicyInv, FileInv, Saving
  <2>4. FileInv'
    BY <2>1, <2>3 DEF FileInv, Saving
  <2> QED
    BY <2>2, <2>4 DEF PolicyInv
<1> QED
  BY <1>1, <1>2

\* Whatever is registered is closed: nothing of the old policy is open.
LEMMA CloseKeeps ==
  ASSUME PolicyInv, Policy!closeProviderPolicyConnections
  PROVE  PolicyInv'
<1>1. /\ polHolder.pc = "close"
      /\ polConn' = [c \in Conns |-> IF polConn[c].pc \in {"registered", "open"} THEN Policy!Fresh ELSE polConn[c]]
      /\ UNCHANGED <<polActive, polEpoch, polFile, polFailedSave, polMode, polGlobalMode, polApplied>>
  BY DEF Policy!closeProviderPolicyConnections
<1>2. /\ polHolder'.pc \in {"idle", "save", "mode"}
      /\ polHolder'.pc = "save" <=> polHolder.then = "save"
  BY DEF Policy!closeProviderPolicyConnections, Policy!Idle
<1>3. /\ polConn' \in [Conns -> Connection]
      /\ \A c \in Conns : polConn'[c] = IF polConn[c].pc \in {"registered", "open"} THEN Policy!Fresh ELSE polConn[c]
  BY <1>1, FreshType DEF PolicyInv, EpochInv
<1>4. EpochInv'
  BY <1>1, <1>3, FreshType DEF PolicyInv, EpochInv
<1>5. ModeInv' /\ FileInv'
  BY <1>1, <1>2 DEF PolicyInv, ModeInv, FileInv, Saving
<1>6. \A c \in Conns : polConn'[c].pc # "open"
  BY <1>3, FreshType
<1>7. OpenInv'
  BY <1>6 DEF OpenInv
<1>8. \A c \in Conns : polConn'[c].pc \in {"dialled", "registered", "open"} => polConn'[c] = polConn[c]
  BY <1>3, FreshType
<1>9. DialInv'
  BY <1>1, <1>8 DEF PolicyInv, DialInv, ByTheRules, Policy!enforced
<1> QED
  BY <1>4, <1>5, <1>7, <1>9 DEF PolicyInv

\* The mode is set, then the policy hears of it.
LEMMA ModeKeeps ==
  ASSUME PolicyInv, Policy!SetMode \/ Policy!providerPolicyModeChanged
  PROVE  PolicyInv'
<1>1. CASE Policy!SetMode
  <2>1. /\ polHolder.pc = "mode" /\ polHolder'.pc = "hook"
        /\ UNCHANGED <<polActive, polEpoch, polFile, polFailedSave, polConn>>
    BY <1>1 DEF Policy!SetMode
  <2> QED
    BY <2>1 DEF PolicyInv, EpochInv, ModeInv, OpenInv, DialInv, FileInv, Saving, Policy!enforced, Policy!refuses
<1>2. CASE Policy!providerPolicyModeChanged
  <2>0. /\ polHolder.pc = "hook" /\ polGlobalMode' = (polMode = "global")
        /\ UNCHANGED <<polFile, polFailedSave, polMode, polApplied, polConn>>
    BY <1>2 DEF Policy!providerPolicyModeChanged
  <2>1. ModeInv'
    BY <2>0 DEF ModeInv
  <2>2. CASE Policy!enforced(polActive)
    <3>1. /\ polEpoch' = polEpoch + 1 /\ polActive' = Policy!At(polActive.what, polEpoch + 1)
          /\ polHolder'.pc = "close" /\ polHolder'.then = "idle"
      BY <1>2, <2>2 DEF Policy!providerPolicyModeChanged
    <3>2. EpochInv' /\ OpenInv' /\ DialInv'
      BY <2>0, <3>1, PolicyReplaced
    <3>3. polActive'.what = polActive.what /\ polActive # Policy!None
      BY <2>2, <3>1 DEF Policy!At, Policy!enforced
    <3>4. FileInv'
      BY <2>0, <3>1, <3>3 DEF PolicyInv, FileInv, Saving
    <3> QED
      BY <2>1, <3>2, <3>4 DEF PolicyInv
  <2>3. CASE ~Policy!enforced(polActive)
    <3>1. UNCHANGED <<polEpoch, polActive>> /\ polHolder'.pc = "idle"
      BY <1>2, <2>3 DEF Policy!providerPolicyModeChanged, Policy!Idle
    <3> QED
      BY <2>0, <2>1, <2>3, <3>1 DEF PolicyInv, EpochInv, OpenInv, DialInv, FileInv, Saving, Policy!enforced
  <2> QED
    BY <2>2, <2>3
<1> QED
  BY <1>1, <1>2

\* A configuration is to be applied: nothing is done yet.
LEMMA BeginKeeps ==
  ASSUME PolicyInv, polHolder.pc = "idle", polHolder'.pc \in {"block", "install", "mode"},
         UNCHANGED <<polActive, polEpoch, polFile, polFailedSave, polMode, polGlobalMode, polApplied, polConn>>
  PROVE  PolicyInv'
<1>1. EpochInv' /\ ModeInv' /\ OpenInv' /\ DialInv'
  BY DEF PolicyInv, EpochInv, ModeInv, OpenInv, DialInv, ByTheRules, Policy!enforced, Policy!refuses
<1>2. FileInv'
  BY DEF PolicyInv, FileInv, Saving
<1> QED
  BY <1>1, <1>2 DEF PolicyInv

LEMMA PolicyStep == PolicyInv /\ [Policy!Next]_(Policy!vars) => PolicyInv'
<1> SUFFICES ASSUME PolicyInv, [Policy!Next]_(Policy!vars) PROVE PolicyInv'
  OBVIOUS
<1>1. ASSUME NEW named, NEW profile, NEW n, NEW vpn, NEW loads, NEW m,
             Policy!applyConfig(named, profile, n, vpn, loads, m)
      PROVE  PolicyInv'
  <2>1. polHolder.pc = "idle" /\ polHolder'.pc \in {"block", "install", "mode"}
    BY <1>1 DEF Policy!applyConfig, Policy!Idle
  <2>2. UNCHANGED <<polActive, polEpoch, polFile, polFailedSave, polMode, polGlobalMode, polApplied, polConn>>
    BY <1>1 DEF Policy!applyConfig
  <2> QED
    BY <2>1, <2>2, BeginKeeps
<1>2. ASSUME NEW m, Policy!updateConfig(m) PROVE PolicyInv'
  <2>1. polHolder.pc = "idle" /\ polHolder'.pc \in {"block", "install", "mode"}
    BY <1>2 DEF Policy!updateConfig, Policy!Idle
  <2>2. UNCHANGED <<polActive, polEpoch, polFile, polFailedSave, polMode, polGlobalMode, polApplied, polConn>>
    BY <1>2 DEF Policy!updateConfig
  <2> QED
    BY <2>1, <2>2, BeginKeeps
<1>3. CASE Policy!Crash
  <2>1. polConn' \in [Conns -> Connection] /\ \A c \in Conns : polConn'[c].pc = "new" /\ polConn'[c].gen = 0
    BY <1>3, FreshType DEF Policy!Crash
  <2>2. /\ polActive' = Policy!None /\ polEpoch' = 0 /\ polMode' = "rule" /\ polHolder'.pc = "idle"
    BY <1>3 DEF Policy!Crash, Policy!Idle
  <2>3. EpochInv' /\ ModeInv' /\ OpenInv' /\ DialInv'
    BY <2>1, <2>2 DEF EpochInv, ModeInv, OpenInv, DialInv, Policy!enforced
  <2>4. FileInv'
    BY <2>2 DEF FileInv, Saving
  <2> QED
    BY <2>3, <2>4 DEF PolicyInv
<1>4. CASE UNCHANGED Policy!vars
  <2>1. UNCHANGED <<polActive, polEpoch, polFile, polFailedSave, polMode, polGlobalMode, polApplied, polHolder, polConn>>
    BY <1>4 DEF Policy!vars
  <2>2. EpochInv' /\ ModeInv' /\ OpenInv' /\ DialInv'
    BY <2>1 DEF PolicyInv, EpochInv, ModeInv, OpenInv, DialInv, ByTheRules, Policy!enforced, Policy!refuses
  <2>3. FileInv'
    BY <2>1 DEF PolicyInv, FileInv, Saving
  <2> QED
    BY <2>2, <2>3 DEF PolicyInv
<1> QED
  BY <1>1, <1>2, <1>3, <1>4, InstallKeeps, BlockKeeps, CloseKeeps, ModeKeeps, HooksKeep DEF Policy!Next

\* For any connections and any policies: wherever a connection is between the
\* hooks when the policy or the mode changes, it is not open against the policy
\* in force, and a core that dies finds that policy again
\* (installProviderPolicy, providerPolicyModeChanged, providerPolicyAdmit).
THEOREM PolicyStands == Policy!Spec => []PolicyHolds
<1>1. PolicyInv => PolicyHolds
  <2> SUFFICES ASSUME PolicyInv PROVE PolicyHolds
    OBVIOUS
  <2>1. ASSUME polHolder = Policy!Idle, Policy!enforced(polActive), NEW c \in Conns, polConn[c].pc = "open"
        PROVE  /\ ~Policy!refuses(polConn[c])
               /\ polConn[c].gen # 0 /\ polConn[c].via /\ polActive.what.restricted => polConn[c].allowed
               /\ polConn[c].gen # 0 /\ polConn[c].via => ~polActive.what.noGlobal
    <3>0. polHolder.pc = "idle"
      BY <2>1 DEF Policy!Idle
    <3>1. ~Policy!refuses(polConn[c])
      BY <2>1, <3>0 DEF PolicyInv, OpenInv
    <3>2. polConn[c].gen # 0 => polConn[c].gen = polActive.epoch
      BY <3>1 DEF Policy!refuses
    <3>3. polConn[c].gen # 0 => ByTheRules(polConn[c])
      BY <2>1, <3>0, <3>2 DEF PolicyInv, DialInv
    <3> QED
      BY <3>1, <3>3 DEF ByTheRules
  <2>2. polHolder.pc \in {"idle", "mode", "hook"} /\ polActive # Policy!None /\ ~polFailedSave => polFile = polActive.what
    BY DEF PolicyInv, FileInv, Saving
  <2> QED
    BY <2>1, <2>2 DEF PolicyHolds, Policy!PolicyHolds
<1> QED
  BY <1>1, PolicyInit, PolicyStep, PTL DEF Policy!Spec

-----------------------------------------------------------------------------
(* Probes and the reach test.                                              *)

Asked == [pc : {"wait", "dial", "sent", "release", "reach", "reached", "done"}, stamp : Nat, dials : Nat,
          pinned : BOOLEAN, over : Nat, ctx : {"live", "cancelled"}, answer : {"none", "nil", "ok", "failed"}]

\* The configuration is applied before the epoch moves.
EpochsInv ==
    /\ probeEpoch \in Nat /\ probeConfig \in Nat
    /\ probeApply \in {"idle", "suspended", "bump"}
    /\ probeConfig = IF probeApply = "idle" THEN probeEpoch ELSE probeEpoch + 1

\* A request was made over routes no older than its stamp.
Honest(x, c) == x \in Asked /\ x.stamp <= x.over /\ x.over <= c

\* The locals x of a request become y.
Moved(x, y, c, place) == Honest(y, c) /\ y.pc = place /\ y.dials = x.dials

HonestInv ==
    /\ DOMAIN probeReq = Actors
    /\ \A r \in Actors : probeReq[r] = Probe!Free \/ Honest(probeReq[r], probeConfig)

\* Who holds a slot of the pool.
PoolInv ==
    /\ probeSlots = {r \in Actors : probeReq[r].pc \in {"dial", "sent", "release", "reach", "reached"}}
    /\ IsFiniteSet(probeSlots) /\ Cardinality(probeSlots) <= probeConcurrency

\* For which connections a route is awaited.
AwaitedInv ==
    /\ probeConn \in [Probe!Dials -> {"none", "piped", "refused", "tracked", "closed"}]
    /\ probePending = {d \in Probe!Dials : probeConn[d] \in {"piped", "refused"}}

\* A dial that was not made has no connection.
UndialledInv ==
    \A r \in Actors, n \in 1 .. MaxDials :
        probeReq[r] = Probe!Free \/ n > probeReq[r].dials => probeConn[<<r, n>>] = "none"

ProbeInv == EpochsInv /\ HonestInv /\ PoolInv /\ AwaitedInv /\ UndialledInv

LEMMA PoolCount == Probe!Cardinality(probeSlots) = Cardinality(probeSlots)
BY DEF Probe!Cardinality, Cardinality

LEMMA PoolCountAfter == Probe!Cardinality(probeSlots') = Cardinality(probeSlots')
BY DEF Probe!Cardinality, Cardinality

\* What the updates of a request leave as it is.
LEMMA AnsweredFits ==
  ASSUME NEW x, NEW c \in Nat, Honest(x, c),
         NEW place \in {"dial", "done", "release"}, NEW says \in {"nil", "ok", "failed"}
  PROVE  Moved(x, Probe!Answered(x, place, says), c, place)
<1> DEFINE y == [x EXCEPT !.pc = place]
           z == [y EXCEPT !.answer = says]
<1>1. y \in Asked /\ y.pc = place /\ y.stamp = x.stamp /\ y.over = x.over /\ y.dials = x.dials
  BY DEF Asked, Honest
<1>2. Probe!Answered(x, place, says) = z
  BY DEF Probe!Answered
<1> HIDE DEF y
<1>3. z \in Asked /\ z.pc = place /\ z.stamp = x.stamp /\ z.over = x.over /\ z.dials = x.dials
  BY <1>1 DEF Asked
<1> QED
  BY <1>2, <1>3 DEF Honest, Moved

LEMMA SentFits ==
  ASSUME NEW x, NEW c \in Nat, Honest(x, c)
  PROVE  Honest(Probe!Sent(x), c) /\ Probe!Sent(x).pc = "sent" /\ Probe!Sent(x).dials = x.dials + 1
<1> DEFINE y == [x EXCEPT !.pc = "sent"]
           z == [y EXCEPT !.dials = x.dials + 1]
<1>1. y \in Asked /\ y.pc = "sent" /\ y.stamp = x.stamp /\ y.over = x.over /\ x.dials + 1 \in Nat
  BY DEF Asked, Honest
<1>2. Probe!Sent(x) = z
  BY DEF Probe!Sent
<1> HIDE DEF y
<1>3. z \in Asked /\ z.pc = "sent" /\ z.stamp = x.stamp /\ z.over = x.over /\ z.dials = x.dials + 1
  BY <1>1 DEF Asked
<1> QED
  BY <1>2, <1>3 DEF Honest

LEMMA PlaceFits ==
  ASSUME NEW x, NEW c \in Nat, Honest(x, c), NEW place \in {"dial", "done"}
  PROVE  Moved(x, [x EXCEPT !.pc = place], c, place)
BY DEF Asked, Honest, Moved

LEMMA CancelledFits ==
  ASSUME NEW x, NEW c \in Nat, Honest(x, c)
  PROVE  Moved(x, [x EXCEPT !.ctx = "cancelled"], c, x.pc)
BY DEF Asked, Honest, Moved

LEMMA OverFits ==
  ASSUME NEW x, NEW c \in Nat, Honest(x, c)
  PROVE  Moved(x, [x EXCEPT !.over = c], c, x.pc)
BY DEF Asked, Honest, Moved

LEMMA ReachedFits ==
  ASSUME NEW x, Honest(x, probeConfig), probeConfig \in Nat
  PROVE  Moved(x, Probe!Reached(x), probeConfig, "reached")
<1> DEFINE c == probeConfig
           y == [x EXCEPT !.pc = "reached"]
           z == [y EXCEPT !.over = c]
<1>1. y \in Asked /\ y.pc = "reached" /\ y.stamp = x.stamp /\ y.over = x.over /\ y.dials = x.dials
  BY DEF Asked, Honest
<1>2. Probe!Reached(x) = z
  BY DEF Probe!Reached
<1> HIDE DEF y
<1>3. z \in Asked /\ z.pc = "reached" /\ z.stamp = x.stamp /\ z.over = c /\ z.dials = x.dials
  BY <1>1 DEF Asked
<1>4. x.stamp <= c
  BY DEF Honest, Asked
<1> QED
  BY <1>2, <1>3, <1>4 DEF Honest, Moved

AtWork == {"dial", "sent", "release", "reach", "reached"}

\* How the pool goes with a request whose new locals are y.
PoolFits(r, y) ==
    \/ (y.pc \in AtWork <=> probeReq[r].pc \in AtWork) /\ probeSlots' = probeSlots
    \/ y.pc \notin AtWork /\ probeSlots' = probeSlots \ {r}
    \/ y.pc \in AtWork /\ Cardinality(probeSlots) < probeConcurrency /\ probeSlots' = probeSlots \cup {r}

\* One request moves on, the others and the configuration stay.
LEMMA RequestMoves ==
  ASSUME ProbeInv, NEW r \in Actors, NEW y, probeReq' = [probeReq EXCEPT ![r] = y],
         y = Probe!Free \/ Honest(y, probeConfig), PoolFits(r, y),
         UNCHANGED <<probeEpoch, probeConfig, probeApply>>, AwaitedInv', UndialledInv'
  PROVE  ProbeInv'
<1>1. /\ DOMAIN probeReq' = Actors /\ probeReq'[r] = y
      /\ \A q \in Actors : q # r => probeReq'[q] = probeReq[q]
  BY DEF ProbeInv, HonestInv
<1>2. EpochsInv'
  BY DEF ProbeInv, EpochsInv
<1>3. HonestInv'
  BY <1>1 DEF ProbeInv, HonestInv
<1>4. probeSlots' = {q \in Actors : probeReq'[q].pc \in AtWork}
  <2>1. probeSlots = {q \in Actors : probeReq[q].pc \in AtWork}
    BY DEF ProbeInv, PoolInv, AtWork
  <2>2. CASE (y.pc \in AtWork <=> probeReq[r].pc \in AtWork) /\ probeSlots' = probeSlots
    BY <2>1, <2>2, <1>1
  <2>3. CASE y.pc \notin AtWork /\ probeSlots' = probeSlots \ {r}
    BY <2>1, <2>3, <1>1
  <2>4. CASE y.pc \in AtWork /\ probeSlots' = probeSlots \cup {r}
    BY <2>1, <2>4, <1>1
  <2> QED
    BY <2>2, <2>3, <2>4 DEF PoolFits
<1>5. IsFiniteSet(probeSlots) /\ Cardinality(probeSlots) \in Nat /\ Cardinality(probeSlots) <= probeConcurrency
  BY FS_CardinalityType DEF ProbeInv, PoolInv
<1>6. IsFiniteSet(probeSlots') /\ Cardinality(probeSlots') <= probeConcurrency
  <2>1. CASE probeSlots' = probeSlots
    BY <2>1, <1>5
  <2>2. CASE probeSlots' = probeSlots \ {r}
    <3>1. IsFiniteSet(probeSlots \ {r}) /\ Cardinality(probeSlots \ {r}) <= Cardinality(probeSlots)
      BY <1>5, FS_Subset
    <3>2. Cardinality(probeSlots \ {r}) \in Nat
      BY <3>1, FS_CardinalityType
    <3> QED
      BY <2>2, <3>1, <3>2, <1>5, ProbeAssumption
  <2>3. CASE Cardinality(probeSlots) < probeConcurrency /\ probeSlots' = probeSlots \cup {r}
    <3>1. /\ IsFiniteSet(probeSlots \cup {r})
          /\ Cardinality(probeSlots \cup {r}) = IF r \in probeSlots THEN Cardinality(probeSlots)
                                                                  ELSE Cardinality(probeSlots) + 1
      BY <1>5, FS_AddElement
    <3> QED
      BY <2>3, <3>1, <1>5, ProbeAssumption
  <2> QED
    BY <2>1, <2>2, <2>3 DEF PoolFits
<1>7. PoolInv'
  BY <1>4, <1>6 DEF PoolInv, AtWork
<1> QED
  BY <1>2, <1>3, <1>7 DEF ProbeInv

\* A request that has begun.
LEMMA Begun ==
  ASSUME ProbeInv, NEW r \in Actors, probeReq[r].pc # "free"
  PROVE  Honest(probeReq[r], probeConfig) /\ probeConfig \in Nat
BY DEF ProbeInv, EpochsInv, HonestInv, Probe!Free

\* One request moves on without a dial, and the connections stay.
LEMMA RequestWaits ==
  ASSUME ProbeInv, NEW r \in Actors, NEW y, probeReq' = [probeReq EXCEPT ![r] = y],
         Honest(y, probeConfig), probeReq[r] = Probe!Free \/ y.dials = probeReq[r].dials, PoolFits(r, y),
         UNCHANGED <<probeEpoch, probeConfig, probeApply, probeConn, probePending>>
  PROVE  ProbeInv'
<1>1. AwaitedInv'
  BY DEF ProbeInv, AwaitedInv
<1>2. /\ probeReq'[r] = y
      /\ \A q \in Actors : q # r => probeReq'[q] = probeReq[q]
  BY DEF ProbeInv, HonestInv
<1>3. y # Probe!Free
  BY DEF Honest, Asked, Probe!Free
<1>4. UndialledInv'
  <2> SUFFICES ASSUME NEW q \in Actors, NEW n \in 1 .. MaxDials,
                      probeReq'[q] = Probe!Free \/ n > probeReq'[q].dials
               PROVE  probeConn[<<q, n>>] = "none"
    BY DEF UndialledInv
  <2>1. probeReq[q] = Probe!Free \/ n > probeReq[q].dials
    BY <1>2, <1>3
  <2> QED
    BY <2>1 DEF ProbeInv, UndialledInv
<1> QED
  BY <1>1, <1>4, RequestMoves

LEMMA RunProbeKeeps ==
  ASSUME ProbeInv, NEW r \in Actors, NEW pinned \in BOOLEAN, NEW there \in BOOLEAN,
         Probe!runProbe(r, pinned, there)
  PROVE  ProbeInv'
<1> DEFINE place == IF pinned /\ ~there THEN "done" ELSE "wait"
           says == IF pinned /\ ~there THEN "failed" ELSE "none"
           y == [pc |-> place, stamp |-> probeEpoch, dials |-> 0, pinned |-> pinned,
                 over |-> probeConfig, ctx |-> "live", answer |-> says]
<1>1. /\ probeReq[r] = Probe!Free /\ probeReq' = [probeReq EXCEPT ![r] = y]
      /\ UNCHANGED <<probeEpoch, probeConfig, probeApply, probeSlots, probeConn, probePending>>
  BY DEF Probe!runProbe
<1>2. place \in {"wait", "done"} /\ says \in {"none", "failed"}
  OBVIOUS
<1> HIDE DEF place, says
<1>3. y \in Asked /\ y.stamp = probeEpoch /\ y.over = probeConfig /\ y.pc = place
  BY <1>2 DEF Asked, ProbeInv, EpochsInv
<1>4. probeEpoch <= probeConfig
  BY DEF ProbeInv, EpochsInv
<1>5. Honest(y, probeConfig)
  BY <1>3, <1>4 DEF Honest, ProbeInv, EpochsInv
<1>6. PoolFits(r, y)
  BY <1>1, <1>2, <1>3 DEF PoolFits, AtWork, Probe!Free
<1> HIDE DEF y
<1> QED
  BY <1>1, <1>5, <1>6, RequestWaits DEF Moved

LEMMA HandleReachKeeps ==
  ASSUME ProbeInv, NEW r \in Actors, Probe!handleReach(r)
  PROVE  ProbeInv'
<1> DEFINE y == [pc |-> "reach", stamp |-> probeEpoch, dials |-> 0, pinned |-> FALSE,
                 over |-> probeConfig, ctx |-> "live", answer |-> "none"]
<1>1. /\ probeReq[r] = Probe!Free /\ probeReq' = [probeReq EXCEPT ![r] = y]
      /\ Cardinality(probeSlots) < probeConcurrency /\ probeSlots' = probeSlots \cup {r}
      /\ UNCHANGED <<probeEpoch, probeConfig, probeApply, probeConn, probePending>>
  BY PoolCount DEF Probe!handleReach
<1>2. y \in Asked /\ y.stamp = probeEpoch /\ y.over = probeConfig /\ y.pc = "reach"
  BY DEF Asked, ProbeInv, EpochsInv
<1>3. probeEpoch <= probeConfig
  BY DEF ProbeInv, EpochsInv
<1>4. Honest(y, probeConfig)
  BY <1>2, <1>3 DEF Honest, ProbeInv, EpochsInv
<1>5. PoolFits(r, y)
  BY <1>1, <1>2 DEF PoolFits, AtWork, Moved
<1> HIDE DEF y
<1> QED
  BY <1>1, <1>4, <1>5, RequestWaits DEF Moved

LEMMA PickNodeKeeps ==
  ASSUME ProbeInv, NEW r \in Actors, Probe!pickNode(r)
  PROVE  ProbeInv'
<1> DEFINE y == Probe!Reached(probeReq[r])
<1>1. /\ probeReq[r].pc = "reach" /\ probeReq' = [probeReq EXCEPT ![r] = y]
      /\ UNCHANGED <<probeEpoch, probeConfig, probeApply, probeSlots, probeConn, probePending>>
  BY DEF Probe!pickNode
<1>b. Honest(probeReq[r], probeConfig) /\ probeConfig \in Nat
  BY <1>1, Begun
<1>2. Moved(probeReq[r], y, probeConfig, "reached")
  BY <1>b, ReachedFits
<1>3. PoolFits(r, y)
  BY <1>1, <1>2 DEF PoolFits, AtWork, Moved
<1> HIDE DEF y
<1> QED
  BY <1>1, <1>2, <1>3, RequestWaits DEF Moved

LEMMA ReachStepsKeeps ==
  ASSUME ProbeInv, NEW r \in Actors,
         NEW stage \in {"dns", "route", "resolve", "tcp", "handshake", "done"}, Probe!reachSteps(r, stage)
  PROVE  ProbeInv'
<1> DEFINE says == IF stage = "done" THEN "ok" ELSE "failed"
           y == Probe!Answered(probeReq[r], "done", says)
<1>1. /\ probeReq[r].pc \in {"reach", "reached"} /\ probeReq' = [probeReq EXCEPT ![r] = y]
      /\ probeSlots' = probeSlots \ {r}
      /\ UNCHANGED <<probeEpoch, probeConfig, probeApply, probeConn, probePending>>
  BY DEF Probe!reachSteps
<1>2. says \in {"ok", "failed"}
  OBVIOUS
<1> HIDE DEF says
<1>b. Honest(probeReq[r], probeConfig) /\ probeConfig \in Nat
  BY <1>1, Begun
<1>3. Moved(probeReq[r], y, probeConfig, "done")
  BY <1>1, <1>2, <1>b, AnsweredFits
<1>4. PoolFits(r, y)
  BY <1>1, <1>3 DEF PoolFits, AtWork, Moved
<1> HIDE DEF y
<1> QED
  BY <1>1, <1>3, <1>4, RequestWaits DEF Moved

LEMMA AcquireWithinKeeps ==
  ASSUME ProbeInv, NEW r \in Actors, Probe!acquireWithin(r)
  PROVE  ProbeInv'
<1>1. /\ probeReq[r].pc = "wait"
      /\ UNCHANGED <<probeEpoch, probeConfig, probeApply, probeConn, probePending>>
  BY DEF Probe!acquireWithin
<1>2. CASE /\ Cardinality(probeSlots) < probeConcurrency /\ probeSlots' = probeSlots \cup {r}
           /\ probeReq' = [probeReq EXCEPT ![r] = [probeReq[r] EXCEPT !.pc = "dial"]]
  <2> DEFINE y == [probeReq[r] EXCEPT !.pc = "dial"]
  <2>b. Honest(probeReq[r], probeConfig) /\ probeConfig \in Nat
    BY <1>1, Begun
  <2>1. Moved(probeReq[r], y, probeConfig, "dial")
    BY <1>1, <2>b, PlaceFits
  <2>2. PoolFits(r, y)
    BY <1>2, <2>1 DEF PoolFits, AtWork, Moved
  <2> HIDE DEF y
  <2>3. probeReq' = [probeReq EXCEPT ![r] = y]
    BY <1>2 DEF y
  <2> QED
    BY <1>1, <2>1, <2>2, <2>3, RequestWaits DEF Moved
<1>3. CASE /\ probeReq' = [probeReq EXCEPT ![r] = Probe!Answered(probeReq[r], "done", "nil")]
           /\ UNCHANGED probeSlots
  <2> DEFINE y == Probe!Answered(probeReq[r], "done", "nil")
  <2>b. Honest(probeReq[r], probeConfig) /\ probeConfig \in Nat
    BY <1>1, Begun
  <2>1. Moved(probeReq[r], y, probeConfig, "done")
    BY <1>1, <2>b, AnsweredFits
  <2>2. PoolFits(r, y)
    BY <1>1, <1>3, <2>1 DEF PoolFits, AtWork, Moved
  <2> HIDE DEF y
  <2>3. probeReq' = [probeReq EXCEPT ![r] = y]
    BY <1>3 DEF y
  <2> QED
    BY <1>1, <2>1, <2>2, <2>3, RequestWaits DEF Moved
<1> QED
  BY <1>2, <1>3, PoolCount DEF Probe!acquireWithin

LEMMA DialSentKeeps ==
  ASSUME ProbeInv, NEW r \in Actors, Probe!dial(r)
  PROVE  ProbeInv'
<1> DEFINE y == Probe!Sent(probeReq[r])
           n == probeReq[r].dials + 1
           d == <<r, n>>
<1>1. /\ probeReq[r].pc = "dial" /\ probeReq[r].dials < MaxDials
      /\ probeReq' = [probeReq EXCEPT ![r] = y]
      /\ UNCHANGED <<probeEpoch, probeConfig, probeApply, probeSlots>>
  BY DEF Probe!dial
<1>2. \/ probeConn' = [probeConn EXCEPT ![d] = "piped"] /\ probePending' = probePending \cup {d}
      \/ probeConn' = [probeConn EXCEPT ![d] = "tracked"] /\ probePending' = probePending
  BY DEF Probe!dial
<1>b. Honest(probeReq[r], probeConfig) /\ probeConfig \in Nat
  BY <1>1, Begun
<1>s. Honest(y, probeConfig) /\ y.pc = "sent" /\ y.dials = n
  BY <1>b, SentFits
<1>3. Honest(y, probeConfig) /\ y.pc = "sent" /\ y.dials = n /\ y # Probe!Free
  BY <1>s DEF Probe!Free
<1>4. PoolFits(r, y)
  BY <1>1, <1>3 DEF PoolFits, AtWork
<1>5. probeReq[r].dials \in Nat
  BY <1>b DEF Honest, Asked
<1>6. n \in 1 .. MaxDials /\ n > probeReq[r].dials /\ n \in Nat
  BY <1>1, <1>5, ProbeAssumption
<1> HIDE DEF y, n
<1>7. d \in Probe!Dials
  BY <1>6 DEF Probe!Dials
<1>8. probeConn[d] = "none"
  BY <1>6 DEF ProbeInv, UndialledInv
<1>9. AwaitedInv'
  <2>1. CASE probeConn' = [probeConn EXCEPT ![d] = "piped"] /\ probePending' = probePending \cup {d}
    BY <2>1, <1>7 DEF ProbeInv, AwaitedInv
  <2>2. CASE probeConn' = [probeConn EXCEPT ![d] = "tracked"] /\ probePending' = probePending
    BY <2>2, <1>7, <1>8 DEF ProbeInv, AwaitedInv
  <2> QED
    BY <2>1, <2>2, <1>2
<1>10. UndialledInv'
  <2> SUFFICES ASSUME NEW q \in Actors, NEW m \in 1 .. MaxDials,
                      probeReq'[q] = Probe!Free \/ m > probeReq'[q].dials
               PROVE  probeConn'[<<q, m>>] = "none"
    BY DEF UndialledInv
  <2>1. <<q, m>> \in Probe!Dials
    BY DEF Probe!Dials
  <2>2. CASE q = r
    <3>1. probeReq'[q] = y
      BY <1>1, <2>2 DEF ProbeInv, HonestInv
    <3>2. m > n
      BY <3>1, <1>3
    <3>3. <<q, m>> # d /\ m > probeReq[r].dials
      BY <2>2, <3>2, <1>5, <1>6
    <3>4. probeConn[<<q, m>>] = "none"
      BY <3>3, <2>2 DEF ProbeInv, UndialledInv
    <3> QED
      BY <3>3, <3>4, <2>1, <1>2 DEF ProbeInv, AwaitedInv
  <2>3. CASE q # r
    <3>1. probeReq'[q] = probeReq[q] /\ <<q, m>> # d
      BY <1>1, <2>3 DEF ProbeInv, HonestInv
    <3>2. probeConn[<<q, m>>] = "none"
      BY <3>1 DEF ProbeInv, UndialledInv
    <3> QED
      BY <3>1, <3>2, <2>1, <1>2 DEF ProbeInv, AwaitedInv
  <2> QED
    BY <2>2, <2>3
<1> QED
  BY <1>1, <1>3, <1>4, <1>9, <1>10, RequestMoves

\* A dial that was made may change its connection.
LEMMA DialsStay ==
  ASSUME ProbeInv, NEW d \in Probe!Dials, NEW v, probeConn' = [probeConn EXCEPT ![d] = v],
         probeReq[d[1]] # Probe!Free, ~(d[2] > probeReq[d[1]].dials),
         \A q \in Actors : probeReq'[q] = Probe!Free \/ probeReq'[q].dials = probeReq[q].dials,
         \A q \in Actors : probeReq'[q] = Probe!Free => probeReq[q] = Probe!Free
  PROVE  UndialledInv'
<1> SUFFICES ASSUME NEW q \in Actors, NEW n \in 1 .. MaxDials,
                    probeReq'[q] = Probe!Free \/ n > probeReq'[q].dials
             PROVE  probeConn'[<<q, n>>] = "none"
  BY DEF UndialledInv
<1>1. <<q, n>> \in Probe!Dials /\ <<q, n>>[1] = q /\ <<q, n>>[2] = n
  BY DEF Probe!Dials
<1>2. probeReq[q] = Probe!Free \/ n > probeReq[q].dials
  OBVIOUS
<1>3. probeConn[<<q, n>>] = "none"
  BY <1>2 DEF ProbeInv, UndialledInv
<1>4. <<q, n>> # d
  BY <1>1, <1>2
<1> QED
  BY <1>1, <1>3, <1>4 DEF ProbeInv, AwaitedInv

LEMMA NotifyProbeRouteKeeps ==
  ASSUME ProbeInv, NEW d \in Probe!Dials, Probe!notifyProbeRoute(d)
  PROVE  ProbeInv'
<1>1. probeConn[d] = "piped" /\ UNCHANGED <<probeEpoch, probeConfig, probeApply, probeSlots>>
  BY DEF Probe!notifyProbeRoute
<1>2. d[1] \in Actors /\ d[2] \in 1 .. MaxDials /\ d = <<d[1], d[2]>>
  BY DEF Probe!Dials
<1> DEFINE r == d[1]
           x == probeReq[r]
<1>3. x # Probe!Free /\ ~(d[2] > x.dials)
  BY <1>1, <1>2 DEF ProbeInv, UndialledInv
<1>4. Honest(x, probeConfig) /\ probeConfig \in Nat
  BY <1>2, <1>3 DEF ProbeInv, HonestInv, EpochsInv
<1>5. CASE probeApply = "suspended"
  <2>1. probeConn' = [probeConn EXCEPT ![d] = "refused"] /\ UNCHANGED <<probePending, probeReq>>
    BY <1>5 DEF Probe!notifyProbeRoute
  <2>2. EpochsInv' /\ HonestInv' /\ PoolInv'
    BY <2>1, <1>1 DEF ProbeInv, EpochsInv, HonestInv, PoolInv
  <2>3. AwaitedInv'
    BY <2>1, <1>1 DEF ProbeInv, AwaitedInv
  <2>4. UndialledInv'
    BY <2>1, <1>2, <1>3, DialsStay
  <2> QED
    BY <2>2, <2>3, <2>4 DEF ProbeInv
<1>6. CASE probeApply # "suspended"
  <2> DEFINE y == Probe!RoutedOver(x, d[2])
  <2>1. /\ probeConn' = [probeConn EXCEPT ![d] = "tracked"] /\ probePending' = probePending \ {d}
        /\ probeReq' = [probeReq EXCEPT ![r] = y]
    BY <1>6 DEF Probe!notifyProbeRoute
  <2>2. Moved(x, y, probeConfig, x.pc)
    <3>1. CASE y = x
      BY <3>1, <1>4 DEF Moved
    <3>2. CASE y = [x EXCEPT !.over = probeConfig]
      BY <3>2, <1>4, OverFits
    <3> QED
      BY <3>1, <3>2 DEF Probe!RoutedOver
  <2>3. y # Probe!Free
    BY <2>2 DEF Moved, Honest, Asked, Probe!Free
  <2>4. PoolFits(r, y)
    BY <1>1, <2>2 DEF PoolFits, Moved
  <2> HIDE DEF y
  <2>5. AwaitedInv'
    BY <2>1, <1>1 DEF ProbeInv, AwaitedInv
  <2>6. /\ probeReq'[r] = y
        /\ \A q \in Actors : q # r => probeReq'[q] = probeReq[q]
    BY <2>1, <1>2 DEF ProbeInv, HonestInv
  <2>7. \A q \in Actors : probeReq'[q] = Probe!Free \/ probeReq'[q].dials = probeReq[q].dials
    BY <2>2, <2>6 DEF Moved
  <2>8. \A q \in Actors : probeReq'[q] = Probe!Free => probeReq[q] = Probe!Free
    BY <2>3, <2>6
  <2>9. UndialledInv'
    BY <2>1, <2>7, <2>8, <1>2, <1>3, DialsStay
  <2> HIDE DEF r, x
  <2>10. r \in Actors /\ Honest(y, probeConfig)
    BY <1>2, <2>2 DEF r, Moved
  <2> QED
    BY <1>1, <2>1, <2>4, <2>5, <2>9, <2>10, RequestMoves
<1> QED
  BY <1>5, <1>6

LEMMA CloseDialKeeps ==
  ASSUME ProbeInv, NEW d \in Probe!Dials, Probe!Close(d)
  PROVE  ProbeInv'
<1>1. /\ probeConn[d] \in {"piped", "refused", "tracked"}
      /\ probeConn' = [probeConn EXCEPT ![d] = "closed"]
      /\ probePending' = probePending \ {d}
      /\ UNCHANGED <<probeEpoch, probeConfig, probeApply, probeSlots, probeReq>>
  BY DEF Probe!Close
<1>2. d[1] \in Actors /\ d[2] \in 1 .. MaxDials /\ d = <<d[1], d[2]>>
  BY DEF Probe!Dials
<1>3. probeReq[d[1]] # Probe!Free /\ ~(d[2] > probeReq[d[1]].dials)
  BY <1>1, <1>2 DEF ProbeInv, UndialledInv
<1>4. EpochsInv' /\ HonestInv' /\ PoolInv'
  BY <1>1 DEF ProbeInv, EpochsInv, HonestInv, PoolInv
<1>5. AwaitedInv'
  BY <1>1 DEF ProbeInv, AwaitedInv
<1>6. UndialledInv'
  BY <1>1, <1>2, <1>3, DialsStay
<1> QED
  BY <1>4, <1>5, <1>6 DEF ProbeInv

LEMMA ResponseKeeps ==
  ASSUME ProbeInv, NEW r \in Actors, NEW final \in BOOLEAN, Probe!Response(r, final)
  PROVE  ProbeInv'
<1>1. /\ probeReq[r].pc = "sent"
      /\ UNCHANGED <<probeEpoch, probeConfig, probeApply, probeSlots, probeConn, probePending>>
  BY DEF Probe!Response
<1>b. Honest(probeReq[r], probeConfig) /\ probeConfig \in Nat
  BY <1>1, Begun
<1>2. CASE final
  <2> DEFINE y == Probe!Answered(probeReq[r], "release", "ok")
  <2>1. probeReq' = [probeReq EXCEPT ![r] = y]
    BY <1>2 DEF Probe!Response
  <2>2. Moved(probeReq[r], y, probeConfig, "release")
    BY <1>b, AnsweredFits
  <2>3. PoolFits(r, y)
    BY <1>1, <2>2 DEF PoolFits, AtWork, Moved
  <2> HIDE DEF y
  <2> QED
    BY <1>1, <2>1, <2>2, <2>3, RequestWaits DEF Moved
<1>3. CASE ~final
  <2> DEFINE y == [probeReq[r] EXCEPT !.pc = "dial"]
  <2>1. probeReq' = [probeReq EXCEPT ![r] = y]
    BY <1>3 DEF Probe!Response
  <2>2. Moved(probeReq[r], y, probeConfig, "dial")
    BY <1>b, PlaceFits
  <2>3. PoolFits(r, y)
    BY <1>1, <2>2 DEF PoolFits, AtWork, Moved
  <2> HIDE DEF y
  <2> QED
    BY <1>1, <2>1, <2>2, <2>3, RequestWaits DEF Moved
<1> QED
  BY <1>2, <1>3

LEMMA FailsKeeps ==
  ASSUME ProbeInv, NEW r \in Actors, Probe!Fails(r)
  PROVE  ProbeInv'
<1> DEFINE y == Probe!Answered(probeReq[r], "release", "failed")
<1>1. /\ probeReq[r].pc \in {"dial", "sent"} /\ probeReq' = [probeReq EXCEPT ![r] = y]
      /\ UNCHANGED <<probeEpoch, probeConfig, probeApply, probeSlots, probeConn, probePending>>
  BY DEF Probe!Fails
<1>b. Honest(probeReq[r], probeConfig) /\ probeConfig \in Nat
  BY <1>1, Begun
<1>2. Moved(probeReq[r], y, probeConfig, "release")
  BY <1>b, AnsweredFits
<1>3. PoolFits(r, y)
  BY <1>1, <1>2 DEF PoolFits, AtWork, Moved
<1> HIDE DEF y
<1> QED
  BY <1>1, <1>2, <1>3, RequestWaits DEF Moved

LEMMA ReleaseProbeKeeps ==
  ASSUME ProbeInv, NEW r \in Actors, Probe!release(r)
  PROVE  ProbeInv'
<1> DEFINE y == [probeReq[r] EXCEPT !.pc = "done"]
<1>1. /\ probeReq[r].pc = "release" /\ probeReq' = [probeReq EXCEPT ![r] = y]
      /\ probeSlots' = probeSlots \ {r}
      /\ UNCHANGED <<probeEpoch, probeConfig, probeApply, probeConn, probePending>>
  BY DEF Probe!release
<1>b. Honest(probeReq[r], probeConfig) /\ probeConfig \in Nat
  BY <1>1, Begun
<1>2. Moved(probeReq[r], y, probeConfig, "done")
  BY <1>b, PlaceFits
<1>3. PoolFits(r, y)
  BY <1>1, <1>2 DEF PoolFits, AtWork, Moved
<1> HIDE DEF y
<1> QED
  BY <1>1, <1>2, <1>3, RequestWaits DEF Moved

LEMMA CancelParentKeeps ==
  ASSUME ProbeInv, NEW r \in Actors, Probe!CancelParent(r)
  PROVE  ProbeInv'
<1> DEFINE y == [probeReq[r] EXCEPT !.ctx = "cancelled"]
<1>1. /\ probeReq[r].pc \in {"wait", "dial", "sent"} /\ probeReq' = [probeReq EXCEPT ![r] = y]
      /\ UNCHANGED <<probeEpoch, probeConfig, probeApply, probeSlots, probeConn, probePending>>
  BY DEF Probe!CancelParent
<1>b. Honest(probeReq[r], probeConfig) /\ probeConfig \in Nat
  BY <1>1, Begun
<1>2. Moved(probeReq[r], y, probeConfig, probeReq[r].pc)
  BY <1>b, CancelledFits
<1>3. PoolFits(r, y)
  BY <1>1, <1>2 DEF PoolFits, AtWork, Moved
<1> HIDE DEF y
<1> QED
  BY <1>1, <1>2, <1>3, RequestWaits DEF Moved

LEMMA ReturnKeeps ==
  ASSUME ProbeInv, NEW r \in Actors, Probe!Return(r)
  PROVE  ProbeInv'
<1>1. /\ probeReq[r].pc = "done" /\ \A d \in Probe!Dials : d[1] = r => probeConn[d] \in {"none", "closed"}
      /\ probeReq' = [probeReq EXCEPT ![r] = Probe!Free]
      /\ probeConn' = [d \in Probe!Dials |-> IF d[1] = r THEN "none" ELSE probeConn[d]]
      /\ UNCHANGED <<probeEpoch, probeConfig, probeApply, probeSlots, probePending>>
  BY DEF Probe!Return
<1>2. PoolFits(r, Probe!Free)
  BY <1>1 DEF PoolFits, AtWork, Probe!Free
<1>3. AwaitedInv'
  <2>1. \A d \in Probe!Dials : probeConn'[d] = IF d[1] = r THEN "none" ELSE probeConn[d]
    BY <1>1
  <2>2. probeConn' \in [Probe!Dials -> {"none", "piped", "refused", "tracked", "closed"}]
    BY <1>1 DEF ProbeInv, AwaitedInv
  <2>3. \A d \in Probe!Dials : probeConn'[d] \in {"piped", "refused"} <=> probeConn[d] \in {"piped", "refused"}
    BY <2>1, <1>1
  <2> QED
    BY <2>2, <2>3, <1>1 DEF ProbeInv, AwaitedInv
<1>4. UndialledInv'
  <2> SUFFICES ASSUME NEW q \in Actors, NEW n \in 1 .. MaxDials,
                      probeReq'[q] = Probe!Free \/ n > probeReq'[q].dials
               PROVE  probeConn'[<<q, n>>] = "none"
    BY DEF UndialledInv
  <2>1. <<q, n>> \in Probe!Dials /\ <<q, n>>[1] = q
    BY DEF Probe!Dials
  <2>2. CASE q = r
    BY <2>1, <2>2, <1>1
  <2>3. CASE q # r
    <3>1. probeReq'[q] = probeReq[q]
      BY <2>3, <1>1 DEF ProbeInv, HonestInv
    <3>2. probeConn[<<q, n>>] = "none"
      BY <3>1 DEF ProbeInv, UndialledInv
    <3> QED
      BY <3>2, <2>1, <2>3, <1>1
  <2> QED
    BY <2>2, <2>3
<1> QED
  BY <1>1, <1>2, <1>3, <1>4, RequestMoves

\* The configuration only moves on, so what was honest stays so.
LEMMA ApplyKeeps ==
  ASSUME ProbeInv, Probe!Suspend \/ Probe!Resume \/ Probe!bumpRouteEpoch
  PROVE  ProbeInv'
<1>1. UNCHANGED <<probeSlots, probeReq, probeConn, probePending>>
  BY DEF Probe!Suspend, Probe!Resume, Probe!bumpRouteEpoch
<1>2. EpochsInv' /\ probeConfig \in Nat /\ probeConfig' \in Nat /\ probeConfig <= probeConfig'
  <2>1. CASE Probe!Suspend
    BY <2>1 DEF Probe!Suspend, ProbeInv, EpochsInv
  <2>2. CASE Probe!Resume
    BY <2>2 DEF Probe!Resume, ProbeInv, EpochsInv
  <2>3. CASE Probe!bumpRouteEpoch
    BY <2>3 DEF Probe!bumpRouteEpoch, ProbeInv, EpochsInv
  <2> QED
    BY <2>1, <2>2, <2>3
<1>3. \A x : Honest(x, probeConfig) => Honest(x, probeConfig')
  BY <1>2 DEF Honest, Asked
<1>4. HonestInv'
  BY <1>1, <1>3 DEF ProbeInv, HonestInv
<1>5. PoolInv' /\ AwaitedInv' /\ UndialledInv'
  BY <1>1 DEF ProbeInv, PoolInv, AwaitedInv, UndialledInv
<1> QED
  BY <1>2, <1>4, <1>5 DEF ProbeInv

\* An answer stamped with the epoch of now was made over the routes of now; slots are held by
\* the requests at work, within the pool; and a route is awaited only for what the tunnel has not
\* routed (runProbe, slots.go, notifyProbeRoute, handleReach).
THEOREM ProbesAreHonest == Probe!Spec => []ProbeTellsItsRoute
<1>1. Probe!Init => ProbeInv
  <2> SUFFICES ASSUME Probe!Init
               PROVE  ProbeInv
    OBVIOUS
  <2>1. EpochsInv /\ HonestInv
    BY DEF Probe!Init, EpochsInv, HonestInv
  <2>2. \A r \in Actors : probeReq[r].pc = "free"
    BY DEF Probe!Init, Probe!Free
  <2>3. probeSlots = {} /\ Cardinality({}) = 0 /\ IsFiniteSet({})
    BY FS_EmptySet DEF Probe!Init
  <2>4. PoolInv
    BY <2>2, <2>3, ProbeAssumption DEF PoolInv
  <2>5. AwaitedInv
    BY DEF Probe!Init, AwaitedInv
  <2>6. \A r \in Actors, n \in 1 .. MaxDials : <<r, n>> \in Probe!Dials
    BY DEF Probe!Dials
  <2>7. UndialledInv
    BY <2>6 DEF Probe!Init, UndialledInv
  <2> QED
    BY <2>1, <2>4, <2>5, <2>7 DEF ProbeInv
<1>2. ProbeInv /\ [Probe!Next]_(Probe!vars) => ProbeInv'
  <2> SUFFICES ASSUME ProbeInv, [Probe!Next]_(Probe!vars)
               PROVE  ProbeInv'
    OBVIOUS
  <2>1. CASE Probe!Suspend \/ Probe!Resume \/ Probe!bumpRouteEpoch
    BY <2>1, ApplyKeeps
  <2>2. ASSUME NEW r \in Actors, NEW pinned \in BOOLEAN, NEW there \in BOOLEAN, Probe!runProbe(r, pinned, there)
        PROVE  ProbeInv'
    BY <2>2, RunProbeKeeps
  <2>3. ASSUME NEW r \in Actors, NEW stage \in {"dns", "route", "resolve", "tcp", "handshake", "done"},
               Probe!reachSteps(r, stage)
        PROVE  ProbeInv'
    BY <2>3, ReachStepsKeeps
  <2>4. ASSUME NEW r \in Actors, NEW final \in BOOLEAN, Probe!Response(r, final)
        PROVE  ProbeInv'
    BY <2>4, ResponseKeeps
  <2>5. ASSUME NEW r \in Actors,
               Probe!handleReach(r) \/ Probe!pickNode(r) \/ Probe!acquireWithin(r) \/ Probe!dial(r) \/ Probe!Fails(r)
               \/ Probe!release(r) \/ Probe!Return(r) \/ Probe!CancelParent(r)
        PROVE  ProbeInv'
    BY <2>5, HandleReachKeeps, PickNodeKeeps, AcquireWithinKeeps, DialSentKeeps, FailsKeeps, ReleaseProbeKeeps,
       ReturnKeeps, CancelParentKeeps
  <2>6. ASSUME NEW d \in Probe!Dials, Probe!notifyProbeRoute(d) \/ Probe!Close(d)
        PROVE  ProbeInv'
    BY <2>6, NotifyProbeRouteKeeps, CloseDialKeeps
  <2>7. CASE UNCHANGED Probe!vars
    BY <2>7 DEF Probe!vars, ProbeInv, EpochsInv, HonestInv, PoolInv, AwaitedInv, UndialledInv
  <2> QED
    BY <2>1, <2>2, <2>3, <2>4, <2>5, <2>6, <2>7 DEF Probe!Next
<1>3. ProbeInv => ProbeTellsItsRoute
  <2> SUFFICES ASSUME ProbeInv
               PROVE  ProbeTellsItsRoute
    OBVIOUS
  <2>1. ASSUME NEW r \in Actors, probeReq[r].pc = "done", probeApply = "idle", probeReq[r].stamp = probeEpoch
        PROVE  probeReq[r].over = probeConfig
    <3>1. Honest(probeReq[r], probeConfig) /\ probeConfig \in Nat
      BY <2>1, Begun
    <3>2. probeEpoch = probeConfig
      BY <2>1 DEF ProbeInv, EpochsInv
    <3> QED
      BY <3>1, <3>2, <2>1 DEF Honest, Asked
  <2>2. probeSlots = Probe!Holders /\ Probe!Cardinality(probeSlots) <= probeConcurrency
    BY PoolCount DEF ProbeInv, PoolInv, Probe!Holders
  <2>3. probePending = {d \in Probe!Dials : probeConn[d] \in {"piped", "refused"}}
    BY DEF ProbeInv, AwaitedInv
  <2> QED
    BY <2>1, <2>2, <2>3 DEF ProbeTellsItsRoute, Probe!ProbeTellsItsRoute
<1> QED
  BY <1>1, <1>2, <1>3, PTL DEF Probe!Spec

-----------------------------------------------------------------------------
(* Files of an elevated core.                                              *)

Target == [path : {Files!First(names) : names \in SUBSET Files!Paths}, ino : Inodes]

\* What a walk keeps.
WalkInv ==
    /\ DOMAIN fileWalker = Actors
    /\ \A w \in Actors :
         /\ fileWalker[w].pc = "walk" => fileWalker[w].names \subseteq Files!Paths /\ fileWalker[w].targets \in Seq(Target)
         /\ fileWalker[w].pc = "chown" => fileWalker[w].targets \in Seq(Target)

\* A file stands where its handler made it, once it was made.
StandsInv ==
    /\ DOMAIN fileAt = Files!Paths /\ DOMAIN fileWriter = Inodes /\ DOMAIN fileOwner = Inodes
    /\ \A p \in Files!Paths : fileAt[p] \in Inodes =>
         /\ fileOwner[fileAt[p]] # "unmade"
         /\ fileWriter[fileAt[p]].pc = "made" => fileWriter[fileAt[p]].path = p

\* A file that nobody would give away: root's, with one name, written.
Left(p) ==
    fileAt[p] \in Inodes \ fileLinked /\ fileOwner[fileAt[p]] = "root" /\ fileWriter[fileAt[p]].pc = "replied"

ComesInv == \A p \in Files!Paths : Left(p) => \E w \in Actors : Files!Comes(w, p)
SleepInv == filePending => \E w \in Actors : fileWalker[w].pc = "sleep"

FilesInv == WalkInv /\ StandsInv /\ ComesInv /\ SleepInv

\* A walker turns from what it is to y; who came by still does, and who sleeps is woken only as
\* the flag falls.
LEMMA WalkerMoves ==
  ASSUME FilesInv, NEW w \in Actors, NEW y, fileWalker' = [fileWalker EXCEPT ![w] = y],
         UNCHANGED <<fileAt, fileLinked, fileWriter>>, DOMAIN fileOwner' = Inodes,
         \A i \in Inodes : fileOwner'[i] = fileOwner[i] \/ fileOwner'[i] = "user",
         y.pc = "walk" => y.names \subseteq Files!Paths /\ y.targets \in Seq(Target),
         y.pc = "chown" => y.targets \in Seq(Target),
         \A p \in Files!Paths : Left(p)' /\ Files!Comes(w, p) => Files!Comes(w, p)',
         filePending' => filePending /\ fileWalker[w].pc # "sleep"
  PROVE  FilesInv'
<1>1. /\ DOMAIN fileWalker' = Actors /\ fileWalker'[w] = y
      /\ \A v \in Actors : v # w => fileWalker'[v] = fileWalker[v]
  BY DEF FilesInv, WalkInv
<1>2. WalkInv'
  BY <1>1 DEF FilesInv, WalkInv
<1>3. StandsInv'
  BY DEF FilesInv, StandsInv
<1>4. SleepInv'
  BY <1>1 DEF FilesInv, SleepInv
<1>5. ComesInv'
  <2> SUFFICES ASSUME NEW p \in Files!Paths, Left(p)'
               PROVE  \E v \in Actors : Files!Comes(v, p)'
    BY DEF ComesInv
  <2>1. Left(p)
    BY DEF Left
  <2>2. PICK v \in Actors : Files!Comes(v, p)
    BY <2>1 DEF FilesInv, ComesInv
  <2>3. CASE v = w
    BY <2>2, <2>3
  <2>4. CASE v # w
    <3>1. fileWalker'[v] = fileWalker[v] /\ fileAt' = fileAt
      BY <2>4, <1>1
    <3> QED
      BY <3>1, <2>2 DEF Files!Comes
  <2> QED
    BY <2>3, <2>4
<1> QED
  BY <1>2, <1>3, <1>4, <1>5 DEF FilesInv

\* Nothing moves but what stands where, and no more is left.
LEMMA NamesMove ==
  ASSUME FilesInv, UNCHANGED <<fileWalker, filePending>>, StandsInv',
         \A p \in Files!Paths : Left(p)' => Left(p) /\ fileAt'[p] = fileAt[p]
  PROVE  FilesInv'
<1>1. WalkInv' /\ SleepInv'
  BY DEF FilesInv, WalkInv, SleepInv
<1>2. ComesInv'
  <2> SUFFICES ASSUME NEW p \in Files!Paths, Left(p)'
               PROVE  \E v \in Actors : Files!Comes(v, p)'
    BY DEF ComesInv
  <2>1. PICK v \in Actors : Files!Comes(v, p)
    BY DEF FilesInv, ComesInv
  <2>2. Files!Comes(v, p)'
    BY <2>1 DEF Files!Comes
  <2> QED
    BY <2>2
<1> QED
  BY <1>1, <1>2 DEF FilesInv

LEMMA CreateKeeps ==
  ASSUME FilesInv, NEW i \in Inodes, NEW p \in Files!Paths, Files!createCoreTempFile(i, p)
  PROVE  FilesInv'
<1> DEFINE y == [pc |-> "made", path |-> p]
<1>1. /\ fileOwner[i] = "unmade" /\ fileAt[p] = "none"
      /\ fileAt' = [fileAt EXCEPT ![p] = i]
      /\ fileOwner' = [fileOwner EXCEPT ![i] = "root"]
      /\ fileWriter' = [fileWriter EXCEPT ![i] = y]
      /\ UNCHANGED <<fileLinked, filePending, fileWalker>>
  BY DEF Files!createCoreTempFile
<1>2. \A q \in Files!Paths : fileAt[q] # i
  BY <1>1 DEF FilesInv, StandsInv
<1>3. StandsInv'
  BY <1>1, <1>2 DEF FilesInv, StandsInv
<1>4. ASSUME NEW q \in Files!Paths, Left(q)'
      PROVE  Left(q) /\ fileAt'[q] = fileAt[q]
  <2>1. fileWriter'[i].pc = "made" /\ fileAt'[p] = i
    BY <1>1 DEF FilesInv, StandsInv
  <2>2. q # p
    BY <2>1, <1>4 DEF Left
  <2>3. fileAt'[q] = fileAt[q] /\ fileAt[q] # i
    BY <2>2, <1>1, <1>2 DEF FilesInv, StandsInv
  <2> QED
    BY <2>3, <1>1, <1>4 DEF Left, FilesInv, StandsInv
<1> QED
  BY <1>1, <1>3, <1>4, NamesMove

LEMMA WriteFailsKeeps ==
  ASSUME FilesInv, NEW i \in Inodes, Files!Fails(i)
  PROVE  FilesInv'
<1> DEFINE y == [pc |-> "replied"]
           p == fileWriter[i].path
<1>1. /\ fileWriter[i].pc = "made"
      /\ fileAt' = IF fileAt[p] = i THEN [fileAt EXCEPT ![p] = "none"] ELSE fileAt
      /\ fileWriter' = [fileWriter EXCEPT ![i] = y]
      /\ UNCHANGED <<fileOwner, fileLinked, filePending, fileWalker>>
  BY DEF Files!Fails
<1>2. "none" \notin Inodes
  BY FileAssumption
<1>3. ASSUME NEW q \in Files!Paths
      PROVE  /\ fileAt'[q] # i
             /\ fileAt'[q] \in Inodes => fileAt'[q] = fileAt[q]
  <2>1. CASE q = p /\ fileAt[p] = i
    <3>1. fileAt'[q] = "none"
      BY <2>1, <1>1 DEF FilesInv, StandsInv
    <3> QED
      BY <3>1, <1>2
  <2>2. CASE ~(q = p /\ fileAt[p] = i)
    <3>1. fileAt'[q] = fileAt[q]
      BY <2>2, <1>1 DEF FilesInv, StandsInv
    <3>2. fileAt[q] # i
      BY <2>2, <1>1 DEF FilesInv, StandsInv
    <3> QED
      BY <3>1, <3>2
  <2> QED
    BY <2>1, <2>2
<1>4. \A j \in Inodes : j # i => fileWriter'[j] = fileWriter[j]
  BY <1>1 DEF FilesInv, StandsInv
<1>5. DOMAIN fileAt' = Files!Paths /\ DOMAIN fileWriter' = Inodes
  BY <1>1 DEF FilesInv, StandsInv
<1>6. StandsInv'
  BY <1>1, <1>3, <1>4, <1>5 DEF FilesInv, StandsInv
<1>7. \A q \in Files!Paths : Left(q)' => Left(q) /\ fileAt'[q] = fileAt[q]
  BY <1>1, <1>3, <1>4 DEF Left
<1> QED
  BY <1>1, <1>6, <1>7, NamesMove

LEMMA ScheduleKeeps ==
  ASSUME FilesInv, NEW i \in Inodes, Files!scheduleReclaimOwnership(i)
  PROVE  FilesInv'
<1> DEFINE y == [pc |-> "replied"]
<1>1. /\ fileWriter[i].pc = "made"
      /\ fileWriter' = [fileWriter EXCEPT ![i] = y]
      /\ UNCHANGED <<fileAt, fileOwner, fileLinked>>
  BY DEF Files!scheduleReclaimOwnership
<1>2. /\ DOMAIN fileWriter' = Inodes /\ fileWriter'[i] = y
      /\ \A j \in Inodes : j # i => fileWriter'[j] = fileWriter[j]
  BY <1>1 DEF FilesInv, StandsInv
<1>3. StandsInv'
  BY <1>1, <1>2 DEF FilesInv, StandsInv
<1>4. /\ DOMAIN fileWalker' = Actors
      /\ \E w \in Actors : fileWalker'[w].pc = "sleep"
      /\ WalkInv'
  <2>1. CASE filePending
    <3>1. fileWalker' = fileWalker
      BY <2>1 DEF Files!scheduleReclaimOwnership
    <3> QED
      BY <3>1, <2>1 DEF FilesInv, WalkInv, SleepInv
  <2>2. CASE ~filePending
    <3>1. PICK w \in Actors : fileWalker' = [fileWalker EXCEPT ![w] = [pc |-> "sleep"]]
      BY <2>2 DEF Files!scheduleReclaimOwnership
    <3> DEFINE s == [pc |-> "sleep"]
    <3>2. s.pc = "sleep"
      OBVIOUS
    <3> HIDE DEF s
    <3>3. /\ DOMAIN fileWalker' = Actors /\ fileWalker'[w] = s
          /\ \A v \in Actors : v # w => fileWalker'[v] = fileWalker[v]
      BY <3>1 DEF FilesInv, WalkInv, s
    <3>4. WalkInv'
      BY <3>2, <3>3 DEF FilesInv, WalkInv
    <3> QED
      BY <3>2, <3>3, <3>4
  <2> QED
    BY <2>1, <2>2
<1>5. SleepInv'
  BY <1>4 DEF SleepInv
<1>6. ComesInv'
  BY <1>4 DEF ComesInv, Files!Comes
<1> QED
  BY <1>3, <1>4, <1>5, <1>6 DEF FilesInv

LEMMA WakeKeeps ==
  ASSUME FilesInv, NEW w \in Actors, Files!Wake(w)
  PROVE  FilesInv'
<1> DEFINE y == [pc |-> "open"]
<1>1. /\ ~filePending' /\ fileWalker' = [fileWalker EXCEPT ![w] = y]
      /\ UNCHANGED <<fileAt, fileOwner, fileLinked, fileWriter>>
  BY DEF Files!Wake
<1>2. y.pc = "open"
  OBVIOUS
<1> HIDE DEF y
<1>3. fileWalker'[w] = y
  BY <1>1 DEF FilesInv, WalkInv
<1>4. \A p \in Files!Paths : Files!Comes(w, p)'
  BY <1>2, <1>3 DEF Files!Comes
<1>5. DOMAIN fileOwner' = Inodes
  BY <1>1 DEF FilesInv, StandsInv
<1> QED
  BY <1>1, <1>2, <1>4, <1>5, WalkerMoves

LEMMA ReadDirKeeps ==
  ASSUME FilesInv, NEW w \in Actors, Files!ReadDir(w)
  PROVE  FilesInv'
<1> DEFINE y == [pc |-> "walk", targets |-> <<>>, names |-> {p \in Files!Paths : fileAt[p] # "none"}]
<1>1. /\ fileWalker[w].pc = "open" /\ fileWalker' = [fileWalker EXCEPT ![w] = y]
      /\ UNCHANGED <<fileAt, fileOwner, fileLinked, filePending, fileWriter>>
  BY DEF Files!ReadDir
<1>2. y.pc = "walk" /\ y.targets = <<>> /\ y.names = {p \in Files!Paths : fileAt[p] # "none"}
  OBVIOUS
<1> HIDE DEF y
<1>3. fileWalker'[w] = y
  BY <1>1 DEF FilesInv, WalkInv
<1>4. y.names \subseteq Files!Paths /\ y.targets \in Seq(Target)
  BY <1>2
<1>5. ASSUME NEW p \in Files!Paths, Left(p)'
      PROVE  Files!Comes(w, p)'
  <2>1. p \in y.names
    BY <1>1, <1>2, <1>5, FileAssumption DEF Left
  <2> QED
    BY <2>1, <1>2, <1>3 DEF Files!Comes
<1>6. DOMAIN fileOwner' = Inodes
  BY <1>1 DEF FilesInv, StandsInv
<1> QED
  BY <1>1, <1>2, <1>4, <1>5, <1>6, WalkerMoves

LEMMA CollectKeeps ==
  ASSUME FilesInv, NEW w \in Actors, Files!collectReclaimTargets(w)
  PROVE  FilesInv'
<1> DEFINE x == fileWalker[w]
           p == Files!First(x.names)
           t == [path |-> p, ino |-> fileAt[p]]
           list == IF Files!shouldReclaimEntry(fileAt[p]) THEN Append(x.targets, t) ELSE x.targets
           y == [pc |-> "walk", names |-> x.names \ {p}, targets |-> list]
<1>1. /\ x.pc = "walk" /\ fileWalker' = [fileWalker EXCEPT ![w] = y]
      /\ UNCHANGED <<fileAt, fileOwner, fileLinked, filePending, fileWriter>>
  BY DEF Files!collectReclaimTargets
<1>2. y.pc = "walk" /\ y.targets = list /\ y.names = x.names \ {p}
  OBVIOUS
<1> HIDE DEF y
<1>3. fileWalker'[w] = y
  BY <1>1 DEF FilesInv, WalkInv
<1>4. x.names \subseteq Files!Paths /\ x.targets \in Seq(Target)
  BY <1>1 DEF FilesInv, WalkInv
<1>5. Files!shouldReclaimEntry(fileAt[p]) => t \in Target
  BY <1>4 DEF Target, Files!shouldReclaimEntry
<1>6. list \in Seq(Target)
  BY <1>4, <1>5
<1>7. y.names \subseteq Files!Paths /\ y.targets \in Seq(Target)
  BY <1>2, <1>4, <1>6
<1>8. \A k \in DOMAIN x.targets : k \in DOMAIN list /\ list[k] = x.targets[k]
  BY <1>4, <1>5
<1>9. Files!shouldReclaimEntry(fileAt[p]) => \E k \in DOMAIN list : list[k] = t
  <2> HAVE Files!shouldReclaimEntry(fileAt[p])
  <2>1. Len(list) \in DOMAIN list /\ list[Len(list)] = t
    BY <1>4, <1>5
  <2> QED
    BY <2>1
<1> HIDE DEF list, t
<1>10. ASSUME NEW q \in Files!Paths, Left(q)', Files!Comes(w, q)
       PROVE  Files!Comes(w, q)'
  <2>1. CASE q \in x.names /\ q # p
    BY <2>1, <1>2, <1>3 DEF Files!Comes
  <2>2. CASE q = p
    <3>1. Files!shouldReclaimEntry(fileAt[p])
      BY <2>2, <1>1, <1>10 DEF Left, Files!shouldReclaimEntry
    <3>2. \E k \in DOMAIN list : list[k] = [path |-> q, ino |-> fileAt[q]]
      BY <3>1, <1>9, <2>2 DEF t
    <3> QED
      BY <3>2, <1>1, <1>2, <1>3 DEF Files!Comes
  <2>3. CASE \E k \in DOMAIN x.targets : x.targets[k] = [path |-> q, ino |-> fileAt[q]]
    <3>1. \E k \in DOMAIN list : list[k] = [path |-> q, ino |-> fileAt[q]]
      BY <2>3, <1>8
    <3> QED
      BY <3>1, <1>1, <1>2, <1>3 DEF Files!Comes
  <2> QED
    BY <2>1, <2>2, <2>3, <1>1, <1>10 DEF Files!Comes
<1>11. DOMAIN fileOwner' = Inodes
  BY <1>1 DEF FilesInv, StandsInv
<1> HIDE DEF x, p
<1>12. fileWalker[w].pc # "sleep"
  BY <1>1 DEF x
<1> QED
  BY <1>1, <1>2, <1>7, <1>10, <1>11, <1>12, WalkerMoves

LEMMA WalkedKeeps ==
  ASSUME FilesInv, NEW w \in Actors, Files!Walked(w)
  PROVE  FilesInv'
<1> DEFINE x == fileWalker[w]
           y == [pc |-> "chown", targets |-> x.targets]
<1>1. /\ x.pc = "walk" /\ x.names = {} /\ fileWalker' = [fileWalker EXCEPT ![w] = y]
      /\ UNCHANGED <<fileAt, fileOwner, fileLinked, filePending, fileWriter>>
  BY DEF Files!Walked
<1>2. y.pc = "chown" /\ y.targets = x.targets
  OBVIOUS
<1> HIDE DEF y
<1>3. fileWalker'[w] = y
  BY <1>1 DEF FilesInv, WalkInv
<1>4. y.targets \in Seq(Target)
  BY <1>1, <1>2 DEF FilesInv, WalkInv
<1>5. ASSUME NEW q \in Files!Paths, Files!Comes(w, q)
      PROVE  Files!Comes(w, q)'
  <2>1. \E k \in DOMAIN x.targets : x.targets[k] = [path |-> q, ino |-> fileAt[q]]
    BY <1>1, <1>5 DEF Files!Comes
  <2> QED
    BY <2>1, <1>1, <1>2, <1>3 DEF Files!Comes
<1>6. DOMAIN fileOwner' = Inodes
  BY <1>1 DEF FilesInv, StandsInv
<1> HIDE DEF x
<1>7. fileWalker[w].pc # "sleep"
  BY <1>1 DEF x
<1> QED
  BY <1>1, <1>2, <1>4, <1>5, <1>6, <1>7, WalkerMoves

\* All but the first come again in the tail.
LEMMA TailKeepsOrder ==
  ASSUME NEW S, NEW s \in Seq(S), s # <<>>
  PROVE  \A k \in DOMAIN s : k = 1 \/ (k - 1 \in DOMAIN Tail(s) /\ Tail(s)[k - 1] = s[k])
<1>1. /\ Len(s) \in Nat /\ DOMAIN s = 1 .. Len(s)
      /\ DOMAIN Tail(s) = 1 .. Len(s) - 1
      /\ \A j \in 1 .. Len(s) - 1 : Tail(s)[j] = s[j + 1]
  OBVIOUS
<1> QED
  BY <1>1

LEMMA EntryKeeps ==
  ASSUME FilesInv, NEW w \in Actors, Files!reclaimEntry(w)
  PROVE  FilesInv'
<1> DEFINE list == fileWalker[w].targets
           t == Head(list)
           i == fileAt[t.path]
           y == [pc |-> "chown", targets |-> Tail(list)]
<1>1. /\ fileWalker[w].pc = "chown" /\ list # <<>>
      /\ fileOwner' = IF i = t.ino /\ Files!shouldReclaimEntry(i) THEN [fileOwner EXCEPT ![i] = "user"] ELSE fileOwner
      /\ fileWalker' = [fileWalker EXCEPT ![w] = y]
      /\ UNCHANGED <<fileAt, fileLinked, filePending, fileWriter>>
  BY DEF Files!reclaimEntry
<1>2. y.pc = "chown" /\ y.targets = Tail(list)
  OBVIOUS
<1> HIDE DEF y
<1>3. fileWalker'[w] = y
  BY <1>1 DEF FilesInv, WalkInv
<1>4. list \in Seq(Target)
  BY <1>1 DEF FilesInv, WalkInv
<1>5. y.targets \in Seq(Target)
  BY <1>1, <1>2, <1>4
<1>6. /\ DOMAIN fileOwner' = Inodes
      /\ \A j \in Inodes : fileOwner'[j] = fileOwner[j] \/ fileOwner'[j] = "user"
  BY <1>1 DEF FilesInv, StandsInv
<1>7. i = t.ino /\ Files!shouldReclaimEntry(i) => fileOwner'[i] = "user"
  BY <1>1 DEF Files!shouldReclaimEntry, FilesInv, StandsInv
<1>8. \A k \in DOMAIN list : k = 1 \/ (k - 1 \in DOMAIN Tail(list) /\ Tail(list)[k - 1] = list[k])
  BY <1>1, <1>4, TailKeepsOrder
<1>9. list[1] = t
  BY <1>1, <1>4
<1> HIDE DEF list, t
<1>10. ASSUME NEW q \in Files!Paths, Left(q)', Files!Comes(w, q)
       PROVE  Files!Comes(w, q)'
  <2>1. PICK k \in DOMAIN list : list[k] = [path |-> q, ino |-> fileAt[q]]
    BY <1>1, <1>10 DEF Files!Comes, list
  <2>2. k # 1
    <3> SUFFICES ASSUME k = 1 PROVE FALSE
      OBVIOUS
    <3>1. t = [path |-> q, ino |-> fileAt[q]]
      BY <2>1, <1>9
    <3>2. i = fileAt[q] /\ i = t.ino
      BY <3>1
    <3> HIDE DEF i
    <3>3. fileAt'[q] = i /\ fileLinked' = fileLinked
      BY <3>2, <1>1
    <3>4. i \in Inodes /\ i \notin fileLinked /\ fileOwner'[i] = "root"
      BY <3>3, <1>10 DEF Left
    <3>5. fileOwner[i] # "user"
      BY <3>4, <1>6
    <3>6. Files!shouldReclaimEntry(i)
      BY <3>4, <3>5 DEF Files!shouldReclaimEntry
    <3> QED
      BY <3>2, <3>4, <3>6, <1>7
  <2>3. k - 1 \in DOMAIN y.targets /\ y.targets[k - 1] = [path |-> q, ino |-> fileAt[q]]
    BY <2>1, <2>2, <1>2, <1>8
  <2>4. fileAt' = fileAt
    BY <1>1
  <2> QED
    BY <2>3, <2>4, <1>2, <1>3 DEF Files!Comes
<1> HIDE DEF i
<1>11. fileWalker[w].pc # "sleep"
  BY <1>1
<1>12. /\ UNCHANGED <<fileAt, fileLinked, fileWriter>> /\ filePending' = filePending
       /\ fileWalker' = [fileWalker EXCEPT ![w] = y]
  BY <1>1
<1>13. \A q \in Files!Paths : Left(q)' /\ Files!Comes(w, q) => Files!Comes(w, q)'
  BY <1>10
<1> QED
  BY <1>12, <1>2, <1>5, <1>6, <1>13, <1>11, WalkerMoves

LEMMA EndsKeeps ==
  ASSUME FilesInv, NEW w \in Actors, Files!Ends(w)
  PROVE  FilesInv'
<1> DEFINE y == Files!Idle
<1>1. /\ fileWalker[w].pc = "chown" /\ fileWalker[w].targets = <<>>
      /\ fileWalker' = [fileWalker EXCEPT ![w] = y]
      /\ UNCHANGED <<fileAt, fileOwner, fileLinked, filePending, fileWriter>>
  BY DEF Files!Ends
<1>2. y.pc = "idle"
  BY DEF Files!Idle
<1> HIDE DEF y
<1>3. ASSUME NEW q \in Files!Paths
      PROVE  ~Files!Comes(w, q)
  <2>1. DOMAIN fileWalker[w].targets = {}
    BY <1>1
  <2> QED
    BY <2>1, <1>1 DEF Files!Comes
<1>4. DOMAIN fileOwner' = Inodes
  BY <1>1 DEF FilesInv, StandsInv
<1> QED
  BY <1>1, <1>2, <1>3, <1>4, WalkerMoves

LEMMA HostFilesKeep ==
  ASSUME FilesInv, NEW p \in Files!Paths, Files!Delete(p) \/ Files!Write(p)
  PROVE  FilesInv'
<1>1. PICK v \in {"none", "user"} :
        /\ fileAt' = [fileAt EXCEPT ![p] = v]
        /\ UNCHANGED <<fileOwner, fileLinked, filePending, fileWalker, fileWriter>>
  BY DEF Files!Delete, Files!Write
<1>2. v \notin Inodes
  BY FileAssumption
<1>3. /\ DOMAIN fileAt' = Files!Paths /\ fileAt'[p] = v
      /\ \A q \in Files!Paths : q # p => fileAt'[q] = fileAt[q]
  BY <1>1 DEF FilesInv, StandsInv
<1>4. StandsInv'
  BY <1>1, <1>2, <1>3 DEF FilesInv, StandsInv
<1>5. \A q \in Files!Paths : Left(q)' => Left(q) /\ fileAt'[q] = fileAt[q]
  BY <1>1, <1>2, <1>3 DEF Left
<1> QED
  BY <1>1, <1>4, <1>5, NamesMove

LEMMA LinkKeeps ==
  ASSUME FilesInv, NEW p \in Files!Paths, Files!Link(p)
  PROVE  FilesInv'
<1>1. /\ fileLinked \subseteq fileLinked'
      /\ UNCHANGED <<fileAt, fileOwner, filePending, fileWalker, fileWriter>>
  BY DEF Files!Link
<1>2. StandsInv'
  BY <1>1 DEF FilesInv, StandsInv
<1>3. \A q \in Files!Paths : Left(q)' => Left(q) /\ fileAt'[q] = fileAt[q]
  BY <1>1 DEF Left
<1> QED
  BY <1>1, <1>2, <1>3, NamesMove

LEMMA ClearKeeps ==
  ASSUME FilesInv, Files!clearSpilledResponses
  PROVE  FilesInv'
<1>1. /\ fileAt' = [p \in Files!Paths |-> IF fileAt[p] \in Inodes THEN "none" ELSE fileAt[p]]
      /\ UNCHANGED <<fileOwner, fileLinked, filePending, fileWalker, fileWriter>>
  BY DEF Files!clearSpilledResponses
<1>2. "none" \notin Inodes
  BY FileAssumption
<1>3. \A q \in Files!Paths : fileAt'[q] \notin Inodes
  BY <1>1, <1>2
<1>4. StandsInv'
  BY <1>1, <1>3 DEF FilesInv, StandsInv
<1>5. \A q \in Files!Paths : Left(q)' => Left(q) /\ fileAt'[q] = fileAt[q]
  BY <1>3 DEF Left
<1> QED
  BY <1>1, <1>4, <1>5, NamesMove

LEMMA FilesStart ==
  ASSUME Files!Init
  PROVE  FilesInv
<1>1. /\ fileAt = [p \in Files!Paths |-> "none"]
      /\ fileOwner = [i \in Inodes |-> "unmade"]
      /\ filePending = FALSE
      /\ fileWalker = [w \in Actors |-> Files!Idle]
      /\ fileWriter = [i \in Inodes |-> Files!Idle]
  BY DEF Files!Init, Files!Handlers
<1>2. "none" \notin Inodes
  BY FileAssumption
<1>3. Files!Idle.pc = "idle"
  BY DEF Files!Idle
<1>4. WalkInv
  BY <1>1, <1>3 DEF WalkInv
<1>5. \A p \in Files!Paths : fileAt[p] \notin Inodes
  BY <1>1, <1>2
<1>6. StandsInv
  BY <1>1, <1>5 DEF StandsInv
<1>7. ComesInv /\ SleepInv
  BY <1>1, <1>5 DEF ComesInv, SleepInv, Left
<1> QED
  BY <1>4, <1>6, <1>7 DEF FilesInv

\* For every number of files, paths and walks: a file that an elevated core has written and that
\* is still root's, with one name, has a walk that will come by it (reclaimOwnership), and a
\* pending flag has its sleeping goroutine, whatever handlers, walks and the host do meanwhile.
THEOREM FilesComeHome == Files!Spec => []NothingStaysRoots
<1>1. Files!Init => FilesInv
  BY FilesStart
<1>2. FilesInv /\ [Files!Next]_(Files!vars) => FilesInv'
  <2> SUFFICES ASSUME FilesInv, [Files!Next]_(Files!vars)
               PROVE  FilesInv'
    OBVIOUS
  <2>1. ASSUME NEW i \in Inodes, Files!Fails(i) \/ Files!scheduleReclaimOwnership(i)
        PROVE  FilesInv'
    BY <2>1, WriteFailsKeeps, ScheduleKeeps
  <2>2. ASSUME NEW i \in Inodes, NEW p \in Files!Paths, Files!createCoreTempFile(i, p)
        PROVE  FilesInv'
    BY <2>2, CreateKeeps
  <2>3. ASSUME NEW w \in Actors, Files!Wake(w) \/ Files!ReadDir(w) \/ Files!collectReclaimTargets(w)
        PROVE  FilesInv'
    BY <2>3, WakeKeeps, ReadDirKeeps, CollectKeeps
  <2>4. ASSUME NEW w \in Actors, Files!Walked(w) \/ Files!reclaimEntry(w) \/ Files!Ends(w)
        PROVE  FilesInv'
    BY <2>4, WalkedKeeps, EntryKeeps, EndsKeeps
  <2>5. ASSUME NEW p \in Files!Paths, Files!Delete(p) \/ Files!Write(p) \/ Files!Link(p)
        PROVE  FilesInv'
    BY <2>5, HostFilesKeep, LinkKeeps
  <2>6. CASE Files!clearSpilledResponses
    BY <2>6, ClearKeeps
  <2>7. CASE UNCHANGED Files!vars
    <3>1. UNCHANGED <<fileWalker, filePending, fileAt, fileOwner, fileLinked, fileWriter>>
      BY <2>7 DEF Files!vars
    <3>2. StandsInv'
      BY <3>1 DEF FilesInv, StandsInv
    <3>3. \A q \in Files!Paths : Left(q)' => Left(q) /\ fileAt'[q] = fileAt[q]
      BY <3>1 DEF Left
    <3> QED
      BY <3>1, <3>2, <3>3, NamesMove
  <2> QED
    BY <2>1, <2>2, <2>3, <2>4, <2>5, <2>6, <2>7 DEF Files!Next
<1>3. FilesInv => NothingStaysRoots
  BY DEF FilesInv, ComesInv, SleepInv, Left, NothingStaysRoots, Files!NothingStaysRoots
<1> QED
  BY <1>1, <1>2, <1>3, PTL DEF Files!Spec

-----------------------------------------------------------------------------
(* Subscription fetches.                                                   *)

FetchTarget == Urls \cup {[u EXCEPT !.user = FALSE] : u \in Urls}
HeldIds == {i \in Ids : fetchActive[i] # Fetch!NoFetch}
FetchRuns(r) == r.pc \in {"dial", "hop"}

FetchRecord ==
    [pc : {"dial", "hop"}, id : Ids, target : FetchTarget, headers : SUBSET {"agent", "credential"},
     redirects : Nat, wire : Nat, ctx : {"live", "cancelled", "expired"}, left : BOOLEAN]

\* A fetch is what its handler made of it, with its credentials on the origin they are for only.
GoodFetch(r) ==
    /\ FetchRuns(r) => r \in FetchRecord /\ r.wire <= wireLimit /\ (r.left => "credential" \notin r.headers)
    /\ r.pc = "answered" /\ r.said = "cancelled" => r.ctx = "cancelled"

GoodInv == DOMAIN fetchFetch = Actors /\ \A f \in Actors : GoodFetch(fetchFetch[f])

\* The registry is the running fetches.
RegistryInv ==
    /\ DOMAIN fetchActive = Ids
    /\ \A f \in Actors : FetchRuns(fetchFetch[f]) => fetchActive[fetchFetch[f].id] = [pc |-> "held", by |-> f]
    /\ \A i \in Ids : fetchActive[i] # Fetch!NoFetch =>
         /\ fetchActive[i].by \in Actors
         /\ FetchRuns(fetchFetch[fetchActive[i].by]) /\ fetchFetch[fetchActive[i].by].id = i

LimitInv == IsFiniteSet(HeldIds) /\ Cardinality(HeldIds) <= maxConcurrent

FetchInv == GoodInv /\ RegistryInv /\ LimitInv /\ fetchSnapshot \subseteq Actors

\* A fetch under way goes on with its id.
LEMMA FetchGoesOn ==
  ASSUME FetchInv, NEW f \in Actors, NEW y, fetchFetch' = [fetchFetch EXCEPT ![f] = y],
         UNCHANGED <<fetchActive, fetchSnapshot>>, GoodFetch(y),
         FetchRuns(fetchFetch[f]) => FetchRuns(y) /\ y.id = fetchFetch[f].id,
         FetchRuns(y) => FetchRuns(fetchFetch[f])
  PROVE  FetchInv'
<1>1. /\ DOMAIN fetchFetch' = Actors /\ fetchFetch'[f] = y
      /\ \A g \in Actors : g # f => fetchFetch'[g] = fetchFetch[g]
  BY DEF FetchInv, GoodInv
<1>2. GoodInv'
  BY <1>1 DEF FetchInv, GoodInv
<1>3. RegistryInv'
  BY <1>1 DEF FetchInv, RegistryInv
<1>4. LimitInv' /\ fetchSnapshot' \subseteq Actors
  BY DEF FetchInv, LimitInv, HeldIds
<1> QED
  BY <1>2, <1>3, <1>4 DEF FetchInv

\* A fetch ends: its place in the registry is free.
LEMMA FetchEnds ==
  ASSUME FetchInv, NEW f \in Actors, FetchRuns(fetchFetch[f]), NEW said, Fetch!Answered(f, said),
         said = "cancelled" => fetchFetch[f].ctx = "cancelled"
  PROVE  FetchInv'
<1> DEFINE y == [pc |-> "answered", said |-> said, ctx |-> fetchFetch[f].ctx]
           id == fetchFetch[f].id
<1>1. /\ fetchFetch' = [fetchFetch EXCEPT ![f] = y]
      /\ fetchActive' = [fetchActive EXCEPT ![id] = Fetch!NoFetch]
      /\ fetchSnapshot' \subseteq fetchSnapshot
  BY DEF Fetch!Answered
<1>2. ~FetchRuns(y) /\ GoodFetch(y)
  BY DEF FetchRuns, GoodFetch
<1> HIDE DEF y
<1>3. /\ DOMAIN fetchFetch' = Actors /\ fetchFetch'[f] = y
      /\ \A g \in Actors : g # f => fetchFetch'[g] = fetchFetch[g]
  BY <1>1 DEF FetchInv, GoodInv
<1>4. GoodInv'
  BY <1>2, <1>3 DEF FetchInv, GoodInv
<1>5. /\ fetchFetch[f] \in FetchRecord /\ id \in Ids /\ fetchActive[id] = [pc |-> "held", by |-> f]
      /\ DOMAIN fetchActive' = Ids /\ fetchActive'[id] = Fetch!NoFetch
      /\ \A i \in Ids : i # id => fetchActive'[i] = fetchActive[i]
  BY <1>1 DEF FetchInv, GoodInv, GoodFetch, RegistryInv, FetchRecord
<1> HIDE DEF id
<1>6. ASSUME NEW g \in Actors, FetchRuns(fetchFetch'[g])
      PROVE  fetchActive'[fetchFetch'[g].id] = [pc |-> "held", by |-> g]
  <2>1. g # f
    BY <1>2, <1>3, <1>6
  <2>2. fetchFetch'[g] = fetchFetch[g]
    BY <2>1, <1>3
  <2>3. fetchActive[fetchFetch[g].id] = [pc |-> "held", by |-> g] /\ fetchFetch[g].id \in Ids
    BY <2>2, <1>6 DEF FetchInv, RegistryInv, GoodInv, GoodFetch, FetchRecord
  <2>4. fetchFetch[g].id # id
    BY <2>1, <2>3, <1>5
  <2> QED
    BY <2>2, <2>3, <2>4, <1>5
<1>7. ASSUME NEW i \in Ids, fetchActive'[i] # Fetch!NoFetch
      PROVE  /\ fetchActive'[i].by \in Actors
             /\ FetchRuns(fetchFetch'[fetchActive'[i].by]) /\ fetchFetch'[fetchActive'[i].by].id = i
  <2>1. i # id /\ fetchActive'[i] = fetchActive[i]
    BY <1>5, <1>7
  <2>2. fetchActive[i].by \in Actors /\ FetchRuns(fetchFetch[fetchActive[i].by])
        /\ fetchFetch[fetchActive[i].by].id = i
    BY <2>1, <1>7 DEF FetchInv, RegistryInv
  <2>3. fetchActive[i].by # f
    BY <2>1, <2>2 DEF id
  <2> QED
    BY <2>1, <2>2, <2>3, <1>3
<1>8. RegistryInv'
  BY <1>5, <1>6, <1>7 DEF RegistryInv
<1>9. HeldIds' \subseteq HeldIds
  BY <1>5 DEF HeldIds
<1>10. LimitInv'
  <2>1. IsFiniteSet(HeldIds') /\ Cardinality(HeldIds') <= Cardinality(HeldIds)
    BY <1>9, FS_Subset DEF FetchInv, LimitInv
  <2>2. Cardinality(HeldIds') \in Nat /\ Cardinality(HeldIds) \in Nat
    BY <2>1, FS_CardinalityType DEF FetchInv, LimitInv
  <2> QED
    BY <2>1, <2>2, FetchAssumption DEF FetchInv, LimitInv
<1> QED
  BY <1>1, <1>4, <1>8, <1>10 DEF FetchInv

LEMMA FetchAnswers ==
  ASSUME FetchInv, NEW f \in Actors, FetchRuns(fetchFetch[f]), NEW err, err # "cancelled", Fetch!Answer(f, err)
  PROVE  FetchInv'
<1> DEFINE said == IF err # "ok" /\ fetchFetch[f].ctx = "cancelled" THEN "cancelled" ELSE err
<1>1. Fetch!Answered(f, said)
  BY DEF Fetch!Answer
<1>2. said = "cancelled" => fetchFetch[f].ctx = "cancelled"
  OBVIOUS
<1> HIDE DEF said
<1> QED
  BY <1>1, <1>2, FetchEnds

LEMMA RegisterKeeps ==
  ASSUME FetchInv, NEW f \in Actors, NEW id \in Ids, NEW url \in Urls, NEW h \in Headers,
         Fetch!handleFetchSubscription(f, id, url, h)
  PROVE  FetchInv'
<1> DEFINE y == [pc |-> "dial", id |-> id, target |-> [url EXCEPT !.user = FALSE],
                 headers |-> IF url.user THEN h \cup {"credential"} ELSE h,
                 redirects |-> 0, wire |-> 0, ctx |-> "live", left |-> FALSE]
           x == [pc |-> "held", by |-> f]
<1>1. /\ fetchFetch[f].pc = "free" /\ fetchActive[id] = Fetch!NoFetch
      /\ Fetch!Cardinality({i \in Ids : fetchActive[i] # Fetch!NoFetch}) < maxConcurrent
      /\ fetchActive' = [fetchActive EXCEPT ![id] = x]
      /\ fetchFetch' = [fetchFetch EXCEPT ![f] = y]
      /\ fetchSnapshot' = fetchSnapshot
  BY DEF Fetch!handleFetchSubscription
<1>2. Cardinality(HeldIds) < maxConcurrent
  BY <1>1 DEF HeldIds, Cardinality, Fetch!Cardinality
<1>3. y \in FetchRecord
  <2>1. [url EXCEPT !.user = FALSE] \in FetchTarget
    BY DEF FetchTarget
  <2>2. h \in SUBSET {"agent", "credential"}
    BY FetchAssumption
  <2>3. (IF url.user THEN h \cup {"credential"} ELSE h) \in SUBSET {"agent", "credential"}
    BY <2>2
  <2> QED
    BY <2>1, <2>3 DEF FetchRecord
<1>4. /\ FetchRuns(y) /\ y.wire = 0 /\ ~y.left /\ y.id = id /\ y.pc = "dial"
  BY DEF FetchRuns
<1> HIDE DEF y
<1>5. GoodFetch(y)
  BY <1>3, <1>4, FetchAssumption DEF GoodFetch
<1>6. x # Fetch!NoFetch /\ x.by = f
  BY DEF Fetch!NoFetch
<1>7. /\ DOMAIN fetchFetch' = Actors /\ fetchFetch'[f] = y
      /\ \A g \in Actors : g # f => fetchFetch'[g] = fetchFetch[g]
  BY <1>1 DEF FetchInv, GoodInv
<1>8. GoodInv'
  BY <1>5, <1>7 DEF FetchInv, GoodInv
<1>9. /\ DOMAIN fetchActive' = Ids /\ fetchActive'[id] = x
      /\ \A i \in Ids : i # id => fetchActive'[i] = fetchActive[i]
  BY <1>1 DEF FetchInv, RegistryInv
<1>10. ASSUME NEW g \in Actors, FetchRuns(fetchFetch'[g])
       PROVE  fetchActive'[fetchFetch'[g].id] = [pc |-> "held", by |-> g]
  <2>1. CASE g = f
    BY <2>1, <1>4, <1>7, <1>9
  <2>2. CASE g # f
    <3>1. fetchFetch'[g] = fetchFetch[g]
      BY <2>2, <1>7
    <3>2. fetchActive[fetchFetch[g].id] = [pc |-> "held", by |-> g] /\ fetchFetch[g].id \in Ids
      BY <3>1, <1>10 DEF FetchInv, RegistryInv, GoodInv, GoodFetch, FetchRecord
    <3>3. fetchFetch[g].id # id
      BY <3>2, <1>1 DEF Fetch!NoFetch
    <3> QED
      BY <3>1, <3>2, <3>3, <1>9
  <2> QED
    BY <2>1, <2>2
<1> HIDE DEF x
<1>11. ASSUME NEW i \in Ids, fetchActive'[i] # Fetch!NoFetch
       PROVE  /\ fetchActive'[i].by \in Actors
              /\ FetchRuns(fetchFetch'[fetchActive'[i].by]) /\ fetchFetch'[fetchActive'[i].by].id = i
  <2>1. CASE i = id
    BY <2>1, <1>4, <1>6, <1>7, <1>9
  <2>2. CASE i # id
    <3>1. fetchActive'[i] = fetchActive[i]
      BY <2>2, <1>9
    <3>2. fetchActive[i].by \in Actors /\ FetchRuns(fetchFetch[fetchActive[i].by])
          /\ fetchFetch[fetchActive[i].by].id = i
      BY <3>1, <1>11 DEF FetchInv, RegistryInv
    <3>3. fetchActive[i].by # f
      BY <3>2, <1>1 DEF FetchRuns
    <3> QED
      BY <3>1, <3>2, <3>3, <1>7
  <2> QED
    BY <2>1, <2>2
<1>12. RegistryInv'
  BY <1>9, <1>10, <1>11 DEF RegistryInv
<1>13. LimitInv'
  <2>1. HeldIds' = HeldIds \cup {id} /\ id \notin HeldIds
    BY <1>1, <1>6, <1>9 DEF HeldIds
  <2>2. IsFiniteSet(HeldIds') /\ Cardinality(HeldIds') = Cardinality(HeldIds) + 1
    BY <2>1, FS_AddElement DEF FetchInv, LimitInv
  <2>3. Cardinality(HeldIds) \in Nat
    BY FS_CardinalityType DEF FetchInv, LimitInv
  <2> QED
    BY <2>2, <2>3, <1>2, FetchAssumption DEF LimitInv
<1> QED
  BY <1>1, <1>8, <1>12, <1>13 DEF FetchInv

LEMMA DialKeeps ==
  ASSUME FetchInv, NEW f \in Actors, NEW protects \in BOOLEAN, Fetch!Dial(f, protects)
  PROVE  FetchInv'
<1>1. fetchFetch[f].pc = "dial" /\ FetchRuns(fetchFetch[f])
  BY DEF Fetch!Dial, FetchRuns
<1>2. CASE Fetch!Answer(f, "subscription_timeout") \/ Fetch!Answer(f, "subscription_protection")
  BY <1>1, <1>2, FetchAnswers
<1> DEFINE y == [fetchFetch[f] EXCEPT !.pc = "hop"]
<1>3. CASE fetchFetch' = [fetchFetch EXCEPT ![f].pc = "hop"] /\ UNCHANGED <<fetchActive, fetchSnapshot>>
  <2>1. fetchFetch' = [fetchFetch EXCEPT ![f] = y]
    BY <1>3
  <2>2. fetchFetch[f] \in FetchRecord
    BY <1>1 DEF FetchInv, GoodInv, GoodFetch
  <2>3. /\ y \in FetchRecord /\ y.pc = "hop" /\ y.id = fetchFetch[f].id /\ y.wire = fetchFetch[f].wire
        /\ y.left = fetchFetch[f].left /\ y.headers = fetchFetch[f].headers
    BY <2>2 DEF FetchRecord
  <2> HIDE DEF y
  <2>4. GoodFetch(y) /\ FetchRuns(y)
    BY <2>3, <1>1 DEF FetchInv, GoodInv, GoodFetch, FetchRuns
  <2> QED
    BY <2>1, <2>3, <2>4, <1>1, <1>3, FetchGoesOn
<1> QED
  BY <1>2, <1>3 DEF Fetch!Dial

LEMMA RedirectKeeps ==
  ASSUME FetchInv, NEW f \in Actors, NEW n \in 0 .. 1, NEW next \in Urls, Fetch!Redirect(f, n, next)
  PROVE  FetchInv'
<1> DEFINE r == fetchFetch[f]
           kept == IF Fetch!sameSubscriptionOrigin(r.target, next) THEN r.headers
                   ELSE Fetch!retainedSubscriptionHeaders(r.headers)
           gone == r.left \/ Fetch!Origin(r.target) # Fetch!Origin(next)
           y == [pc |-> "dial", id |-> r.id, target |-> next, headers |-> kept,
                 redirects |-> r.redirects + 1, wire |-> r.wire + n, ctx |-> r.ctx, left |-> gone]
<1>1. r.pc = "hop" /\ FetchRuns(r)
  BY DEF Fetch!Redirect, FetchRuns
<1>2. r \in FetchRecord /\ r.wire <= wireLimit /\ (r.left => "credential" \notin r.headers)
  BY <1>1 DEF FetchInv, GoodInv, GoodFetch
<1>3. CASE Fetch!Answer(f, "subscription_too_large")
  BY <1>1, <1>3, FetchAnswers
<1>4. CASE Fetch!Answered(f, "subscription_transport")
  BY <1>1, <1>4, FetchEnds
<1>5. CASE /\ ~(r.wire + n > wireLimit) /\ fetchFetch' = [fetchFetch EXCEPT ![f] = y]
           /\ UNCHANGED <<fetchActive, fetchSnapshot>>
  <2>1. kept \in SUBSET {"agent", "credential"}
    BY <1>2 DEF FetchRecord, Fetch!retainedSubscriptionHeaders
  <2>2. gone => "credential" \notin kept
    <3>1. Fetch!Origin(r.target) # Fetch!Origin(next) => ~Fetch!sameSubscriptionOrigin(r.target, next)
      BY DEF Fetch!Origin, Fetch!sameSubscriptionOrigin, Fetch!effectiveSubscriptionPort
    <3> QED
      BY <3>1, <1>2 DEF Fetch!retainedSubscriptionHeaders
  <2>3. gone \in BOOLEAN
    BY <1>2 DEF FetchRecord
  <2>4. next \in FetchTarget
    BY DEF FetchTarget
  <2>5. r.wire + n \in Nat /\ r.redirects + 1 \in Nat /\ r.wire + n <= wireLimit
    BY <1>2, <1>5, FetchAssumption DEF FetchRecord
  <2> HIDE DEF kept, gone
  <2>6. y \in FetchRecord
    BY <2>1, <2>3, <2>4, <2>5, <1>2 DEF FetchRecord
  <2>7. /\ y.pc = "dial" /\ y.id = r.id /\ y.wire = r.wire + n /\ y.left = gone /\ y.headers = kept
    OBVIOUS
  <2> HIDE DEF y, r
  <2>8. GoodFetch(y) /\ FetchRuns(y)
    BY <2>2, <2>5, <2>6, <2>7 DEF GoodFetch, FetchRuns
  <2>9. y.id = fetchFetch[f].id /\ FetchRuns(fetchFetch[f])
    BY <2>7, <1>1 DEF r
  <2> QED
    BY <2>8, <2>9, <1>5, FetchGoesOn
<1> QED
  BY <1>3, <1>4, <1>5 DEF Fetch!Redirect, Fetch!count

LEMMA HopEndsKeeps ==
  ASSUME FetchInv, NEW f \in Actors, (\E n \in 0 .. maxBytes + 1 : Fetch!Body(f, n)) \/ Fetch!Fails(f)
  PROVE  FetchInv'
<1>1. FetchRuns(fetchFetch[f])
  BY DEF Fetch!Body, Fetch!Fails, FetchRuns
<1>2. PICK err \in {"subscription_too_large", "ok", "subscription_timeout", "subscription_transport"} :
        Fetch!Answer(f, err)
  BY DEF Fetch!Body, Fetch!Fails
<1> QED
  BY <1>1, <1>2, FetchAnswers

LEMMA FetchReturnKeeps ==
  ASSUME FetchInv, NEW f \in Actors, Fetch!Return(f)
  PROVE  FetchInv'
<1> DEFINE y == Fetch!NoFetch
<1>1. /\ fetchFetch[f].pc = "answered" /\ fetchFetch' = [fetchFetch EXCEPT ![f] = y]
      /\ UNCHANGED <<fetchActive, fetchSnapshot>>
  BY DEF Fetch!Return
<1>2. GoodFetch(y) /\ ~FetchRuns(y) /\ ~FetchRuns(fetchFetch[f])
  BY <1>1 DEF GoodFetch, FetchRuns, Fetch!NoFetch
<1> HIDE DEF y
<1> QED
  BY <1>1, <1>2, FetchGoesOn

\* The context of a fetch under way ends.
LEMMA ContextEnds ==
  ASSUME FetchInv, NEW f \in Actors, FetchRuns(fetchFetch[f]), NEW how \in {"cancelled", "expired"},
         fetchFetch'[f] = [fetchFetch[f] EXCEPT !.ctx = how], DOMAIN fetchFetch' = Actors,
         \A g \in Actors : g # f => fetchFetch'[g] = fetchFetch[g],
         fetchActive' = fetchActive, fetchSnapshot' \subseteq fetchSnapshot
  PROVE  FetchInv'
<1> DEFINE y == [fetchFetch[f] EXCEPT !.ctx = how]
<1>1. fetchFetch[f] \in FetchRecord
  BY DEF FetchInv, GoodInv, GoodFetch
<1>2. /\ y \in FetchRecord /\ y.pc = fetchFetch[f].pc /\ y.id = fetchFetch[f].id /\ y.wire = fetchFetch[f].wire
      /\ y.left = fetchFetch[f].left /\ y.headers = fetchFetch[f].headers
  BY <1>1 DEF FetchRecord
<1>3. fetchFetch'[f] = y
  OBVIOUS
<1> HIDE DEF y
<1>4. GoodFetch(y) /\ FetchRuns(y)
  BY <1>2 DEF FetchInv, GoodInv, GoodFetch, FetchRuns
<1>5. GoodInv'
  BY <1>3, <1>4 DEF FetchInv, GoodInv
<1>6. RegistryInv'
  BY <1>2, <1>3, <1>4 DEF FetchInv, RegistryInv
<1>7. LimitInv' /\ fetchSnapshot' \subseteq Actors
  BY DEF FetchInv, LimitInv, HeldIds
<1> QED
  BY <1>5, <1>6, <1>7 DEF FetchInv

LEMMA ExpiresKeeps ==
  ASSUME FetchInv, NEW f \in Actors, Fetch!Expires(f)
  PROVE  FetchInv'
<1>1. /\ FetchRuns(fetchFetch[f]) /\ fetchFetch' = [fetchFetch EXCEPT ![f].ctx = "expired"]
      /\ UNCHANGED <<fetchActive, fetchSnapshot>>
  BY DEF Fetch!Expires, Fetch!Running, FetchRuns
<1>2. /\ fetchFetch'[f] = [fetchFetch[f] EXCEPT !.ctx = "expired"] /\ DOMAIN fetchFetch' = Actors
      /\ \A g \in Actors : g # f => fetchFetch'[g] = fetchFetch[g]
  BY <1>1 DEF FetchInv, GoodInv
<1> QED
  BY <1>1, <1>2, ContextEnds

LEMMA CancelsKeeps ==
  ASSUME FetchInv, Fetch!Cancels
  PROVE  FetchInv'
<1>1. PICK f \in fetchSnapshot :
        fetchSnapshot' = fetchSnapshot \ {f} /\ fetchFetch' = Fetch!Cancelled({f}) /\ fetchActive' = fetchActive
  BY DEF Fetch!Cancels
<1>2. f \in Actors
  BY DEF FetchInv
<1>3. /\ DOMAIN fetchFetch' = Actors
      /\ \A g \in Actors : g # f => fetchFetch'[g] = fetchFetch[g]
  BY <1>1 DEF Fetch!Cancelled
<1>4. CASE FetchRuns(fetchFetch[f]) /\ fetchFetch[f].ctx = "live"
  <2>1. fetchFetch'[f] = [fetchFetch[f] EXCEPT !.ctx = "cancelled"]
    BY <1>1, <1>2, <1>4 DEF Fetch!Cancelled, Fetch!Running, FetchRuns
  <2> QED
    BY <2>1, <1>1, <1>2, <1>3, <1>4, ContextEnds
<1>5. CASE ~(FetchRuns(fetchFetch[f]) /\ fetchFetch[f].ctx = "live")
  <2>1. fetchFetch'[f] = fetchFetch[f]
    BY <1>1, <1>2, <1>5 DEF Fetch!Cancelled, Fetch!Running, FetchRuns
  <2>2. \A g \in Actors : fetchFetch'[g] = fetchFetch[g]
    BY <2>1, <1>3
  <2>3. GoodInv' /\ RegistryInv'
    BY <2>2, <1>1, <1>3 DEF FetchInv, GoodInv, RegistryInv
  <2>4. LimitInv' /\ fetchSnapshot' \subseteq Actors
    BY <1>1 DEF FetchInv, LimitInv, HeldIds
  <2> QED
    BY <2>3, <2>4 DEF FetchInv
<1> QED
  BY <1>4, <1>5

LEMMA LookUpKeeps ==
  ASSUME FetchInv, (\E id \in Ids : Fetch!cancelSubscriptionFetch(id)) \/ Fetch!cancelSubscriptionFetches
  PROVE  FetchInv'
<1>1. UNCHANGED <<fetchActive, fetchFetch>>
  BY DEF Fetch!cancelSubscriptionFetch, Fetch!cancelSubscriptionFetches
<1>2. fetchSnapshot' \subseteq Actors
  BY DEF Fetch!cancelSubscriptionFetch, Fetch!cancelSubscriptionFetches, FetchInv, RegistryInv
<1> QED
  BY <1>1, <1>2 DEF FetchInv, GoodInv, RegistryInv, LimitInv, HeldIds

\* The running fetches are no more than the registry holds.
LEMMA RunningFits ==
  ASSUME FetchInv
  PROVE  Fetch!Cardinality(Fetch!Running) <= maxConcurrent
<1> DEFINE R == Fetch!Running
           place == [f \in R |-> fetchFetch[f].id]
<1>1. ASSUME NEW f \in R
      PROVE  /\ f \in Actors /\ FetchRuns(fetchFetch[f]) /\ fetchFetch[f].id \in HeldIds
             /\ fetchActive[fetchFetch[f].id] = [pc |-> "held", by |-> f]
  <2>1. f \in Actors /\ FetchRuns(fetchFetch[f])
    BY DEF Fetch!Running, FetchRuns
  <2>2. fetchFetch[f] \in FetchRecord /\ fetchActive[fetchFetch[f].id] = [pc |-> "held", by |-> f]
    BY <2>1 DEF FetchInv, GoodInv, GoodFetch, RegistryInv
  <2>3. fetchFetch[f].id \in Ids
    BY <2>2 DEF FetchRecord
  <2>4. [pc |-> "held", by |-> f] # Fetch!NoFetch
    BY DEF Fetch!NoFetch
  <2> QED
    BY <2>1, <2>2, <2>3, <2>4 DEF HeldIds
<1>2. place \in [R -> HeldIds]
  BY <1>1
<1>3. ASSUME NEW f \in R, NEW g \in R, place[f] = place[g]
      PROVE  f = g
  <2>1. [pc |-> "held", by |-> f] = [pc |-> "held", by |-> g]
    BY <1>1, <1>3
  <2> QED
    BY <2>1
<1>4. place \in Injection(R, HeldIds)
  BY <1>2, <1>3 DEF Injection, IsInjective
<1>5. IsFiniteSet(R) /\ Cardinality(R) <= Cardinality(HeldIds)
  BY <1>4, FS_Injection DEF FetchInv, LimitInv
<1>6. Cardinality(R) \in Nat /\ Cardinality(HeldIds) \in Nat
  BY <1>5, FS_CardinalityType DEF FetchInv, LimitInv
<1>7. Cardinality(R) <= maxConcurrent
  BY <1>5, <1>6, FetchAssumption DEF FetchInv, LimitInv
<1> QED
  BY <1>7 DEF Cardinality, Fetch!Cardinality

LEMMA FetchStarts ==
  ASSUME Fetch!Init
  PROVE  FetchInv
<1>1. /\ fetchActive = [i \in Ids |-> Fetch!NoFetch]
      /\ fetchFetch = [f \in Actors |-> Fetch!NoFetch]
      /\ fetchSnapshot = {}
  BY DEF Fetch!Init
<1>2. ~FetchRuns(Fetch!NoFetch) /\ GoodFetch(Fetch!NoFetch)
  BY DEF FetchRuns, GoodFetch, Fetch!NoFetch
<1>3. GoodInv /\ RegistryInv
  BY <1>1, <1>2 DEF GoodInv, RegistryInv
<1>4. HeldIds = {}
  BY <1>1 DEF HeldIds
<1>5. LimitInv
  BY <1>4, FS_EmptySet, FetchAssumption DEF LimitInv
<1> QED
  BY <1>1, <1>3, <1>5 DEF FetchInv

\* For every number of fetches, ids and redirects: credentials go only to the origin the user gave
\* them for, the registry holds exactly the running fetches and no more than it may, and the hops
\* of a fetch keep within its bytes (handleFetchSubscription, fetchSubscription).
THEOREM FetchesAreContained == Fetch!Spec => []FetchIsContained
<1>1. Fetch!Init => FetchInv
  BY FetchStarts
<1>2. FetchInv /\ [Fetch!Next]_(Fetch!vars) => FetchInv'
  <2> SUFFICES ASSUME FetchInv, [Fetch!Next]_(Fetch!vars)
               PROVE  FetchInv'
    OBVIOUS
  <2>1. ASSUME NEW f \in Actors, NEW id \in Ids, NEW u \in Urls, NEW h \in Headers,
               Fetch!handleFetchSubscription(f, id, u, h)
        PROVE  FetchInv'
    BY <2>1, RegisterKeeps
  <2>2. ASSUME NEW f \in Actors, NEW p \in BOOLEAN, Fetch!Dial(f, p)
        PROVE  FetchInv'
    BY <2>2, DialKeeps
  <2>3. ASSUME NEW f \in Actors, (\E n \in 0 .. maxBytes + 1 : Fetch!Body(f, n)) \/ Fetch!Fails(f)
        PROVE  FetchInv'
    BY <2>3, HopEndsKeeps
  <2>4. ASSUME NEW f \in Actors, NEW n \in 0 .. 1, NEW u \in Urls, Fetch!Redirect(f, n, u)
        PROVE  FetchInv'
    BY <2>4, RedirectKeeps
  <2>5. ASSUME NEW f \in Actors, Fetch!Return(f) \/ Fetch!Expires(f)
        PROVE  FetchInv'
    BY <2>5, FetchReturnKeeps, ExpiresKeeps
  <2>6. CASE (\E id \in Ids : Fetch!cancelSubscriptionFetch(id)) \/ Fetch!cancelSubscriptionFetches \/ Fetch!Cancels
    BY <2>6, LookUpKeeps, CancelsKeeps
  <2>7. CASE UNCHANGED Fetch!vars
    BY <2>7 DEF Fetch!vars, FetchInv, GoodInv, RegistryInv, LimitInv, HeldIds
  <2> QED
    BY <2>1, <2>2, <2>3, <2>4, <2>5, <2>6, <2>7 DEF Fetch!Next
<1>3. FetchInv => FetchIsContained
  <2> SUFFICES ASSUME FetchInv
               PROVE  FetchIsContained
    OBVIOUS
  <2>1. \A f \in Fetch!Running : f \in Actors /\ FetchRuns(fetchFetch[f])
    BY DEF Fetch!Running, FetchRuns
  <2>2. ASSUME NEW f \in Fetch!Running
        PROVE  /\ fetchFetch[f].left => "credential" \notin fetchFetch[f].headers
               /\ fetchFetch[f].wire <= wireLimit
               /\ fetchActive[fetchFetch[f].id] = [pc |-> "held", by |-> f]
    <3>1. f \in Actors /\ FetchRuns(fetchFetch[f]) /\ GoodFetch(fetchFetch[f])
      BY <2>1 DEF FetchInv, GoodInv
    <3>2. fetchActive[fetchFetch[f].id] = [pc |-> "held", by |-> f]
      BY <3>1 DEF FetchInv, RegistryInv
    <3> QED
      BY <3>1, <3>2 DEF GoodFetch
  <2>3. \A i \in Ids : fetchActive[i] # Fetch!NoFetch => fetchActive[i].by \in Fetch!Running
    BY DEF FetchInv, RegistryInv, Fetch!Running, FetchRuns
  <2>4. \A f \in Actors : fetchFetch[f].pc = "answered" /\ fetchFetch[f].said = "cancelled" =>
          fetchFetch[f].ctx = "cancelled"
    BY DEF FetchInv, GoodInv, GoodFetch
  <2> QED
    BY <2>2, <2>3, <2>4, RunningFits DEF FetchIsContained, Fetch!FetchIsContained
<1> QED
  BY <1>1, <1>2, <1>3, PTL DEF Fetch!Spec

-----------------------------------------------------------------------------
(* Delay tests of a balancer.                                              *)

NodeIds == 1 .. Nodes
DelayWorker == [pc : {"loop", "slot", "test", "send", "done"}, node : 0 .. Nodes, value : Int]

DelayTypes ==
    /\ delayNext \in Nat /\ delayRivals \in Nat
    /\ delayWorker \in [Actors -> DelayWorker]
    /\ delayResults \in Seq(Int)
    /\ delayTested \in [NodeIds -> Int]
    /\ delayGot \in [value : Int, complete : BOOLEAN, received : Nat]

HasNode(w) == delayWorker[w].pc \in {"slot", "test"}

\* A node is one worker's, from the moment it is taken until it has its test.
TakenInv ==
    /\ \A n \in NodeIds : n > delayNext => delayTested[n] = 0
    /\ \A w \in Actors : HasNode(w) =>
         /\ delayWorker[w].node \in NodeIds /\ delayWorker[w].node <= delayNext
         /\ delayTested[delayWorker[w].node] = 0 /\ delayWorker[w].value = 0
    /\ \A v, w \in Actors : HasNode(v) /\ HasNode(w) /\ delayWorker[v].node = delayWorker[w].node => v = w

\* What is under way, or was received, is a test's.
CarriedInv ==
    /\ \A w \in Actors : delayWorker[w].pc = "send" /\ delayWorker[w].value # 0 =>
         delayWorker[w].node \in NodeIds /\ delayTested[delayWorker[w].node] = delayWorker[w].value
    /\ \A k \in DOMAIN delayResults : delayResults[k] # 0 => \E n \in NodeIds : delayTested[n] = delayResults[k]
    /\ delayGot.value \in {-2, 0} \/ \E n \in NodeIds : delayTested[n] = delayGot.value
    /\ delayGot.value <= 0 /\ delayGot.value >= -2
    /\ delayGot.complete => delayGot.value < 0
    /\ \A n \in NodeIds : delayTested[n] >= -2

\* While nobody has answered, no test is lost.
Arrives(n) ==
    \/ \E w \in Actors : delayWorker[w].pc = "send" /\ delayWorker[w].value = delayTested[n]
    \/ \E k \in DOMAIN delayResults : delayResults[k] = delayTested[n]
    \/ delayTested[n] < 0 /\ delayTested[n] <= delayGot.value
ArrivesInv == delayMain.pc = "receive" => \A n \in NodeIds : delayTested[n] # 0 => Arrives(n)

\* What is received while no untested node was, is not more than was tested.
TestedNodes == {n \in NodeIds : delayTested[n] # 0}
Carriers == {w \in Actors : delayWorker[w].pc = "send" /\ delayWorker[w].value # 0}
Clean == delayGot.complete /\ \A k \in DOMAIN delayResults : delayResults[k] # 0
CountInv ==
    /\ IsFiniteSet(Carriers)
    /\ Clean => delayGot.received + Len(delayResults) + Cardinality(Carriers) <= Cardinality(TestedNodes)

\* What was answered stands.
AnswerInv ==
    delayMain.pc = "answer" /\ delayMain.tested =>
        IF delayMain.value > 0 THEN \E n \in NodeIds : delayTested[n] = delayMain.value
        ELSE /\ \A n \in NodeIds : delayTested[n] < 0
             /\ \A n \in NodeIds : delayTested[n] <= delayMain.value
             /\ \E n \in NodeIds : delayTested[n] = delayMain.value

Testers == {w \in Actors : delayWorker[w].pc = "test"}
SlotsInv == IsFiniteSet(Testers) /\ delayRivals + Cardinality(Testers) <= Slots

DelayInv == DelayTypes /\ TakenInv /\ CarriedInv /\ ArrivesInv /\ CountInv /\ AnswerInv /\ SlotsInv

\* The greatest is what no other is above.
LEMMA DelayMax ==
  ASSUME NEW S, S \subseteq Int, NEW v \in S, \A y \in S : v >= y
  PROVE  Delays!Max(S) = v
<1> DEFINE IsMax(x) == \A y \in S : x >= y
<1>1. Delays!Max(S) = CHOOSE x \in S : IsMax(x)
  BY DEF Delays!Max
<1>2. \E x \in S : IsMax(x)
  OBVIOUS
<1> DEFINE m == CHOOSE x \in S : IsMax(x)
<1> HIDE DEF IsMax
<1>3. m \in S /\ IsMax(m)
  BY <1>2
<1> HIDE DEF m
<1>4. m \in Int /\ v \in Int /\ m >= v /\ v >= m
  BY <1>3 DEF IsMax
<1>5. m = v
  BY <1>4
<1> QED
  BY <1>1, <1>5 DEF m

LEMMA TestedIsFinite ==
  /\ IsFiniteSet(NodeIds) /\ Cardinality(NodeIds) = Nodes
  /\ IsFiniteSet(TestedNodes) /\ Cardinality(TestedNodes) \in Nat /\ Cardinality(TestedNodes) <= Nodes
  /\ Cardinality(TestedNodes) = Nodes => TestedNodes = NodeIds
<1>1. Nodes \in Nat
  BY DelayAssumption
<1>2. IsFiniteSet(NodeIds) /\ Cardinality(NodeIds) = Nodes
  BY <1>1, FS_Interval DEF NodeIds
<1>3. TestedNodes \subseteq NodeIds
  BY DEF TestedNodes
<1>4. /\ IsFiniteSet(TestedNodes) /\ Cardinality(TestedNodes) <= Cardinality(NodeIds)
      /\ Cardinality(TestedNodes) = Cardinality(NodeIds) => TestedNodes = NodeIds
  BY <1>2, <1>3, FS_Subset
<1>5. Cardinality(TestedNodes) \in Nat
  BY <1>4, FS_CardinalityType
<1> QED
  BY <1>2, <1>4, <1>5

LEMMA DelayStarts ==
  ASSUME Delays!Init
  PROVE  DelayInv
<1> DEFINE x == [pc |-> "loop", node |-> 0, value |-> 0]
           g == [value |-> -2, complete |-> TRUE, received |-> 0]
<1>1. /\ delayNext = 0 /\ delayRivals = 0 /\ delayResults = <<>>
      /\ delayWorker = [w \in Actors |-> x] /\ delayTested = [n \in NodeIds |-> 0]
      /\ delayMain = [pc |-> "receive"] /\ delayGot = g
  BY DEF Delays!Init, Delays!Nil, Delays!delayFailed, NodeIds
<1>2. x \in DelayWorker /\ x.pc = "loop"
  BY DelayAssumption DEF DelayWorker
<1>3. g \in [value : Int, complete : BOOLEAN, received : Nat] /\ g.value = -2 /\ g.complete /\ g.received = 0
  OBVIOUS
<1> HIDE DEF x, g
<1>4. DelayTypes
  BY <1>1, <1>2, <1>3 DEF DelayTypes
<1>5. TakenInv
  BY <1>1, <1>2 DEF TakenInv, HasNode
<1>6. CarriedInv
  BY <1>1, <1>2, <1>3 DEF CarriedInv
<1>7. ArrivesInv
  BY <1>1 DEF ArrivesInv
<1>8. Carriers = {} /\ Testers = {}
  BY <1>1, <1>2 DEF Carriers, Testers
<1>9. CountInv
  BY <1>1, <1>3, <1>8, FS_EmptySet, TestedIsFinite DEF CountInv
<1>10. AnswerInv
  BY <1>1 DEF AnswerInv
<1>11. SlotsInv
  BY <1>1, <1>8, FS_EmptySet, DelayAssumption DEF SlotsInv
<1> QED
  BY <1>4, <1>5, <1>6, <1>7, <1>9, <1>10, <1>11 DEF DelayInv

\* A worker moves on with its node, or takes the next one, or gives nothing to send.
LEMMA WorkerMovesOn ==
  ASSUME DelayInv, NEW w \in Actors, NEW y \in DelayWorker, delayWorker' = [delayWorker EXCEPT ![w] = y],
         UNCHANGED <<delayRivals, delayResults, delayTested, delayMain, delayGot>>,
         delayNext' \in Nat, delayNext' >= delayNext,
         y.pc \in {"slot", "test"} =>
           /\ y.value = 0
           /\ \/ HasNode(w) /\ y.node = delayWorker[w].node
              \/ y.node = delayNext + 1 /\ y.node \in NodeIds /\ delayNext' = delayNext + 1,
         y.pc = "send" => y.value = 0,
         delayWorker[w].pc = "send" => delayMain.pc # "receive"
  PROVE  DelayTypes' /\ TakenInv' /\ CarriedInv' /\ ArrivesInv' /\ CountInv' /\ AnswerInv'
<1>1. /\ delayWorker' \in [Actors -> DelayWorker] /\ delayWorker'[w] = y
      /\ \A v \in Actors : v # w => delayWorker'[v] = delayWorker[v]
  BY DEF DelayInv, DelayTypes
<1>2. DelayTypes'
  BY <1>1 DEF DelayInv, DelayTypes
<1>3. TakenInv'
  <2>1. \A n \in NodeIds : n > delayNext' => delayTested'[n] = 0
    BY DEF DelayInv, TakenInv, DelayTypes, NodeIds
  <2>2. ASSUME NEW v \in Actors, HasNode(v)'
        PROVE  /\ delayWorker'[v].node \in NodeIds /\ delayWorker'[v].node <= delayNext'
               /\ delayTested'[delayWorker'[v].node] = 0 /\ delayWorker'[v].value = 0
    <3>1. CASE v # w
      <4>1. HasNode(v) /\ delayWorker'[v] = delayWorker[v]
        BY <3>1, <2>2, <1>1 DEF HasNode
      <4> QED
        BY <4>1 DEF DelayInv, TakenInv, DelayTypes, NodeIds
    <3>2. CASE v = w /\ HasNode(w) /\ y.node = delayWorker[w].node
      <4>1. y.value = 0
        BY <3>2, <2>2, <1>1 DEF HasNode
      <4> QED
        BY <4>1, <3>2, <1>1 DEF DelayInv, TakenInv, DelayTypes, NodeIds
    <3>3. CASE v = w /\ y.node = delayNext + 1 /\ y.node \in NodeIds /\ delayNext' = delayNext + 1
      <4>1. y.value = 0
        BY <3>3, <2>2, <1>1 DEF HasNode
      <4>2. delayTested[y.node] = 0
        BY <3>3 DEF DelayInv, TakenInv, DelayTypes, NodeIds
      <4> QED
        BY <4>1, <4>2, <3>3, <1>1 DEF DelayInv, DelayTypes
    <3> QED
      BY <3>1, <3>2, <3>3, <2>2, <1>1 DEF HasNode
  <2>3. ASSUME NEW u \in Actors, NEW v \in Actors, HasNode(u)', HasNode(v)',
               delayWorker'[u].node = delayWorker'[v].node, u # v
        PROVE  FALSE
    <3>1. ASSUME NEW a \in Actors, a # w, HasNode(a)', HasNode(w)', y.node = delayWorker'[a].node
          PROVE  FALSE
      <4>1. HasNode(a) /\ delayWorker'[a] = delayWorker[a]
        BY <3>1, <1>1 DEF HasNode
      <4>2. delayWorker[a].node <= delayNext /\ delayWorker[a].node \in NodeIds
        BY <4>1 DEF DelayInv, TakenInv
      <4>3. y.node # delayNext + 1
        BY <4>1, <4>2, <3>1 DEF DelayInv, DelayTypes, NodeIds
      <4>4. HasNode(w) /\ y.node = delayWorker[w].node
        BY <4>3, <3>1, <1>1 DEF HasNode
      <4> QED
        BY <4>1, <4>4, <3>1 DEF DelayInv, TakenInv
    <3>2. CASE u # w /\ v # w
      BY <3>2, <2>3, <1>1 DEF DelayInv, TakenInv, HasNode
    <3>3. CASE u = w
      BY <3>3, <3>1, <2>3, <1>1
    <3>4. CASE v = w
      BY <3>4, <3>1, <2>3, <1>1
    <3> QED
      BY <3>2, <3>3, <3>4
  <2> QED
    BY <2>1, <2>2, <2>3 DEF TakenInv
<1>4. Carriers' \subseteq Carriers
  BY <1>1 DEF Carriers
<1>5. CarriedInv'
  BY <1>1 DEF DelayInv, CarriedInv
<1>6. ArrivesInv'
  <2> SUFFICES ASSUME delayMain.pc = "receive", NEW n \in NodeIds, delayTested[n] # 0
               PROVE  Arrives(n)'
    BY DEF ArrivesInv
  <2>1. Arrives(n)
    BY DEF DelayInv, ArrivesInv
  <2>2. CASE \E v \in Actors : delayWorker[v].pc = "send" /\ delayWorker[v].value = delayTested[n]
    BY <2>2, <1>1 DEF Arrives
  <2> QED
    BY <2>1, <2>2 DEF Arrives
<1>7. CountInv'
  <2>1. IsFiniteSet(Carriers)
    BY DEF DelayInv, CountInv
  <2>2. IsFiniteSet(Carriers') /\ Cardinality(Carriers') <= Cardinality(Carriers)
    BY <2>1, <1>4, FS_Subset
  <2>3. Cardinality(Carriers) \in Nat /\ Cardinality(Carriers') \in Nat
    BY <2>1, <2>2, FS_CardinalityType
  <2>4. Clean' = Clean /\ TestedNodes' = TestedNodes /\ Len(delayResults') = Len(delayResults)
    BY DEF Clean, TestedNodes
  <2>5. Len(delayResults) \in Nat /\ delayGot.received \in Nat /\ delayGot' = delayGot
    BY DEF DelayInv, DelayTypes
  <2> QED
    BY <2>1, <2>2, <2>3, <2>4, <2>5, TestedIsFinite DEF DelayInv, CountInv
<1>8. AnswerInv'
  BY DEF DelayInv, AnswerInv
<1> QED
  BY <1>2, <1>3, <1>5, <1>6, <1>7, <1>8

\* The pool: nobody comes to test, or one for whom there is a slot.
LEMMA PoolKeeps ==
  ASSUME DelayInv, Testers' \subseteq Testers, delayRivals' = delayRivals
  PROVE  SlotsInv'
<1>1. IsFiniteSet(Testers') /\ Cardinality(Testers') <= Cardinality(Testers)
  BY FS_Subset DEF DelayInv, SlotsInv
<1>2. Cardinality(Testers) \in Nat /\ Cardinality(Testers') \in Nat
  BY <1>1, FS_CardinalityType DEF DelayInv, SlotsInv
<1> QED
  BY <1>1, <1>2, DelayAssumption DEF DelayInv, SlotsInv, DelayTypes

LEMMA UsedIsTesters ==
  Delays!Used = delayRivals + Cardinality(Testers)
BY DEF Delays!Used, Testers, Cardinality, Delays!Cardinality

LEMMA TakeKeeps ==
  ASSUME DelayInv, NEW w \in Actors, Delays!Take(w)
  PROVE  DelayInv'
<1> DEFINE x == delayWorker[w]
<1>1. /\ x.pc = "loop" /\ x \in DelayWorker
      /\ UNCHANGED <<delayRivals, delayResults, delayTested, delayMain, delayGot>>
  BY DEF Delays!Take, DelayInv, DelayTypes
<1>2. PICK y \in DelayWorker :
        /\ delayWorker' = [delayWorker EXCEPT ![w] = y]
        /\ delayNext' \in Nat /\ delayNext' >= delayNext
        /\ \/ y.pc = "done"
           \/ /\ y.pc = "slot" /\ y.value = 0
              /\ y.node = delayNext + 1 /\ y.node \in NodeIds /\ delayNext' = delayNext + 1
  <2>1. CASE delayWait # "live" \/ delayNext >= Nodes
    <3> DEFINE y == [x EXCEPT !.pc = "done"]
    <3>1. y \in DelayWorker /\ y.pc = "done"
      BY <1>1 DEF DelayWorker
    <3>2. delayWorker' = [delayWorker EXCEPT ![w].pc = "done"] /\ delayNext' \in {delayNext, delayNext + 1}
      BY <2>1 DEF Delays!Take
    <3>3. delayWorker' = [delayWorker EXCEPT ![w] = y]
      BY <3>2
    <3>4. delayNext' \in Nat /\ delayNext' >= delayNext
      BY <3>2 DEF DelayInv, DelayTypes
    <3> HIDE DEF y
    <3> QED
      BY <3>1, <3>3, <3>4
  <2>2. CASE ~(delayWait # "live" \/ delayNext >= Nodes)
    <3> DEFINE y == [pc |-> "slot", node |-> delayNext + 1, value |-> 0]
    <3>1. delayNext + 1 \in NodeIds /\ delayNext \in Nat
      BY <2>2, DelayAssumption DEF DelayInv, DelayTypes, NodeIds
    <3>2. y \in DelayWorker /\ y.pc = "slot" /\ y.value = 0 /\ y.node = delayNext + 1
      BY <3>1, DelayAssumption DEF DelayWorker, NodeIds
    <3>3. delayWorker' = [delayWorker EXCEPT ![w] = y] /\ delayNext' = delayNext + 1
      BY <2>2 DEF Delays!Take, Delays!Nil
    <3>4. delayNext' \in Nat /\ delayNext' >= delayNext
      BY <3>1, <3>3
    <3>5. y.node \in NodeIds
      BY <3>1, <3>2
    <3> HIDE DEF y
    <3> QED
      BY <3>2, <3>3, <3>4, <3>5
  <2> QED
    BY <2>1, <2>2
<1>3. DelayTypes' /\ TakenInv' /\ CarriedInv' /\ ArrivesInv' /\ CountInv' /\ AnswerInv'
  BY <1>1, <1>2, WorkerMovesOn
<1>4. Testers' \subseteq Testers
  BY <1>2 DEF Testers, DelayInv, DelayTypes
<1>5. SlotsInv'
  BY <1>1, <1>4, PoolKeeps
<1> QED
  BY <1>3, <1>5 DEF DelayInv

LEMMA DelayAcquireKeeps ==
  ASSUME DelayInv, NEW w \in Actors, Delays!acquire(w)
  PROVE  DelayInv'
<1> DEFINE x == delayWorker[w]
<1>1. /\ x.pc = "slot" /\ x \in DelayWorker /\ HasNode(w)
      /\ UNCHANGED <<delayNext, delayRivals, delayResults, delayTested, delayMain, delayGot>>
  BY DEF Delays!acquire, DelayInv, DelayTypes, HasNode
<1>2. PICK pc \in {"test", "send"} :
        /\ delayWorker' = [delayWorker EXCEPT ![w].pc = pc]
        /\ pc = "test" => Delays!Used < Slots
  BY DEF Delays!acquire
<1> DEFINE y == [x EXCEPT !.pc = pc]
<1>3. y \in DelayWorker /\ y.pc = pc /\ y.node = x.node /\ y.value = x.value
  BY <1>1 DEF DelayWorker
<1>4. x.value = 0
  BY <1>1 DEF DelayInv, TakenInv
<1>5. delayWorker' = [delayWorker EXCEPT ![w] = y]
  BY <1>2
<1> HIDE DEF y
<1>6. delayNext' \in Nat /\ delayNext' >= delayNext
  BY <1>1 DEF DelayInv, DelayTypes
<1>7. DelayTypes' /\ TakenInv' /\ CarriedInv' /\ ArrivesInv' /\ CountInv' /\ AnswerInv'
  BY <1>1, <1>3, <1>4, <1>5, <1>6, WorkerMovesOn
<1>8. SlotsInv'
  <2>1. CASE pc = "send"
    <3>1. Testers' \subseteq Testers
      BY <2>1, <1>3, <1>5 DEF Testers, DelayInv, DelayTypes
    <3> QED
      BY <3>1, <1>1, PoolKeeps
  <2>2. CASE pc = "test"
    <3>1. Testers' = Testers \cup {w} /\ w \notin Testers
      BY <2>2, <1>1, <1>3, <1>5 DEF Testers, DelayInv, DelayTypes
    <3>2. IsFiniteSet(Testers') /\ Cardinality(Testers') = Cardinality(Testers) + 1
      BY <3>1, FS_AddElement DEF DelayInv, SlotsInv
    <3>3. Cardinality(Testers) \in Nat
      BY FS_CardinalityType DEF DelayInv, SlotsInv
    <3>4. delayRivals + Cardinality(Testers) < Slots
      BY <2>2, <1>2, UsedIsTesters
    <3> QED
      BY <3>2, <3>3, <3>4, <1>1, DelayAssumption DEF SlotsInv, DelayInv, DelayTypes
  <2> QED
    BY <2>1, <2>2
<1> QED
  BY <1>7, <1>8 DEF DelayInv

LEMMA URLTestKeeps ==
  ASSUME DelayInv, NEW w \in Actors, NEW d \in 0 .. 1, NEW timedOut \in BOOLEAN, Delays!URLTest(w, d, timedOut)
  PROVE  DelayInv'
<1> DEFINE v == Delays!delayValue(d, timedOut)
           n == delayWorker[w].node
           y == [pc |-> "send", node |-> n, value |-> v]
<1>1. /\ delayWorker[w].pc = "test" /\ HasNode(w)
      /\ delayWorker' = [delayWorker EXCEPT ![w] = y]
      /\ delayTested' = [delayTested EXCEPT ![n] = v]
      /\ UNCHANGED <<delayNext, delayRivals, delayResults, delayMain, delayGot>>
  BY DEF Delays!URLTest, HasNode
<1>2. v \in {-2, -1, 1}
  BY DEF Delays!delayValue, Delays!delayTimedOut, Delays!delayFailed
<1> HIDE DEF v
<1>3. n \in NodeIds /\ n <= delayNext /\ delayTested[n] = 0 /\ n \in 0 .. Nodes
  BY <1>1, DelayAssumption DEF DelayInv, TakenInv, NodeIds
<1> HIDE DEF n
<1>4. y \in DelayWorker /\ y.pc = "send" /\ y.node = n /\ y.value = v
  BY <1>2, <1>3 DEF DelayWorker
<1> HIDE DEF y
<1>5. /\ delayWorker' \in [Actors -> DelayWorker] /\ delayWorker'[w] = y
      /\ \A u \in Actors : u # w => delayWorker'[u] = delayWorker[u]
  BY <1>1, <1>4 DEF DelayInv, DelayTypes
<1>6. /\ delayTested' \in [NodeIds -> Int] /\ delayTested'[n] = v
      /\ \A m \in NodeIds : m # n => delayTested'[m] = delayTested[m]
  BY <1>1, <1>2, <1>3 DEF DelayInv, DelayTypes
<1>7. DelayTypes'
  BY <1>1, <1>5, <1>6 DEF DelayInv, DelayTypes
<1>8. TakenInv'
  <2>1. \A m \in NodeIds : m > delayNext => delayTested'[m] = 0
    BY <1>3, <1>6 DEF DelayInv, TakenInv, DelayTypes, NodeIds
  <2>2. \A u \in Actors : HasNode(u)' => u # w /\ HasNode(u) /\ delayWorker'[u] = delayWorker[u]
    BY <1>4, <1>5 DEF HasNode
  <2>3. \A u \in Actors : HasNode(u)' => delayWorker[u].node # n
    BY <2>2, <1>1 DEF DelayInv, TakenInv, n
  <2>4. \A u \in Actors : HasNode(u)' =>
          /\ delayWorker'[u].node \in NodeIds /\ delayWorker'[u].node <= delayNext
          /\ delayTested'[delayWorker'[u].node] = 0 /\ delayWorker'[u].value = 0
    BY <2>2, <2>3, <1>6 DEF DelayInv, TakenInv
  <2>5. \A a, b \in Actors : HasNode(a)' /\ HasNode(b)' /\ delayWorker'[a].node = delayWorker'[b].node => a = b
    BY <2>2 DEF DelayInv, TakenInv
  <2> QED
    BY <2>1, <2>4, <2>5, <1>1 DEF TakenInv
\* What was tested stays.
<1>9. \A m \in NodeIds : delayTested[m] # 0 => delayTested'[m] = delayTested[m]
  BY <1>3, <1>6
<1>10. CarriedInv'
  <2>1. ASSUME NEW u \in Actors, delayWorker'[u].pc = "send", delayWorker'[u].value # 0
        PROVE  delayWorker'[u].node \in NodeIds /\ delayTested'[delayWorker'[u].node] = delayWorker'[u].value
    <3>1. CASE u = w
      BY <3>1, <1>3, <1>4, <1>5, <1>6
    <3>2. CASE u # w
      <4>1. delayWorker'[u] = delayWorker[u]
        BY <3>2, <1>5
      <4> QED
        BY <4>1, <2>1, <1>9 DEF DelayInv, CarriedInv
    <3> QED
      BY <3>1, <3>2
  <2>2. ASSUME NEW k \in DOMAIN delayResults, delayResults[k] # 0
        PROVE  \E m \in NodeIds : delayTested'[m] = delayResults[k]
    BY <2>2, <1>9 DEF DelayInv, CarriedInv
  <2>3. delayGot.value \in {-2, 0} \/ \E m \in NodeIds : delayTested'[m] = delayGot.value
    BY <1>9 DEF DelayInv, CarriedInv
  <2>4. \A m \in NodeIds : delayTested'[m] >= -2
    BY <1>2, <1>6 DEF DelayInv, CarriedInv
  <2> QED
    BY <2>1, <2>2, <2>3, <2>4, <1>1 DEF DelayInv, CarriedInv
<1>11. ArrivesInv'
  <2> SUFFICES ASSUME delayMain.pc = "receive", NEW m \in NodeIds, delayTested'[m] # 0
               PROVE  Arrives(m)'
    BY <1>1 DEF ArrivesInv
  <2>1. CASE m = n
    BY <2>1, <1>4, <1>5, <1>6 DEF Arrives
  <2>2. CASE m # n
    <3>1. delayTested'[m] = delayTested[m] /\ Arrives(m)
      BY <2>2, <1>6 DEF DelayInv, ArrivesInv
    <3>2. CASE \E u \in Actors : delayWorker[u].pc = "send" /\ delayWorker[u].value = delayTested[m]
      <4>1. PICK u \in Actors : delayWorker[u].pc = "send" /\ delayWorker[u].value = delayTested[m]
        BY <3>2
      <4>2. u # w
        BY <4>1, <1>1
      <4>3. delayWorker'[u].pc = "send" /\ delayWorker'[u].value = delayTested'[m]
        BY <4>1, <4>2, <3>1, <1>5
      <4> QED
        BY <4>3 DEF Arrives
    <3> QED
      BY <3>1, <3>2, <1>1 DEF Arrives
  <2> QED
    BY <2>1, <2>2
<1>12. CountInv'
  <2>1. TestedNodes' = TestedNodes \cup {n} /\ n \notin TestedNodes
    <3>1. v # 0
      BY <1>2
    <3>2. \A m \in NodeIds : delayTested'[m] # 0 <=> delayTested[m] # 0 \/ m = n
      BY <3>1, <1>3, <1>6
    <3>3. TestedNodes' = {m \in NodeIds : delayTested'[m] # 0}
      BY DEF TestedNodes
    <3> QED
      BY <3>2, <3>3, <1>3 DEF TestedNodes
  <2>2. Cardinality(TestedNodes') = Cardinality(TestedNodes) + 1
    BY <2>1, TestedIsFinite, FS_AddElement
  <2>3. Carriers' = Carriers \cup {w} /\ w \notin Carriers
    BY <1>1, <1>2, <1>4, <1>5 DEF Carriers
  <2>4. IsFiniteSet(Carriers') /\ Cardinality(Carriers') = Cardinality(Carriers) + 1 /\ Cardinality(Carriers) \in Nat
    BY <2>3, FS_AddElement, FS_CardinalityType DEF DelayInv, CountInv
  <2>5. Clean' = Clean /\ delayResults' = delayResults /\ delayGot' = delayGot
    BY <1>1 DEF Clean
  <2>6. Len(delayResults) \in Nat /\ delayGot.received \in Nat
    BY DEF DelayInv, DelayTypes
  <2>7. Cardinality(TestedNodes) \in Nat
    BY TestedIsFinite
  <2>8. Clean => delayGot.received + Len(delayResults) + Cardinality(Carriers) <= Cardinality(TestedNodes)
    BY DEF DelayInv, CountInv
  <2>9. Clean' => delayGot'.received + Len(delayResults') + Cardinality(Carriers') <= Cardinality(TestedNodes')
    BY <2>2, <2>4, <2>5, <2>6, <2>7, <2>8
  <2> QED
    BY <2>4, <2>9 DEF CountInv
<1>13. AnswerInv'
  <2> SUFFICES ASSUME delayMain.pc = "answer", delayMain.tested
               PROVE  IF delayMain.value > 0 THEN \E m \in NodeIds : delayTested'[m] = delayMain.value
                      ELSE /\ \A m \in NodeIds : delayTested'[m] < 0
                           /\ \A m \in NodeIds : delayTested'[m] <= delayMain.value
                           /\ \E m \in NodeIds : delayTested'[m] = delayMain.value
    BY <1>1 DEF AnswerInv
  <2>1. CASE delayMain.value > 0
    <3>1. PICK m \in NodeIds : delayTested[m] = delayMain.value
      BY <2>1 DEF DelayInv, AnswerInv
    <3>2. m # n
      BY <3>1, <2>1, <1>3
    <3> QED
      BY <3>1, <3>2, <2>1, <1>6
  <2>2. CASE ~(delayMain.value > 0)
    <3>1. delayTested[n] < 0
      BY <2>2, <1>3 DEF DelayInv, AnswerInv
    <3> QED
      BY <3>1, <1>3
  <2> QED
    BY <2>1, <2>2
<1>14. Testers' \subseteq Testers
  BY <1>4, <1>5 DEF Testers
<1>15. SlotsInv'
  BY <1>1, <1>14, PoolKeeps
<1> QED
  BY <1>7, <1>8, <1>10, <1>11, <1>12, <1>13, <1>15 DEF DelayInv

LEMMA DelaySendKeeps ==
  ASSUME DelayInv, NEW w \in Actors, Delays!Send(w)
  PROVE  DelayInv'
<1> DEFINE x == delayWorker[w]
           v == x.value
<1>1. /\ x.pc = "send" /\ x \in DelayWorker /\ v \in Int
      /\ UNCHANGED <<delayNext, delayRivals, delayTested, delayMain, delayGot>>
  BY DEF Delays!Send, DelayInv, DelayTypes, DelayWorker
<1>2. CASE delayMain.pc = "answer" /\ delayWorker' = [delayWorker EXCEPT ![w].pc = "done"] /\ delayResults' = delayResults
  <2> DEFINE y == [x EXCEPT !.pc = "done"]
  <2>1. y \in DelayWorker /\ y.pc = "done"
    BY <1>1 DEF DelayWorker
  <2>2. delayWorker' = [delayWorker EXCEPT ![w] = y]
    BY <1>2
  <2> HIDE DEF y
  <2>3. delayNext' \in Nat /\ delayNext' >= delayNext
    BY <1>1 DEF DelayInv, DelayTypes
  <2>4. DelayTypes' /\ TakenInv' /\ CarriedInv' /\ ArrivesInv' /\ CountInv' /\ AnswerInv'
    BY <1>1, <1>2, <2>1, <2>2, <2>3, WorkerMovesOn
  <2>5. Testers' \subseteq Testers
    BY <2>1, <2>2 DEF Testers, DelayInv, DelayTypes
  <2>6. SlotsInv'
    BY <1>1, <2>5, PoolKeeps
  <2> QED
    BY <2>4, <2>6 DEF DelayInv
<1>3. CASE delayResults' = Append(delayResults, v) /\ delayWorker' = [delayWorker EXCEPT ![w].pc = "loop"]
  <2> DEFINE y == [x EXCEPT !.pc = "loop"]
  <2>1. y \in DelayWorker /\ y.pc = "loop"
    BY <1>1 DEF DelayWorker
  <2>2. delayWorker' = [delayWorker EXCEPT ![w] = y]
    BY <1>3
  <2> HIDE DEF y
  <2>3. /\ delayWorker' \in [Actors -> DelayWorker] /\ delayWorker'[w] = y
        /\ \A u \in Actors : u # w => delayWorker'[u] = delayWorker[u]
    BY <2>1, <2>2 DEF DelayInv, DelayTypes
  <2>4. delayResults \in Seq(Int)
    BY DEF DelayInv, DelayTypes
  <2>5. /\ delayResults' \in Seq(Int) /\ Len(delayResults') = Len(delayResults) + 1
        /\ Len(delayResults) + 1 \in DOMAIN delayResults' /\ delayResults'[Len(delayResults) + 1] = v
        /\ \A k \in DOMAIN delayResults : k \in DOMAIN delayResults' /\ delayResults'[k] = delayResults[k]
        /\ \A k \in DOMAIN delayResults' : k \in DOMAIN delayResults \/ k = Len(delayResults) + 1
    BY <1>1, <1>3, <2>4
  <2> HIDE DEF v
  <2>6. DelayTypes'
    BY <1>1, <2>3, <2>5 DEF DelayInv, DelayTypes
  <2>7. TakenInv'
    BY <1>1, <2>1, <2>3 DEF DelayInv, TakenInv, HasNode
  <2>8. v # 0 => \E n \in NodeIds : delayTested[n] = v
    BY <1>1 DEF DelayInv, CarriedInv, v
  <2>9. CarriedInv'
    <3>1. \A u \in Actors : delayWorker'[u].pc = "send" /\ delayWorker'[u].value # 0 =>
            delayWorker'[u].node \in NodeIds /\ delayTested[delayWorker'[u].node] = delayWorker'[u].value
      BY <2>1, <2>3 DEF DelayInv, CarriedInv
    <3>2. \A k \in DOMAIN delayResults' : delayResults'[k] # 0 => \E n \in NodeIds : delayTested[n] = delayResults'[k]
      BY <2>5, <2>8 DEF DelayInv, CarriedInv
    <3> QED
      BY <3>1, <3>2, <1>1 DEF DelayInv, CarriedInv
  <2>10. ArrivesInv'
    <3> SUFFICES ASSUME delayMain.pc = "receive", NEW n \in NodeIds, delayTested[n] # 0
                 PROVE  Arrives(n)'
      BY <1>1 DEF ArrivesInv
    <3>1. Arrives(n)
      BY DEF DelayInv, ArrivesInv
    <3>2. CASE \E u \in Actors : delayWorker[u].pc = "send" /\ delayWorker[u].value = delayTested[n]
      <4>1. PICK u \in Actors : delayWorker[u].pc = "send" /\ delayWorker[u].value = delayTested[n]
        BY <3>2
      <4>2. CASE u = w
        <5>1. delayResults'[Len(delayResults) + 1] = delayTested'[n]
          BY <4>1, <4>2, <2>5, <1>1 DEF v
        <5> QED
          BY <5>1, <2>5 DEF Arrives
      <4>3. CASE u # w
        <5>1. delayWorker'[u].pc = "send" /\ delayWorker'[u].value = delayTested'[n]
          BY <4>1, <4>3, <2>3, <1>1
        <5> QED
          BY <5>1 DEF Arrives
      <4> QED
        BY <4>2, <4>3
    <3>3. CASE \E k \in DOMAIN delayResults : delayResults[k] = delayTested[n]
      <4>1. PICK k \in DOMAIN delayResults : delayResults[k] = delayTested[n]
        BY <3>3
      <4>2. k \in DOMAIN delayResults' /\ delayResults'[k] = delayTested'[n]
        BY <4>1, <2>5, <1>1
      <4> QED
        BY <4>2 DEF Arrives
    <3>4. CASE delayTested[n] < 0 /\ delayTested[n] <= delayGot.value
      BY <3>4, <1>1 DEF Arrives
    <3> QED
      BY <3>1, <3>2, <3>3, <3>4 DEF Arrives
  <2>11. CountInv'
    <3>1. Carriers' = Carriers \ {w}
      BY <2>1, <2>3 DEF Carriers
    <3>2. IsFiniteSet(Carriers) /\ Cardinality(Carriers) \in Nat
      BY FS_CardinalityType DEF DelayInv, CountInv
    <3>3. /\ IsFiniteSet(Carriers')
          /\ Cardinality(Carriers') = IF w \in Carriers THEN Cardinality(Carriers) - 1 ELSE Cardinality(Carriers)
      BY <3>1, <3>2, FS_RemoveElement
    <3>4. Clean' => Clean /\ w \in Carriers
      BY <2>5, <1>1 DEF Clean, Carriers, v
    <3>5. TestedNodes' = TestedNodes /\ Len(delayResults) \in Nat /\ delayGot.received \in Nat /\ delayGot' = delayGot
      BY <1>1 DEF TestedNodes, DelayInv, DelayTypes
    <3>6. Cardinality(TestedNodes) \in Nat
      BY TestedIsFinite
    <3>7. Clean => delayGot.received + Len(delayResults) + Cardinality(Carriers) <= Cardinality(TestedNodes)
      BY DEF DelayInv, CountInv
    <3>8. Clean' => delayGot'.received + Len(delayResults') + Cardinality(Carriers') <= Cardinality(TestedNodes')
      BY <3>2, <3>3, <3>4, <3>5, <3>6, <3>7, <2>5
    <3> QED
      BY <3>3, <3>8 DEF CountInv
  <2>12. AnswerInv'
    BY <1>1 DEF DelayInv, AnswerInv
  <2>13. Testers' \subseteq Testers
    BY <2>1, <2>3 DEF Testers
  <2>14. SlotsInv'
    BY <1>1, <2>13, PoolKeeps
  <2> QED
    BY <2>6, <2>7, <2>9, <2>10, <2>11, <2>12, <2>14 DEF DelayInv
<1> QED
  BY <1>2, <1>3 DEF Delays!Send

\* The first result is taken from the channel; the rest stays.
LEMMA ReceiveKeeps ==
  ASSUME DelayInv, Delays!Receive
  PROVE  DelayInv'
<1> DEFINE v == Head(delayResults)
<1>1. /\ delayMain.pc = "receive" /\ delayResults # <<>> /\ delayResults' = Tail(delayResults)
      /\ UNCHANGED <<delayNext, delayWorker, delayRivals, delayTested>>
  BY DEF Delays!Receive
<1>2. delayResults \in Seq(Int) /\ delayGot \in [value : Int, complete : BOOLEAN, received : Nat]
  BY DEF DelayInv, DelayTypes
<1>3. /\ v \in Int /\ 1 \in DOMAIN delayResults /\ delayResults[1] = v
      /\ delayResults' \in Seq(Int) /\ Len(delayResults) \in Nat /\ Len(delayResults') = Len(delayResults) - 1
      /\ \A k \in DOMAIN delayResults' : k + 1 \in DOMAIN delayResults /\ delayResults'[k] = delayResults[k + 1]
  BY <1>1, <1>2
<1>4. \A k \in DOMAIN delayResults : k = 1 \/ (k - 1 \in DOMAIN delayResults' /\ delayResults'[k - 1] = delayResults[k])
  BY <1>1, <1>2, TailKeepsOrder
<1> HIDE DEF v
<1>5. v # 0 => \E n \in NodeIds : delayTested[n] = v
  BY <1>3 DEF DelayInv, CarriedInv
<1>6. \A k \in DOMAIN delayResults' : delayResults'[k] # 0 => \E n \in NodeIds : delayTested[n] = delayResults'[k]
  BY <1>3 DEF DelayInv, CarriedInv
<1>7. TakenInv' /\ SlotsInv'
  BY <1>1 DEF DelayInv, TakenInv, HasNode, SlotsInv, Testers
<1>8. /\ Carriers' = Carriers /\ TestedNodes' = TestedNodes /\ IsFiniteSet(Carriers)
      /\ Cardinality(Carriers) \in Nat /\ Cardinality(TestedNodes) \in Nat /\ delayGot.received \in Nat
      /\ Clean => delayGot.received + Len(delayResults) + Cardinality(Carriers) <= Cardinality(TestedNodes)
  BY <1>1, <1>2, TestedIsFinite, FS_CardinalityType DEF DelayInv, CountInv, Carriers, TestedNodes
<1>9. (\A k \in DOMAIN delayResults' : delayResults'[k] # 0) /\ v # 0 => \A k \in DOMAIN delayResults : delayResults[k] # 0
  BY <1>3, <1>4
<1>10. CASE v > 0 /\ delayMain' = [pc |-> "answer", value |-> v, tested |-> TRUE] /\ delayGot' = delayGot
  <2>1. delayMain'.pc = "answer" /\ delayMain'.value = v
    BY <1>10
  <2>2. DelayTypes'
    BY <1>1, <1>3, <1>10 DEF DelayInv, DelayTypes
  <2>3. CarriedInv'
    BY <1>1, <1>6, <1>10 DEF DelayInv, CarriedInv
  <2>4. ArrivesInv'
    BY <2>1 DEF ArrivesInv
  <2>5. AnswerInv'
    BY <2>1, <1>1, <1>3, <1>5, <1>10 DEF AnswerInv
  <2>6. Clean' => Clean
    BY <1>3, <1>9, <1>10 DEF Clean
  <2>7. Clean' => delayGot'.received + Len(delayResults') + Cardinality(Carriers') <= Cardinality(TestedNodes')
    <3>1. delayGot'.received = delayGot.received
      BY <1>10
    <3>2. Cardinality(Carriers') = Cardinality(Carriers) /\ Cardinality(TestedNodes') = Cardinality(TestedNodes)
      BY <1>8
    <3>3. Len(delayResults') = Len(delayResults) - 1 /\ Len(delayResults) \in Nat
      BY <1>3
    <3>4. /\ Cardinality(Carriers) \in Nat /\ Cardinality(TestedNodes) \in Nat /\ delayGot.received \in Nat
          /\ Clean => delayGot.received + Len(delayResults) + Cardinality(Carriers) <= Cardinality(TestedNodes)
      BY <1>8
    <3> QED
      BY <3>1, <3>2, <3>3, <3>4, <2>6
  <2>8. CountInv'
    BY <2>7, <1>8 DEF CountInv
  <2> QED
    BY <2>2, <2>3, <2>4, <2>5, <2>8, <1>7 DEF DelayInv
<1> DEFINE m == Delays!Max({v, delayGot.value})
           g == [value |-> m, complete |-> delayGot.complete /\ v # 0, received |-> delayGot.received + 1]
<1>11. CASE ~(v > 0) /\ delayGot' = g /\ delayMain' = delayMain
  <2>1. m \in {v, delayGot.value} /\ m >= v /\ m >= delayGot.value /\ m \in Int
    <3>1. delayGot.value \in Int
      BY <1>2
    <3>2. CASE v >= delayGot.value
      <4>1. {v, delayGot.value} \subseteq Int /\ \A z \in {v, delayGot.value} : v >= z
        BY <3>1, <3>2, <1>3
      <4>2. m = v
        BY <4>1, DelayMax
      <4> QED
        BY <4>2, <3>1, <3>2, <1>3
    <3>3. CASE ~(v >= delayGot.value)
      <4>1. {v, delayGot.value} \subseteq Int /\ \A z \in {v, delayGot.value} : delayGot.value >= z
        BY <3>1, <3>3, <1>3
      <4>2. m = delayGot.value
        BY <4>1, DelayMax
      <4> QED
        BY <4>2, <3>1, <3>3, <1>3
    <3> QED
      BY <3>2, <3>3
  <2> HIDE DEF m
  <2>2. /\ g \in [value : Int, complete : BOOLEAN, received : Nat]
        /\ g.value = m /\ g.complete = (delayGot.complete /\ v # 0) /\ g.received = delayGot.received + 1
    BY <2>1, <1>2
  <2> HIDE DEF g
  <2>3. DelayTypes'
    BY <2>2, <1>1, <1>3, <1>11 DEF DelayInv, DelayTypes
  <2>4. CarriedInv'
    <3>1. delayGot.value <= 0 /\ delayGot.value >= -2 /\ (delayGot.complete => delayGot.value < 0)
      BY DEF DelayInv, CarriedInv
    <3>2. m <= 0 /\ m >= -2 /\ (g.complete => m < 0)
      BY <3>1, <2>1, <2>2, <1>2, <1>3, <1>11
    <3>3. m \in {-2, 0} \/ \E n \in NodeIds : delayTested[n] = m
      BY <2>1, <1>5 DEF DelayInv, CarriedInv
    <3>4. delayGot' = g
      BY <1>11
    <3> QED
      BY <3>2, <3>3, <3>4, <2>2, <1>1, <1>6 DEF DelayInv, CarriedInv
  <2>5. ArrivesInv'
    <3> SUFFICES ASSUME NEW n \in NodeIds, delayTested[n] # 0
                 PROVE  Arrives(n)'
      BY <1>1 DEF ArrivesInv
    <3>1. Arrives(n) /\ delayTested[n] \in Int
      BY <1>1 DEF DelayInv, ArrivesInv, DelayTypes
    <3>2. CASE \E u \in Actors : delayWorker[u].pc = "send" /\ delayWorker[u].value = delayTested[n]
      BY <3>2, <1>1 DEF Arrives
    <3>3. CASE \E k \in DOMAIN delayResults : delayResults[k] = delayTested[n]
      <4>1. PICK k \in DOMAIN delayResults : delayResults[k] = delayTested[n]
        BY <3>3
      <4>2. CASE k = 1
        <5>1. delayTested[n] < 0 /\ delayTested[n] <= m
          BY <4>1, <4>2, <3>1, <2>1, <1>3, <1>11
        <5> QED
          BY <5>1, <2>2, <1>1, <1>11 DEF Arrives
      <4>3. CASE k # 1
        <5>1. k - 1 \in DOMAIN delayResults' /\ delayResults'[k - 1] = delayTested'[n]
          BY <4>1, <4>3, <1>1, <1>4
        <5> QED
          BY <5>1 DEF Arrives
      <4> QED
        BY <4>2, <4>3
    <3>4. CASE delayTested[n] < 0 /\ delayTested[n] <= delayGot.value
      <4>1. delayTested[n] <= m
        BY <3>1, <3>4, <2>1, <1>2
      <4> QED
        BY <4>1, <3>4, <2>2, <1>1, <1>11 DEF Arrives
    <3> QED
      BY <3>1, <3>2, <3>3, <3>4 DEF Arrives
  <2>6. Clean' => Clean
    BY <2>2, <1>9, <1>11 DEF Clean
  <2>7. Clean' => delayGot'.received + Len(delayResults') + Cardinality(Carriers') <= Cardinality(TestedNodes')
    BY <2>2, <2>6, <1>3, <1>8, <1>11
  <2>8. CountInv'
    BY <2>7, <1>8 DEF CountInv
  <2>9. AnswerInv'
    BY <1>1, <1>11 DEF AnswerInv
  <2> QED
    BY <2>3, <2>4, <2>5, <2>8, <2>9, <1>7 DEF DelayInv
<1> QED
  BY <1>10, <1>11 DEF Delays!Receive, Delays!Nil, v

\* The channel is closed: if the answer counts, every node was tested, and none answered.
LEMMA ClosedKeeps ==
  ASSUME DelayInv, Delays!Closed
  PROVE  DelayInv'
<1> DEFINE a == [pc |-> "answer", value |-> delayGot.value, tested |-> Delays!Whole]
<1>1. /\ delayMain.pc = "receive" /\ delayResults = <<>> /\ \A w \in Actors : delayWorker[w].pc = "done"
      /\ delayMain' = a
      /\ UNCHANGED <<delayNext, delayWorker, delayRivals, delayResults, delayTested, delayGot>>
  BY DEF Delays!Closed
<1>2. a.pc = "answer" /\ a.value = delayGot.value /\ a.tested = Delays!Whole
  OBVIOUS
<1> HIDE DEF a
<1>3. DelayTypes' /\ TakenInv' /\ CarriedInv' /\ CountInv' /\ SlotsInv'
  BY <1>1 DEF DelayInv, DelayTypes, TakenInv, HasNode, CarriedInv, CountInv, Clean, Carriers, TestedNodes,
              SlotsInv, Testers
<1>4. ArrivesInv'
  BY <1>1, <1>2 DEF ArrivesInv
<1>5. AnswerInv'
  <2> SUFFICES ASSUME Delays!Whole
               PROVE  /\ ~(delayGot.value > 0)
                      /\ \A n \in NodeIds : delayTested[n] < 0
                      /\ \A n \in NodeIds : delayTested[n] <= delayGot.value
                      /\ \E n \in NodeIds : delayTested[n] = delayGot.value
    BY <1>1, <1>2 DEF AnswerInv
  <2>1. delayGot.complete /\ delayGot.received = Nodes
    BY DEF Delays!Whole
  <2>2. /\ delayGot.value \in Int /\ delayGot.value < 0 /\ delayGot.value >= -2
        /\ delayGot.value \in {-2, 0} \/ \E n \in NodeIds : delayTested[n] = delayGot.value
    BY <2>1 DEF DelayInv, DelayTypes, CarriedInv
  <2>3. Cardinality(TestedNodes) = Nodes
    <3>1. DOMAIN delayResults = {} /\ Len(delayResults) = 0
      BY <1>1
    <3>2. Clean
      BY <3>1, <2>1 DEF Clean
    <3>3. Carriers = {}
      BY <1>1 DEF Carriers
    <3>4. Cardinality(Carriers) = 0
      BY <3>3, FS_EmptySet
    <3>5. delayGot.received + Len(delayResults) + Cardinality(Carriers) <= Cardinality(TestedNodes)
      BY <3>2 DEF DelayInv, CountInv
    <3> QED
      BY <3>1, <3>4, <3>5, <2>1, TestedIsFinite, DelayAssumption
  <2>4. ASSUME NEW n \in NodeIds
        PROVE  delayTested[n] < 0 /\ delayTested[n] <= delayGot.value /\ delayTested[n] >= -2 /\ delayTested[n] \in Int
    <3>1. n \in TestedNodes
      BY <2>3, TestedIsFinite
    <3>2. Arrives(n)
      BY <3>1, <1>1 DEF TestedNodes, DelayInv, ArrivesInv
    <3>3. ~\E k \in DOMAIN delayResults : TRUE
      BY <1>1
    <3>4. delayTested[n] < 0 /\ delayTested[n] <= delayGot.value
      BY <3>2, <3>3, <1>1 DEF Arrives
    <3> QED
      BY <3>4 DEF DelayInv, CarriedInv, DelayTypes
  <2>5. \E n \in NodeIds : delayTested[n] = delayGot.value
    <3>1. CASE delayGot.value = -2
      <4>1. 1 \in NodeIds
        BY DelayAssumption DEF NodeIds
      <4>2. delayTested[1] = -2
        BY <4>1, <2>4, <3>1
      <4> QED
        BY <4>1, <4>2, <3>1
    <3> QED
      BY <3>1, <2>2
  <2> QED
    BY <2>2, <2>4, <2>5
<1> QED
  BY <1>3, <1>4, <1>5 DEF DelayInv

LEMMA RivalKeeps ==
  ASSUME DelayInv, NEW n, Delays!Rival(n), n \in Nat
  PROVE  DelayInv'
<1>1. /\ (n > delayRivals => Delays!Used < Slots) /\ n - delayRivals \in {-1, 1} /\ delayRivals' = n
      /\ UNCHANGED <<delayWait, delayNext, delayWorker, delayResults, delayTested, delayMain, delayGot>>
  BY DEF Delays!Rival
<1>2. DelayTypes' /\ TakenInv' /\ CarriedInv' /\ ArrivesInv' /\ CountInv' /\ AnswerInv'
  BY <1>1 DEF DelayInv, DelayTypes, TakenInv, HasNode, CarriedInv, ArrivesInv, Arrives, CountInv, Clean,
              Carriers, TestedNodes, AnswerInv
<1>3. SlotsInv'
  <2>1. Testers' = Testers /\ IsFiniteSet(Testers) /\ delayRivals + Cardinality(Testers) <= Slots
    BY <1>1 DEF DelayInv, SlotsInv, Testers
  <2>2. Cardinality(Testers) \in Nat /\ delayRivals \in Nat /\ Slots \in Nat
    BY <2>1, FS_CardinalityType, DelayAssumption DEF DelayInv, DelayTypes
  <2>3. n > delayRivals => delayRivals + Cardinality(Testers) < Slots
    BY <1>1, UsedIsTesters
  <2>4. n + Cardinality(Testers) <= Slots
    BY <2>1, <2>2, <2>3, <1>1
  <2> QED
    BY <2>1, <2>4, <1>1 DEF SlotsInv
<1> QED
  BY <1>2, <1>3 DEF DelayInv

\* For every number of nodes, workers and slots: what is said of a load balancer is the delay of a
\* node that answered, or, only once every node was tested and none answered, the mildest of their
\* failures; and tests keep within the pool (testBalancerDelay, testProxyDelay).
THEOREM BalancersAreTestedWhole == Delays!Spec => []BalancerAnswerIsWhole
<1>1. Delays!Init => DelayInv
  BY DelayStarts
<1>2. DelayInv /\ [Delays!Next]_(Delays!vars) => DelayInv'
  <2> SUFFICES ASSUME DelayInv, [Delays!Next]_(Delays!vars)
               PROVE  DelayInv'
    OBVIOUS
  <2>1. ASSUME NEW w \in Actors, Delays!Take(w) \/ Delays!acquire(w) \/ Delays!Send(w)
        PROVE  DelayInv'
    BY <2>1, TakeKeeps, DelayAcquireKeeps, DelaySendKeeps
  <2>2. ASSUME NEW w \in Actors, NEW d \in 0 .. 1, NEW timedOut \in BOOLEAN, Delays!URLTest(w, d, timedOut)
        PROVE  DelayInv'
    BY <2>2, URLTestKeeps
  <2>3. CASE Delays!Receive \/ Delays!Closed
    BY <2>3, ReceiveKeeps, ClosedKeeps
  <2>4. ASSUME NEW n \in 0 .. Rivals, Delays!Rival(n)
        PROVE  DelayInv'
    BY <2>4, RivalKeeps
  <2>5. CASE Delays!Expires \/ UNCHANGED Delays!vars
    <3>1. UNCHANGED <<delayNext, delayWorker, delayRivals, delayResults, delayTested, delayMain, delayGot>>
      BY <2>5 DEF Delays!Expires, Delays!vars
    <3> QED
      BY <3>1 DEF DelayInv, DelayTypes, TakenInv, HasNode, CarriedInv, ArrivesInv, Arrives, CountInv, Clean,
                  Carriers, TestedNodes, AnswerInv, SlotsInv, Testers
  <2> QED
    BY <2>1, <2>2, <2>3, <2>4, <2>5 DEF Delays!Next
<1>3. DelayInv => BalancerAnswerIsWhole
  <2> SUFFICES ASSUME DelayInv
               PROVE  BalancerAnswerIsWhole
    OBVIOUS
  <2>1. Delays!Used <= Slots
    BY UsedIsTesters DEF DelayInv, SlotsInv
  <2>2. ASSUME delayMain.pc = "answer", delayMain.tested
        PROVE  IF delayMain.value > 0 THEN \E n \in NodeIds : delayTested[n] = delayMain.value
               ELSE /\ \A n \in NodeIds : delayTested[n] < 0
                    /\ delayMain.value = Delays!Max({delayTested[n] : n \in NodeIds})
    <3>1. CASE delayMain.value > 0
      BY <2>2, <3>1 DEF DelayInv, AnswerInv
    <3>2. CASE ~(delayMain.value > 0)
      <4> DEFINE S == {delayTested[n] : n \in NodeIds}
      <4>1. /\ \A n \in NodeIds : delayTested[n] < 0 /\ delayTested[n] <= delayMain.value
            /\ \E n \in NodeIds : delayTested[n] = delayMain.value
        BY <2>2, <3>2 DEF DelayInv, AnswerInv
      <4>2. S \subseteq Int
        BY DEF DelayInv, DelayTypes
      <4>3. delayMain.value \in S
        BY <4>1
      <4>4. \A y \in S : delayMain.value >= y
        BY <4>1, <4>2, <4>3
      <4>5. Delays!Max(S) = delayMain.value
        <5> HIDE DEF S
        <5> QED
          BY <4>2, <4>3, <4>4, DelayMax
      <4> QED
        BY <4>1, <4>5, <3>2
    <3> QED
      BY <3>1, <3>2
  <2> QED
    BY <2>1, <2>2 DEF BalancerAnswerIsWhole, Delays!BalancerAnswerIsWhole, NodeIds
<1> QED
  BY <1>1, <1>2, <1>3, PTL DEF Delays!Spec
=============================================================================
