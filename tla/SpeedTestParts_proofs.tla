------------------------ MODULE SpeedTestParts_proofs ------------------------
(***************************************************************************)
(* What is proved of the speed test for every number of tests, searches,   *)
(* tombstones and connections: the manager runs nothing but the latest,    *)
(* and the transport leaves no connection behind.                          *)
(***************************************************************************)
EXTENDS SpeedTestParts, FiniteSetTheorems, TLAPS

-------------------------------------------------------------------------------
(* The manager.                                                             *)

Run == [phase : {"none", "running", "cancelled", "failed", "done"}, stopped : BOOLEAN]
Listing == [on : BOOLEAN, stopped : BOOLEAN]

ManagerTypes ==
    /\ runs \in [Tests -> Run]
    /\ lists \in [Searches -> Listing]
    /\ {latest, pending, running} \subseteq Tests \cup {"none"}
    /\ discovery \in Searches \cup {"none"}
    /\ worker \in BOOLEAN

(* A cancel that has run left a tombstone, which is there unless it was     *)
(* pushed out.                                                              *)
TombstonesInv ==
    \A i \in Tests \cup Searches :
        <<"cancel", i>> \in issued \ calls => i \in dropped \/ i \in Manager!ToSet(cancelled)

(* What is not over waits or runs, and all but the latest is cancelled.     *)
RunsInv ==
    \A i \in Tests : runs[i].phase = "running" =>
        i \in {pending, running} /\ (i # latest => runs[i].stopped)
WorkerInv == pending # "none" => worker
SearchInv == \A i \in Searches : lists[i].on /\ ~lists[i].stopped => discovery = i

CancelledRunsInv ==
    \A i \in Tests : <<"cancel", i>> \in issued \ calls /\ i \notin dropped =>
        (runs[i].phase = "running" => runs[i].stopped)
CancelledSearchInv ==
    \A i \in Searches : <<"cancel", i>> \in issued \ calls /\ i \notin dropped =>
        (lists[i].on => lists[i].stopped)

ManagerInv ==
    /\ ManagerTypes
    /\ TombstonesInv
    /\ RunsInv /\ WorkerInv /\ SearchInv
    /\ CancelledRunsInv /\ CancelledSearchInv

(* Cancels that have run stay the same, and those pushed out stay so.       *)
CancelsFit ==
    /\ \A i \in Tests \cup Searches :
         <<"cancel", i>> \in issued' \ calls' => <<"cancel", i>> \in issued \ calls
    /\ dropped \subseteq dropped'

(* Tests that run on after a step ran before it, stopped if they were.      *)
RunsFit ==
    \A i \in Tests : runs'[i].phase = "running" =>
        runs[i].phase = "running" /\ (runs[i].stopped => runs'[i].stopped)

ListsFit ==
    \A i \in Searches : lists'[i].on => lists[i].on /\ (lists[i].stopped => lists'[i].stopped)

(* Setting tombstones forgets none but those pushed out.                    *)
LEMMA BuriedStay ==
    ASSUME NEW s, NEW ids, Manager!Buried(s, ids)
    PROVE  /\ dropped \subseteq dropped'
           /\ \A i : i \in Manager!ToSet(cancelled) \/ (i \in ids /\ i # "none") =>
                i \in dropped' \/ i \in Manager!ToSet(cancelled')
BY DEF Manager!Buried, Manager!None

(* Stopping the search the manager knows stops only that.                   *)
LEMMA ListStoppedFits ==
    ASSUME ManagerTypes, NEW i \in Searches \cup {"none"}
    PROVE  /\ Manager!ListStopped(i) \in [Searches -> Listing]
           /\ \A j \in Searches :
                /\ Manager!ListStopped(i)[j].on = lists[j].on
                /\ lists[j].stopped => Manager!ListStopped(i)[j].stopped
                /\ j = i => Manager!ListStopped(i)[j].stopped
<1>1. CASE i = "none"
  <2>1. Manager!ListStopped(i) = lists
    BY <1>1 DEF Manager!ListStopped, Manager!None
  <2>2. \A j \in Searches : j # i
    BY <1>1, IdAssumption
  <2> QED BY <2>1, <2>2 DEF ManagerTypes
<1>2. CASE i # "none"
  <2>1. Manager!ListStopped(i) = [lists EXCEPT ![i].stopped = TRUE] /\ i \in Searches
    BY <1>2 DEF Manager!ListStopped, Manager!None
  <2>2. lists \in [Searches -> Listing] /\ lists[i] \in Listing
    BY <2>1 DEF ManagerTypes
  <2> DEFINE cut == [lists[i] EXCEPT !.stopped = TRUE]
  <2>3. cut \in Listing /\ cut.on = lists[i].on /\ cut.stopped
    BY <2>2 DEF Listing
  <2>4. Manager!ListStopped(i) = [lists EXCEPT ![i] = cut]
    BY <2>1
  <2> HIDE DEF cut
  <2> QED BY <2>1, <2>2, <2>3, <2>4
<1> QED BY <1>1, <1>2

(* Stopping tests changes no phase.                                         *)
LEMMA StoppedFits ==
    ASSUME NEW r \in [Tests -> Run], NEW ids
    PROVE  /\ Manager!Stopped(r, ids) \in [Tests -> Run]
           /\ \A i \in Tests :
                /\ Manager!Stopped(r, ids)[i].phase = r[i].phase
                /\ r[i].stopped => Manager!Stopped(r, ids)[i].stopped
                /\ i \in ids /\ r[i].phase # "none" => Manager!Stopped(r, ids)[i].stopped
<1> DEFINE t == Manager!Stopped(r, ids)
<1>1. t = [i \in Tests |-> IF i \in ids /\ r[i].phase # "none" THEN [r[i] EXCEPT !.stopped = TRUE] ELSE r[i]]
  BY DEF Manager!Stopped, Manager!None
<1> HIDE DEF t
<1>2. ASSUME NEW i \in Tests
      PROVE  /\ t[i] \in Run
             /\ t[i].phase = r[i].phase
             /\ r[i].stopped => t[i].stopped
             /\ i \in ids /\ r[i].phase # "none" => t[i].stopped
  <2>1. CASE i \in ids /\ r[i].phase # "none"
    <3>1. t[i] = [r[i] EXCEPT !.stopped = TRUE] /\ r[i] \in Run
      BY <2>1, <1>1
    <3> QED BY <3>1 DEF Run
  <2>2. CASE ~(i \in ids /\ r[i].phase # "none")
    BY <2>2, <1>1
  <2> QED BY <2>1, <2>2
<1>3. t \in [Tests -> Run]
  BY <1>1, <1>2
<1> QED BY <1>2, <1>3 DEF t

(* What a step keeps that runs no cancel, starts nothing and searches       *)
(* nothing.                                                                 *)
LEMMA CancelledStay ==
    ASSUME ManagerInv, CancelsFit, RunsFit, ListsFit
    PROVE  CancelledRunsInv' /\ CancelledSearchInv'
BY DEF ManagerInv, CancelsFit, RunsFit, ListsFit, CancelledRunsInv, CancelledSearchInv

LEMMA CallKeeps ==
    ASSUME ManagerInv, NEW op, NEW i, Manager!Call(op, i)
    PROVE  ManagerInv'
<1>1. UNCHANGED <<runs, latest, pending, running, worker, lists, discovery, cancelled, dropped>>
  BY DEF Manager!Call
<1>2. issued' = issued \cup {<<op, i>>} /\ calls' = calls \cup {<<op, i>>}
  BY DEF Manager!Call
<1>3. CancelsFit /\ RunsFit /\ ListsFit
  BY <1>1, <1>2 DEF CancelsFit, RunsFit, ListsFit
<1>4. ManagerTypes' /\ RunsInv' /\ WorkerInv' /\ SearchInv'
  BY <1>1 DEF ManagerInv, ManagerTypes, RunsInv, WorkerInv, SearchInv
<1>5. TombstonesInv'
  BY <1>1, <1>3 DEF ManagerInv, TombstonesInv, CancelsFit
<1> QED BY <1>3, <1>4, <1>5, CancelledStay DEF ManagerInv

LEMMA StartKeeps ==
    ASSUME ManagerInv, NEW i \in Tests, Manager!start(i)
    PROVE  ManagerInv'
<1>0. calls' = calls \ {<<"start", i>>} /\ UNCHANGED <<issued, running, discovery>>
  BY DEF Manager!start
<1>a. \A j \in Tests \cup Searches : <<"cancel", j>> \in calls' <=> <<"cancel", j>> \in calls
  BY <1>0
<1>1. CASE Manager!cancelledLocked(i) \/ latest = i
  <2>1. UNCHANGED <<runs, latest, pending, worker, lists, cancelled, dropped>>
    BY <1>1 DEF Manager!start
  <2>2. CancelsFit /\ RunsFit /\ ListsFit
    BY <2>1, <1>0, <1>a DEF CancelsFit, RunsFit, ListsFit
  <2>3. ManagerTypes' /\ RunsInv' /\ WorkerInv' /\ SearchInv'
    BY <2>1, <1>0 DEF ManagerInv, ManagerTypes, RunsInv, WorkerInv, SearchInv
  <2>4. TombstonesInv'
    BY <2>1, <2>2 DEF ManagerInv, TombstonesInv, CancelsFit
  <2> QED BY <2>2, <2>3, <2>4, CancelledStay DEF ManagerInv
<1>2. CASE ~(Manager!cancelledLocked(i) \/ latest = i)
  <2> DEFINE ended == [j \in Tests |-> IF j = pending THEN Manager!complete(runs[j], "canceled", FALSE) ELSE runs[j]]
             new == [phase |-> "running", stopped |-> FALSE]
  <2>1. /\ Manager!Buried(Manager!rememberCancelLocked(cancelled, latest), {latest})
        /\ runs' = [Manager!Stopped(ended, {latest}) EXCEPT ![i] = new]
        /\ lists' = Manager!ListStopped(discovery)
        /\ latest' = i /\ pending' = i /\ worker' = TRUE
    BY <1>2 DEF Manager!start
  <2>2. ASSUME NEW j \in Tests
        PROVE  /\ ended[j] \in Run
               /\ j = pending => ended[j].phase = "cancelled"
               /\ j # pending => ended[j] = runs[j]
    <3>1. runs[j] \in Run
      BY DEF ManagerInv, ManagerTypes
    <3>2. CASE j = pending
      <4>1. ended[j] = [runs[j] EXCEPT !.phase = "cancelled"]
        BY <3>2 DEF Manager!complete
      <4> QED BY <4>1, <3>1, <3>2 DEF Run
    <3>3. CASE j # pending
      BY <3>1, <3>3
    <3> QED BY <3>2, <3>3
  <2>3. ended \in [Tests -> Run]
    BY <2>2
  <2> HIDE DEF ended
  <2> DEFINE t == Manager!Stopped(ended, {latest})
  <2>4. /\ t \in [Tests -> Run]
        /\ \A j \in Tests : /\ t[j].phase = ended[j].phase
                            /\ ended[j].stopped => t[j].stopped
                            /\ j = latest /\ ended[j].phase # "none" => t[j].stopped
    BY <2>3, StoppedFits
  <2> HIDE DEF t
  <2>5. runs' = [t EXCEPT ![i] = new] /\ new \in Run
    BY <2>1 DEF t, Run
  <2>6. runs' \in [Tests -> Run] /\ runs'[i] = new /\ \A j \in Tests : j # i => runs'[j] = t[j]
    BY <2>4, <2>5
  <2>7. /\ lists' \in [Searches -> Listing]
        /\ \A j \in Searches : lists'[j].on = lists[j].on /\ (lists[j].stopped => lists'[j].stopped)
    BY <2>1, ListStoppedFits DEF ManagerInv, ManagerTypes
  <2>8. ManagerTypes' /\ WorkerInv'
    BY <2>1, <2>6, <2>7, <1>0 DEF ManagerInv, ManagerTypes, WorkerInv
  <2>9. ASSUME NEW j \in Tests, j # i, runs'[j].phase = "running"
        PROVE  /\ runs[j].phase = "running" /\ j = running
               /\ runs'[j].stopped
    <3>1. j # pending /\ ended[j] = runs[j] /\ runs'[j] = t[j] /\ runs[j].phase = "running"
      BY <2>2, <2>4, <2>6, <2>9
    <3>2. j = running /\ (j # latest => runs[j].stopped)
      BY <3>1 DEF ManagerInv, RunsInv
    <3> QED BY <3>1, <3>2, <2>4
  <2>10. RunsInv'
    BY <2>1, <2>9, <1>0 DEF RunsInv
  <2>11. SearchInv'
    BY <2>7, <1>0 DEF ManagerInv, SearchInv
  <2>12. CancelsFit
    BY <2>1, <1>0, <1>a, BuriedStay DEF CancelsFit
  <2>13. TombstonesInv'
    BY <2>1, <2>12, BuriedStay DEF ManagerInv, TombstonesInv, CancelsFit
  <2>14. CancelledSearchInv'
    BY <2>7, <2>12 DEF ManagerInv, CancelledSearchInv, CancelsFit
  <2>15. CancelledRunsInv'
    <3> SUFFICES ASSUME NEW j \in Tests, <<"cancel", j>> \in issued' \ calls', j \notin dropped',
                        runs'[j].phase = "running"
                 PROVE  runs'[j].stopped
      BY DEF CancelledRunsInv
    <3>1. CASE j = i
      <4>1. i \in dropped \/ i \in Manager!ToSet(cancelled)
        BY <3>1, <2>12 DEF ManagerInv, TombstonesInv, CancelsFit
      <4>2. i \notin Manager!ToSet(cancelled)
        BY <1>2 DEF Manager!cancelledLocked
      <4> QED BY <3>1, <4>1, <4>2, <2>12 DEF CancelsFit
    <3>2. CASE j # i
      BY <3>2, <2>9
    <3> QED BY <3>1, <3>2
  <2> QED BY <2>8, <2>10, <2>11, <2>13, <2>14, <2>15 DEF ManagerInv
<1> QED BY <1>1, <1>2

LEMMA CancelKeeps ==
    ASSUME ManagerInv, NEW i \in Tests \cup Searches, Manager!cancel(i)
    PROVE  ManagerInv'
<1>1. /\ calls' = calls \ {<<"cancel", i>>}
      /\ Manager!Buried(Manager!rememberCancelLocked(cancelled, i), {i})
      /\ runs' = Manager!Stopped(runs, {latest} \cap {i})
      /\ lists' = IF discovery = i THEN Manager!ListStopped(i) ELSE lists
      /\ UNCHANGED <<issued, latest, pending, running, worker, discovery>>
  BY DEF Manager!cancel
<1>2. /\ runs' \in [Tests -> Run]
      /\ \A j \in Tests : /\ runs'[j].phase = runs[j].phase
                          /\ runs[j].stopped => runs'[j].stopped
                          /\ j = latest /\ j = i /\ runs[j].phase # "none" => runs'[j].stopped
  BY <1>1, StoppedFits DEF ManagerInv, ManagerTypes
<1>3. /\ lists' \in [Searches -> Listing]
      /\ \A j \in Searches : /\ lists'[j].on = lists[j].on
                             /\ lists[j].stopped => lists'[j].stopped
                             /\ j = discovery /\ j = i => lists'[j].stopped
  <2>1. CASE discovery = i
    <3>1. lists' = Manager!ListStopped(i) /\ i \in Searches \cup {"none"}
      BY <1>1, <2>1 DEF ManagerInv, ManagerTypes
    <3> QED BY <3>1, ListStoppedFits DEF ManagerInv
  <2>2. CASE discovery # i
    BY <1>1, <2>2 DEF ManagerInv, ManagerTypes
  <2> QED BY <2>1, <2>2
<1>4. ManagerTypes' /\ WorkerInv' /\ RunsInv' /\ SearchInv'
  BY <1>1, <1>2, <1>3 DEF ManagerInv, ManagerTypes, WorkerInv, RunsInv, SearchInv
<1>5. i # "none"
  BY IdAssumption
<1>6. /\ dropped \subseteq dropped'
      /\ i \in dropped' \/ i \in Manager!ToSet(cancelled')
      /\ \A j : j \in Manager!ToSet(cancelled) => j \in dropped' \/ j \in Manager!ToSet(cancelled')
  BY <1>1, <1>5, BuriedStay
<1>7. ASSUME NEW j \in Tests \cup Searches, <<"cancel", j>> \in issued' \ calls'
      PROVE  j = i \/ <<"cancel", j>> \in issued \ calls
  BY <1>1, <1>7
<1>8. TombstonesInv'
  BY <1>6, <1>7 DEF ManagerInv, TombstonesInv
<1>9. CancelledRunsInv'
  <2> SUFFICES ASSUME NEW j \in Tests, <<"cancel", j>> \in issued' \ calls', j \notin dropped',
                      runs'[j].phase = "running"
               PROVE  runs'[j].stopped
    BY DEF CancelledRunsInv
  <2>1. CASE j = i
    <3>1. j # latest => runs[j].stopped
      BY <1>2 DEF ManagerInv, RunsInv
    <3> QED BY <2>1, <3>1, <1>2
  <2>2. CASE j # i
    BY <2>2, <1>2, <1>6, <1>7 DEF ManagerInv, CancelledRunsInv
  <2> QED BY <2>1, <2>2
<1>10. CancelledSearchInv'
  <2> SUFFICES ASSUME NEW j \in Searches, <<"cancel", j>> \in issued' \ calls', j \notin dropped',
                      lists'[j].on
               PROVE  lists'[j].stopped
    BY DEF CancelledSearchInv
  <2>1. CASE j = i
    <3>1. lists[j].stopped \/ discovery = j
      BY <1>3 DEF ManagerInv, SearchInv
    <3> QED BY <2>1, <3>1, <1>3
  <2>2. CASE j # i
    BY <2>2, <1>3, <1>6, <1>7 DEF ManagerInv, CancelledSearchInv
  <2> QED BY <2>1, <2>2
<1> QED BY <1>4, <1>8, <1>9, <1>10 DEF ManagerInv

LEMMA StopKeeps ==
    ASSUME ManagerInv, Manager!stop
    PROVE  ManagerInv'
<1> DEFINE s == Manager!rememberCancelLocked(Manager!rememberCancelLocked(cancelled, latest), discovery)
<1>1. /\ Manager!Buried(s, {latest, discovery})
      /\ runs' = Manager!Stopped(runs, {latest, running})
      /\ lists' = Manager!ListStopped(discovery)
      /\ UNCHANGED <<calls, issued, latest, pending, running, worker, discovery>>
  BY DEF Manager!stop
<1> HIDE DEF s
<1>2. /\ runs' \in [Tests -> Run]
      /\ \A j \in Tests : runs'[j].phase = runs[j].phase /\ (runs[j].stopped => runs'[j].stopped)
  BY <1>1, StoppedFits DEF ManagerInv, ManagerTypes
<1>3. /\ lists' \in [Searches -> Listing]
      /\ \A j \in Searches : lists'[j].on = lists[j].on /\ (lists[j].stopped => lists'[j].stopped)
  BY <1>1, ListStoppedFits DEF ManagerInv, ManagerTypes
<1>4. ManagerTypes' /\ WorkerInv' /\ RunsInv' /\ SearchInv'
  BY <1>1, <1>2, <1>3 DEF ManagerInv, ManagerTypes, WorkerInv, RunsInv, SearchInv
<1>5. CancelsFit /\ RunsFit /\ ListsFit
  BY <1>1, <1>2, <1>3, BuriedStay DEF CancelsFit, RunsFit, ListsFit
<1>6. TombstonesInv'
  BY <1>1, <1>5, BuriedStay DEF ManagerInv, TombstonesInv, CancelsFit
<1> QED BY <1>4, <1>5, <1>6, CancelledStay DEF ManagerInv

LEMMA ServersKeeps ==
    ASSUME ManagerInv, NEW i \in Searches, Manager!servers(i)
    PROVE  ManagerInv'
<1>1. /\ calls' = calls \ {<<"servers", i>>}
      /\ UNCHANGED <<issued, runs, latest, pending, running, worker, cancelled, dropped>>
  BY DEF Manager!servers
<1>2. CancelsFit /\ RunsFit
  BY <1>1 DEF CancelsFit, RunsFit
<1>3. RunsInv' /\ WorkerInv' /\ TombstonesInv' /\ CancelledRunsInv'
  BY <1>1, <1>2 DEF ManagerInv, RunsInv, WorkerInv, TombstonesInv, CancelledRunsInv, CancelsFit
<1>4. CASE Manager!cancelledLocked(i)
  <2>1. UNCHANGED <<lists, discovery>>
    BY <1>4 DEF Manager!servers
  <2>2. ManagerTypes' /\ SearchInv'
    BY <2>1, <1>1 DEF ManagerInv, ManagerTypes, SearchInv
  <2>3. CancelledSearchInv'
    BY <2>1, <1>1, <1>2 DEF ManagerInv, CancelledSearchInv, CancelsFit
  <2> QED BY <2>2, <2>3, <1>3 DEF ManagerInv
<1>5. CASE ~Manager!cancelledLocked(i)
  <2> DEFINE t == Manager!ListStopped(discovery)
             new == [on |-> TRUE, stopped |-> FALSE]
  <2>1. lists' = [t EXCEPT ![i] = new] /\ discovery' = i
    BY <1>5 DEF Manager!servers
  <2>2. /\ t \in [Searches -> Listing]
        /\ \A j \in Searches : /\ t[j].on = lists[j].on
                               /\ lists[j].stopped => t[j].stopped
                               /\ j = discovery => t[j].stopped
    BY ListStoppedFits DEF ManagerInv, ManagerTypes
  <2> HIDE DEF t
  <2>3. new \in Listing
    BY DEF Listing
  <2>4. lists' \in [Searches -> Listing] /\ \A j \in Searches : j # i => lists'[j] = t[j]
    BY <2>1, <2>2, <2>3
  <2>5. ManagerTypes'
    BY <2>1, <2>4, <1>1 DEF ManagerInv, ManagerTypes
  <2>6. SearchInv'
    BY <2>1, <2>2, <2>4 DEF ManagerInv, SearchInv
  <2>7. CancelledSearchInv'
    <3> SUFFICES ASSUME NEW j \in Searches, <<"cancel", j>> \in issued' \ calls', j \notin dropped',
                        lists'[j].on
                 PROVE  lists'[j].stopped
      BY DEF CancelledSearchInv
    <3>1. CASE j = i
      <4>1. i \in dropped \/ i \in Manager!ToSet(cancelled)
        BY <3>1, <1>2 DEF ManagerInv, TombstonesInv, CancelsFit
      <4> QED BY <3>1, <4>1, <1>1, <1>5 DEF Manager!cancelledLocked
    <3>2. CASE j # i
      BY <3>2, <2>2, <2>4, <1>1, <1>2 DEF ManagerInv, CancelledSearchInv, CancelsFit
    <3> QED BY <3>1, <3>2
  <2> QED BY <2>5, <2>6, <2>7, <1>3 DEF ManagerInv
<1> QED BY <1>4, <1>5

LEMMA ServersEndKeeps ==
    ASSUME ManagerInv, NEW i \in Searches, Manager!serversEnd(i)
    PROVE  ManagerInv'
<1>1. /\ lists' = [lists EXCEPT ![i].on = FALSE]
      /\ discovery' = IF discovery = i THEN "none" ELSE discovery
      /\ UNCHANGED <<calls, issued, runs, latest, pending, running, worker, cancelled, dropped>>
  BY DEF Manager!serversEnd, Manager!None
<1>2. /\ lists' \in [Searches -> Listing] /\ ~lists'[i].on
      /\ \A j \in Searches : j # i => lists'[j] = lists[j]
  BY <1>1 DEF ManagerInv, ManagerTypes, Listing
<1>3. ManagerTypes' /\ SearchInv'
  BY <1>1, <1>2 DEF ManagerInv, ManagerTypes, SearchInv
<1>4. RunsInv' /\ WorkerInv' /\ TombstonesInv'
  BY <1>1 DEF ManagerInv, RunsInv, WorkerInv, TombstonesInv
<1>5. CancelsFit /\ RunsFit /\ ListsFit
  BY <1>1, <1>2 DEF CancelsFit, RunsFit, ListsFit
<1> QED BY <1>3, <1>4, <1>5, CancelledStay DEF ManagerInv

LEMMA WorkKeeps ==
    ASSUME ManagerInv, Manager!work
    PROVE  ManagerInv'
<1>1. /\ running = "none"
      /\ IF pending = "none" THEN worker' = FALSE /\ UNCHANGED <<pending, running>>
         ELSE running' = pending /\ pending' = "none" /\ UNCHANGED worker
      /\ UNCHANGED <<calls, issued, runs, latest, lists, discovery, cancelled, dropped>>
  BY DEF Manager!work, Manager!None
<1>2. ManagerTypes' /\ WorkerInv'
  BY <1>1 DEF ManagerInv, ManagerTypes, WorkerInv
<1>3. RunsInv'
  BY <1>1, IdAssumption DEF ManagerInv, RunsInv
<1>4. SearchInv' /\ TombstonesInv'
  BY <1>1 DEF ManagerInv, SearchInv, TombstonesInv
<1>5. CancelsFit /\ RunsFit /\ ListsFit
  BY <1>1 DEF CancelsFit, RunsFit, ListsFit
<1> QED BY <1>2, <1>3, <1>4, <1>5, CancelledStay DEF ManagerInv

LEMMA RunKeeps ==
    ASSUME ManagerInv, NEW measured \in BOOLEAN, Manager!run(measured)
    PROVE  ManagerInv'
<1>1. /\ running # "none" /\ running' = "none"
      /\ UNCHANGED <<calls, issued, latest, pending, worker, lists, discovery, cancelled, dropped>>
  BY DEF Manager!run, Manager!None
<1>2. running \in Tests /\ runs[running] \in Run
  BY <1>1 DEF ManagerInv, ManagerTypes
<1> DEFINE q == [runs[running] EXCEPT !.stopped = TRUE]
<1>3. PICK err \in Manager!execute(runs[running]) :
         runs' = [runs EXCEPT ![running] = Manager!complete(q, err, measured)]
  BY DEF Manager!run
<1> DEFINE e == Manager!complete(q, err, measured)
<1>4. q \in Run
  BY <1>2 DEF Run
<1> HIDE DEF q
<1>5. e \in Run /\ e.phase # "running"
  BY <1>4 DEF Run, Manager!complete
<1> HIDE DEF e
<1>6. runs' = [runs EXCEPT ![running] = e]
  BY <1>3 DEF e
<1>7. /\ runs' \in [Tests -> Run] /\ runs'[running] = e
      /\ \A j \in Tests : j # running => runs'[j] = runs[j]
  BY <1>2, <1>5, <1>6 DEF ManagerInv, ManagerTypes
<1>8. ManagerTypes' /\ WorkerInv'
  BY <1>1, <1>7 DEF ManagerInv, ManagerTypes, WorkerInv
<1>9. RunsInv'
  BY <1>1, <1>5, <1>7 DEF ManagerInv, RunsInv
<1>10. SearchInv' /\ TombstonesInv'
  BY <1>1 DEF ManagerInv, SearchInv, TombstonesInv
<1>11. CancelsFit /\ ListsFit
  BY <1>1 DEF CancelsFit, ListsFit
<1>12. RunsFit
  BY <1>5, <1>7 DEF RunsFit
<1> QED BY <1>8, <1>9, <1>10, <1>11, <1>12, CancelledStay DEF ManagerInv

(* In whatever order starts, searches, cancels, stops and the worker come,  *)
(* nothing runs on but the latest test and the latest search, and those     *)
(* only until they are cancelled (speedTestManager).                        *)
THEOREM LatestRunsAlone == Manager!Spec => []OnlyTheLatestRuns
<1>1. Manager!Init => ManagerInv
  <2> SUFFICES ASSUME Manager!Init PROVE ManagerInv
    OBVIOUS
  <2> USE DEF Manager!Init, Manager!None, Manager!NoRun
  <2>1. ManagerTypes
    BY DEF ManagerTypes, Run, Listing
  <2>2. TombstonesInv /\ CancelledRunsInv /\ CancelledSearchInv
    BY DEF TombstonesInv, CancelledRunsInv, CancelledSearchInv
  <2>3. RunsInv /\ WorkerInv /\ SearchInv
    BY DEF RunsInv, WorkerInv, SearchInv
  <2> QED BY <2>1, <2>2, <2>3 DEF ManagerInv
<1>2. ManagerInv /\ [Manager!Next]_(Manager!vars) => ManagerInv'
  <2> SUFFICES ASSUME ManagerInv, [Manager!Next]_(Manager!vars) PROVE ManagerInv'
    OBVIOUS
  <2>1. ASSUME NEW op, NEW i, Manager!Call(op, i) PROVE ManagerInv'
    BY <2>1, CallKeeps
  <2>2. ASSUME NEW i \in Tests, Manager!start(i) PROVE ManagerInv'
    BY <2>2, StartKeeps
  <2>3. ASSUME NEW i \in Manager!Ids, Manager!cancel(i) PROVE ManagerInv'
    BY <2>3, CancelKeeps DEF Manager!Ids
  <2>4. ASSUME NEW i \in Searches, Manager!servers(i) PROVE ManagerInv'
    BY <2>4, ServersKeeps
  <2>5. ASSUME NEW i \in Searches, Manager!serversEnd(i) PROVE ManagerInv'
    BY <2>5, ServersEndKeeps
  <2>6. CASE Manager!stop
    BY <2>6, StopKeeps
  <2>7. CASE Manager!work
    BY <2>7, WorkKeeps
  <2>8. ASSUME NEW measured \in BOOLEAN, Manager!run(measured) PROVE ManagerInv'
    BY <2>8, RunKeeps
  <2>9. CASE UNCHANGED Manager!vars
    <3>1. UNCHANGED <<calls, issued, runs, latest, pending, running, worker, lists, discovery, cancelled, dropped>>
      BY <2>9 DEF Manager!vars
    <3> QED BY <3>1 DEF ManagerInv, ManagerTypes, TombstonesInv, RunsInv, WorkerInv, SearchInv,
                        CancelledRunsInv, CancelledSearchInv
  <2> QED BY <2>1, <2>2, <2>3, <2>4, <2>5, <2>6, <2>7, <2>8, <2>9 DEF Manager!Next
<1>3. ManagerInv => OnlyTheLatestRuns
  <2> SUFFICES ASSUME ManagerInv PROVE OnlyTheLatestRuns
    OBVIOUS
  <2>1. Manager!CancelWins
    BY DEF ManagerInv, CancelledRunsInv, CancelledSearchInv, Manager!CancelWins, Manager!Ids
  <2>2. Manager!LatestAlone
    BY DEF ManagerInv, RunsInv, WorkerInv, SearchInv, Manager!LatestAlone, Manager!None
  <2> QED BY <2>1, <2>2 DEF OnlyTheLatestRuns, Manager!OnlyTheLatestRuns
<1> QED BY <1>1, <1>2, <1>3, PTL DEF Manager!Spec

-------------------------------------------------------------------------------
(* The transport.                                                           *)

Connection == [kind : {"tcp", "udp", "client"}, pc : {"none", "open", "known", "closed"},
               serial : Nat, chains : Nat]

TransportTypes ==
    /\ conn \in [Dials -> Connection]
    /\ known \subseteq Dials
    /\ serial \in Nat /\ last \in Nat /\ seen \subseteq Nat

(* A connection is registered exactly while it is known, and once the       *)
(* transport is closed each of those is about to be closed.                 *)
LeakInv ==
    /\ closed => known \subseteq closing
    /\ \A d \in Dials : conn[d].pc = "known" <=> d \in known

(* The route of a connection is its own, and none before it is registered.  *)
RouteInv == \A d \in Dials : conn[d].chains \in {0, conn[d].serial}
FreshInv == \A d \in Dials : conn[d].pc \in {"none", "open"} => conn[d].chains = 0

(* The chains shown are those of the newest connection that was recorded.   *)
NewestInv ==
    /\ seen = {} => last = 0
    /\ seen # {} => last \in seen /\ chains = last
    /\ \A n \in seen : n <= last

TransportInv == TransportTypes /\ LeakInv /\ RouteInv /\ FreshInv /\ NewestInv

(* A record of a connection's own chains keeps the newest (recordLocked).   *)
LEMMA RecordKeeps ==
    ASSUME NewestInv, last \in Nat, seen \subseteq Nat,
           NEW c \in Nat, NEW n \in Nat, c \in {0, n}, Transport!recordLocked(c, n)
    PROVE  NewestInv' /\ last' \in Nat /\ seen' \subseteq Nat
<1>1. CASE c # 0 /\ n >= last
  <2>1. last' = n /\ chains' = n /\ seen' = seen \cup {n}
    BY <1>1 DEF Transport!recordLocked
  <2>2. \A k \in seen' : k <= last'
    BY <2>1, <1>1 DEF NewestInv
  <2> QED BY <2>1, <2>2 DEF NewestInv
<1>2. CASE c # 0 /\ ~(n >= last)
  <2>1. last' = last /\ chains' = chains /\ seen' = seen \cup {n}
    BY <1>2 DEF Transport!recordLocked
  <2>2. seen # {}
    BY <1>2 DEF NewestInv
  <2>3. \A k \in seen' : k <= last'
    BY <2>1, <1>2 DEF NewestInv
  <2> QED BY <2>1, <2>2, <2>3 DEF NewestInv
<1>3. CASE c = 0
  <2>1. last' = last /\ chains' = chains /\ seen' = seen
    BY <1>3 DEF Transport!recordLocked
  <2> QED BY <2>1 DEF NewestInv
<1> QED BY <1>1, <1>2, <1>3

(* One connection changes: its types and its route.                         *)
LEMMA ConnectionFits ==
    ASSUME TransportInv, NEW d \in Dials, NEW c \in Connection, c.chains \in {0, c.serial},
           c.pc \in {"none", "open"} => c.chains = 0, conn' = [conn EXCEPT ![d] = c]
    PROVE  /\ conn' \in [Dials -> Connection] /\ RouteInv' /\ FreshInv'
           /\ conn'[d] = c /\ \A x \in Dials : x # d => conn'[x] = conn[x]
BY DEF TransportInv, TransportTypes, RouteInv, FreshInv

LEMMA DialKeeps ==
    ASSUME TransportInv, NEW d \in Dials, Transport!Dial(d)
    PROVE  TransportInv'
<1> DEFINE c == [conn[d] EXCEPT !.pc = "open"]
<1>1. conn[d].pc = "none" /\ conn' = [conn EXCEPT ![d] = c]
  BY DEF Transport!Dial
<1>2. UNCHANGED <<known, serial, last, chains, closed, closing, over, seen>>
  BY DEF Transport!Dial
<1>3. c \in Connection /\ c.chains \in {0, c.serial} /\ c.pc = "open" /\ c.chains = 0
  BY <1>1 DEF TransportInv, TransportTypes, RouteInv, FreshInv, Connection
<1> HIDE DEF c
<1>4. /\ conn' \in [Dials -> Connection] /\ RouteInv' /\ FreshInv'
      /\ conn'[d] = c /\ \A x \in Dials : x # d => conn'[x] = conn[x]
  BY <1>1, <1>3, ConnectionFits
<1>5. TransportTypes' /\ NewestInv'
  BY <1>2, <1>4 DEF TransportInv, TransportTypes, NewestInv
<1>6. LeakInv'
  BY <1>1, <1>2, <1>3, <1>4 DEF TransportInv, LeakInv
<1> QED BY <1>4, <1>5, <1>6 DEF TransportInv

LEMMA RegisterKeeps ==
    ASSUME TransportInv, NEW d \in Dials, Transport!Register(d)
    PROVE  TransportInv'
<1>0. conn[d].pc = "open" /\ UNCHANGED <<closed, closing, over>> /\ conn[d] \in Connection
  BY DEF Transport!Register, TransportInv, TransportTypes
<1>1. CASE closed \/ (over /\ conn[d].kind # "client")
  <2> DEFINE c == [conn[d] EXCEPT !.pc = "closed"]
  <2>1. conn' = [conn EXCEPT ![d] = c] /\ UNCHANGED <<known, serial, last, chains, seen>>
    BY <1>1 DEF Transport!Register
  <2>2. c \in Connection /\ c.chains \in {0, c.serial} /\ c.pc = "closed"
    BY <1>0 DEF TransportInv, RouteInv, Connection
  <2> HIDE DEF c
  <2>3. /\ conn' \in [Dials -> Connection] /\ RouteInv' /\ FreshInv'
        /\ conn'[d] = c /\ \A x \in Dials : x # d => conn'[x] = conn[x]
    BY <2>1, <2>2, ConnectionFits
  <2>4. TransportTypes' /\ NewestInv'
    BY <2>1, <2>3 DEF TransportInv, TransportTypes, NewestInv
  <2>5. LeakInv'
    BY <1>0, <2>1, <2>2, <2>3 DEF TransportInv, LeakInv
  <2> QED BY <2>3, <2>4, <2>5 DEF TransportInv
<1>2. CASE ~(closed \/ (over /\ conn[d].kind # "client")) /\ conn[d].kind = "client"
  <2> DEFINE c == [conn[d] EXCEPT !.pc = "known"]
  <2>1. /\ conn' = [conn EXCEPT ![d] = c] /\ known' = known \cup {d}
        /\ UNCHANGED <<serial, last, chains, seen>>
    BY <1>2 DEF Transport!Register
  <2>2. c \in Connection /\ c.chains \in {0, c.serial} /\ c.pc = "known"
    BY <1>0 DEF TransportInv, RouteInv, Connection
  <2> HIDE DEF c
  <2>3. /\ conn' \in [Dials -> Connection] /\ RouteInv' /\ FreshInv'
        /\ conn'[d] = c /\ \A x \in Dials : x # d => conn'[x] = conn[x]
    BY <2>1, <2>2, ConnectionFits
  <2>4. TransportTypes' /\ NewestInv'
    BY <2>1, <2>3 DEF TransportInv, TransportTypes, NewestInv
  <2>5. LeakInv'
    BY <1>0, <1>2, <2>1, <2>2, <2>3 DEF TransportInv, LeakInv
  <2> QED BY <2>3, <2>4, <2>5 DEF TransportInv
<1>3. CASE ~(closed \/ (over /\ conn[d].kind # "client")) /\ conn[d].kind # "client"
  <2> DEFINE c == [kind |-> conn[d].kind, pc |-> "known", serial |-> serial + 1, chains |-> conn[d].chains]
             n == IF conn[d].kind = "udp" THEN serial + 1 ELSE 0
  <2>1. /\ conn' = [conn EXCEPT ![d] = c] /\ known' = known \cup {d} /\ serial' = serial + 1
        /\ Transport!recordLocked(n, serial + 1)
    BY <1>3 DEF Transport!Register
  <2>2. conn[d].chains = 0
    BY <1>0 DEF TransportInv, FreshInv
  <2>3. c \in Connection /\ c.chains \in {0, c.serial} /\ c.pc = "known"
    BY <1>0, <2>2 DEF TransportInv, TransportTypes, Connection
  <2>4. serial + 1 \in Nat /\ n \in Nat /\ n \in {0, serial + 1}
    BY DEF TransportInv, TransportTypes
  <2> HIDE DEF c, n
  <2>5. /\ conn' \in [Dials -> Connection] /\ RouteInv' /\ FreshInv'
        /\ conn'[d] = c /\ \A x \in Dials : x # d => conn'[x] = conn[x]
    BY <2>1, <2>3, ConnectionFits
  <2>6. NewestInv' /\ last' \in Nat /\ seen' \subseteq Nat
    BY <2>1, <2>4, RecordKeeps DEF TransportInv, TransportTypes
  <2>7. TransportTypes'
    BY <2>1, <2>4, <2>5, <2>6 DEF TransportInv, TransportTypes
  <2>8. LeakInv'
    BY <1>0, <1>3, <2>1, <2>3, <2>5 DEF TransportInv, LeakInv
  <2> QED BY <2>5, <2>6, <2>7, <2>8 DEF TransportInv
<1> QED BY <1>1, <1>2, <1>3

LEMMA RoutedKeeps ==
    ASSUME TransportInv, NEW d \in Dials, Transport!Routed(d)
    PROVE  TransportInv'
<1> DEFINE c == [conn[d] EXCEPT !.chains = conn[d].serial]
<1>1. conn[d].pc = "known" /\ conn' = [conn EXCEPT ![d] = c]
  BY DEF Transport!Routed
<1>2. UNCHANGED <<known, serial, last, chains, closed, closing, over, seen>>
  BY DEF Transport!Routed
<1>3. c \in Connection /\ c.chains \in {0, c.serial} /\ c.pc = "known"
  BY <1>1 DEF TransportInv, TransportTypes, Connection
<1> HIDE DEF c
<1>4. /\ conn' \in [Dials -> Connection] /\ RouteInv' /\ FreshInv'
      /\ conn'[d] = c /\ \A x \in Dials : x # d => conn'[x] = conn[x]
  BY <1>1, <1>3, ConnectionFits
<1>5. TransportTypes' /\ NewestInv'
  BY <1>2, <1>4 DEF TransportInv, TransportTypes, NewestInv
<1>6. LeakInv'
  BY <1>1, <1>2, <1>3, <1>4 DEF TransportInv, LeakInv
<1> QED BY <1>4, <1>5, <1>6 DEF TransportInv

LEMMA ObserveKeeps ==
    ASSUME TransportInv, NEW d \in Dials, Transport!observe(d)
    PROVE  TransportInv'
<1>1. UNCHANGED <<conn, known, serial, closed, closing, over>>
  BY DEF Transport!observe
<1>2. Transport!recordLocked(conn[d].chains, conn[d].serial)
  BY DEF Transport!observe
<1>3. conn[d].chains \in Nat /\ conn[d].serial \in Nat /\ conn[d].chains \in {0, conn[d].serial}
  BY DEF TransportInv, TransportTypes, RouteInv, Connection
<1>4. NewestInv' /\ last' \in Nat /\ seen' \subseteq Nat
  BY <1>2, <1>3, RecordKeeps DEF TransportInv, TransportTypes
<1> QED BY <1>1, <1>4 DEF TransportInv, TransportTypes, LeakInv, RouteInv, FreshInv

LEMMA CloseKeeps ==
    ASSUME TransportInv, NEW d \in Dials, Transport!Close(d)
    PROVE  TransportInv'
<1> DEFINE c == [conn[d] EXCEPT !.pc = "closed"]
<1>1. /\ conn' = [conn EXCEPT ![d] = c] /\ known' = known \ {d} /\ closing' = closing \ {d}
      /\ UNCHANGED <<serial, closed, over>>
  BY DEF Transport!Close
<1>2. c \in Connection /\ c.chains \in {0, c.serial} /\ c.pc = "closed"
  BY DEF TransportInv, TransportTypes, RouteInv, Connection
<1> HIDE DEF c
<1>3. /\ conn' \in [Dials -> Connection] /\ RouteInv' /\ FreshInv'
      /\ conn'[d] = c /\ \A x \in Dials : x # d => conn'[x] = conn[x]
  BY <1>1, <1>2, ConnectionFits
<1>4. NewestInv' /\ last' \in Nat /\ seen' \subseteq Nat
  <2>1. CASE conn[d].kind = "tcp"
    <3>1. Transport!recordLocked(conn[d].chains, conn[d].serial)
      BY <2>1 DEF Transport!Close
    <3>2. conn[d].chains \in Nat /\ conn[d].serial \in Nat /\ conn[d].chains \in {0, conn[d].serial}
      BY DEF TransportInv, TransportTypes, RouteInv, Connection
    <3> QED BY <3>1, <3>2, RecordKeeps DEF TransportInv, TransportTypes
  <2>2. CASE conn[d].kind # "tcp"
    <3>1. UNCHANGED <<last, chains, seen>>
      BY <2>2 DEF Transport!Close
    <3> QED BY <3>1 DEF TransportInv, TransportTypes, NewestInv
  <2> QED BY <2>1, <2>2
<1>5. TransportTypes'
  BY <1>1, <1>3, <1>4 DEF TransportInv, TransportTypes
<1>6. LeakInv'
  BY <1>1, <1>2, <1>3 DEF TransportInv, LeakInv
<1> QED BY <1>3, <1>4, <1>5, <1>6 DEF TransportInv

(* Whatever dials, registrations, reports of routes and closes interleave,  *)
(* no connection outlives the closed transport unknown to it, and the route *)
(* shown is that of the newest connection recorded (speedTestTransport).    *)
THEOREM TransportLeavesNothing == Transport!Spec => []TransportIsTraced
<1>1. Transport!Init => TransportInv
  <2> SUFFICES ASSUME Transport!Init PROVE TransportInv
    OBVIOUS
  <2>1. conn \in [Dials -> [kind : {"tcp", "udp", "client"}, pc : {"none"}, serial : {0}, chains : {0}]]
    BY DEF Transport!Init
  <2>2. conn \in [Dials -> Connection]
    BY <2>1 DEF Connection
  <2>3. \A d \in Dials : conn[d].pc = "none" /\ conn[d].chains = 0
    BY <2>1
  <2>4. /\ known = {} /\ serial = 0 /\ last = 0 /\ chains = 0
        /\ closed = FALSE /\ closing = {} /\ over = FALSE /\ seen = {}
    BY DEF Transport!Init
  <2>5. TransportTypes
    BY <2>2, <2>4 DEF TransportTypes
  <2>6. LeakInv /\ RouteInv /\ FreshInv /\ NewestInv
    BY <2>3, <2>4 DEF LeakInv, RouteInv, FreshInv, NewestInv
  <2> QED BY <2>5, <2>6 DEF TransportInv
<1>2. TransportInv /\ [Transport!Next]_(Transport!vars) => TransportInv'
  <2> SUFFICES ASSUME TransportInv, [Transport!Next]_(Transport!vars) PROVE TransportInv'
    OBVIOUS
  <2>1. ASSUME NEW d \in Dials, Transport!Dial(d) PROVE TransportInv'
    BY <2>1, DialKeeps
  <2>2. ASSUME NEW d \in Dials, Transport!Register(d) PROVE TransportInv'
    BY <2>2, RegisterKeeps
  <2>3. ASSUME NEW d \in Dials, Transport!Routed(d) PROVE TransportInv'
    BY <2>3, RoutedKeeps
  <2>4. ASSUME NEW d \in Dials, Transport!observe(d) PROVE TransportInv'
    BY <2>4, ObserveKeeps
  <2>5. ASSUME NEW d \in Dials, Transport!Close(d) PROVE TransportInv'
    BY <2>5, CloseKeeps
  <2>6. CASE Transport!cancelContext
    BY <2>6 DEF Transport!cancelContext, TransportInv, TransportTypes, LeakInv, RouteInv, FreshInv, NewestInv
  <2>7. CASE Transport!close
    BY <2>7 DEF Transport!close, TransportInv, TransportTypes, LeakInv, RouteInv, FreshInv, NewestInv
  <2>8. CASE UNCHANGED Transport!vars
    BY <2>8 DEF Transport!vars, TransportInv, TransportTypes, LeakInv, RouteInv, FreshInv, NewestInv
  <2> QED BY <2>1, <2>2, <2>3, <2>4, <2>5, <2>6, <2>7, <2>8 DEF Transport!Next
<1>3. TransportInv => TransportIsTraced
  <2> SUFFICES ASSUME TransportInv PROVE TransportIsTraced
    OBVIOUS
  <2>1. Transport!NothingLeaks
    BY DEF TransportInv, LeakInv, Transport!NothingLeaks
  <2>2. Transport!ChainsAreNewest
    <3> SUFFICES ASSUME seen # {} PROVE chains = Transport!Max(seen) /\ last = Transport!Max(seen)
      BY DEF Transport!ChainsAreNewest
    <3>1. last \in seen /\ chains = last /\ (\A n \in seen : last >= n) /\ seen \subseteq Nat
      BY DEF TransportInv, TransportTypes, NewestInv
    <3>2. \A x \in seen : (\A n \in seen : x >= n) => x = last
      BY <3>1
    <3> QED BY <3>1, <3>2 DEF Transport!Max
  <2> QED BY <2>1, <2>2 DEF TransportIsTraced, Transport!TransportIsTraced
<1> QED BY <1>1, <1>2, <1>3, PTL DEF Transport!Spec


-------------------------------------------------------------------------------
(* The load of one direction.                                               *)

Reservation == [amount : Nat, left : 0 .. Limit, closed : BOOLEAN]
Transfer == [pc : {"loop", "transfer", "result", "done"}, res : Reservation, failures : Nat,
             result : {"none", "ctx", "budget", "error"}]

LoadTypes ==
    /\ used \in Nat /\ reserved \in Nat /\ counted \in Nat /\ remaining \in Nat
    /\ stream \in [Streams -> Transfer]
    /\ late \in [Streams -> Reservation]
    /\ loaded \in {"tick", "ping", "done"}
    /\ main \in {"sampling", "joining", "returned"}
    /\ done \in BOOLEAN /\ frozen \in BOOLEAN /\ failed \in BOOLEAN

\* The units held when each stream s has n[s] left, and what each has left.
Units(n) == {h \in Streams \X (1 .. Limit) : h[2] <= n[h[1]]}
Left == [s \in Streams |-> stream[s].res.left]
Unfinished == {s \in Streams : stream[s].pc # "done"}

\* What is spent and reserved, together and in the reservations.
SpendInv == used + reserved <= Limit /\ counted <= used /\ reserved = Cardinality(Units(Left))
\* A reservation is held in a transfer only, and one given up is closed.
HeldInv ==
    /\ \A s \in Streams : stream[s].pc # "transfer" => stream[s].res.left = 0
    /\ \A s \in Streams : late[s].closed
\* Results are taken one by one, and the measurement waits for the last.
JoinInv ==
    /\ remaining = Cardinality(Unfinished)
    /\ failed = \E s \in Streams : stream[s].pc = "done" /\ stream[s].result = "error"
    /\ main = "returned" => remaining = 0 /\ loaded = "done"

LoadInv == LoadTypes /\ SpendInv /\ HeldInv /\ JoinInv

(* Units are finitely many, and as many more or less as one stream has.     *)
LEMMA UnitsMove ==
    ASSUME NEW n \in [Streams -> 0 .. Limit], NEW s \in Streams, NEW k \in 0 .. Limit
    PROVE  /\ Cardinality(Units(n)) \in Nat
           /\ Cardinality(Units([n EXCEPT ![s] = k])) = Cardinality(Units(n)) - n[s] + k
<1> DEFINE m == [n EXCEPT ![s] = k]
           others == {h \in Units(n) : h[1] # s}
           own(j) == {s} \X (1 .. j)
<1>1. IsFiniteSet(Streams \X (1 .. Limit))
  <2>1. IsFiniteSet(1 .. Limit)
    BY FS_Interval, LoadAssumption
  <2> QED BY <2>1, FS_Product, LoadAssumption
<1>2. IsFiniteSet(Units(n)) /\ IsFiniteSet(others)
  <2>1. Units(n) \in SUBSET (Streams \X (1 .. Limit)) /\ others \in SUBSET (Streams \X (1 .. Limit))
    BY DEF Units
  <2> HIDE DEF others
  <2> QED BY <2>1, <1>1, FS_Subset
<1>3. Cardinality(Units(n)) \in Nat /\ Cardinality(others) \in Nat
  BY <1>2, FS_CardinalityType
<1>4. ASSUME NEW j \in 0 .. Limit
      PROVE  IsFiniteSet(own(j)) /\ Cardinality(own(j)) = j
  <2>0. 1 \in Int /\ j \in Int /\ (IF 1 > j THEN 0 ELSE j - 1 + 1) = j
    BY LoadAssumption
  <2>1. IsFiniteSet(1 .. j) /\ Cardinality(1 .. j) = j
    BY <2>0, FS_Interval
  <2>2. IsFiniteSet({s}) /\ Cardinality({s}) = 1
    BY FS_Singleton
  <2>3. IsFiniteSet(own(j)) /\ Cardinality(own(j)) = Cardinality({s}) * Cardinality(1 .. j)
    BY <2>1, <2>2, FS_Product
  <2> HIDE DEF own
  <2> QED BY <2>1, <2>2, <2>3
<1>5. ASSUME NEW j \in 0 .. Limit
      PROVE  Cardinality(others \cup own(j)) = Cardinality(others) + j
  <2>1. others \cap own(j) = {}
    OBVIOUS
  <2>2. Cardinality(others \cup own(j)) = Cardinality(others) + Cardinality(own(j)) - Cardinality(others \cap own(j))
    BY <1>2, <1>4, FS_Union
  <2>3. Cardinality(others \cap own(j)) = 0
    BY <2>1, FS_EmptySet
  <2> HIDE DEF own, others
  <2> QED BY <2>2, <2>3, <1>3, <1>4
<1>a. ASSUME NEW j \in 0 .. Limit
      PROVE  own(j) = {h \in Streams \X (1 .. Limit) : h[1] = s /\ h[2] <= j}
  <2>1. own(j) \subseteq Streams \X (1 .. Limit) /\ \A h \in own(j) : h[1] = s /\ h[2] <= j
    BY LoadAssumption
  <2>2. ASSUME NEW h \in Streams \X (1 .. Limit), h[1] = s, h[2] <= j
        PROVE  h \in own(j)
    <3>1. PICK r \in Streams, i \in 1 .. Limit : h = <<r, i>>
      OBVIOUS
    <3>2. r = s /\ i \in 1 .. j
      BY <3>1, <2>2, LoadAssumption
    <3> QED BY <3>1, <3>2
  <2> QED BY <2>1, <2>2
<1>6. Units(n) = others \cup own(n[s])
  <2>1. own(n[s]) = {h \in Streams \X (1 .. Limit) : h[1] = s /\ h[2] <= n[s]}
    BY <1>a
  <2> HIDE DEF own
  <2> QED BY <2>1 DEF Units
<1>7. Units(m) = others \cup own(k)
  <2>1. m \in [Streams -> 0 .. Limit] /\ m[s] = k /\ \A r \in Streams : r # s => m[r] = n[r]
    OBVIOUS
  <2>2. own(k) = {h \in Streams \X (1 .. Limit) : h[1] = s /\ h[2] <= k}
    BY <1>a
  <2>3. \A h \in Streams \X (1 .. Limit) : h[1] \in Streams
    OBVIOUS
  <2> HIDE DEF m, own
  <2> QED BY <2>1, <2>2, <2>3 DEF Units
<1>8. n[s] \in 0 .. Limit
  OBVIOUS
<1>9. Cardinality(Units(n)) = Cardinality(others) + n[s] /\ Cardinality(Units(m)) = Cardinality(others) + k
  BY <1>5, <1>6, <1>7, <1>8
<1> HIDE DEF others, own, m
<1>10. Cardinality(Units(m)) = Cardinality(Units(n)) - n[s] + k
  BY <1>3, <1>8, <1>9
<1> QED BY <1>3, <1>10 DEF m


(* One stream changes: what is held changes by what it has left.            *)
LEMMA StreamMoves ==
    ASSUME LoadTypes, SpendInv, NEW s \in Streams, NEW pc, NEW res, NEW failures, NEW result,
           [pc |-> pc, res |-> res, failures |-> failures, result |-> result] \in Transfer,
           Load!Becomes(s, pc, res, failures, result)
    PROVE  /\ stream' \in [Streams -> Transfer]
           /\ stream'[s] = [pc |-> pc, res |-> res, failures |-> failures, result |-> result]
           /\ \A r \in Streams : r # s => stream'[r] = stream[r]
           /\ Cardinality(Units(Left')) = reserved - stream[s].res.left + res.left
           /\ res.left \in 0 .. Limit /\ stream[s].res.left \in 0 .. Limit
<1> DEFINE x == [pc |-> pc, res |-> res, failures |-> failures, result |-> result]
<1>1. x \in Transfer /\ x.res = res /\ stream \in [Streams -> Transfer] /\ stream' = [stream EXCEPT ![s] = x]
  BY DEF Load!Becomes, LoadTypes
<1> HIDE DEF x
<1>2. /\ stream' \in [Streams -> Transfer] /\ stream'[s] = x
      /\ \A r \in Streams : r # s => stream'[r] = stream[r]
  BY <1>1
<1>3. res.left \in 0 .. Limit /\ \A r \in Streams : stream[r].res.left \in 0 .. Limit
  BY <1>1 DEF Transfer, Reservation
<1>4. Left \in [Streams -> 0 .. Limit] /\ Left[s] = stream[s].res.left
  BY <1>3 DEF Left
<1>5. Left' = [Left EXCEPT ![s] = res.left]
  BY <1>1, <1>2 DEF Left
<1>6. Cardinality(Units(Left')) = Cardinality(Units(Left)) - Left[s] + res.left
  BY <1>3, <1>4, <1>5, UnitsMove
<1> QED BY <1>2, <1>3, <1>4, <1>6 DEF SpendInv, x

(* No unfinished stream finishes while its result is not taken.             *)
LEMMA StreamRunsOn ==
    ASSUME LoadInv, NEW s \in Streams, stream[s].pc # "done",
           stream' \in [Streams -> Transfer], stream'[s].pc # "done",
           \A r \in Streams : r # s => stream'[r] = stream[r],
           UNCHANGED <<remaining, failed, main, loaded>>
    PROVE  JoinInv'
<1>1. Unfinished' = Unfinished
  BY DEF Unfinished
<1>2. \A r \in Streams : stream'[r].pc = "done" /\ stream'[r].result = "error"
                         <=> stream[r].pc = "done" /\ stream[r].result = "error"
  OBVIOUS
<1> QED BY <1>1, <1>2 DEF LoadInv, JoinInv

LEMMA AmountFits ==
    ASSUME used \in Nat, reserved \in Nat, used + reserved <= Limit,
           NEW wanted \in Unit .. Limit
    PROVE  Load!Amount(wanted) \in 0 .. (Limit - used - reserved)
<1> DEFINE free == Limit - used - reserved
           a == IF wanted < free THEN wanted ELSE free
<1>1. a \in Nat /\ a <= free /\ free \in Nat /\ Unit \in Nat /\ Unit > 0
  BY LoadAssumption
<1>2. Load!Amount(wanted) = (a \div Unit) * Unit
  BY DEF Load!Amount
<1> HIDE DEF a
<1>3. (a \div Unit) \in Nat /\ (a \div Unit) * Unit \in Nat /\ (a \div Unit) * Unit <= a
  BY <1>1
<1> QED BY <1>1, <1>2, <1>3


LEMMA ReserveKeeps ==
    ASSUME LoadInv, NEW s \in Streams, Load!Reserve(s)
    PROVE  LoadInv'
<1>1. /\ stream[s].pc = "loop" /\ UNCHANGED <<used, late, loaded, main, done, frozen, counted, remaining, failed>>
      /\ stream[s] \in Transfer /\ stream[s].res.left = 0
  BY DEF Load!Reserve, LoadInv, LoadTypes, HeldInv
<1>2. ASSUME NEW result \in {"ctx", "budget"}, Load!Ends(s, result), UNCHANGED reserved
      PROVE  LoadInv'
  <2> DEFINE x == [pc |-> "result", res |-> stream[s].res, failures |-> stream[s].failures, result |-> result]
  <2>1. x \in Transfer /\ Load!Becomes(s, "result", stream[s].res, stream[s].failures, result)
    BY <1>1, <1>2 DEF Transfer, Load!Ends
  <2>2. /\ stream' \in [Streams -> Transfer] /\ stream'[s] = x
        /\ \A r \in Streams : r # s => stream'[r] = stream[r]
        /\ Cardinality(Units(Left')) = reserved - stream[s].res.left + stream[s].res.left
    BY <2>1, StreamMoves DEF LoadInv
  <2>3. stream'[s].pc = "result" /\ stream'[s].res = stream[s].res
    BY <2>2
  <2> HIDE DEF x
  <2>4. LoadTypes' /\ SpendInv'
    BY <1>1, <1>2, <2>2 DEF LoadInv, LoadTypes, SpendInv
  <2>5. HeldInv'
    BY <1>1, <2>2, <2>3 DEF LoadInv, HeldInv
  <2>6. JoinInv'
    BY <1>1, <2>2, <2>3, StreamRunsOn
  <2> QED BY <2>4, <2>5, <2>6 DEF LoadInv
<1>3. ASSUME NEW n \in 1 .. Limit, n <= Limit - used - reserved, reserved' = reserved + n,
             Load!Becomes(s, "transfer", [amount |-> n, left |-> n, closed |-> FALSE],
                          stream[s].failures, stream[s].result)
      PROVE  LoadInv'
  <2> DEFINE res == [amount |-> n, left |-> n, closed |-> FALSE]
             x == [pc |-> "transfer", res |-> res, failures |-> stream[s].failures, result |-> stream[s].result]
  <2>1. res \in Reservation /\ x \in Transfer /\ res.left = n
    BY <1>1, LoadAssumption DEF Transfer, Reservation
  <2>c. Load!Becomes(s, "transfer", res, stream[s].failures, stream[s].result) /\ LoadTypes /\ SpendInv
    BY <1>3 DEF LoadInv
  <2> HIDE DEF res
  <2>d. /\ stream' \in [Streams -> Transfer] /\ stream'[s] = x
        /\ \A r \in Streams : r # s => stream'[r] = stream[r]
        /\ Cardinality(Units(Left')) = reserved - stream[s].res.left + res.left
    BY <2>1, <2>c, StreamMoves
  <2>2. /\ stream' \in [Streams -> Transfer] /\ stream'[s] = x
        /\ \A r \in Streams : r # s => stream'[r] = stream[r]
        /\ Cardinality(Units(Left')) = reserved - stream[s].res.left + n
    BY <2>1, <2>d
  <2>3. stream'[s].pc = "transfer"
    BY <2>2
  <2> HIDE DEF x
  <2>a. reserved \in Nat /\ used \in Nat /\ used + reserved <= Limit
    BY DEF LoadInv, LoadTypes, SpendInv
  <2>b. reserved' \in Nat /\ used' + reserved' <= Limit /\ reserved' = Cardinality(Units(Left'))
    BY <1>1, <1>3, <2>2, <2>a, LoadAssumption
  <2>4. LoadTypes' /\ SpendInv'
    BY <1>1, <2>2, <2>b DEF LoadInv, LoadTypes, SpendInv
  <2>5. HeldInv'
    BY <1>1, <2>2, <2>3 DEF LoadInv, HeldInv
  <2>6. JoinInv'
    BY <1>1, <2>2, <2>3, StreamRunsOn
  <2> QED BY <2>4, <2>5, <2>6 DEF LoadInv
<1>4. CASE done /\ Load!Ends(s, "ctx") /\ UNCHANGED reserved
  BY <1>2, <1>4
<1>5. ASSUME NEW wanted \in Unit .. Limit,
             LET n == Load!Amount(wanted) IN
               IF n <= 0 THEN Load!Ends(s, "budget") /\ UNCHANGED reserved
               ELSE /\ reserved' = reserved + n
                    /\ Load!Becomes(s, "transfer", [amount |-> n, left |-> n, closed |-> FALSE],
                                    stream[s].failures, stream[s].result)
      PROVE  LoadInv'
  <2>1. Load!Amount(wanted) \in 0 .. (Limit - used - reserved)
    BY AmountFits DEF LoadInv, LoadTypes, SpendInv
  <2>2. used \in Nat /\ reserved \in Nat
    BY DEF LoadInv, LoadTypes
  <2> HIDE DEF Load!Amount
  <2>3. CASE Load!Amount(wanted) <= 0
    BY <1>2, <1>5, <2>3
  <2>4. CASE ~(Load!Amount(wanted) <= 0)
    <3>1. Load!Amount(wanted) \in 1 .. Limit /\ Load!Amount(wanted) <= Limit - used - reserved
      BY <2>1, <2>2, <2>4, LoadAssumption
    <3> QED BY <1>3, <1>5, <2>4, <3>1
  <2> QED BY <2>3, <2>4
<1> QED BY <1>4, <1>5 DEF Load!Reserve

LEMMA ConsumeKeeps ==
    ASSUME LoadInv, NEW s \in Streams, Load!Consume(s)
    PROVE  LoadInv'
<1>1. /\ stream[s].pc = "transfer" /\ UNCHANGED <<late, loaded, main, done, frozen, remaining, failed>>
      /\ stream[s] \in Transfer /\ stream[s].res \in Reservation
  BY DEF Load!Consume, LoadInv, LoadTypes, Transfer
<1>2. PICK n \in 1 .. stream[s].res.left :
         /\ Load!Becomes(s, "transfer", [amount |-> stream[s].res.amount, left |-> stream[s].res.left - n,
                                         closed |-> stream[s].res.closed],
                         stream[s].failures, stream[s].result)
         /\ reserved' = reserved - n
         /\ used' = used + n
         /\ counted' = IF frozen THEN counted ELSE counted + n
  BY DEF Load!Consume
<1> DEFINE res == [amount |-> stream[s].res.amount, left |-> stream[s].res.left - n, closed |-> stream[s].res.closed]
           x == [pc |-> "transfer", res |-> res, failures |-> stream[s].failures, result |-> stream[s].result]
<1>3. res \in Reservation /\ x \in Transfer /\ res.left = stream[s].res.left - n /\ stream[s].res.left \in 0 .. Limit
  BY <1>1, LoadAssumption DEF Transfer, Reservation
<1>4. /\ stream' \in [Streams -> Transfer] /\ stream'[s] = x
      /\ \A r \in Streams : r # s => stream'[r] = stream[r]
      /\ Cardinality(Units(Left')) = reserved - stream[s].res.left + (stream[s].res.left - n)
      /\ Cardinality(Units(Left')) \in Nat
  <2>1. /\ stream' \in [Streams -> Transfer] /\ stream'[s] = x
        /\ \A r \in Streams : r # s => stream'[r] = stream[r]
        /\ Cardinality(Units(Left')) = reserved - stream[s].res.left + (stream[s].res.left - n)
    BY <1>2, <1>3, StreamMoves DEF LoadInv
  <2>2. Left' \in [Streams -> 0 .. Limit]
    BY <2>1 DEF Left, Transfer, Reservation
  <2>3. 0 \in 0 .. Limit
    BY LoadAssumption
  <2>4. Cardinality(Units(Left')) \in Nat
    BY <2>2, <2>3, UnitsMove
  <2> QED BY <2>1, <2>4
<1>5. stream'[s].pc = "transfer"
  BY <1>4
<1> HIDE DEF x, res
<1>6. reserved \in Nat /\ used \in Nat /\ counted \in Nat /\ counted <= used /\ n \in Nat /\ used + reserved <= Limit
  BY <1>3 DEF LoadInv, LoadTypes, SpendInv
<1>7. reserved' = Cardinality(Units(Left'))
  BY <1>2, <1>3, <1>4, <1>6
<1>8. /\ used' \in Nat /\ reserved' \in Nat /\ counted' \in Nat
      /\ used' + reserved' <= Limit /\ counted' <= used'
  BY <1>2, <1>4, <1>6, <1>7, LoadAssumption
<1>9. LoadTypes'
  BY <1>1, <1>4, <1>8 DEF LoadInv, LoadTypes
<1>10. SpendInv'
  BY <1>7, <1>8 DEF SpendInv
<1>11. HeldInv'
  BY <1>1, <1>4, <1>5 DEF LoadInv, HeldInv
<1>12. JoinInv'
  BY <1>1, <1>4, <1>5, StreamRunsOn
<1> QED BY <1>9, <1>10, <1>11, <1>12 DEF LoadInv

(* A transfer that ends gives back what it has left.                        *)
LEMMA GivenBack ==
    ASSUME LoadInv, NEW s \in Streams, stream[s].pc = "transfer",
           NEW pc \in {"loop", "result"}, NEW failures \in Nat,
           NEW result \in {"none", "ctx", "budget", "error"},
           Load!Becomes(s, pc, Load!NoRes, failures, result),
           reserved' = reserved - stream[s].res.left,
           late' \in [Streams -> Reservation], \A r \in Streams : late'[r].closed,
           UNCHANGED <<used, loaded, main, done, frozen, counted, remaining, failed>>
    PROVE  LoadInv'
<1> DEFINE x == [pc |-> pc, res |-> Load!NoRes, failures |-> failures, result |-> result]
<1>1. Load!NoRes \in Reservation /\ Load!NoRes.left = 0 /\ x \in Transfer
  BY LoadAssumption DEF Load!NoRes, Reservation, Transfer
<1>2. /\ stream' \in [Streams -> Transfer] /\ stream'[s] = x
      /\ \A r \in Streams : r # s => stream'[r] = stream[r]
      /\ Cardinality(Units(Left')) = reserved - stream[s].res.left + 0
      /\ stream[s].res.left \in 0 .. Limit
  BY <1>1, StreamMoves DEF LoadInv
<1>3. stream'[s].pc = pc /\ stream'[s].res = Load!NoRes
  BY <1>2
<1> HIDE DEF x
<1>4. reserved \in Nat /\ used \in Nat /\ used + reserved <= Limit /\ counted <= used
  BY DEF LoadInv, LoadTypes, SpendInv
<1>5. Left' \in [Streams -> 0 .. Limit] /\ 0 \in 0 .. Limit
  BY <1>2, LoadAssumption DEF Left, Transfer, Reservation
<1>6. Cardinality(Units(Left')) \in Nat
  BY <1>5, UnitsMove
<1>7. reserved' = Cardinality(Units(Left')) /\ reserved' \in Nat
  BY <1>2, <1>4, <1>6
<1>8. used' + reserved' <= Limit /\ counted' <= used'
  BY <1>2, <1>4, <1>7, LoadAssumption
<1>9. LoadTypes' /\ SpendInv'
  BY <1>2, <1>7, <1>8 DEF LoadInv, LoadTypes, SpendInv
<1>10. HeldInv'
  BY <1>1, <1>2, <1>3 DEF LoadInv, HeldInv
<1>11. JoinInv'
  BY <1>2, <1>3, StreamRunsOn
<1> QED BY <1>9, <1>10, <1>11 DEF LoadInv

LEMMA TransferEndsKeeps ==
    ASSUME LoadInv, NEW s \in Streams, Load!TransferEnds(s)
    PROVE  LoadInv'
<1>1. /\ stream[s].pc = "transfer" /\ reserved' = reserved - stream[s].res.left
      /\ late' = [late EXCEPT ![s] = IF stream[s].res.left = 0 THEN Load!NoRes ELSE Load!Released(stream[s].res)]
      /\ UNCHANGED <<used, loaded, main, done, frozen, counted, remaining, failed>>
  BY DEF Load!TransferEnds
<1>2. /\ stream[s].res \in Reservation /\ stream[s].failures \in Nat
      /\ stream[s].result \in {"none", "ctx", "budget", "error"} /\ late \in [Streams -> Reservation]
  BY DEF LoadInv, LoadTypes, Transfer
<1>3. Load!NoRes \in Reservation /\ Load!NoRes.closed
  BY LoadAssumption DEF Load!NoRes, Reservation
<1>4. Load!Released(stream[s].res) \in Reservation /\ Load!Released(stream[s].res).closed
  BY <1>2, LoadAssumption DEF Load!Released, Reservation
<1>5. late' \in [Streams -> Reservation] /\ \A r \in Streams : late'[r].closed
  BY <1>1, <1>2, <1>3, <1>4 DEF LoadInv, HeldInv
<1>6. ASSUME NEW pc \in {"loop", "result"}, NEW failures \in Nat,
             NEW result \in {"none", "ctx", "budget", "error"},
             Load!Becomes(s, pc, Load!NoRes, failures, result)
      PROVE  LoadInv'
  BY <1>1, <1>5, <1>6, GivenBack
<1>7. \/ Load!Becomes(s, "loop", Load!NoRes, 0, stream[s].result)
      \/ Load!Becomes(s, "result", Load!NoRes, stream[s].failures, "error")
      \/ Load!Becomes(s, "result", Load!NoRes, stream[s].failures, "ctx")
      \/ Load!Becomes(s, "loop", Load!NoRes, stream[s].failures + 1, stream[s].result)
  BY DEF Load!TransferEnds
<1>8. 0 \in Nat /\ stream[s].failures + 1 \in Nat
  BY <1>2
<1> QED BY <1>2, <1>6, <1>7, <1>8

LEMMA LateReadKeeps ==
    ASSUME LoadInv, NEW s \in Streams, Load!LateRead(s)
    PROVE  LoadInv'
<1>1. /\ late' = [late EXCEPT ![s] = Load!NoRes]
      /\ UNCHANGED <<used, reserved, stream, loaded, main, done, frozen, counted, remaining, failed>>
  BY DEF Load!LateRead, LoadInv, HeldInv
<1>2. Load!NoRes \in Reservation /\ Load!NoRes.closed
  BY LoadAssumption DEF Load!NoRes, Reservation
<1>3. late' \in [Streams -> Reservation] /\ \A r \in Streams : late'[r].closed
  BY <1>1, <1>2 DEF LoadInv, LoadTypes, HeldInv
<1> QED BY <1>1, <1>3 DEF LoadInv, LoadTypes, SpendInv, HeldInv, JoinInv, Left, Unfinished


(* A result is taken: one stream less to wait for.                          *)
LEMMA TakenKeeps ==
    ASSUME LoadInv, NEW s \in Streams, Load!Taken(s), main # "returned",
           UNCHANGED <<used, reserved, late, loaded, main, done, frozen, counted>>
    PROVE  LoadInv'
<1> DEFINE x == [pc |-> "done", res |-> stream[s].res, failures |-> stream[s].failures, result |-> stream[s].result]
<1>1. /\ stream[s].pc = "result" /\ remaining' = remaining - 1
      /\ failed' = (failed \/ stream[s].result = "error")
      /\ Load!Becomes(s, "done", stream[s].res, stream[s].failures, stream[s].result)
  BY DEF Load!Taken
<1>2. stream[s] \in Transfer /\ x \in Transfer /\ stream[s].res.left = 0
  BY <1>1 DEF LoadInv, LoadTypes, HeldInv, Transfer
<1>3. /\ stream' \in [Streams -> Transfer] /\ stream'[s] = x
      /\ \A r \in Streams : r # s => stream'[r] = stream[r]
      /\ Cardinality(Units(Left')) = reserved - stream[s].res.left + stream[s].res.left
  BY <1>1, <1>2, StreamMoves DEF LoadInv
<1>4. stream'[s].pc = "done" /\ stream'[s].res = stream[s].res /\ stream'[s].result = stream[s].result
  BY <1>3
<1> HIDE DEF x
<1>5. IsFiniteSet(Unfinished) /\ Cardinality(Unfinished) \in Nat
  <2>1. Unfinished \in SUBSET Streams
    BY DEF Unfinished
  <2>2. IsFiniteSet(Unfinished)
    BY <2>1, FS_Subset, LoadAssumption
  <2> QED BY <2>2, FS_CardinalityType
<1>6. s \in Unfinished /\ Unfinished' = Unfinished \ {s}
  BY <1>1, <1>3, <1>4 DEF Unfinished
<1>7. Cardinality(Unfinished') = Cardinality(Unfinished) - 1 /\ Cardinality(Unfinished') \in Nat
  <2>1. IsFiniteSet(Unfinished') /\ Cardinality(Unfinished') = Cardinality(Unfinished) - 1
    BY <1>5, <1>6, FS_RemoveElement
  <2> QED BY <2>1, FS_CardinalityType
<1>8. remaining' = Cardinality(Unfinished') /\ remaining' \in Nat
  BY <1>1, <1>7 DEF LoadInv, JoinInv
<1>9. failed' = \E r \in Streams : stream'[r].pc = "done" /\ stream'[r].result = "error"
  BY <1>1, <1>3, <1>4 DEF LoadInv, JoinInv, LoadTypes
<1>10. failed' \in BOOLEAN
  BY <1>9
<1>11. JoinInv'
  BY <1>8, <1>9 DEF JoinInv
<1>12. LoadTypes'
  BY <1>3, <1>8, <1>10 DEF LoadInv, LoadTypes
<1>13. SpendInv'
  BY <1>2, <1>3 DEF LoadInv, LoadTypes, SpendInv
<1>14. HeldInv'
  BY <1>2, <1>3, <1>4 DEF LoadInv, HeldInv
<1> QED BY <1>11, <1>12, <1>13, <1>14 DEF LoadInv

(* Steps of the others: the context, the latency, the measurement itself.   *)
LEMMA OthersKeep ==
    ASSUME LoadInv, UNCHANGED <<used, reserved, stream, late, counted, remaining, failed>>,
           loaded' \in {"tick", "ping", "done"}, main' \in {"sampling", "joining", "returned"},
           done' \in BOOLEAN, frozen' \in BOOLEAN,
           main' = "returned" => remaining = 0 /\ loaded' = "done"
    PROVE  LoadInv'
BY DEF LoadInv, LoadTypes, SpendInv, HeldInv, JoinInv, Left, Unfinished

(* For every number of streams, every limit and every unit: whatever order  *)
(* reservations, transfers, failures, late reads, the deadline and results  *)
(* come in, no more is transferred than the limit, what is reserved is what *)
(* the reservations hold, and a measurement that returned has left nothing  *)
(* behind (speedTestBudget, transferLoop, measureLoad).                     *)
THEOREM LoadKeepsToItsBudget == Load!Spec => []LoadIsAccounted
<1>1. Load!Init => LoadInv
  <2> SUFFICES ASSUME Load!Init PROVE LoadInv
    OBVIOUS
  <2>1. /\ used = 0 /\ reserved = 0 /\ counted = 0 /\ loaded = "tick" /\ main = "sampling"
        /\ done = FALSE /\ frozen = FALSE /\ failed = FALSE /\ remaining = Load!Cardinality(Streams)
        /\ stream = [s \in Streams |-> [pc |-> "loop", res |-> Load!NoRes, failures |-> 0, result |-> "none"]]
        /\ late = [s \in Streams |-> Load!NoRes]
    BY DEF Load!Init
  <2>2. Load!NoRes \in Reservation /\ Load!NoRes.left = 0 /\ Load!NoRes.closed
    BY LoadAssumption DEF Load!NoRes, Reservation
  <2>3. /\ stream \in [Streams -> Transfer] /\ late \in [Streams -> Reservation]
        /\ \A s \in Streams : stream[s].pc = "loop" /\ stream[s].res.left = 0 /\ late[s].closed
    BY <2>1, <2>2 DEF Transfer
  <2>4. Unfinished = Streams /\ remaining = Cardinality(Streams)
    BY <2>1, <2>3 DEF Unfinished, Load!Cardinality, Cardinality
  <2>5. remaining \in Nat
    BY <2>4, FS_CardinalityType, LoadAssumption
  <2>6. Units(Left) = {}
    <3>1. \A h \in Streams \X (1 .. Limit) : Left[h[1]] = 0 /\ h[2] \in 1 .. Limit
      BY <2>3 DEF Left
    <3> QED BY <3>1, LoadAssumption DEF Units
  <2>7. SpendInv
    BY <2>1, <2>6, FS_EmptySet, LoadAssumption DEF SpendInv
  <2>8. LoadTypes
    BY <2>1, <2>3, <2>5 DEF LoadTypes
  <2>9. HeldInv /\ JoinInv
    BY <2>1, <2>3, <2>4 DEF HeldInv, JoinInv
  <2> QED BY <2>7, <2>8, <2>9 DEF LoadInv
<1>2. LoadInv /\ [Load!Next]_(Load!vars) => LoadInv'
  <2> SUFFICES ASSUME LoadInv, [Load!Next]_(Load!vars) PROVE LoadInv'
    OBVIOUS
  <2>0. /\ loaded \in {"tick", "ping", "done"} /\ main \in {"sampling", "joining", "returned"}
        /\ done \in BOOLEAN /\ frozen \in BOOLEAN
        /\ main = "returned" => remaining = 0 /\ loaded = "done"
    BY DEF LoadInv, LoadTypes, JoinInv
  <2>1. ASSUME NEW s \in Streams, Load!Reserve(s) PROVE LoadInv'
    BY <2>1, ReserveKeeps
  <2>2. ASSUME NEW s \in Streams, Load!Consume(s) PROVE LoadInv'
    BY <2>2, ConsumeKeeps
  <2>3. ASSUME NEW s \in Streams, Load!TransferEnds(s) PROVE LoadInv'
    BY <2>3, TransferEndsKeeps
  <2>4. ASSUME NEW s \in Streams, Load!LateRead(s) PROVE LoadInv'
    BY <2>4, LateReadKeeps
  <2>5. CASE Load!Loaded
    BY <2>0, <2>5, OthersKeep DEF Load!Loaded
  <2>6. CASE Load!Over
    BY <2>0, <2>6, OthersKeep DEF Load!Over
  <2>7. CASE Load!Sampling
    <3>1. ASSUME NEW s \in Streams, Load!Taken(s), UNCHANGED <<main, frozen, done>> PROVE LoadInv'
      BY <2>7, <3>1, TakenKeeps DEF Load!Sampling
    <3>2. CASE main' = "joining" /\ frozen' = TRUE /\ done' = TRUE /\ UNCHANGED <<stream, remaining, failed>>
      BY <2>0, <2>7, <3>2, OthersKeep DEF Load!Sampling
    <3> QED BY <2>7, <3>1, <3>2 DEF Load!Sampling
  <2>8. CASE Load!Join
    <3>1. ASSUME NEW s \in Streams, Load!Taken(s), UNCHANGED main PROVE LoadInv'
      BY <2>8, <3>1, TakenKeeps DEF Load!Join
    <3>2. CASE remaining = 0 /\ loaded = "done" /\ main' = "returned" /\ UNCHANGED <<stream, remaining, failed>>
      BY <2>0, <2>8, <3>2, OthersKeep DEF Load!Join
    <3> QED BY <2>8, <3>1, <3>2 DEF Load!Join
  <2>9. CASE UNCHANGED Load!vars
    BY <2>0, <2>9, OthersKeep DEF Load!vars
  <2> QED BY <2>1, <2>2, <2>3, <2>4, <2>5, <2>6, <2>7, <2>8, <2>9 DEF Load!Next
<1>3. LoadInv => LoadIsAccounted
  <2> SUFFICES ASSUME LoadInv PROVE LoadIsAccounted
    OBVIOUS
  <2>1. Load!Held = Units(Left)
    BY DEF Load!Held, Units, Left
  <2>2. Load!BudgetIsKept
    BY <2>1 DEF LoadInv, SpendInv, Load!BudgetIsKept, Load!Cardinality, Cardinality
  <2>3. ASSUME main = "returned"
        PROVE  /\ \A s \in Streams : stream[s].pc = "done"
               /\ loaded = "done" /\ reserved = 0
               /\ failed = \E s \in Streams : stream[s].result = "error"
    <3>1. Unfinished \in SUBSET Streams
      BY DEF Unfinished
    <3>2. IsFiniteSet(Unfinished) /\ Cardinality(Unfinished) = 0 /\ loaded = "done"
      BY <2>3, <3>1, FS_Subset, LoadAssumption DEF LoadInv, JoinInv
    <3>3. Unfinished = {}
      BY <3>2, FS_EmptySet
    <3>4. \A s \in Streams : stream[s].pc = "done" /\ stream[s].res.left = 0
      BY <3>3 DEF Unfinished, LoadInv, HeldInv
    <3>5. Units(Left) = {}
      <4>1. \A h \in Streams \X (1 .. Limit) : Left[h[1]] = 0 /\ h[2] \in 1 .. Limit
        BY <3>4 DEF Left
      <4> QED BY <4>1, LoadAssumption DEF Units
    <3>6. reserved = 0
      BY <3>5, FS_EmptySet DEF LoadInv, SpendInv
    <3>7. failed = \E s \in Streams : stream[s].result = "error"
      BY <3>4 DEF LoadInv, JoinInv
    <3> QED BY <3>2, <3>4, <3>6, <3>7
  <2>4. Load!LoadIsOver
    BY <2>3 DEF Load!LoadIsOver
  <2> QED BY <2>2, <2>4 DEF LoadIsAccounted, Load!LoadIsAccounted
<1> QED BY <1>1, <1>2, <1>3, PTL DEF Load!Spec
===============================================================================
