------------------------------ MODULE SpeedTest ------------------------------
(***************************************************************************)
(* The speed tests of the core (core/speed_test_run.go): one worker runs   *)
(* one test at a time, a newer start replaces an older one, and the calls  *)
(* of the host run on goroutines of their own, so that a cancel may come   *)
(* before the start it is meant for.  What a stage measures is left out.   *)
(***************************************************************************)
EXTENDS Naturals, Sequences, FiniteSets, SequencesExt

CONSTANTS
    Tests,          \* request ids of tests; the host starts each once
    Searches,       \* request ids of the searches for servers
    MaxTombstones,  \* speedTestMaxTombstones
    MaxCalls        \* bound of the model: calls of the host

VARIABLES
    calls,      \* calls of the host that still run
    issued,     \* calls the host has made
    runs,       \* id -> the test, once it was made
    latest, pending, running, worker,
    lists,      \* id -> the discovery of servers under that id
    discovery,  \* the discovery the manager knows of
    cancelled,  \* tombstones, the oldest first
    dropped     \* history: tombstones that were pushed out

vars == <<calls, issued, runs, latest, pending, running, worker, lists, discovery, cancelled, dropped>>

None == "none"
NoRun == [phase |-> None, stopped |-> FALSE]
Ids == Tests \cup Searches

Init ==
    /\ calls = {} /\ issued = {}
    /\ runs = [i \in Tests |-> NoRun]
    /\ latest = None /\ pending = None /\ running = None /\ worker = FALSE
    /\ lists = [i \in Searches |-> [on |-> FALSE, stopped |-> FALSE]]
    /\ discovery = None /\ cancelled = <<>> /\ dropped = {}

\* The host calls; it cancels what it has started.
Call(op, i) ==
    /\ <<op, i>> \notin issued /\ Cardinality(issued) < MaxCalls
    /\ op = "cancel" => {<<"start", i>>, <<"servers", i>>} \cap issued # {}
    /\ issued' = issued \cup {<<op, i>>}
    /\ calls' = calls \cup {<<op, i>>}
    /\ UNCHANGED <<runs, latest, pending, running, worker, lists, discovery, cancelled, dropped>>

\* cancelledLocked; the age at which a tombstone is let go is far beyond the
\* time a call takes to run.
cancelledLocked(i) == i \in ToSet(cancelled)

\* rememberCancelLocked: one tombstone more, for which the oldest makes room.
rememberCancelLocked(s, i) ==
    IF i = None \/ i \in ToSet(s) THEN s
    ELSE Append(IF Len(s) = MaxTombstones THEN Tail(s) ELSE s, i)

\* The tombstones after those of some ids were set.
Buried(s, ids) ==
    /\ cancelled' = s
    /\ dropped' = dropped \cup ((ToSet(cancelled) \cup (ids \ {None})) \ ToSet(s))

Stopped(r, ids) == [i \in Tests |-> IF i \in ids /\ r[i].phase # None THEN [r[i] EXCEPT !.stopped = TRUE] ELSE r[i]]

\* complete: the phase a test ends in, by the error and by whether it has
\* measured anything.
complete(r, err, measured) ==
    [r EXCEPT !.phase = IF err = "canceled" THEN "cancelled"
                        ELSE IF err = "error" \/ ~measured THEN "failed" ELSE "done"]

ListStopped(i) == IF i = None THEN lists ELSE [lists EXCEPT ![i].stopped = TRUE]

\* Mutant: the tombstone of a test cancelled before its start is not looked at.
MutStart(i) ==
    /\ calls' = calls \ {<<"start", i>>}
    /\ IF latest = i
         THEN UNCHANGED <<runs, latest, pending, worker, lists, cancelled, dropped>>
         ELSE LET ended == [j \in Tests |-> IF j = pending THEN complete(runs[j], "canceled", FALSE) ELSE runs[j]] IN
              /\ Buried(rememberCancelLocked(cancelled, latest), {latest})
              /\ runs' = [Stopped(ended, {latest}) EXCEPT ![i] = [phase |-> "running", stopped |-> FALSE]]
              /\ lists' = ListStopped(discovery)
              /\ latest' = i /\ pending' = i /\ worker' = TRUE
    /\ UNCHANGED <<issued, running, discovery>>

\* Mutant: the test that waited is replaced without being completed.
MutPendingStart(i) ==
    /\ calls' = calls \ {<<"start", i>>}
    /\ IF cancelledLocked(i) \/ latest = i
         THEN UNCHANGED <<runs, latest, pending, worker, lists, cancelled, dropped>>
         ELSE /\ Buried(rememberCancelLocked(cancelled, latest), {latest})
              /\ runs' = [Stopped(runs, {latest}) EXCEPT ![i] = [phase |-> "running", stopped |-> FALSE]]
              /\ lists' = ListStopped(discovery)
              /\ latest' = i /\ pending' = i /\ worker' = TRUE
    /\ UNCHANGED <<issued, running, discovery>>

\* speedTestManager.start: the latest test is cancelled, one that waits is
\* completed, and a worker is started when there is none.
start(i) ==
    /\ calls' = calls \ {<<"start", i>>}
    /\ IF cancelledLocked(i) \/ latest = i
         THEN UNCHANGED <<runs, latest, pending, worker, lists, cancelled, dropped>>
         ELSE LET ended == [j \in Tests |-> IF j = pending THEN complete(runs[j], "canceled", FALSE) ELSE runs[j]] IN
              /\ Buried(rememberCancelLocked(cancelled, latest), {latest})
              /\ runs' = [Stopped(ended, {latest}) EXCEPT ![i] = [phase |-> "running", stopped |-> FALSE]]
              /\ lists' = ListStopped(discovery)
              /\ latest' = i /\ pending' = i /\ worker' = TRUE
    /\ UNCHANGED <<issued, running, discovery>>

\* speedTestManager.cancel
cancel(i) ==
    /\ calls' = calls \ {<<"cancel", i>>}
    /\ Buried(rememberCancelLocked(cancelled, i), {i})
    /\ runs' = Stopped(runs, {latest} \cap {i})
    /\ lists' = IF discovery = i THEN ListStopped(i) ELSE lists
    /\ UNCHANGED <<issued, latest, pending, running, worker, discovery>>

\* speedTestManager.stop, when the core shuts down.
stop ==
    /\ Buried(rememberCancelLocked(rememberCancelLocked(cancelled, latest), discovery), {latest, discovery})
    /\ runs' = Stopped(runs, {latest, running})
    /\ lists' = ListStopped(discovery)
    /\ UNCHANGED <<calls, issued, latest, pending, running, worker, discovery>>

\* handleSpeedTestServers: a discovery takes the place of the one before ...
servers(i) ==
    /\ calls' = calls \ {<<"servers", i>>}
    /\ IF cancelledLocked(i) THEN UNCHANGED <<lists, discovery>>
       ELSE /\ lists' = [ListStopped(discovery) EXCEPT ![i] = [on |-> TRUE, stopped |-> FALSE]]
            /\ discovery' = i
    /\ UNCHANGED <<issued, runs, latest, pending, running, worker, cancelled, dropped>>

\* ... and leaves it when it ends, unless another has come.
serversEnd(i) ==
    /\ lists[i].on
    /\ lists' = [lists EXCEPT ![i].on = FALSE]
    /\ discovery' = IF discovery = i THEN None ELSE discovery
    /\ UNCHANGED <<calls, issued, runs, latest, pending, running, worker, cancelled, dropped>>

\* work: the worker takes the test that waits, or is gone.
work ==
    /\ worker /\ running = None
    /\ IF pending = None
         THEN worker' = FALSE /\ UNCHANGED <<pending, running>>
         ELSE /\ running' = pending /\ pending' = None
              /\ UNCHANGED worker
    /\ UNCHANGED <<calls, issued, runs, latest, lists, discovery, cancelled, dropped>>

\* execute: what its stages come to.  Each looks at the context, so a test
\* that was cancelled ends as cancelled, whatever other error there was,
\* unless its deadline had come before.
execute(r) == IF r.stopped THEN {"canceled", "error"} ELSE {"none", "error"}

\* run: the test is over and its context ended; the worker is free again.
run(measured) ==
    /\ running # None
    /\ \E err \in execute(runs[running]) :
         runs' = [runs EXCEPT ![running] = complete([runs[running] EXCEPT !.stopped = TRUE], err, measured)]
    /\ running' = None
    /\ UNCHANGED <<calls, issued, latest, pending, worker, lists, discovery, cancelled, dropped>>

Next ==
    \/ \E i \in Tests : Call("start", i) \/ (<<"start", i>> \in calls /\ start(i))
    \/ \E i \in Ids : Call("cancel", i) \/ (<<"cancel", i>> \in calls /\ cancel(i))
    \/ \E i \in Searches : Call("servers", i) \/ (<<"servers", i>> \in calls /\ servers(i)) \/ serversEnd(i)
    \/ stop \/ work
    \/ \E measured \in BOOLEAN : run(measured)

Spec == Init /\ [][Next]_vars

-----------------------------------------------------------------------------

(* CancelWins: once the cancel of a test has run, before or after its start *)
(* or its discovery, that is not left running uncancelled, unless so many   *)
(* cancels came since that its tombstone was pushed out.                    *)
CancelWins ==
    \A i \in Ids : <<"cancel", i>> \in issued \ calls /\ i \notin dropped =>
        /\ i \in Tests /\ runs[i].phase = "running" => runs[i].stopped
        /\ i \in Searches /\ lists[i].on => lists[i].stopped

(* LatestAlone: a test that is not over waits for the worker, which is      *)
(* there, or is the one that runs; every one but the latest is cancelled;   *)
(* and of the discoveries only the one the manager knows is not.            *)
LatestAlone ==
    /\ \A i \in Tests : runs[i].phase = "running" =>
         /\ i \in {pending, running}
         /\ i # latest => runs[i].stopped
    /\ pending # None => worker
    /\ \A i \in Searches : lists[i].on /\ ~lists[i].stopped => discovery = i

(* OnlyTheLatestRuns: in whatever order starts, discoveries and cancels of  *)
(* several hosts arrive, nothing runs on but the latest test and the latest *)
(* discovery, and those only until they are cancelled.                      *)
OnlyTheLatestRuns == CancelWins /\ LatestAlone
=============================================================================
