---------------------------- MODULE SpeedTestParts ----------------------------
(***************************************************************************)
(* The parts of the speed test side by side: each run of the specification *)
(* is one of one part, while the others keep their state.  MCRcxData runs  *)
(* them beside the data of RCX.                                            *)
(***************************************************************************)
EXTENDS Integers, FiniteSets

CONSTANTS
    Tests, Searches, MaxTombstones, MaxCalls,
    Streams, Limit, Unit,
    Dials

\* No test and no search has the name of none.
ASSUME IdAssumption == "none" \notin Tests \cup Searches

\* A direction has some streams, a limit that is not negative, and units of at least a byte.
ASSUME LoadAssumption == IsFiniteSet(Streams) /\ Limit \in Nat /\ Unit \in Nat \ {0}

VARIABLES calls, issued, runs, latest, pending, running, worker, lists, discovery, cancelled, dropped
VARIABLES used, reserved, stream, late, loaded, main, done, frozen, counted, remaining, failed
VARIABLES conn, known, serial, last, chains, closed, closing, over, seen
VARIABLE part

managerVars == <<calls, issued, runs, latest, pending, running, worker, lists, discovery, cancelled, dropped>>
loadVars == <<used, reserved, stream, late, loaded, main, done, frozen, counted, remaining, failed>>
transportVars == <<conn, known, serial, last, chains, closed, closing, over, seen>>

Manager == INSTANCE SpeedTest
Load == INSTANCE SpeedTestLoad
Transport == INSTANCE SpeedTestTransport WITH cancelled <- over

SpeedParts == {"manager", "load", "transport"}

SpeedInit ==
    /\ Manager!Init /\ Load!Init /\ Transport!Init
    /\ part # "transport" => \A d \in Dials : conn[d].kind = "tcp"

SpeedNext ==
    \/ part = "manager" /\ Manager!Next /\ UNCHANGED <<loadVars, transportVars>>
    \/ part = "load" /\ Load!Next /\ UNCHANGED <<managerVars, transportVars>>
    \/ part = "transport" /\ Transport!Next /\ UNCHANGED <<managerVars, loadVars>>

speedVars == <<managerVars, loadVars, transportVars>>

(* Nothing runs but the latest test and search, until they are cancelled.   *)
OnlyTheLatestRuns == Manager!OnlyTheLatestRuns
(* The streams keep to the byte budget and leave nothing running.           *)
LoadIsAccounted == Load!LoadIsAccounted
(* No connection outlives its transport, and the newest route is shown.     *)
TransportIsTraced == Transport!TransportIsTraced
=============================================================================
