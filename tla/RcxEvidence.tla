----------------------------- MODULE RcxEvidence -----------------------------
(***************************************************************************)
(* What the engine remembers of each network (core/rcx/evidence.go): at    *)
(* most maxEnvironments of them, by the time they were last looked at.     *)
(* Facts of a node and of a network are abstracted to their presence.      *)
(***************************************************************************)
EXTENDS Naturals, Sequences, SequencesExt

CONSTANTS
    Networks,         \* networks the device may be on
    Keys,             \* node identities
    MaxEnvironments   \* maxEnvironments

ASSUME EvidenceAssumption == MaxEnvironments \in Nat \ {0}

VARIABLES
    envKey,  \* the network the device is on
    envs,    \* Evidence.Envs, ordered by SeenAt, the oldest first
    nodes,   \* network -> nodes with facts in its environment
    noted    \* history: nodes noted since the device is on this network

vars == <<envKey, envs, nodes, noted>>

TypeOK ==
    /\ envKey \in Networks
    /\ \A i \in DOMAIN envs : envs[i] \in Networks
    /\ Len(envs) = Cardinality(ToSet(envs))
    /\ Len(envs) <= MaxEnvironments
    /\ nodes \in [Networks -> SUBSET Keys]
    /\ \A e \in Networks \ ToSet(envs) : nodes[e] = {}
    /\ noted \subseteq Keys

Init ==
    /\ envKey \in Networks
    /\ envs = <<>>
    /\ nodes = [e \in Networks |-> {}]
    /\ noted = {}

\* Mutant: one environment too many is kept.
MutEvict(s) == IF Len(s) > MaxEnvironments + 1 THEN Tail(s) ELSE s

\* Mutant: the limit is taken to be reached one environment early.
MutEarlyEvict(s) == IF Len(s) >= MaxEnvironments THEN Tail(s) ELSE s

\* evict: the environments looked at last stay.
evict(s) == IF Len(s) > MaxEnvironments
              THEN SubSeq(s, Len(s) - MaxEnvironments + 1, Len(s)) ELSE s

\* A new environment has no SeenAt yet.
Inserted(s, e) == evict(<<e>> \o s)

\* SeenAt = now
Place(s, e) == CHOOSE i \in DOMAIN s : s[i] = e
Seen(s, e) == IF e \in ToSet(s) THEN Append(RemoveAt(s, Place(s, e)), e) ELSE s

\* Evidence.env: find or insert, then mark as seen.
env(s, e) == Seen(IF e \in ToSet(s) THEN s ELSE Inserted(s, e), e)

\* A look at the environment of now: what is evicted is forgotten, also the
\* one that was asked for; then facts may be written to it.
Look(written) ==
    /\ envs' = env(envs, envKey)
    /\ nodes' = [e \in Networks |->
                   IF e \notin ToSet(envs') THEN {}
                   ELSE IF e = envKey THEN nodes[e] \cup written ELSE nodes[e]]

\* decideGroup looks at the environment in every step.
Decide == Look({}) /\ UNCHANGED <<envKey, noted>>

\* facts: a check, a test, traffic or a failed dial is noted for a node.
Note(k) == Look({k}) /\ noted' = noted \cup {k} /\ UNCHANGED envKey

\* onHints
ChangeNetwork(e) ==
    /\ e # envKey
    /\ envKey' = e
    /\ noted' = {}
    /\ UNCHANGED <<envs, nodes>>

\* rebuild: facts of nodes the identity index has forgotten go.
prune(live) ==
    /\ nodes' = [e \in Networks |-> nodes[e] \cap live]
    /\ noted' = noted \cap live
    /\ UNCHANGED <<envKey, envs>>

Next ==
    \/ Decide
    \/ \E k \in Keys : Note(k)
    \/ \E e \in Networks : ChangeNetwork(e)
    \/ \E live \in SUBSET Keys : prune(live)

Spec == Init /\ [][Next]_vars

\* What was noted of a node since the device is on this network is still known
\* (Evidence.env, evict).
NotesStick == noted \subseteq nodes[envKey]

\* The same on a network that is already kept, or for which there is room:
\* neither moves to other networks nor prunes nor the limit take it away.
KeptNotesStick ==
    envKey \in ToSet(envs) \/ Len(envs) < MaxEnvironments => NotesStick

=============================================================================
