------------------------------- MODULE MCRcxData -------------------------------
(***************************************************************************)
(* What RCX keeps and reads beside its decisions: the evidence of each     *)
(* network, the identities of nodes, forked and shared documents, the      *)
(* conditions of profiles and the budget, and the parts of the speed test, *)
(* side by side: each run of the specification is one of one of them,      *)
(* while the others keep their state.                                      *)
(***************************************************************************)
EXTENDS RcxBooks, SpeedTestParts

VARIABLES forkBase, forkSource, forkMine, forkConflicts, forkBrought
VARIABLES bundleLib, bundleShared, bundleText, bundleTaken, bundleTheirs
VARIABLES condScope, condTree, condCond, condSubject, condLearned

forkVars == <<forkBase, forkSource, forkMine, forkConflicts, forkBrought>>
bundleVars == <<bundleLib, bundleShared, bundleText, bundleTaken, bundleTheirs>>
condVars == <<condScope, condTree, condCond, condSubject, condLearned>>

---------------------------------------------------------------------------
\* Two nodes whose configuration, endpoint and name rotate, of one provider and server.
MCNodes == {[strong |-> s, endpoint |-> e, provider |-> "p", name |-> n, server |-> "h"] :
               s \in {"s1", "s2", "s3"}, e \in {"e1", "e2"}, n \in {"a", "b"}}
MCPairs == {<<x, y>> : x, y \in {z \in MCNodes : z.endpoint = "e1" \/ z.name = "a"}}
MCLists == {<<x>> : x \in MCNodes}
           \cup {l \in MCPairs : l[1].strong # l[2].strong /\ l[1].name # l[2].name}

---------------------------------------------------------------------------
\* One key that may be missing, a scalar, a mapping of two keys, or a list of up to three items.
MCScalar(v) == [kind |-> "scalar", value |-> v]
MCMap(f) == [kind |-> "mapping", of |-> f]
MCItem(n, v) == MCMap([k \in {"name", "v"} |-> MCScalar(IF k = "name" THEN n ELSE v)])
MCItems == {<<>>, <<"p1">>, <<"p1", "q1">>, <<"q1", "p1">>, <<"p2", "q1">>, <<"p1", "r1">>,
            <<"p2", "r2">>, <<"r1", "p1", "q1">>}
MCNamed == [p1 |-> MCItem("p", "1"), p2 |-> MCItem("p", "2"), q1 |-> MCItem("q", "1"),
            r1 |-> MCItem("r", "1"), r2 |-> MCItem("r", "2")]
MCValues == {MCScalar("1"), MCScalar("2")}
            \cup {MCMap([k \in d |-> MCScalar(f[k])]) : d \in SUBSET {"x", "y"}, f \in [{"x", "y"} -> {"1", "2"}]}
            \cup {[kind |-> "list", items |-> [i \in DOMAIN l |-> MCNamed[l[i]]]] : l \in MCItems}
MCDocuments == {MCMap(<<>>)} \cup {MCMap([k \in {"k"} |-> v]) : v \in MCValues}

Fork == INSTANCE RcxMerge WITH
    Documents <- MCDocuments, MaxBrought <- 2, base <- forkBase, source <- forkSource,
    mine <- forkMine, conflicts <- forkConflicts, brought <- forkBrought

---------------------------------------------------------------------------
\* Two profiles of the user's, one of the subscription, and a scenario over them, with titles
\* that come to the same name, to another's numbered name, or to none.
MCName(b) == [base |-> b, n |-> <<>>]
MCId(s, b) == [source |-> s, name |-> MCName(b)]
MCDoc(k, t, b, r) == [kind |-> k, title |-> t, body |-> b, refs |-> r]
MCTitles == {MCName(""), MCName("A"), MCName("!"), [base |-> "a", n |-> <<2>>]}
MCSimple == MCId("builtin", "simple")
MCLibraries ==
    {[id \in {MCId("user", "a"), MCId("user", "b"), MCId("sub", "a"), MCId("user", "s")} |->
         IF id.source = "sub" THEN MCDoc("profile", ts, "sub", <<MCSimple>>)
         ELSE IF id.name.base = "a" THEN MCDoc("profile", ta, "a", <<ra>>)
         ELSE IF id.name.base = "b" THEN MCDoc("profile", tb, "b", rb)
         ELSE MCDoc("scenario", MCName("A"), "s", rs)] :
        ts \in MCTitles, ta \in MCTitles, tb \in MCTitles,
        ra \in {MCId("user", "b"), MCId("sub", "a")},
        rb \in {<<>>, <<MCId("", "a")>>, <<MCId("sub", "gone")>>},
        rs \in {<<MCId("user", "a"), MCId("user", "b")>>, <<MCId("", "a"), MCSimple, MCId("user", "b")>>,
                <<MCSimple>>}}

Bundle == INSTANCE RcxBundle WITH
    Libraries <- MCLibraries,
    Lower <- [w \in {"A", "a", "b", "s", "!", "", "profile", "scenario"} |->
                 IF w = "A" THEN "a" ELSE IF w = "!" THEN "" ELSE w],
    TakenNames <- {MCName("a"), [base |-> "a", n |-> <<2>>], MCName("profile")}, maxBundleDocs <- 3,
    lib <- bundleLib, shared <- bundleShared, text <- bundleText, taken <- bundleTaken,
    theirs <- bundleTheirs

---------------------------------------------------------------------------
\* Trees of up to three operators over three predicates, and every other predicate under one.
MCCheck(c, pass) == [op |-> "check", name |-> c, pass |-> pass]
MCString(f, cmp, vs) == [op |-> "string", name |-> f, cmp |-> cmp, values |-> vs]
MCOver(xs, ys) == xs \cup {[op |-> "not", item |-> x] : x \in xs}
                  \cup {[op |-> o, items |-> <<x, y>>] : o \in {"and", "or"}, x \in xs, y \in ys}
MCLeaves == {MCCheck("c", TRUE), MCCheck("c", FALSE), MCString("exit.country", "!=", <<"DE">>)}
MCOthers == {MCCheck("other", TRUE), MCString("exit.country", "in", <<"US", "DE">>),
             MCString("provider", "~", <<"p">>), [op |-> "tag", name |-> "t"],
             [op |-> "number", name |-> "latency", cmp |-> "<", value |-> 2],
             [op |-> "number", name |-> "latency", cmp |-> ">=", value |-> 2],
             [op |-> "bool", name |-> "metered"], [op |-> "bool", name |-> "alive"],
             [op |-> "diag", name |-> "d", pass |-> TRUE], [op |-> "diag", name |-> "d", pass |-> FALSE]}
MCWanted == MCOver(MCOver(MCLeaves, MCLeaves), MCLeaves \cup {[op |-> "not", item |-> x] : x \in MCLeaves}) \cup MCOver(MCOthers, MCLeaves)

Cond == INSTANCE RcxCond WITH
    Wanted <- MCWanted,
    Scopes <- {[tags |-> {"t"}, checks |-> {"c"}, diags |-> IF n THEN {"d"} ELSE {}, network |-> n] : n \in BOOLEAN},
    Countries <- {"DE", "FR"}, Checks <- {"c"}, Diags <- {"d"}, maxConditionDepth <- 3, MaxFacts <- 2,
    scope <- condScope, tree <- condTree, cond <- condCond, subject <- condSubject, learned <- condLearned

---------------------------------------------------------------------------
\* A part that does not run rests in one of its initial states.
Resting(p, chosen) == part # p => chosen

DataInit ==
    /\ part \in SpeedParts \cup {"evidence", "identity", "fork", "bundle", "cond", "budget"}
    /\ SpeedInit
    /\ IF part = "evidence" THEN Init
       ELSE envKey = (CHOOSE e \in Networks : TRUE) /\ envs = <<>> /\ nodes = [e \in Networks |-> {}] /\ noted = {}
    /\ Identity!Init
    /\ IF part = "fork" THEN Fork!Init
       ELSE forkBase = MCMap(<<>>) /\ forkSource = forkBase /\ forkMine = forkBase /\ forkConflicts = {} /\ forkBrought = 0
    /\ IF part = "bundle" THEN Bundle!Init
       ELSE bundleLib = <<>> /\ bundleShared = 0 /\ bundleText = 0 /\ bundleTaken = {} /\ bundleTheirs = <<>>
    /\ Cond!Init /\ Resting("cond", condScope.network)
    /\ Budget!Init /\ Resting("budget", payRate = 0)

DataNext ==
    /\ UNCHANGED part
    /\ \/ SpeedNext /\ UNCHANGED <<vars, idVars, forkVars, bundleVars, condVars, payVars>>
       \/ part = "evidence" /\ Next /\ UNCHANGED <<speedVars, idVars, forkVars, bundleVars, condVars, payVars>>
       \/ part = "identity" /\ Identity!Next /\ UNCHANGED <<speedVars, vars, forkVars, bundleVars, condVars, payVars>>
       \/ part = "fork" /\ Fork!Next /\ UNCHANGED <<speedVars, vars, idVars, bundleVars, condVars, payVars>>
       \/ part = "bundle" /\ Bundle!Next /\ UNCHANGED <<speedVars, vars, idVars, forkVars, condVars, payVars>>
       \/ part = "cond" /\ Cond!Next /\ UNCHANGED <<speedVars, vars, idVars, forkVars, bundleVars, payVars>>
       \/ part = "budget" /\ Budget!Next /\ UNCHANGED <<speedVars, vars, idVars, forkVars, bundleVars, condVars>>

DataSpec == DataInit /\ [][DataNext]_<<part, speedVars, vars, idVars, forkVars, bundleVars, condVars, payVars>>

(* A merge follows the source where the user changed nothing, only there.   *)
BringsOverOnlyTheSource == Fork!BringsOverOnlyTheSource
(* What is shared arrives whole, and overwrites nothing.                    *)
BundleArrives == part = "bundle" => Bundle!BundleArrives
(* A verdict on what is known stands whatever is learned later.             *)
VerdictsStand == Cond!VerdictsStand
=============================================================================
