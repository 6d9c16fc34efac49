-------------------------------- MODULE RcxBooks --------------------------------
(***************************************************************************)
(* What RCX keeps between its decisions, side by side: the evidence of     *)
(* each network, the identities of the nodes it was gathered of, and the   *)
(* books of the probe budget.  MCRcxData runs them beside the documents.   *)
(***************************************************************************)
EXTENDS RcxEvidence, Integers, FiniteSets

CONSTANTS
    Lists, maxIdentities, MaxRefreshes,
    Hour, Day, Rates, DailyCap, MaxExtras, Horizon, MaxRestarts

\* Hours and days are some ticks long, and one of the levels allows most.
ASSUME BudgetAssumption ==
    /\ Hour \in Nat \ {0} /\ Day \in Nat \ {0} /\ DailyCap \in Nat
    /\ Rates \subseteq Nat /\ \E r \in Rates : \A q \in Rates : q <= r

VARIABLES idEntries, idNodes, idKeys, idNow
VARIABLES payNow, payBooks, paySaved, payRate, payGranted, payRestarts

idVars == <<idEntries, idNodes, idKeys, idNow>>
payVars == <<payNow, payBooks, paySaved, payRate, payGranted, payRestarts>>

Identity == INSTANCE RcxIdentity WITH
    entries <- idEntries, nodes <- idNodes, keys <- idKeys, now <- idNow

Budget == INSTANCE RcxBudget WITH
    now <- payNow, books <- payBooks, saved <- paySaved, rate <- payRate, granted <- payGranted,
    restarts <- payRestarts

\* A refresh brings nodes, and the index keeps some.
ASSUME ListAssumption == maxIdentities \in Nat /\ \A list \in Lists : list \in Seq(Identity!Node)

(* A key goes to one node and stays with it from refresh to refresh.        *)
KeysAreKept == Identity!KeysAreKept
(* The allowance of the hour and the cap of the day hold over restarts.     *)
AllowanceHolds == Budget!AllowanceHolds
=============================================================================
