----------------------------- MODULE ServiceChecks -----------------------------
(***************************************************************************)
(* Sweeps over the service checks (core/service_check.go).  A newer check  *)
(* of a service cancels the older one; a check queues for a slot with its  *)
(* claim already made.  Checks spend probes, which fail once their context *)
(* is done.                                                                *)
(***************************************************************************)
EXTENDS Naturals, FiniteSets, Sequences

CONSTANTS
    Sweeps, Services,
    Wanted,       \* what the host asks for: sequences of services
    concurrency   \* serviceCheckConcurrency

VARIABLES
    claims,  \* serviceClaims: service -> sweep or "none"
    slots,   \* serviceCheckSlots: what <<sweep, index>> hold
    sweep    \* sweep -> its locals

vars == <<claims, slots, sweep>>

Idle == [pc |-> "idle"]

Init ==
    /\ claims = [s \in Services |-> "none"]
    /\ slots = {}
    /\ sweep = [w \in Sweeps |-> Idle]

\* One context per service and sweep: "none", "live" or "done".
handleServiceCheck(w, wanted) ==
    /\ sweep[w] = Idle
    /\ sweep' = [sweep EXCEPT ![w] = [pc |-> "claim", wanted |-> wanted, at |-> 1,
                                      ctx |-> [s \in Services |-> "none"],
                                      check |-> [i \in 1 .. Len(wanted) |-> "queued"]]]
    /\ UNCHANGED <<claims, slots>>

Service(w) == sweep[w].wanted[sweep[w].at]

\* The turn of the next service: to be claimed, and to queue.
Claimed(r) == IF r.at = Len(r.wanted) THEN [r EXCEPT !.pc = "queue", !.at = 1] ELSE [r EXCEPT !.at = @ + 1]
Queued(r) == IF r.at = Len(r.wanted) THEN [r EXCEPT !.pc = "wait"] ELSE [r EXCEPT !.at = @ + 1]

\* claimServices: claimService for each service once, which cancels the sweep
\* that had the claim; a service asked for twice shares it.
claimService(w) ==
    LET s == Service(w) IN
    /\ sweep[w].pc = "claim"
    /\ IF sweep[w].ctx[s] = "none"
         THEN /\ sweep' = [v \in Sweeps |-> IF v = w THEN Claimed([sweep[w] EXCEPT !.ctx[s] = "live"])
                                           ELSE IF claims[s] = v THEN [sweep[v] EXCEPT !.ctx[s] = "done"]
                                           ELSE sweep[v]]
              /\ claims' = [claims EXCEPT ![s] = w]
         ELSE sweep' = [sweep EXCEPT ![w] = Claimed(sweep[w])] /\ UNCHANGED claims
    /\ UNCHANGED slots

\* The loop that queues: a slot, or none once the context is done (of both
\* at once, either); the goroutine of the check starts either way.
acquire(w) ==
    LET i == sweep[w].at IN
    /\ sweep[w].pc = "queue"
    /\ \/ /\ Cardinality(slots) < concurrency
          /\ slots' = slots \cup {<<w, i>>}
          /\ sweep' = [sweep EXCEPT ![w] = Queued([sweep[w] EXCEPT !.check[i] = "granted"])]
       \/ /\ sweep[w].ctx[Service(w)] = "done"
          /\ sweep' = [sweep EXCEPT ![w] = Queued([sweep[w] EXCEPT !.check[i] = "refused"])]
          /\ UNCHANGED slots
    /\ UNCHANGED claims

\* runServiceCheck: nothing is probed once the context is done.
runServiceCheck(w, i) ==
    /\ sweep[w].pc \in {"queue", "wait"} /\ sweep[w].check[i] \in {"granted", "refused"}
    /\ sweep' = [sweep EXCEPT ![w].check[i] =
         IF sweep[w].ctx[sweep[w].wanted[i]] = "done" THEN "failed" ELSE IF @ = "granted" THEN "probing" ELSE "unpaid"]
    /\ UNCHANGED <<claims, slots>>

\* The rule judges, or panics; a timeout is tried once more while there is
\* budget, which here is one longer check.
Judged(w, i, status) ==
    /\ sweep[w].pc \in {"queue", "wait"} /\ sweep[w].check[i] \in {"probing", "unpaid"}
    /\ status = "judged" => sweep[w].ctx[sweep[w].wanted[i]] = "live"
    /\ sweep' = [sweep EXCEPT ![w].check[i] = status]
    /\ UNCHANGED <<claims, slots>>

\* The deferred release of the slot.
release(w, i) ==
    /\ sweep[w].pc \in {"queue", "wait"} /\ sweep[w].check[i] \in {"judged", "failed"}
    /\ slots' = slots \ {<<w, i>>}
    /\ sweep' = [sweep EXCEPT ![w].check[i] = "over"]
    /\ UNCHANGED claims

\* Mutant: the claim is dropped even if a newer sweep holds it.
MutUnclaim(w, s) ==
    /\ sweep[w].pc = "wait" /\ \A i \in DOMAIN sweep[w].check : sweep[w].check[i] = "over"
    /\ sweep[w].ctx[s] # "none"
    /\ claims' = [claims EXCEPT ![s] = "none"]
    /\ sweep' = [sweep EXCEPT ![w].ctx[s] = "none"]
    /\ UNCHANGED slots

\* running.Wait, then the releases of the claims, one service at a time.
Unclaim(w, s) ==
    /\ sweep[w].pc = "wait" /\ \A i \in DOMAIN sweep[w].check : sweep[w].check[i] = "over"
    /\ sweep[w].ctx[s] # "none"
    /\ claims' = IF claims[s] = w THEN [claims EXCEPT ![s] = "none"] ELSE claims
    /\ sweep' = [sweep EXCEPT ![w].ctx[s] = "none"]
    /\ UNCHANGED slots

Return(w) ==
    /\ sweep[w].pc = "wait" /\ \A i \in DOMAIN sweep[w].check : sweep[w].check[i] = "over"
    /\ \A s \in Services : sweep[w].ctx[s] = "none"
    /\ sweep' = [sweep EXCEPT ![w] = Idle]
    /\ UNCHANGED <<claims, slots>>

\* The budget of the sweep is over: every context of it is done.
Expires(w) ==
    /\ sweep[w].pc \in {"queue", "wait"} /\ \E s \in Services : sweep[w].ctx[s] = "live"
    /\ sweep' = [sweep EXCEPT ![w].ctx = [s \in Services |-> IF @[s] = "none" THEN "none" ELSE "done"]]
    /\ UNCHANGED <<claims, slots>>

Next ==
    \E w \in Sweeps :
        \/ \E wanted \in Wanted : handleServiceCheck(w, wanted)
        \/ claimService(w) \/ acquire(w) \/ Return(w) \/ Expires(w)
        \/ \E s \in Services : Unclaim(w, s)
        \/ sweep[w].pc \in {"queue", "wait"} /\ \E i \in DOMAIN sweep[w].check :
             runServiceCheck(w, i) \/ release(w, i) \/ \E status \in {"judged", "failed"} : Judged(w, i, status)

Spec == Init /\ [][Next]_vars

-----------------------------------------------------------------------------

Live(s) == {w \in Sweeps : sweep[w] # Idle /\ sweep[w].ctx[s] = "live"}

(* NewestCheckStands: of each service one sweep at most is not cancelled,   *)
(* and it is the one that holds the claim, in whatever order sweeps claim   *)
(* and end; slots are held by checks not yet over, and no check sends a     *)
(* request without one.                                                     *)
NewestCheckStands ==
    /\ \A s \in Services : Live(s) \subseteq {w \in Sweeps : claims[s] = w}
    /\ \A s \in Services : claims[s] # "none" => sweep[claims[s]] # Idle /\ sweep[claims[s]].ctx[s] # "none"
    /\ Cardinality(slots) <= concurrency
    /\ \A w \in Sweeps : sweep[w] # Idle => \A i \in DOMAIN sweep[w].check :
         /\ sweep[w].check[i] # "unpaid"
         /\ <<w, i>> \in slots => sweep[w].check[i] \in {"granted", "probing", "judged", "failed"}
         /\ sweep[w].check[i] \in {"granted", "probing", "judged"} => <<w, i>> \in slots
=============================================================================
