------------------------------ MODULE OutboundIp ------------------------------
(***************************************************************************)
(* The race for the outbound address (core/outbound_ip.go): sources are    *)
(* asked one after the other, a few at a time, and the first usable answer *)
(* wins.  A lookup of a newer route epoch cancels those of older ones.     *)
(***************************************************************************)
EXTENDS Naturals, FiniteSets

CONSTANTS
    Lookups,
    Sources,      \* how many are asked for: params.Urls
    concurrency,  \* outboundIpConcurrency
    MaxEpoch      \* bound

VARIABLES
    epoch,    \* of the route
    lookup,   \* lookup -> its locals
    claims,   \* outboundIpClaims: lookups
    answers   \* lookup -> its channel: [usable, empty]

vars == <<epoch, lookup, claims, answers>>

Idle == [pc |-> "idle"]
NoAnswers == [usable |-> 0, empty |-> 0]

Init ==
    /\ epoch = 0
    /\ lookup = [l \in Lookups |-> Idle]
    /\ claims = {}
    /\ answers = [l \in Lookups |-> NoAnswers]

bumpRouteEpoch ==
    /\ epoch < MaxEpoch
    /\ epoch' = epoch + 1
    /\ UNCHANGED <<lookup, claims, answers>>

\* start: the next source, unless all have been or enough are under way.
start(l) == IF l.next >= Sources \/ l.inFlight >= concurrency THEN l
            ELSE [l EXCEPT !.next = @ + 1, !.inFlight = @ + 1, !.asked = @ + 1]

\* handleOutboundIp up to the claim.
routeStamp(l) ==
    /\ lookup[l] = Idle
    /\ lookup' = [lookup EXCEPT ![l] = [pc |-> "claim", stamp |-> epoch, ctx |-> "live",
                                        next |-> 0, inFlight |-> 0, asked |-> 0, said |-> "none"]]
    /\ UNCHANGED <<epoch, claims, answers>>

\* Mutant: the other lookups of this epoch are cancelled as well.
MutClaimOutboundIp(l) ==
    LET stale == {o \in claims : lookup[o].stamp <= lookup[l].stamp} IN
    /\ lookup[l].pc = "claim"
    /\ claims' = (claims \ stale) \cup {l}
    /\ lookup' = [o \in Lookups |-> IF o = l THEN start([lookup[l] EXCEPT !.pc = "race"])
                                    ELSE IF o \in stale THEN [lookup[o] EXCEPT !.ctx = "cancelled"] ELSE lookup[o]]
    /\ UNCHANGED <<epoch, answers>>

\* claimOutboundIp, and the first source.
claimOutboundIp(l) ==
    LET stale == {o \in claims : lookup[o].stamp < lookup[l].stamp} IN
    /\ lookup[l].pc = "claim"
    /\ claims' = (claims \ stale) \cup {l}
    /\ lookup' = [o \in Lookups |-> IF o = l THEN start([lookup[l] EXCEPT !.pc = "race"])
                                    ELSE IF o \in stale THEN [lookup[o] EXCEPT !.ctx = "cancelled"] ELSE lookup[o]]
    /\ UNCHANGED <<epoch, answers>>

\* A source's goroutine: probeOutboundIpSource ends and sends, whether the
\* lookup still listens or not.  asked: those that have yet to.
probeOutboundIpSource(l, usable) ==
    /\ lookup[l] # Idle /\ lookup[l].asked > 0
    /\ usable => lookup[l].ctx = "live"      \* a cancelled probe fails
    /\ lookup' = [lookup EXCEPT ![l].asked = @ - 1]
    /\ answers' = IF usable THEN [answers EXCEPT ![l].usable = @ + 1] ELSE [answers EXCEPT ![l].empty = @ + 1]
    /\ UNCHANGED <<epoch, claims>>

\* The select of the race.
AnswerUsable(l) ==
    /\ lookup[l].pc = "race" /\ lookup[l].inFlight > 0 /\ answers[l].usable > 0
    /\ lookup' = [lookup EXCEPT ![l] = [lookup[l] EXCEPT !.pc = "unclaim", !.said = "answer", !.inFlight = @ - 1]]
    /\ answers' = [answers EXCEPT ![l].usable = @ - 1]
    /\ UNCHANGED <<epoch, claims>>

\* Mutant: an empty answer is not followed by the next source.
MutAnswerEmpty(l) ==
    /\ lookup[l].pc = "race" /\ lookup[l].inFlight > 0 /\ answers[l].empty > 0
    /\ lookup' = [lookup EXCEPT ![l] = [lookup[l] EXCEPT !.inFlight = @ - 1]]
    /\ answers' = [answers EXCEPT ![l].empty = @ - 1]
    /\ UNCHANGED <<epoch, claims>>

AnswerEmpty(l) ==
    /\ lookup[l].pc = "race" /\ lookup[l].inFlight > 0 /\ answers[l].empty > 0
    /\ lookup' = [lookup EXCEPT ![l] = start([lookup[l] EXCEPT !.inFlight = @ - 1])]
    /\ answers' = [answers EXCEPT ![l].empty = @ - 1]
    /\ UNCHANGED <<epoch, claims>>

Stagger(l) ==
    /\ lookup[l].pc = "race" /\ lookup[l].inFlight > 0
    /\ start(lookup[l]) # lookup[l]
    /\ lookup' = [lookup EXCEPT ![l] = start(lookup[l])]
    /\ UNCHANGED <<epoch, claims, answers>>

Done(l) ==
    /\ lookup[l].pc = "race"
    /\ \/ lookup[l].inFlight > 0 /\ lookup[l].ctx # "live"
          /\ lookup' = [lookup EXCEPT ![l] = [lookup[l] EXCEPT !.pc = "unclaim", !.said = "stopped"]]
       \/ lookup[l].inFlight = 0
          /\ lookup' = [lookup EXCEPT ![l] = [lookup[l] EXCEPT !.pc = "unclaim", !.said = "failed"]]
    /\ UNCHANGED <<epoch, claims, answers>>

Expires(l) ==
    /\ lookup[l].pc \in {"claim", "race"} /\ lookup[l].ctx = "live"
    /\ lookup' = [lookup EXCEPT ![l].ctx = "expired"]
    /\ UNCHANGED <<epoch, claims, answers>>

\* The deferred release of the claim and cancel of the context.
Unclaim(l) ==
    /\ lookup[l].pc = "unclaim"
    /\ claims' = claims \ {l}
    /\ lookup' = [lookup EXCEPT ![l] = [lookup[l] EXCEPT !.pc = "over", !.ctx = IF @ = "live" THEN "over" ELSE @]]
    /\ UNCHANGED <<epoch, answers>>

\* The losers are over too.
Over(l) ==
    /\ lookup[l].pc = "over" /\ lookup[l].asked = 0
    /\ lookup' = [lookup EXCEPT ![l] = Idle]
    /\ answers' = [answers EXCEPT ![l] = NoAnswers]
    /\ UNCHANGED <<epoch, claims>>

Next ==
    \/ bumpRouteEpoch
    \/ \E l \in Lookups :
         \/ routeStamp(l) \/ claimOutboundIp(l) \/ AnswerUsable(l) \/ AnswerEmpty(l) \/ Stagger(l)
         \/ Done(l) \/ Expires(l) \/ Unclaim(l) \/ Over(l)
         \/ \E usable \in BOOLEAN : probeOutboundIpSource(l, usable)

Spec == Init /\ [][Next]_vars

-----------------------------------------------------------------------------

(* RaceIsFair: a lookup that says it failed has asked every source and got  *)
(* no usable answer; only a lookup of an older epoch is ever cancelled, and *)
(* then no newer one is; what is in flight is what is asked or answered, no *)
(* more at once than allowed; claims are those of lookups that still run.   *)
RaceIsFair ==
    \A l \in Lookups :
        /\ lookup[l] # Idle /\ lookup[l].said = "failed" => lookup[l].next = Sources /\ answers[l].usable = 0
        /\ lookup[l] # Idle /\ lookup[l].ctx = "cancelled" => lookup[l].stamp < epoch
        /\ lookup[l].pc = "race" =>
             /\ lookup[l].inFlight = lookup[l].asked + answers[l].usable + answers[l].empty
             /\ lookup[l].inFlight <= concurrency
        /\ l \in claims => lookup[l].pc \in {"race", "unclaim"}
=============================================================================
