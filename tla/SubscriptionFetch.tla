--------------------------- MODULE SubscriptionFetch ---------------------------
(***************************************************************************)
(* Fetches of subscriptions past the tunnel (core/subscription_fetch.go):  *)
(* a registry of running fetches by request id, and in each a loop over    *)
(* the redirects of the server.  The headers the user gave carry the       *)
(* credentials of the first origin only.                                   *)
(***************************************************************************)
EXTENDS Naturals, FiniteSets

CONSTANTS
    Fetches,       \* handler goroutines
    Ids,           \* request ids
    Urls,          \* [scheme, host, port (0: none), user]
    Headers,       \* what params.Headers may hold: sets of "agent", "credential"
    maxConcurrent, \* subscriptionFetchMaxConcurrent
    maxRedirects,  \* subscriptionFetchMaxRedirects
    wireLimit,     \* subscriptionFetchWireLimit
    maxBytes       \* params.MaxBytes

VARIABLES
    active,    \* subscriptionFetches.active: request id -> fetch
    fetch,     \* fetch -> its locals
    snapshot   \* cancel functions that were looked up and not yet called

vars == <<active, fetch, snapshot>>

NoFetch == [pc |-> "free"]

Init ==
    /\ active = [i \in Ids |-> NoFetch]
    /\ fetch = [f \in Fetches |-> NoFetch]
    /\ snapshot = {}

-----------------------------------------------------------------------------
(* URLs and headers. *)

validateSubscriptionURL(u) ==
    /\ u.scheme \in {"http", "https"} /\ u.host # ""
    /\ u.port \in 0 .. 65535     \* a port of 0 would be refused: here it is none

validateSubscriptionRedirect(current, next) ==
    /\ ~next.user /\ validateSubscriptionURL(next)
    /\ current.scheme = "https" => next.scheme = "https"

effectiveSubscriptionPort(u) ==
    IF u.port # 0 THEN u.port ELSE IF u.scheme = "https" THEN 443 ELSE 80

\* Mutant: another port of the host is the same origin.
MutSameSubscriptionOrigin(a, b) == a.scheme = b.scheme /\ a.host = b.host

sameSubscriptionOrigin(a, b) ==
    /\ a.scheme = b.scheme /\ a.host = b.host
    /\ effectiveSubscriptionPort(a) = effectiveSubscriptionPort(b)

\* What an origin is, for the property.
Origin(u) == <<u.scheme, u.host, IF u.port # 0 THEN u.port ELSE IF u.scheme = "https" THEN 443 ELSE 80>>

\* Of the headers: "agent" stands for User-Agent and Accept, "credential"
\* for Authorization and what else names the user or the device.
retainedSubscriptionHeaders(h) == h \cap {"agent"}

-----------------------------------------------------------------------------
(* The handler. *)

Running == {f \in Fetches : fetch[f].pc \in {"dial", "hop"}}

\* handleFetchSubscription up to the loop: registerSubscriptionFetch, once
\* there is a connector and the parameters are valid; else nothing happens.
\* A name in the URL becomes an Authorization header.
handleFetchSubscription(f, id, url, h) ==
    /\ fetch[f].pc = "free"
    /\ validateSubscriptionURL(url)
    /\ active[id] = NoFetch
    /\ Cardinality({i \in Ids : active[i] # NoFetch}) < maxConcurrent
    /\ active' = [active EXCEPT ![id] = [pc |-> "held", by |-> f]]
    /\ fetch' = [fetch EXCEPT ![f] =
         [pc |-> "dial", id |-> id, target |-> [url EXCEPT !.user = FALSE],
          headers |-> IF url.user THEN h \cup {"credential"} ELSE h,
          redirects |-> 0, wire |-> 0, ctx |-> "live", left |-> FALSE]]
    /\ UNCHANGED snapshot

\* unregister, and the answer.
Answered(f, said) ==
    /\ fetch' = [fetch EXCEPT ![f] = [pc |-> "answered", said |-> said, ctx |-> fetch[f].ctx]]
    /\ active' = [active EXCEPT ![fetch[f].id] = NoFetch]
    /\ snapshot' = snapshot \ {f}      \* its context is over

\* subscriptionFetchMethodError: to what a hop failed with, a cancelled
\* context is preferred.
Answer(f, err) == Answered(f, IF err # "ok" /\ fetch[f].ctx = "cancelled" THEN "cancelled" ELSE err)

\* The dial of a hop.  On Android each socket is protected as it is made
\* (control): the tun may be gone by then, or the system may refuse.
Dial(f, protects) ==
    /\ fetch[f].pc = "dial"
    /\ IF fetch[f].ctx # "live" THEN Answer(f, "subscription_timeout")
       ELSE IF ~protects THEN Answer(f, "subscription_protection")
       ELSE fetch' = [fetch EXCEPT ![f].pc = "hop"] /\ UNCHANGED <<active, snapshot>>

\* subscriptionWireConn.count: bytes of every hop of the fetch add up.
count(f, n) == fetch[f].wire + n

\* fetchSubscriptionHop ends with a body of n bytes.
Body(f, n) ==
    /\ fetch[f].pc = "hop"
    /\ Answer(f, IF n > maxBytes \/ count(f, n) > wireLimit THEN "subscription_too_large" ELSE "ok")

\* It fails: of its context, or of anything else.
Fails(f) ==
    /\ fetch[f].pc = "hop"
    /\ Answer(f, IF fetch[f].ctx = "expired" THEN "subscription_timeout" ELSE "subscription_transport")

\* The server redirects, having sent n bytes; fetchSubscription goes on.
Redirect(f, n, next) ==
    LET r == fetch[f] IN
    /\ r.pc = "hop"
    /\ IF count(f, n) > wireLimit THEN Answer(f, "subscription_too_large")
       ELSE IF r.redirects >= maxRedirects \/ ~validateSubscriptionRedirect(r.target, next)
         THEN Answered(f, "subscription_transport")
       ELSE /\ fetch' = [fetch EXCEPT ![f] =
                 [pc |-> "dial", id |-> r.id, target |-> next,
                  headers |-> IF sameSubscriptionOrigin(r.target, next) THEN r.headers
                              ELSE retainedSubscriptionHeaders(r.headers),
                  redirects |-> r.redirects + 1, wire |-> count(f, n), ctx |-> r.ctx,
                  left |-> r.left \/ Origin(r.target) # Origin(next)]]
            /\ UNCHANGED <<active, snapshot>>

\* The caller has its answer; the goroutine is free.
Return(f) ==
    /\ fetch[f].pc = "answered"
    /\ fetch' = [fetch EXCEPT ![f] = NoFetch]
    /\ UNCHANGED <<active, snapshot>>

-----------------------------------------------------------------------------
(* Cancels and deadlines. *)

Cancelled(fs) == [f \in Fetches |-> IF f \in fs /\ f \in Running /\ fetch[f].ctx = "live"
                                      THEN [fetch[f] EXCEPT !.ctx = "cancelled"] ELSE fetch[f]]

\* The cancel function is called after the unlock; that of a fetch that has
\* ended meanwhile does nothing.
cancelSubscriptionFetch(id) ==
    /\ active[id] # NoFetch
    /\ snapshot' = snapshot \cup {active[id].by}
    /\ UNCHANGED <<active, fetch>>

cancelSubscriptionFetches ==
    /\ \E id \in Ids : active[id] # NoFetch
    /\ snapshot' = snapshot \cup {active[id].by : id \in {i \in Ids : active[i] # NoFetch}}
    /\ UNCHANGED <<active, fetch>>

Cancels ==
    \E f \in snapshot :
        /\ snapshot' = snapshot \ {f}
        /\ fetch' = Cancelled({f})
        /\ UNCHANGED <<active>>

Expires(f) ==
    /\ f \in Running /\ fetch[f].ctx = "live"
    /\ fetch' = [fetch EXCEPT ![f].ctx = "expired"]
    /\ UNCHANGED <<active, snapshot>>

Next ==
    \/ \E f \in Fetches :
         \/ \E id \in Ids, u \in Urls, h \in Headers :
              handleFetchSubscription(f, id, u, h)
         \/ \E p \in BOOLEAN : Dial(f, p)
         \/ \E n \in 0 .. maxBytes + 1 : Body(f, n)
         \/ \E n \in 0 .. 1, u \in Urls : Redirect(f, n, u)
         \/ Fails(f) \/ Return(f) \/ Expires(f)
    \/ \E id \in Ids : cancelSubscriptionFetch(id)
    \/ cancelSubscriptionFetches \/ Cancels

Spec == Init /\ [][Next]_vars

-----------------------------------------------------------------------------

(* FetchIsContained: a request carries credentials only while no redirect   *)
(* has left the origin the user gave, not even on its way back; the         *)
(* registry holds exactly the running fetches, each once; the hops of a     *)
(* fetch together stay within its bytes, and a fetch nobody cancelled is    *)
(* not answered as cancelled.                                               *)
FetchIsContained ==
    /\ \A f \in Running : fetch[f].left => "credential" \notin fetch[f].headers
    /\ \A f \in Running : active[fetch[f].id] = [pc |-> "held", by |-> f]
    /\ \A i \in Ids : active[i] # NoFetch => active[i].by \in Running
    /\ Cardinality(Running) <= maxConcurrent
    /\ \A f \in Running : fetch[f].wire <= wireLimit
    /\ \A f \in Fetches : fetch[f].pc = "answered" /\ fetch[f].said = "cancelled" => fetch[f].ctx = "cancelled"
=============================================================================
