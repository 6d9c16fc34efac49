------------------------------- MODULE RcxBudget -------------------------------
(***************************************************************************)
(* What RCX may spend on probes: an hourly allowance per bucket that fills *)
(* up with time, a daily cap on bytes, and the books of both, which are    *)
(* saved now and then and read back after a restart (core/rcx/plan.go; the *)
(* snapshot of core/rcx/engine.go).  The model has one rationed bucket     *)
(* beside the user's, and counts tokens in parts of an hour.               *)
(***************************************************************************)
EXTENDS Integers, Sequences, FiniteSets

CONSTANTS
    Hour,           \* ticks of an hour
    Day,            \* ticks of a day
    Rates,          \* the allowances the energy levels give the bucket
    DailyCap,       \* dailyCapBytes, in requests
    MaxExtras,      \* requests a probe may send beyond the first
    Horizon,        \* bound of the model: ticks of a run
    MaxRestarts     \* bound of the model: restarts of a run

Never == -1

VARIABLES
    now,        \* the clock
    books,      \* [tokens, at, day, requests]: the bucket and the day's account
    saved,      \* the books in the snapshot
    rate,       \* the allowance of the level in force
    granted,    \* history: the tick of every payment of the rationed bucket
    restarts

vars == <<now, books, saved, rate, granted, restarts>>

NoBooks == [tokens |-> 0, at |-> Never, day |-> Never, requests |-> 0]
Today == now \div Day

\* The first lines of spend(): a new day opens a new account.
Rolled == IF books.day = Today THEN books
          ELSE [tokens |-> books.tokens, at |-> books.at, day |-> Today, requests |-> 0]

\* A plausible slip: the time the bucket was filled is not kept.
MutFilled(b) ==
    LET tokens == IF b.at = Never THEN rate * Hour ELSE b.tokens + (now - b.at) * rate
    IN [b EXCEPT !.tokens = IF tokens > rate * Hour THEN rate * Hour ELSE tokens]

\* take(): the bucket starts full, fills at its rate up to the rate, and is stamped either way.
Filled(b) ==
    LET tokens == IF b.at = Never THEN rate * Hour ELSE b.tokens + (now - b.at) * rate
    IN [tokens |-> IF tokens > rate * Hour THEN rate * Hour ELSE tokens, at |-> now,
        day |-> b.day, requests |-> b.requests]

\* charge(): requests booked on the day.
Charged(b, requests) == [b EXCEPT !.requests = b.requests + requests]

\* spend() by the rationed bucket: refused past the daily cap, at a rate of zero and when there
\* is less than one token; the bucket is stamped when it was looked at.
Spend ==
    LET filled == Filled(Rolled)
        looked == Rolled.requests < DailyCap /\ rate > 0
        paid == looked /\ filled.tokens >= Hour
    IN /\ books' = IF paid THEN Charged([filled EXCEPT !.tokens = filled.tokens - Hour], 1)
                   ELSE IF looked THEN filled ELSE Rolled
       /\ granted' = IF paid THEN Append(granted, now) ELSE granted
       /\ UNCHANGED <<now, saved, rate, restarts>>

\* spend() by the user, who is never rationed; and what a probe sent beyond its first request,
\* booked when it is back.  (Past the cap the account only grows, which the model leaves out.)
UserSpends ==
    /\ Rolled.requests < DailyCap
    /\ books' = Charged(Rolled, 1)
    /\ UNCHANGED <<now, saved, rate, granted, restarts>>

ChargeExtras(requests) ==
    /\ books.requests < DailyCap
    /\ books' = Charged(books, requests)
    /\ UNCHANGED <<now, saved, rate, granted, restarts>>

\* level(): the profiles in force and the power state change the allowance.
SetLevel(r) ==
    /\ rate' = r
    /\ UNCHANGED <<now, books, saved, granted, restarts>>

Tick ==
    /\ now < Horizon
    /\ now' = now + 1
    /\ UNCHANGED <<books, saved, rate, granted, restarts>>

Save ==
    /\ saved' = books
    /\ UNCHANGED <<now, books, rate, granted, restarts>>

\* The process ends, orderly or not, and the next one reads the snapshot.
Restart ==
    /\ restarts < MaxRestarts
    /\ books' = saved
    /\ restarts' = restarts + 1
    /\ UNCHANGED <<now, saved, rate, granted>>

Init ==
    /\ now = 0
    /\ books = NoBooks
    /\ saved = NoBooks
    /\ rate \in Rates
    /\ granted = <<>>
    /\ restarts = 0

Next ==
    \/ Spend \/ UserSpends \/ Tick \/ Save \/ Restart
    \/ \E n \in 1 .. MaxExtras : ChargeExtras(n)
    \/ \E r \in Rates : SetLevel(r)

Spec == Init /\ [][Next]_vars

---------------------------------------------------------------------------
Paid(ticks) == Cardinality({i \in DOMAIN granted : granted[i] \in ticks})
Highest == CHOOSE r \in Rates : \A q \in Rates : q <= r

\* The rationed bucket pays at most a full bucket and one hour's filling in any hour, whatever
\* levels follow each other, and each restart can add no more than another full bucket (what was
\* spent after the last save is forgotten); a day's payments stay within the cap, again once per
\* restart; and a bucket left alone for an hour at a steady rate pays again (take, spend).
AllowanceHolds ==
    /\ \A t \in 0 .. now : Paid({u \in 0 .. now : u \in t .. t + Hour - 1}) <= (2 + restarts) * Highest
    /\ \A d \in 0 .. Today : Paid({u \in 0 .. now : u \div Day = d}) <= (1 + restarts) * DailyCap
    /\ books.at # Never /\ now - books.at >= Hour /\ rate > 0 => Filled(books).tokens >= Hour
=============================================================================
