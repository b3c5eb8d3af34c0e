----------------------------- MODULE TokenBucket -----------------------------
(***************************************************************************)
(* What book/src/gateway.md promises of calls_per_minute: a bucket of as   *)
(* many calls as the limit, refilled at the same rate, one call at a time. *)
(* The bucket is kept as the time it would take to be full again.          *)
(***************************************************************************)
EXTENDS Integers

CONSTANTS Callers, Limits, Window, MaxTime, NoAsk

VARIABLES now, limit, asked, answer,
          spent,  \* time the bucket needed to be full again...
          asOf    \* ... at this instant

vars == << now, limit, asked, answer, spent, asOf >>

Price(l)    == Window \div l   \* time one call takes to be refilled
Capacity(l) == l * Price(l)    \* an empty bucket is this far from full
SpentAt(t)  == IF spent > t - asOf THEN spent - (t - asOf) ELSE 0

Init ==
    /\ now = 0 /\ limit \in Limits
    /\ asked = [c \in Callers |-> NoAsk]
    /\ answer = NoAsk
    /\ spent = 0 /\ asOf = 0

Tick == now < MaxTime /\ now' = now + 1 /\ UNCHANGED << limit, asked, answer, spent, asOf >>

Edit(l) == limit' = l /\ UNCHANGED << now, asked, answer, spent, asOf >>

Ask(c) ==
    /\ asked[c] = NoAsk
    /\ asked' = [asked EXCEPT ![c] = [limit |-> limit, at |-> now]]
    /\ UNCHANGED << now, limit, answer, spent, asOf >>

Tell(c, wait) ==
    /\ answer' = [limit |-> asked[c].limit, wait |-> wait]
    /\ asked' = [asked EXCEPT ![c] = NoAsk]
    /\ UNCHANGED << now, limit >>

\* The call is let through, unmetered or against the bucket...
Pass(c) ==
    /\ asked[c] # NoAsk
    /\ LET l == asked[c].limit  t == asked[c].at IN
       \/ l = 0 /\ UNCHANGED << spent, asOf >>
       \/ /\ l > 0 /\ SpentAt(t) + Price(l) <= Capacity(l)
          /\ spent' = SpentAt(t) + Price(l)
          /\ asOf' = t
    /\ Tell(c, 0)

\* ... or refused, with the time until it would fit.
Refuse(c) ==
    /\ asked[c] # NoAsk
    /\ LET l == asked[c].limit  t == asked[c].at IN
       /\ l > 0 /\ SpentAt(t) + Price(l) > Capacity(l)
       /\ Tell(c, SpentAt(t) + Price(l) - Capacity(l))
    /\ UNCHANGED << spent, asOf >>

Next ==
    \/ Tick
    \/ \E l \in Limits : Edit(l)
    \/ \E c \in Callers : Ask(c) \/ Pass(c) \/ Refuse(c)

Spec == Init /\ [][Next]_vars
=============================================================================
