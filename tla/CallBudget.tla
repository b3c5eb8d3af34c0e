----------------------------- MODULE CallBudget ------------------------------
(***************************************************************************)
(* Budget::charge of src/crates/core/src/upstream.rs, the call budget of   *)
(* one server, shared by every session: a bucket kept as the theoretical   *)
(* arrival time of the next call.  UpstreamManager::charge reads the limit *)
(* and the clock before the bucket's mutex is taken, so a caller may charge *)
(* with a limit that was edited since, and behind a caller with a later    *)
(* clock.  Time is in ticks of the bucket's resolution.                    *)
(***************************************************************************)
EXTENDS Integers

CONSTANTS
    Callers,  \* concurrent tools/call requests
    Limits,   \* values of calls_per_minute; 0 is no budget
    Window,   \* WINDOW
    MaxTime,  \* bound on the clock
    NoAsk, NoDeadline, NoTally

ASSUME BudgetAssumption ==
    /\ Limits \subseteq Nat
    /\ Window \in Nat
    /\ MaxTime \in Nat
    /\ \A l \in Limits, t \in 0 .. MaxTime : NoAsk # [limit |-> l, at |-> t]
    /\ NoDeadline \notin Int /\ NoTally \notin Int

VARIABLES
    now,       \* the monotonic clock
    limit,     \* calls_per_minute in the live config
    asked,     \* what each caller read before it takes the mutex
    answer,    \* the last answer given; a wait of 0 lets the call through
    deadline,  \* the bucket: Budget's Option<Instant>
    last,      \* history: the clock of the last call charged
    tally      \* history: the clock of one charged call plus all charged since

vars == << now, limit, asked, answer, deadline, last, tally >>

\* interval: the gap one call is worth.
Interval(l) == Window \div l
\* burst: how far ahead of the clock the deadline may run.
BurstOfLimit(l) == Interval(l) * l  \* mutant: forgets the call being charged
Burst(l) == Interval(l) * (l - 1)
\* state.unwrap_or(now).max(now)
KeptArrival(t) == IF deadline = NoDeadline THEN t ELSE deadline  \* mutant: no clamp
Arrival(t) == IF deadline = NoDeadline \/ deadline < t THEN t ELSE deadline

\* retry_in: how long until the deadline is within the burst again.
WaitBackwards(l, t) == Burst(l) - (Arrival(t) - t)  \* mutant: operands swapped
Wait(l, t) == (Arrival(t) - t) - Burst(l)

Init ==
    /\ now = 0 /\ limit \in Limits
    /\ asked = [c \in Callers |-> NoAsk]
    /\ answer = NoAsk
    /\ deadline = NoDeadline
    /\ last = 0
    /\ tally = NoTally

Tick ==
    /\ now < MaxTime
    /\ now' = now + 1
    /\ UNCHANGED << limit, asked, answer, deadline, last, tally >>

\* A reload that edits the limit keeps the entry, and so the bucket.
Edit(l) ==
    /\ limit' = l
    /\ UNCHANGED << now, asked, answer, deadline, last, tally >>

\* UpstreamManager::charge up to the mutex.
Ask(c) ==
    /\ asked[c] = NoAsk
    /\ asked' = [asked EXCEPT ![c] = [limit |-> limit, at |-> now]]
    /\ UNCHANGED << now, limit, answer, deadline, last, tally >>

Tell(c, wait) ==
    /\ answer' = [limit |-> asked[c].limit, wait |-> wait]
    /\ asked' = [asked EXCEPT ![c] = NoAsk]
    /\ UNCHANGED << now, limit >>

\* Counting starts at any one charged call and goes on for ever.
Count(t, price) ==
    \/ tally # NoTally /\ tally' = tally + price
    \/ tally = NoTally /\ tally' \in {t + price, NoTally}

\* Budget::charge, under the mutex: no budget, room, or a refusal.
Unmetered(c) ==
    /\ asked[c] # NoAsk /\ asked[c].limit = 0
    /\ Tell(c, 0)
    /\ UNCHANGED << deadline, last, tally >>

Charge(c) ==
    /\ asked[c] # NoAsk /\ asked[c].limit > 0
    /\ LET l == asked[c].limit  t == asked[c].at IN
       /\ Arrival(t) - t <= Burst(l)
       /\ deadline' = Arrival(t) + Interval(l)
       /\ last' = t
       /\ Count(t, Interval(l))
    /\ Tell(c, 0)

RefuseCharge(c) ==
    /\ asked[c] # NoAsk /\ asked[c].limit > 0
    /\ LET l == asked[c].limit  t == asked[c].at IN
       /\ Arrival(t) - t > Burst(l)
       /\ Tell(c, Wait(l, t))
    /\ UNCHANGED << deadline, last, tally >>

Next ==
    \/ Tick
    \/ \E l \in Limits : Edit(l)
    \/ \E c \in Callers : Ask(c) \/ Unmetered(c) \/ Charge(c) \/ RefuseCharge(c)

Spec == Init /\ [][Next]_vars

-----------------------------------------------------------------------------
\* Type invariant.
TypeOK ==
    /\ now \in 0 .. MaxTime
    /\ limit \in Limits
    /\ asked \in [Callers -> [limit : Limits, at : 0 .. MaxTime] \cup {NoAsk}]
    /\ answer \in [limit : Limits, wait : Nat] \cup {NoAsk}
    /\ deadline \in Nat \cup {NoDeadline}
    /\ last \in 0 .. MaxTime
    /\ tally \in Nat \cup {NoTally}

\* From any charged call on, what the server is charged is at most one full
\* window more than the time gone by: through edits of the limit, a budget
\* switched off and on, and callers that charge with an older clock.
RateBound == tally # NoTally => tally <= last + Window

\* upstream.rs:180 says the deadline is "the same bucket written down
\* differently": every answer, and every wait it names, is the token bucket's.
Bucket == INSTANCE TokenBucket
            WITH spent <- IF deadline = NoDeadline THEN 0 ELSE deadline - last,
                 asOf <- last
IsTokenBucket == Bucket!Spec
=============================================================================
