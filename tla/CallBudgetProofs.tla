-------------------------- MODULE CallBudgetProofs ---------------------------
(* CallBudget for any limits, any number of callers and any clock: the rate *)
(* it lets through, and that it is the token bucket the docs describe.      *)
EXTENDS CallBudget, TLAPS

\* Interval and burst are durations, and a full burst is at most one window.
LEMMA IntervalFacts ==
    ASSUME NEW l \in Nat, l > 0
    PROVE  /\ Interval(l) \in Nat
           /\ Burst(l) \in Nat
           /\ Burst(l) + Interval(l) = l * Interval(l)
           /\ l * Interval(l) <= Window
  <1>1. Interval(l) \in Nat /\ l * Interval(l) <= Window
    BY BudgetAssumption DEF Interval
  <1>2. \A i \in Nat : i * (l - 1) \in Nat /\ i * (l - 1) + i = l * i
    OBVIOUS
  <1>3. QED
    BY <1>1, <1>2 DEF Burst

\* The deadline lies between the clock of the last charged call and one window
\* after it, and everything counted so far was paid for out of it.
DeadlineInv ==
    /\ deadline = NoDeadline => last = 0 /\ tally = NoTally
    /\ deadline # NoDeadline =>
          /\ last <= deadline /\ deadline <= last + Window
          /\ tally # NoTally => tally <= deadline

IInv == TypeOK /\ DeadlineInv

LEMMA InitIInv == Init => IInv
  BY BudgetAssumption DEF Init, IInv, TypeOK, DeadlineInv

\* Where a charge leaves the bucket.
LEMMA ChargeFacts ==
    ASSUME IInv, NEW c \in Callers, Charge(c),
           NEW l, l = asked[c].limit, NEW t, t = asked[c].at
    PROVE  /\ l \in Nat /\ l > 0 /\ t \in 0 .. MaxTime
           /\ Arrival(t) \in Nat /\ t <= Arrival(t)
           /\ deadline # NoDeadline => deadline <= Arrival(t)
           /\ deadline' = Arrival(t) + Interval(l)
           /\ deadline' <= t + Window
           /\ last' = t
  <1>1. asked[c] \in [limit : Limits, at : 0 .. MaxTime]
    BY DEF IInv, TypeOK, Charge
  <1>2. l \in Nat /\ l > 0 /\ t \in 0 .. MaxTime
    BY <1>1, BudgetAssumption DEF Charge
  <1>3. /\ Arrival(t) \in Nat /\ t <= Arrival(t)
        /\ deadline # NoDeadline => deadline <= Arrival(t)
    BY <1>2 DEF IInv, TypeOK, Arrival
  <1>4. /\ deadline' = Arrival(t) + Interval(l) /\ last' = t
        /\ Arrival(t) - t <= Burst(l)
    BY DEF Charge
  <1>5. deadline' <= t + Window
    BY <1>2, <1>3, <1>4, IntervalFacts, BudgetAssumption
  <1>6. QED
    BY <1>2, <1>3, <1>4, <1>5

LEMMA NextIInv == IInv /\ [Next]_vars => IInv'
  <1> SUFFICES ASSUME IInv, [Next]_vars PROVE IInv'
    OBVIOUS
  <1>1. CASE Tick
    BY <1>1, BudgetAssumption DEF Tick, IInv, TypeOK, DeadlineInv
  <1>2. ASSUME NEW l \in Limits, Edit(l) PROVE IInv'
    BY <1>2 DEF Edit, IInv, TypeOK, DeadlineInv
  <1>3. ASSUME NEW c \in Callers, Ask(c) PROVE IInv'
    BY <1>3 DEF Ask, IInv, TypeOK, DeadlineInv
  <1>4. ASSUME NEW c \in Callers, Unmetered(c) PROVE IInv'
    BY <1>4 DEF Unmetered, Tell, IInv, TypeOK, DeadlineInv
  <1>5. ASSUME NEW c \in Callers, Charge(c) PROVE IInv'
    <2> DEFINE l == asked[c].limit  t == asked[c].at
    <2>1. /\ l \in Nat /\ l > 0 /\ t \in 0 .. MaxTime
          /\ Arrival(t) \in Nat /\ t <= Arrival(t)
          /\ deadline # NoDeadline => deadline <= Arrival(t)
          /\ deadline' = Arrival(t) + Interval(l)
          /\ deadline' <= t + Window /\ last' = t
      BY <1>5, ChargeFacts
    <2>2. Interval(l) \in Nat
      BY <2>1, IntervalFacts
    <2>3. tally' \in {tally + Interval(l), t + Interval(l), NoTally}
      BY <1>5 DEF Charge, Count
    <2>4. tally' # NoTally => tally' \in Nat /\ tally' <= deadline'
      BY <1>5, <2>1, <2>2, BudgetAssumption DEF Charge, Count, IInv, TypeOK, DeadlineInv
    <2>5. deadline' # NoDeadline
      BY <2>1, <2>2, BudgetAssumption
    <2>6. DeadlineInv'
      BY <2>1, <2>2, <2>4, <2>5 DEF DeadlineInv
    <2>7. TypeOK'
      BY <1>5, <2>1, <2>2, <2>4 DEF Charge, Tell, IInv, TypeOK
    <2>8. QED
      BY <2>6, <2>7 DEF IInv
  <1>6. ASSUME NEW c \in Callers, RefuseCharge(c) PROVE IInv'
    <2> DEFINE l == asked[c].limit  t == asked[c].at
    <2>1. l \in Limits /\ l \in Nat /\ l > 0 /\ t \in 0 .. MaxTime
      BY <1>6, BudgetAssumption DEF RefuseCharge, IInv, TypeOK
    <2>2. Arrival(t) \in Nat
      BY <2>1 DEF IInv, TypeOK, Arrival
    <2>3. Wait(l, t) \in Nat
      BY <1>6, <2>1, <2>2, IntervalFacts DEF RefuseCharge, Wait
    <2>4. QED
      BY <1>6, <2>1, <2>3 DEF RefuseCharge, Tell, IInv, TypeOK, DeadlineInv
  <1>7. CASE UNCHANGED vars
    BY <1>7 DEF vars, IInv, TypeOK, DeadlineInv
  <1>8. QED
    BY <1>1, <1>2, <1>3, <1>4, <1>5, <1>6, <1>7 DEF Next

LEMMA Inductive == Spec => []IInv
  <1>1. Init => IInv
    BY InitIInv
  <1>2. IInv /\ [Next]_vars => IInv'
    BY NextIInv
  <1>3. QED
    BY <1>1, <1>2, PTL DEF Spec

\* The budget's state keeps its type; a refusal never names a negative wait.
THEOREM BudgetTypeCorrect == Spec => []TypeOK
  <1>1. IInv => TypeOK
    BY DEF IInv
  <1>2. QED
    BY <1>1, Inductive, PTL

\* Whatever limits are edited in and out and however callers race, the calls
\* let through never cost more than one window beyond the time gone by.
THEOREM RateBounded == Spec => []RateBound
  <1>1. IInv => RateBound
    BY BudgetAssumption DEF IInv, TypeOK, DeadlineInv, RateBound
  <1>2. QED
    BY <1>1, Inductive, PTL

-----------------------------------------------------------------------------
(* The deadline is the token bucket, written down differently.              *)

\* What the bucket lacks at t is how far the deadline runs ahead of t, and the
\* two forms of the guard agree.
LEMMA SameBucket ==
    ASSUME IInv, NEW l \in Nat, l > 0, NEW t \in 0 .. MaxTime
    PROVE  /\ Bucket!SpentAt(t) = Arrival(t) - t
           /\ Bucket!Price(l) = Interval(l)
           /\ Arrival(t) - t \in Nat
           /\ Bucket!Capacity(l) - Interval(l) = Burst(l)
           /\ Bucket!Capacity(l) \in Nat
  <1>1. Bucket!SpentAt(t) = Arrival(t) - t /\ Arrival(t) - t \in Nat
    BY BudgetAssumption DEF Bucket!SpentAt, Arrival, IInv, TypeOK, DeadlineInv
  <1>2. Bucket!Price(l) = Interval(l)
    BY DEF Bucket!Price, Interval
  <1>3. Bucket!Capacity(l) = l * Interval(l)
    BY <1>2 DEF Bucket!Capacity
  <1>4. QED
    BY <1>1, <1>2, <1>3, IntervalFacts

LEMMA StepIsBucketStep == IInv /\ [Next]_vars => [Bucket!Next]_(Bucket!vars)
  <1> SUFFICES ASSUME IInv, [Next]_vars PROVE [Bucket!Next]_(Bucket!vars)
    OBVIOUS
  <1>1. CASE Tick
    BY <1>1 DEF Tick, Bucket!Next, Bucket!Tick
  <1>2. ASSUME NEW l \in Limits, Edit(l) PROVE Bucket!Next
    BY <1>2 DEF Edit, Bucket!Next, Bucket!Edit
  <1>3. ASSUME NEW c \in Callers, Ask(c) PROVE Bucket!Next
    BY <1>3 DEF Ask, Bucket!Next, Bucket!Ask
  <1>4. ASSUME NEW c \in Callers, Unmetered(c) PROVE Bucket!Next
    BY <1>4 DEF Unmetered, Tell, Bucket!Next, Bucket!Pass, Bucket!Tell
  <1>5. ASSUME NEW c \in Callers, Charge(c) PROVE Bucket!Next
    <2> DEFINE l == asked[c].limit  t == asked[c].at
    <2>1. /\ l \in Nat /\ l > 0 /\ t \in 0 .. MaxTime
          /\ Arrival(t) \in Nat
          /\ deadline' = Arrival(t) + Interval(l) /\ last' = t
      BY <1>5, ChargeFacts
    <2>2. /\ Bucket!SpentAt(t) = Arrival(t) - t
          /\ Bucket!Price(l) = Interval(l)
          /\ Bucket!Capacity(l) - Interval(l) = Burst(l)
          /\ Arrival(t) - t \in Nat /\ Bucket!Capacity(l) \in Nat
          /\ Interval(l) \in Nat /\ Burst(l) \in Nat
      BY <2>1, SameBucket, IntervalFacts
    <2>3. Bucket!SpentAt(t) + Bucket!Price(l) <= Bucket!Capacity(l)
      BY <1>5, <2>2 DEF Charge
    <2>4. deadline' # NoDeadline
      BY <2>1, <2>2, BudgetAssumption
    <2>5. deadline' - last' = Bucket!SpentAt(t) + Bucket!Price(l)
      BY <2>1, <2>2
    <2>6. Bucket!Pass(c)
      BY <1>5, <2>1, <2>3, <2>4, <2>5 DEF Charge, Tell, Bucket!Pass, Bucket!Tell
    <2>7. QED
      BY <2>6 DEF Bucket!Next
  <1>6. ASSUME NEW c \in Callers, RefuseCharge(c) PROVE Bucket!Next
    <2> DEFINE l == asked[c].limit  t == asked[c].at
    <2>1. l \in Nat /\ l > 0 /\ t \in 0 .. MaxTime
      BY <1>6, BudgetAssumption DEF RefuseCharge, IInv, TypeOK
    <2>2. /\ Bucket!SpentAt(t) = Arrival(t) - t
          /\ Bucket!Price(l) = Interval(l)
          /\ Bucket!Capacity(l) - Interval(l) = Burst(l)
          /\ Arrival(t) - t \in Nat /\ Bucket!Capacity(l) \in Nat
          /\ Interval(l) \in Nat /\ Burst(l) \in Nat
      BY <2>1, SameBucket, IntervalFacts
    <2>3. /\ Bucket!SpentAt(t) + Bucket!Price(l) > Bucket!Capacity(l)
          /\ Wait(l, t) = Bucket!SpentAt(t) + Bucket!Price(l) - Bucket!Capacity(l)
      BY <1>6, <2>2 DEF RefuseCharge, Wait
    <2>4. Bucket!Refuse(c)
      BY <1>6, <2>1, <2>3 DEF RefuseCharge, Tell, Bucket!Refuse, Bucket!Tell
    <2>5. QED
      BY <2>4 DEF Bucket!Next
  <1>7. CASE UNCHANGED vars
    BY <1>7 DEF vars, Bucket!vars
  <1>8. QED
    BY <1>1, <1>2, <1>3, <1>4, <1>5, <1>6, <1>7 DEF Next

\* Every behaviour of the code's deadline is one of the documented bucket, its
\* answers and the waits it names included.
THEOREM BudgetIsTokenBucket == Spec => IsTokenBucket
  <1>1. Init => Bucket!Init
    BY DEF Init, Bucket!Init
  <1>2. IInv /\ [Next]_vars => [Bucket!Next]_(Bucket!vars)
    BY StepIsBucketStep
  <1>3. QED
    BY <1>1, <1>2, Inductive, PTL DEF Spec, IsTokenBucket, Bucket!Spec
=============================================================================
