----------------------------- MODULE MCToolPins ------------------------------
(* Instances of ToolPins for TLC: two tools, one page each and perhaps an    *)
(* empty page between them; definitions whose descriptions differ in length. *)
EXTENDS ToolPins, TLC

CONSTANTS t1, t2, d1, d2, s1, s2

TwoPages   == << {t1}, {t2} >>
ThreePages == << {t1}, {}, {t2} >>
OneServed  == { [t \in {t1, t2} |-> IF t = t1 THEN d1 ELSE Absent] }
BothServed == { [t \in {t1, t2} |-> IF t = t1 THEN d1 ELSE d2] }
Lengths  == [d \in Definitions |-> IF d = d1 THEN 7 ELSE 9]

\* Every client sees every tool, or one of them has a [clients.KIND] table.
Unscoped  == [s \in Sessions |-> {t1, t2}]
OneScoped == [s \in Sessions |-> IF s = s1 THEN {t1} ELSE {t1, t2}]

\* Where a client hung up, one move; where a walk went in a circle, one move and
\* no client that hangs up.
Apart ==
    /\ gone # {} => moves <= 1
    /\ missed # {} \/ (\E s \in Sessions : page[s] \in fetched[s]) => moves <= 1 /\ gone = {}

SessionSymmetry == Permutations(Sessions)
=============================================================================
