-------------------------- MODULE MCUpstreamManager --------------------------
(* Instances of UpstreamManager for TLC. *)
EXTENDS UpstreamManager, FiniteSets, TLC

\* Demands are interchangeable where all of them may hang up, or none.
DemandSymmetry == Permutations(Demands)

\* Three demands and a shutdown where nothing is reloaded, two demands where
\* something is: what both would do together is not explored.
Apart == reloads > 0 => shutdown.step = "off" /\ Cardinality({d \in Demands : pc[d] # "new"}) <= 2
=============================================================================
