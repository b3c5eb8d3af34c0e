------------------------------- MODULE Install -------------------------------
(* One install of mcpgw: the processes around its port, and the logins kept
   in its state directory. *)
EXTENDS GatewayProcess, OAuthLogin

CONSTANT Workloads  \* what a behaviour is about: [gateway, oauth]

ASSUME WorkloadAssumption == \A load \in Workloads : load.gateway \in Workings

vars == << processVars, loginVars >>

Init == \E load \in Workloads : ProcessInit({load.gateway}) /\ LoginInit({load.oauth})

Next ==
    \/ ProcessNext /\ UNCHANGED loginVars
    \/ LoginNext /\ UNCHANGED processVars

\* Processes go on of themselves, and the supervisor starts what it has to start.
Spec ==
    /\ Init /\ [][Next]_vars
    /\ \A p \in Procs : WF_vars(OwnSteps(p) /\ UNCHANGED loginVars) /\ WF_vars(Launch(p) /\ UNCHANGED loginVars)

TypeOK == ProcessTypeOK /\ LoginTypeOK
=============================================================================
