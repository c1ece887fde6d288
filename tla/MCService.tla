----------------------------- MODULE MCService -----------------------------
(* The service and what stands around it: the requests it answers, the       *)
(* quotas and the key cache before them, and the firewall behind them.  They *)
(* share no state, so a behaviour follows one.                               *)
EXTENDS MCServedPath, MCAdmission, Firewall

VARIABLE followed

serviceVars == <<followed, vars, admissionVars, firewallVars>>

ServiceInit ==
    /\ followed \in {"requests", "admission", "firewall"}
    /\ Init /\ AdmissionInit /\ FirewallInit
    /\ followed # "requests" =>
          /\ engine = CHOOSE e \in Engines : TRUE
          /\ deployment = Deployed(CHOOSE e \in Environments : Accepted(e))
    /\ followed # "admission" => subject = "quotas"
    /\ followed # "firewall" => host = [t \in Threads |-> CHOOSE h \in Hosts : TRUE]

ServiceNext ==
    \/ followed = "requests" /\ Next /\ UNCHANGED <<followed, admissionVars, firewallVars>>
    \/ followed = "admission" /\ AdmissionNext /\ UNCHANGED <<followed, vars, firewallVars>>
    \/ followed = "firewall" /\ FirewallNext /\ UNCHANGED <<followed, vars, admissionVars>>

ServiceSpec == ServiceInit /\ [][ServiceNext]_serviceVars
============================================================================
