------------------------------ MODULE MCInpod ------------------------------
(***************************************************************************)
(* Inpod mode for TLC: the workload manager, with two pods and two network *)
(* namespaces, and the firewall controllers.  The manager tells the        *)
(* firewall what it adds and removes and asks for nothing back, so they    *)
(* are explored apart: a behaviour is one of the manager beside an idle    *)
(* firewall, or one of the firewall beside a manager that has drained.     *)
(***************************************************************************)
EXTENDS WorkloadManager, Firewall

CONSTANTS u1, u2, n1, n2, p1, p2, r1, r2

MCUids  == {u1, u2}
MCNetns == {n1, n2}

\* A host with nft whose only iptables is a plain one, the legacy one.
MCHosts == {[nft |-> TRUE, legacy |-> FALSE, compat |-> FALSE, plain |-> "legacy"]}

-----------------------------------------------------------------------------
VARIABLE part

InpodInit ==
    /\ part \in {"manager", "firewall"}
    /\ Init /\ FirewallInit /\ want = [p \in Pods |-> NoWorkload]
    /\ part = "manager" => proxyMode = "inpod" /\ kind = "nft"

InpodNext ==
    /\ UNCHANGED part
    /\ \/ part = "manager" /\ Next /\ UNCHANGED firewallVars
       \/ part = "firewall" /\ (DrainRequested \/ StartDrain \/ DrainDone) /\ UNCHANGED firewallVars
       \/ part = "firewall" /\ mode = "drained" /\ FirewallNext /\ UNCHANGED vars

InpodVars == <<part, vars, firewallVars>>

\* The fairness of both parts: in the part of the manager the controller has
\* nothing to do, and a manager that has drained has no step left.
InpodSpec ==
    /\ InpodInit /\ [][InpodNext]_InpodVars
    /\ WF_vars(Manager) /\ SF_vars(StartOk)
    /\ \A g \in Ids : WF_vars(ProxyExits(g))
    /\ WF_firewallVars(Controller)
=============================================================================
