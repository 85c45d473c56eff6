------------------------------ MODULE MCProxy ------------------------------
(***************************************************************************)
(* The proxy of one workload for TLC: its open connections under policy    *)
(* changes, its pool of HBONE tunnels, with two keys that collide in one   *)
(* hash, and its UDP sessions, with two clients of one destination and     *)
(* room for one session.  They share no variable, and a behaviour is one   *)
(* of one part.                                                            *)
(***************************************************************************)
EXTENDS ConnectionManager, HbonePool, OutboundUdp

CONSTANTS h1, f1, f2, e1

MCHashOf == [k \in Keys |-> h1]
MCDestOf == [f \in Flows |-> e1]

VARIABLE part

ProxyInit ==
    /\ part \in {"connections", "tunnels", "datagrams"}
    /\ Init /\ PoolInit /\ UdpInit
    /\ part # "connections" => allowed = Ctxs
    /\ part # "tunnels" => key = [t \in Tasks |-> CHOOSE k \in Keys : TRUE]

\* A dispatcher that was shut down, with its sessions over, is where the part
\* of the datagrams ends.
Finished == shutdown = "forced" /\ ~Watched

ProxyNext ==
    /\ UNCHANGED part
    /\ \/ part = "connections" /\ Next /\ UNCHANGED <<poolVars, udpVars>>
       \/ part = "tunnels" /\ PoolNext /\ UNCHANGED <<vars, udpVars>>
       \/ part = "datagrams" /\ (UdpNext \/ (Finished /\ UNCHANGED udpVars)) /\ UNCHANGED <<vars, poolVars>>

ProxyVars == <<part, vars, poolVars, udpVars>>

\* The fairness of the three parts.
ProxySpec ==
    /\ ProxyInit /\ [][ProxyNext]_ProxyVars
    /\ \A c \in Conns : WF_vars(part = "connections" /\ ConnStep(c))
    /\ WF_vars(part = "connections" /\ WatcherStep)
    /\ CodeFairness /\ \A t \in Tasks : WF_poolVars(Peer(t))
    /\ WF_udpVars(Dispatcher) /\ WF_udpVars(Deadline \/ Drained)
    /\ \A i \in Ids : /\ WF_udpVars(Cut(i))
                      /\ WF_udpVars(CountPending(i) \/ CloseQueue(i) \/ ReleaseLease(i) \/ Report(i))
=============================================================================
