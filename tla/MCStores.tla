------------------------------ MODULE MCStores ------------------------------
(***************************************************************************)
(* What the proxy knows, for TLC: policies with the bindings of sandboxes, *)
(* workloads and services with their indices, and the certificates of the  *)
(* identities.  They share no variable, and a behaviour is one of one part.*)
(***************************************************************************)
EXTENDS PolicyState, AddressState, SecretManager

CONSTANTS u1, u2, s1, s2, p1, p2, x, y, a1, a2, v1, v2, i1, i2

-----------------------------------------------------------------------------
(* Two sources, one port.  mixed denies one source UDP and allows the      *)
(* rest, tcpOnly allows TCP and denies one source the other protocols by a *)
(* rule of its own, the other by default; outbound it has no rule at all.  *)

rule(a, src, ports) == [action |-> a, src |-> src, ports |-> ports]
anyPort(proto) == [proto |-> proto, ports |-> {80}]

mixed   == [Inbound |-> <<rule("Deny", {y}, {anyPort("UDP")}), rule("Allow", {x, y}, {})>>, Outbound |-> NoRules]
tcpOnly == [Inbound |-> <<rule("Allow", {x, y}, {anyPort("TCP")}), rule("Deny", {x}, {anyPort("ALL")})>>, Outbound |-> <<>>]

MCBodies == {mixed, tcpOnly}
MCRefLists == {NoRefs, <<>>, <<p1, p2>>}
MCPackets == [dir : Directions, proto : {"TCP", "UDP"}, src : {x, y}, port : {80}]

upd(n, v) == [name |-> n, val |-> v]
policyUpdates == [name : PolicyNames, val : MCBodies \cup {NoBody, Invalid}]
MCPolicyBatches ==
    {<<a>> : a \in policyUpdates} \cup {<<a, upd(p2, Invalid)>> : a \in policyUpdates}

sandboxValues == [wl : {u1, u2, NoUid}, policy : {NoBody, tcpOnly}]
sandboxUpdates == [name : SandboxIds, val : sandboxValues \cup {NoResource, Invalid}]
MCSandboxBatches ==
    {<<a>> : a \in sandboxUpdates}
    \cup {<<upd(s1, v), upd(s2, w)>> : v \in sandboxValues, w \in {NoResource, Invalid}}

MCLocalConfigs ==
    {[workload |-> [u \in Uids |-> NoRefs],
      policy |-> [n \in PolicyNames |-> mixed],
      sandboxes |-> <<upd(s1, [wl |-> u2, policy |-> NoBody]), upd(s1, [wl |-> u1, policy |-> NoBody])>>],
     [workload |-> [u \in Uids |-> IF u = u1 THEN <<p1, p2>> ELSE NoResource],
      policy |-> [n \in PolicyNames |-> IF n = p1 THEN mixed ELSE NoBody],
      sandboxes |-> <<upd(s2, [wl |-> u1, policy |-> NoBody]), upd(s1, [wl |-> u1, policy |-> tcpOnly])>>]}

-----------------------------------------------------------------------------
(* Workloads that move between addresses, services, identities and         *)
(* healths, one of the host network and one of another node.               *)

wl(addrs, services, id, hbone, healthy) ==
    [addrs |-> addrs, services |-> services, id |-> id, local |-> TRUE, hbone |-> hbone, healthy |-> healthy, host |-> FALSE]

MCWorkloadValues ==
    {wl({a1}, {s1}, i1, TRUE, TRUE),
     wl({a1, a2}, {s1, s2}, i1, TRUE, FALSE),
     wl({a2}, {s2}, i2, FALSE, TRUE),
     [wl({a1}, {s1}, i1, TRUE, TRUE) EXCEPT !.host = TRUE],
     [wl({a2}, {s1, s2}, i1, TRUE, TRUE) EXCEPT !.local = FALSE]}

MCServiceValues == {[vips |-> {v1}, allowAll |-> FALSE], [vips |-> {v1, v2}, allowAll |-> TRUE], [vips |-> {v2}, allowAll |-> FALSE]}

MCAddressFiles ==
    {[workload |-> [u \in WorkloadIds |-> IF u = u1 THEN wl({a1}, {s1}, i1, TRUE, TRUE) ELSE wl({a1, a2}, {s1, s2}, i1, TRUE, FALSE)],
      service |-> [h \in Services |-> IF h = s1 THEN [vips |-> {v1}, allowAll |-> FALSE] ELSE NoEntry]]}

-----------------------------------------------------------------------------
VARIABLE part

StoresInit == part \in {"policies", "addresses", "certificates"} /\ PolicyInit /\ AddressInit /\ Init

StoresNext ==
    /\ UNCHANGED part
    /\ \/ part = "policies" /\ PolicyNext /\ UNCHANGED <<addressVars, vars>>
       \/ part = "addresses" /\ AddressNext /\ UNCHANGED <<rbacVars, vars>>
       \/ part = "certificates" /\ Next /\ UNCHANGED <<rbacVars, addressVars>>

\* In the other parts no fetch is ever asked for, and Fairness asks for no step.
StoresSpec == StoresInit /\ [][StoresNext]_<<part, rbacVars, addressVars, vars>> /\ Fairness
=============================================================================
