------------------------------- MODULE Convert -------------------------------
(***************************************************************************)
(* What becomes of a resource between the wire and the stores: workloads,  *)
(* services and their extensions (src/state/workload.rs, state/service.rs, *)
(* extensions/extensions.rs), identities (identity/manager.rs) and the     *)
(* baggage header made from a workload (baggage.rs).                       *)
(*                                                                         *)
(* Text that is taken apart is a sequence of its pieces, the separators    *)
(* among them where they may be missing.  An address on the wire is        *)
(* [len, ip].  Enumerations are their numbers.  Which of several errors is *)
(* reported makes no difference, so a conversion fails or it does not.     *)
(***************************************************************************)
EXTENDS Naturals, Sequences, SequencesExt, FiniteSetsExt

CONSTANTS
    Missing,            \* None, also the result of a failed conversion
    WireResources,      \* resources by name: [Names -> a set of them]
    Probes,             \* [ns, ip, port] that the egress policies are asked about
    PolicyProbes,       \* [src, dst, port]: TCP connections, of addresses as bits
    MaxResponses

VARIABLES
    stored,     \* name -> the converted resource, or Missing
    carried,    \* name -> the resource it was converted from (history)
    refused,    \* names rejected in the last response
    responses

convertVars == <<stored, carried, refused, responses>>

U16(n) == n % 65536
OrDefault(text, default) == IF text = "" THEN default ELSE text

-----------------------------------------------------------------------------
(* Addresses, gateways, ports                                              *)

ByteToIpOk(b) == b.len \in {4, 16}

\* dest is an address, or [host, ns].
GatewayOk(g) == g.dest # Missing /\ ("len" \in DOMAIN g.dest => ByteToIpOk(g.dest))
GatewayAddress(g) == [to |-> g.dest, port |-> U16(g.port)]

TunnelOk(t) == t.protocol \in {0, 1}
ApplicationTunnel(t) == [proxy |-> t.protocol = 1, port |-> IF t.port = 0 THEN Missing ELSE U16(t.port)]

\* A map built from the list: of two entries for one port the later stays.
PortMap(ports) ==
    [p \in {U16(ports[i].service) : i \in DOMAIN ports} |->
        U16(ports[Max({i \in DOMAIN ports : U16(ports[i].service) = p})].target)]

\* split_once('/')
Slash(text) == {i \in DOMAIN text : text[i] = "/"}
NamespacedHostname(text) ==
    LET i == Min(Slash(text))
    IN [ns |-> SubSeq(text, 1, i - 1), host |-> SubSeq(text, i + 1, Len(text))]

-----------------------------------------------------------------------------
(* Egress policies                                                         *)

\* The name of a gateway is split at its dots.
GatewayServiceOk(svc) == Len(svc) >= 2 /\ svc[1] # "" /\ svc[2] # ""
ParseGatewayAddress(g) ==
    [to |-> [ns |-> g.service[2], host |-> g.service], port |-> IF g.port = 0 THEN 15008 ELSE g.port]

EgressPolicyOk(p) ==
    /\ p.policy \in 0..2
    /\ "bad" \notin p.cidrs /\ \A port \in p.ports : port < 65536
    /\ p.gateway # Missing => GatewayServiceOk(p.gateway.service) /\ p.gateway.port < 65536
    /\ p.policy = 2 => p.gateway # Missing

EgressPolicy(p) ==
    [namespaces |-> p.namespaces, cidrs |-> p.cidrs, ports |-> p.ports, action |-> <<"Passthrough", "Deny", "Gateway">>[p.policy + 1],
     gateway |-> IF p.gateway = Missing THEN Missing ELSE ParseGatewayAddress(p.gateway)]

\* A policy that cannot be converted is left out.
EgressPoliciesSkipping(ps) == [ok |-> TRUE, policies |-> [i \in DOMAIN SelectSeq(ps, EgressPolicyOk) |-> EgressPolicy(SelectSeq(ps, EgressPolicyOk)[i])]]

\* One that cannot be converted makes them all fail.
EgressPolicies(ps) ==
    IF \A i \in DOMAIN ps : EgressPolicyOk(ps[i])
    THEN [ok |-> TRUE, policies |-> [i \in DOMAIN ps |-> EgressPolicy(ps[i])]]
    ELSE [ok |-> FALSE, policies |-> <<>>]

-----------------------------------------------------------------------------
(* Workloads                                                               *)

PolicyReferenceOk(e, refs) ==
    /\ e.config # Missing /\ refs = Missing
    /\ e.config.url = "PolicyReference" /\ e.config.decodes
    /\ e.config.value.type = "TrafficPolicy"

\* One extension; a kind that is not known, or metadata that does not decode, is
\* passed over, and of several of a kind the last one counts.
Extension(acc, e) ==
    LET ps == EgressPolicies(e.config.value)
    IN IF e.name = "traffic-policy-reference"
       THEN IF PolicyReferenceOk(e, acc.refs) THEN [acc EXCEPT !.refs = e.config.value.names] ELSE [acc EXCEPT !.ok = FALSE]
       ELSE IF e.config = Missing THEN acc
       ELSE CASE e.config.url = "WorkloadMetadata" -> IF e.config.decodes THEN [acc EXCEPT !.labels = e.config.value] ELSE acc
              [] e.config.url = "EgressPolicies" ->
                    IF e.config.decodes THEN [acc EXCEPT !.egress = ps.policies, !.ok = @ /\ ps.ok] ELSE [acc EXCEPT !.ok = FALSE]
              [] OTHER -> acc

Extensions(es) == FoldLeft(Extension, [ok |-> TRUE, refs |-> Missing, labels |-> Missing, egress |-> Missing], es)

ValidatePolicies(names) ==
    names # Missing => "" \notin ToSet(names) /\ "*" \notin ToSet(names) /\ IsInjective(names)

WorkloadOk(r) ==
    LET x == Extensions(r.exts)
    IN /\ r.waypoint # Missing => GatewayOk(r.waypoint)
       /\ r.tunnel # Missing => TunnelOk(r.tunnel)
       /\ \A i \in DOMAIN r.ips : ByteToIpOk(r.ips[i])
       /\ \A key \in r.services : Slash(key) # {}
       /\ x.ok /\ ValidatePolicies(x.refs)
       /\ {r.protocol, r.mode, r.status} \subseteq {0, 1}

\* A workload type that is not known counts as the first.
WorkloadType(n) == IF n \in 0..3 THEN <<"deployment", "cronjob", "pod", "job">>[n + 1] ELSE "deployment"

Workload(r) ==
    LET x == Extensions(r.exts)
    IN [ips |-> [i \in DOMAIN r.ips |-> r.ips[i].ip], hbone |-> r.protocol = 1, hostNetwork |-> r.mode = 1, healthy |-> r.status = 0,
        waypoint |-> IF r.waypoint = Missing THEN Missing ELSE GatewayAddress(r.waypoint),
        tunnel |-> IF r.tunnel = Missing THEN Missing ELSE ApplicationTunnel(r.tunnel),
        services |-> {NamespacedHostname(key) : key \in r.services},
        namespace |-> r.namespace, td |-> OrDefault(r.td, "cluster.local"), sa |-> OrDefault(r.sa, "default"),
        cluster |-> OrDefault(r.cluster, "Kubernetes"), name |-> r.workloadName, type |-> WorkloadType(r.type),
        app |-> r.canonical, revision |-> r.revision, region |-> r.region, zone |-> r.zone, capacity |-> IF r.capacity = Missing THEN 1 ELSE r.capacity,
        labels |-> x.labels, egress |-> x.egress, refs |-> x.refs]

-----------------------------------------------------------------------------
(* Services                                                                *)

Scopes6 == <<"Region", "Zone", "Subzone", "Node", "Cluster", "Network">>

ServiceOk(r) ==
    /\ \A i \in DOMAIN r.vips : ByteToIpOk(r.vips[i])
    /\ r.waypoint # Missing => GatewayOk(r.waypoint)
    /\ r.lb # Missing => ToSet(r.lb.prefs) \subseteq 1..6 /\ r.lb.mode \in 0..3 /\ r.lb.health \in 0..1
    /\ r.families \in 0..3

\* The endpoints are added by the store.
Service(r) ==
    [host |-> r.host, namespace |-> r.namespace, vips |-> [i \in DOMAIN r.vips |-> r.vips[i].ip], ports |-> PortMap(r.ports),
     waypoint |-> IF r.waypoint = Missing THEN Missing ELSE GatewayAddress(r.waypoint),
     lb |-> IF r.lb = Missing THEN Missing
            ELSE [prefs |-> [i \in DOMAIN r.lb.prefs |-> Scopes6[r.lb.prefs[i]]],
                  mode |-> <<"Standard", "Strict", "Failover", "Passthrough">>[r.lb.mode + 1],
                  health |-> <<"OnlyHealthy", "AllowAll">>[r.lb.health + 1]],
     family |-> <<Missing, "IPv4", "IPv6", "Dual">>[r.families + 1]]

-----------------------------------------------------------------------------
(* Traffic policies; an address is [len, bits], of fewer bits than the     *)
(* real ones, and a network has a length too                               *)

ParseAddressOk(a) == ByteToIpOk(a) /\ a.length <= Len(a.bits)
ParseAddress(a) == [a EXCEPT !.bits = [i \in DOMAIN @ |-> IF i <= a.length THEN @[i] ELSE 0]]

PortRange(pm) ==
    CASE pm.port = Missing /\ pm.end = Missing -> Missing
      [] pm.port = Missing -> <<1, pm.end>>
      [] pm.end = Missing -> <<pm.port, pm.port>>
      [] OTHER -> <<pm.port, pm.end>>

\* A protocol is its number, 3 is ICMP.
PortMatchOk(pm) ==
    LET range == PortRange(pm)
    IN /\ pm.protocol \in 0..4
       /\ \A p \in {pm.port, pm.end} \ {Missing} : p < 65536
       /\ range # Missing => pm.protocol # 3 /\ range[1] > 0 /\ range[2] > 0 /\ range[1] <= range[2]

RuleOk(rule) ==
    /\ rule.action \in 0..1 /\ rule.match # Missing
    /\ \A a \in rule.match.src \cup rule.match.dst : ParseAddressOk(a)
    /\ \A pm \in rule.match.ports : PortMatchOk(pm)

PolicyRule(rule) ==
    [action |-> <<"Allow", "Deny">>[rule.action + 1],
     src |-> {ParseAddress(a) : a \in rule.match.src}, dst |-> {ParseAddress(a) : a \in rule.match.dst},
     ports |-> {[protocol |-> pm.protocol, range |-> PortRange(pm)] : pm \in rule.match.ports}]

\* A direction that is absent is not one without rules.
TrafficPolicyOk(r) == \A rules \in {r.ingress, r.egress} \ {Missing} : \A i \in DOMAIN rules : RuleOk(rules[i])
TrafficPolicy(r) ==
    LET RuleSet(rules) == IF rules = Missing THEN Missing ELSE [i \in DOMAIN rules |-> PolicyRule(rules[i])]
    IN [ingress |-> RuleSet(r.ingress), egress |-> RuleSet(r.egress)]

ConvertOk(r) ==
    CASE r.kind = "workload" -> WorkloadOk(r) [] r.kind = "service" -> ServiceOk(r)
      [] r.kind = "policy" -> TrafficPolicyOk(r) [] OTHER -> FALSE
Converted(r) == CASE r.kind = "workload" -> Workload(r) [] r.kind = "service" -> Service(r) [] OTHER -> TrafficPolicy(r)

-----------------------------------------------------------------------------
(* Headers and identities made from a workload                             *)

BaggageOrder == <<"cluster", "namespace", "workload", "service", "revision", "region", "zone">>
BaggageKeys == ToSet(BaggageOrder)

Baggage(w) ==
    [k \in BaggageKeys |->
        LET v == CASE k = "cluster" -> w.cluster [] k = "namespace" -> w.namespace
                   [] k = "workload" -> w.name [] k = "service" -> w.app
                   [] k = "revision" -> w.revision [] k = "region" -> w.region [] OTHER -> w.zone
        IN IF v = "" THEN Missing ELSE v]

BaggageHeader(b, type) ==
    LET Entry(k) == IF b[k] = Missing THEN <<>>
                    ELSE << <<IF k = "workload" THEN <<"k8s", type, "name">> ELSE <<k>>, b[k]>> >>
    IN FoldLeft(LAMBDA h, k : h \o Entry(k), <<>>, BaggageOrder)

\* The kinds of workload that are listed; of two entries for a key the later stays.
KeyOf(text) == IF text \in {<<"k8s", t, "name">> : t \in {"deployment", "cronjob", "pod", "job"}} THEN "workload" ELSE text[1]

ParseBaggageHeader(h) ==
    [k \in BaggageKeys |->
        LET at == {i \in DOMAIN h : KeyOf(h[i][1]) = k}
        IN IF at = {} THEN Missing ELSE IF h[Max(at)][2] = "" THEN Missing ELSE h[Max(at)][2]]

Identity(w) == <<"spiffe://", w.td, "ns", w.namespace, "sa", w.sa>>
ParseIdentity(text) ==
    IF Len(text) = 6 /\ text[1] = "spiffe://" /\ text[3] = "ns" /\ text[5] = "sa"
    THEN [td |-> text[2], namespace |-> text[4], sa |-> text[6]] ELSE Missing

-----------------------------------------------------------------------------
(* A response: every update is taken or refused for itself                 *)

ConvertInit ==
    /\ stored = [n \in DOMAIN WireResources |-> Missing]
    /\ carried = stored
    /\ refused = {} /\ responses = 0

\* Handler<XdsAddress>::handle, or that of the policies, with
\* handle_single_resource; an update is a resource, or Missing for a removal.
HandleSingle(updates) ==
    LET Ok(n) == updates[n] = Missing \/ ConvertOk(updates[n])
        New(n, old, new) == IF n \in DOMAIN updates /\ Ok(n) THEN new ELSE old
    IN /\ stored' = [n \in DOMAIN stored |-> New(n, stored[n], IF updates[n] = Missing THEN Missing ELSE Converted(updates[n]))]
       /\ carried' = [n \in DOMAIN carried |-> New(n, carried[n], updates[n])]
       /\ refused' = {n \in DOMAIN updates : ~Ok(n)}

HandleResponses(updates) ==
    /\ responses < MaxResponses
    /\ responses' = responses + 1
    /\ HandleSingle(updates)

\* Policies come in responses of their own.
OneType(n1, n2) == (\E r \in WireResources[n1] : r.kind = "policy") = (\E r \in WireResources[n2] : r.kind = "policy")

ConvertNext ==
    \E n \in DOMAIN WireResources : \E r \in WireResources[n] \cup {Missing} :
        \/ HandleResponses([k \in {n} |-> r])
        \/ \E n2 \in DOMAIN WireResources \ {n} : \E r2 \in WireResources[n2] :
              OneType(n, n2) /\ HandleResponses([k \in {n, n2} |-> IF k = n THEN r ELSE r2])

-----------------------------------------------------------------------------
(* Properties                                                              *)

\* The first policy that matches decides; none leaves the default.
FirstMatch(ps, probe) ==
    LET Applies(p) == /\ p.namespaces = {} \/ probe.ns \in p.namespaces
                      /\ p.cidrs = {} \/ probe.ip \in p.cidrs
                      /\ p.ports = {} \/ probe.port \in p.ports
        at == {i \in DOMAIN ps : Applies(ps[i])}
    IN IF at = {} THEN 0 ELSE Min(at)

EgressOf(es) == {i \in DOMAIN es : es[i].config # Missing /\ es[i].name # "traffic-policy-reference" /\ es[i].config.url = "EgressPolicies"}
RefsOf(es) == {i \in DOMAIN es : es[i].name = "traffic-policy-reference"}

\* What a workload of a namespace does with a destination is what the policies on the wire say:
\* the same policy is the first to match, with the same action, and a policy that
\* sends to a gateway has one.
EgressAsSent(r, w) ==
    IF EgressOf(r.exts) = {} THEN w.egress = Missing
    ELSE LET sent == r.exts[Max(EgressOf(r.exts))].config.value
         IN \A probe \in Probes :
               LET i == FirstMatch(sent, probe) j == FirstMatch(w.egress, probe)
               IN /\ (i = 0) = (j = 0)
                  /\ i # 0 => w.egress[j].action = <<"Passthrough", "Deny", "Gateway">>[sent[i].policy + 1]
                  /\ i # 0 /\ w.egress[j].action = "Gateway" =>
                        w.egress[j].gateway.to.host = sent[i].gateway.service /\ w.egress[j].gateway.port \in 1..65535

\* The policy references are those of the one extension that has them, each once;
\* without it there are none, which is not the same as an empty list.
RefsAsSent(r, w) ==
    IF RefsOf(r.exts) = {} THEN w.refs = Missing
    ELSE /\ Cardinality(RefsOf(r.exts)) = 1
         /\ \A i \in RefsOf(r.exts) : w.refs = r.exts[i].config.value.names
         /\ Cardinality(ToSet(w.refs)) = Len(w.refs)

\* For every connection the first rule that matches is the same one, before and after
\* the conversion, whatever the host bits of the networks and the bounds of the ports.
RulesAsSent(sent, kept) ==
    LET Prefix(bits, n) == SubSeq(bits, 1, n)
        Within(nets, ip) == nets = {} \/ \E a \in nets : Len(a.bits) = Len(ip) /\ Prefix(a.bits, a.length) = Prefix(ip, a.length)
        AskedFor(pm, port) ==
            /\ pm.protocol \in {0, 1}
            /\ pm.port = Missing \/ port >= pm.port
            /\ IF pm.end = Missing THEN pm.port \in {Missing, port} ELSE port <= pm.end
        Sent(rule, p) == Within(rule.match.src, p.src) /\ Within(rule.match.dst, p.dst)
                         /\ (rule.match.ports = {} \/ \E pm \in rule.match.ports : AskedFor(pm, p.port))
        Kept(rule, p) == Within(rule.src, p.src) /\ Within(rule.dst, p.dst)
                         /\ (rule.ports = {} \/ \E pm \in rule.ports : pm.protocol \in {0, 1} /\
                                (pm.range = Missing \/ p.port \in pm.range[1]..pm.range[2]))
    IN (sent = Missing) = (kept = Missing) /\ (sent # Missing => \A p \in PolicyProbes :
          {i \in DOMAIN sent : Sent(sent[i], p)} = {i \in DOMAIN kept : Kept(kept[i], p)})

\* A resource in the store enforces exactly the policies it was sent with, whatever
\* came with it in the response and whatever was refused in between: nothing that
\* could not be converted is dropped from it silently (EgressPolicies::try_from,
\* Workload::try_from, TrafficPolicy::try_from, handle_single_resource), and the identity and the baggage
\* made from it are read back as what they stand for (Identity::from_str,
\* parse_baggage_header).
StoredAsSent ==
    \A n \in DOMAIN stored : stored[n] # Missing =>
        LET r == carried[n] w == stored[n]
        IN /\ r.kind = "workload" =>
                /\ EgressAsSent(r, w) /\ RefsAsSent(r, w)
                /\ ParseBaggageHeader(BaggageHeader(Baggage(w), w.type)) = Baggage(w)
                /\ ParseIdentity(Identity(w)) = [td |-> w.td, namespace |-> w.namespace, sa |-> w.sa]
                /\ "" \notin {w.td, w.sa}
           /\ r.kind = "policy" => RulesAsSent(r.ingress, w.ingress) /\ RulesAsSent(r.egress, w.egress)
           /\ r.kind = "service" =>
                \A i \in DOMAIN r.ports : \E k \in DOMAIN r.ports :
                    U16(r.ports[k].service) = U16(r.ports[i].service) /\ w.ports[U16(r.ports[i].service)] = U16(r.ports[k].target)
===============================================================================
