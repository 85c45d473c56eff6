------------------------------- MODULE Routing -------------------------------
(***************************************************************************)
(* The lookups that decide where a connection goes: ProxyState and         *)
(* DemandProxyState of src/state.rs, the egress policies of                *)
(* src/proxy/outbound.rs, the checks of a destination of                   *)
(* src/proxy/inbound.rs and the helpers of src/proxy.rs.                   *)
(*                                                                         *)
(* A store is a record of a set of workloads and of a sequence of services *)
(* in the order in which they came; how it is kept up to date is           *)
(* AddressState.  A choice that the code makes at random, or that a        *)
(* HashMap's order makes, is a set of possible results.  A lookup is of    *)
(* one state of the store; Requests repeats those that may be repeated     *)
(* after a demand of the control plane.                                    *)
(***************************************************************************)
EXTENDS Lists, FiniteSets, SequencesExt, FiniteSetsExt

CONSTANTS
    Absent,         \* no value
    IPv6,           \* the IP addresses of that family; the others are IPv4
    Loopback,       \* 127.0.0.1 and ::1
    IllegalPorts,   \* Config.illegal_ports
    Network         \* Config.network

ASSUME RoutingAssumption == Absent \notin IPv6 /\ IllegalPorts \subseteq Nat

\* A HashMap of ports.
Get(map, port) == IF port \in DOMAIN map THEN map[port] ELSE 0
SameFamily(a, b) == (a \in IPv6) = (b \in IPv6)

-----------------------------------------------------------------------------
(* Services                                                                *)

ByVip(st, na) == {s \in Range(st.services) : na \in s.vips}

ByNamespacedHost(st, host, ns) == {s \in Range(st.services) : s.host = host /\ s.ns = ns}

ServicesOf(st, w) == UNION {ByNamespacedHost(st, n.host, n.ns) : n \in w.services}

\* One step of ServiceMatch::find_best_match: found is [kind, svc].  A canonical
\* service takes the place of any other.
BestMatchStepCanonical(ns, preferred, found, s) ==
    IF s.canonical THEN [kind |-> "Canonical", svc |-> s]
    ELSE IF found.kind = "Namespace" THEN found
    ELSE IF s.ns = ns THEN [kind |-> "Namespace", svc |-> s]
    ELSE IF s.ns = preferred /\ found.kind # "Canonical" THEN [kind |-> "Preferred", svc |-> s]
    ELSE IF found.kind = "None" THEN [kind |-> "First", svc |-> s]
    ELSE found

BestMatchStep(ns, preferred, found, s) ==
    IF found.kind = "Namespace" THEN found                          \* FoldWhile::Done
    ELSE IF s.ns = ns THEN [kind |-> "Namespace", svc |-> s]
    ELSE IF s.canonical THEN [kind |-> "Canonical", svc |-> s]
    ELSE IF s.ns = preferred /\ found.kind # "Canonical" THEN [kind |-> "Preferred", svc |-> s]
    ELSE IF found.kind = "None" THEN [kind |-> "First", svc |-> s]
    ELSE found

FindBestMatch(services, ns, preferred) ==
    LET found[i \in 0..Len(services)] ==
            IF i = 0 THEN [kind |-> "None", svc |-> Absent]
            ELSE BestMatchStep(ns, preferred, found[i - 1], services[i])
    IN found[Len(services)].svc

GetByHost(st, host) == Without(st.services, {s \in Range(st.services) : s.host # host})

GetBestByHost(st, host, ns) == FindBestMatch(GetByHost(st, host), ns, Absent)

-----------------------------------------------------------------------------
(* Addresses                                                               *)

WorkloadsAt(st, na) == {w \in st.workloads : na.ip \in Range(w.ips) /\ na.net = w.net}

\* find_address: a workload before a service.
FindAddress(st, na) ==
    IF WorkloadsAt(st, na) # {} THEN WorkloadsAt(st, na) ELSE ByVip(st, na)

\* find_hostname: a service before a workload.
FindHostname(st, host, ns) ==
    IF ByNamespacedHost(st, host, ns) # {} THEN ByNamespacedHost(st, host, ns)
    ELSE {w \in st.workloads : w.host = host /\ w.ns = ns}

\* A destination is [ip, net] or [host, ns].
FindDestination(st, d) ==
    IF "ip" \in DOMAIN d THEN FindAddress(st, d) ELSE FindHostname(st, d.host, d.ns)

IsService(x) == "vips" \in DOMAIN x

-----------------------------------------------------------------------------
(* Upstreams                                                               *)

\* The endpoints that may be used at all.
Endpoints(st, svc, port) ==
    {w \in st.workloads :
        /\ w.uid \in DOMAIN svc.eps
        /\ w.ips # <<>> \/ w.host # Absent
        /\ port \in DOMAIN svc.ports \/ w.tunnel # Absent}

\* How many of the preferences, from the first on, the endpoint shares with the source.
Rank(src, w, prefs) ==
    Max({n \in 0..Len(prefs) : \A i \in 1..n : src.loc[prefs[i]] = w.loc[prefs[i]]})

\* load_balance: the workloads that the weighted choice may return.
LoadBalance(st, src, svc, port) ==
    LET eps == Endpoints(st, svc, port)
        rank(w) == Rank(src, w, svc.lb.prefs)
        allowed == {w \in eps : svc.lb.mode = "Strict" => rank(w) = Len(svc.lb.prefs)}
        best == {w \in allowed : \A x \in allowed : rank(x) <= rank(w)}
        options == IF svc.lb = Absent \/ svc.lb.mode = "Standard" THEN eps ELSE best
    IN {w \in options : w.capacity > 0}

\* The endpoint's port, the service's, or with a tunnel port any.
TargetPort(svc, w, port) ==
    IF port \in DOMAIN svc.eps[w.uid] THEN svc.eps[w.uid][port]
    ELSE IF Get(svc.ports, port) > 0 THEN svc.ports[port]
    ELSE IF w.tunnel # Absent /\ w.tunnel.port # Absent THEN port
    ELSE 0

\* find_upstream_from_service: [w, port, svc], none when the set is empty.
UpstreamsOfService(st, src, port, svc) ==
    {[w |-> w, port |-> TargetPort(svc, w, port), svc |-> svc] :
        w \in {x \in LoadBalance(st, src, svc, port) : TargetPort(svc, x, port) # 0}}

\* find_upstream: a service before a workload, nothing for a passthrough one.
FindUpstream(st, src, na, port) ==
    IF ByVip(st, na) # {}
    THEN UNION {IF svc.lb # Absent /\ svc.lb.mode = "Passthrough" THEN {}
                ELSE UpstreamsOfService(st, src, port, svc) : svc \in ByVip(st, na)}
    ELSE {[w |-> w, port |-> port, svc |-> Absent] : w \in WorkloadsAt(st, na)}

\* The part of fetch_waypoint under the lock.
Waypoints(st, gateway, src) ==
    LET named == FindDestination(st, gateway.to)
    IN IF "ip" \in DOMAIN gateway.to THEN FindUpstream(st, src, gateway.to, gateway.port)
       ELSE UNION {IF IsService(x) THEN UpstreamsOfService(st, src, gateway.port, x)
                   ELSE {[w |-> x, port |-> gateway.port, svc |-> Absent]} : x \in named}

Accepts(family, ip) ==
    CASE family = "IPv4" -> ip \notin IPv6
      [] family = "IPv6" -> ip \in IPv6
      [] OTHER -> TRUE

\* pick_workload_destination_or_resolve for a workload with addresses, Absent
\* when the hostname has to be resolved.
PickAddress(up, ip) ==
    LET family == IF up.svc = Absent THEN Absent ELSE up.svc.family
        usable == {i \in DOMAIN up.w.ips : Accepts(family, up.w.ips[i])}
        same   == {i \in usable : SameFamily(up.w.ips[i], ip)}
    IN IF ip \in Range(up.w.ips) THEN ip
       ELSE IF same # {} THEN up.w.ips[Min(same)]
       ELSE IF usable # {} THEN up.w.ips[Min(usable)]
       ELSE Absent

\* resolve_on_demand_dns: a random answer, of the family of the target if there is one.
Resolved(answers, ip) ==
    LET same == {a \in answers : SameFamily(a, ip)} IN IF same # {} THEN same ELSE answers

\* workload_and_services_san
Sans(up) == {up.w.id} \cup (IF up.svc = Absent THEN {} ELSE up.svc.sans)

-----------------------------------------------------------------------------
(* Egress policies                                                         *)

\* An empty list matches anything.
Matches(list, x) == list = {} \/ x \in list

\* match_egress_policy: the first policy that applies; Absent if none does.
MatchEgressPolicy(policies, ns, target) ==
    LET applies(p) == Matches(p.namespaces, ns) /\ Matches(p.cidrs, target.ip) /\ Matches(p.ports, target.port)
        hit == SelectSeq(policies, applies)
    IN IF hit = <<>> THEN Absent ELSE hit[1]

\* build_request up to the lookup of a gateway: the error, or what to do.
SelfCall(src, target) ==
    target.port \in IllegalPorts /\ (target.ip \in Loopback \/ target.ip \in Range(src.ips))

EgressDecision(src, target) ==
    LET p == MatchEgressPolicy(src.egress, src.ns, target)
    IN IF SelfCall(src, target) THEN "SelfCall"
       ELSE IF p = Absent \/ p.action = "Passthrough" THEN "Passthrough"
       ELSE IF p.action = "Deny" THEN "Denied"
       ELSE IF p.gateway = Absent THEN "GatewayMissing" ELSE "Gateway"

-----------------------------------------------------------------------------
(* Inbound destinations                                                    *)

\* Any waypoint of the target will do.
IsWaypointOfAny(st, local, dst, target) == \E x \in FindAddress(st, target) : x.waypoint # Absent

\* lookup_is_destination_this_waypoint, FALSE when the target is unknown (NeedsDemand).
IsWaypointOf(st, local, dst, target) ==
    \E x \in FindAddress(st, target) :
        /\ x.waypoint # Absent
        /\ \E y \in FindDestination(st, x.waypoint.to) :
              IF IsService(y) THEN local.uid \in DOMAIN y.eps ELSE dst \in Range(y.ips)

\* validate_destination, by one lookup, for an authority that is [ip, port] or
\* [host, port].
ValidDestination(st, local, dst, authority) ==
    \/ "host" \in DOMAIN authority
    \/ authority.ip = dst
    \/ local.tunnel # Absent
    \/ IsWaypointOf(st, local, dst, [net |-> Network, ip |-> authority.ip])

\* The lookup found nothing: with on-demand xDS the target is asked for.
NeedsDemand(st, local, dst, authority) ==
    /\ "ip" \in DOMAIN authority /\ authority.ip # dst /\ local.tunnel = Absent
    /\ FindAddress(st, [net |-> Network, ip |-> authority.ip]) = {}

\* The services a request may be for: the one that a hostname names, whether or not
\* the workload belongs to it, or all those it belongs to.
InboundServices(st, local, authority) ==
    IF "host" \in DOMAIN authority THEN {GetBestByHost(st, authority.host, local.ns)} \ {Absent} ELSE ServicesOf(st, local)

\* The port that a request names, 0 when it cannot be told.
InboundPort(svc, local, authority) ==
    IF "ip" \in DOMAIN authority THEN authority.port
    ELSE IF local.uid \in DOMAIN svc.eps /\ authority.port \in DOMAIN svc.eps[local.uid]
         THEN svc.eps[local.uid][authority.port]
    ELSE Get(svc.ports, authority.port)

\* The VIP that a PROXY header gets in place of a hostname: one of our network
\* and of IPv4 if there is one.  The code keeps the last of equals.
TunnelVips(svc) ==
    LET key(v) == IF v.net # Network THEN 0 ELSE IF v.ip \in IPv6 THEN 1 ELSE 2
    IN {v \in svc.vips : \A x \in svc.vips : key(x) <= key(v)}

\* find_inbound_upstream: the possible [ip, port, tunnel], or an error.
InboundUpstreams(st, local, dst, authority) ==
    LET svc == IF "ip" \in DOMAIN authority THEN Absent ELSE GetBestByHost(st, authority.host, local.ns)
        port == InboundPort(svc, local, authority)
        tunnelled == IF local.tunnel.port = Absent THEN port ELSE local.tunnel.port
        targets == IF svc = Absent THEN {authority}
                   ELSE {[ip |-> v.ip, port |-> authority.port] : v \in TunnelVips(svc)}
    IN IF "host" \in DOMAIN authority /\ svc = Absent THEN {[err |-> "NoHostname"]}
       ELSE IF "host" \in DOMAIN authority /\ port = 0 THEN {[err |-> "NoPort"]}
       ELSE IF port \in IllegalPorts THEN {[err |-> "SelfCall"]}
       ELSE IF local.tunnel = Absent THEN {[ip |-> dst, port |-> port, tunnel |-> Absent]}
       ELSE IF targets = {} THEN {[err |-> "NoIP"]}
       ELSE {[ip |-> dst, port |-> tunnelled, tunnel |-> [target |-> t, proxy |-> local.tunnel.proxy]] : t \in targets}

\* guess_inbound_service: by the host the client named, else by the port.
GuessInboundService(services, host, local, port) ==
    LET named == {s \in services : s.host = host}
        byPort == {s \in services : \E p \in DOMAIN s.ports :
                      \/ s.ports[p] = port
                      \/ local.uid \in DOMAIN s.eps /\ Get(s.eps[local.uid], p) = port}
    IN IF named # {} THEN named ELSE byPort

-----------------------------------------------------------------------------
(* Connecting                                                              *)

\* Only a PROXY tunnel may be sent to the loopback address.
ToLocalhost(cfg, up) == cfg.localhostTunnel /\ up.tunnel # Absent /\ up.tunnel.proxy

\* The source address of serve_connect, Absent when the kernel chooses.
InboundSource(cfg, up, src) ==
    IF ToLocalhost(cfg, up) THEN "loopback"
    ELSE IF cfg.sidecar THEN "self"
    ELSE IF cfg.noFreebind \/ ~cfg.origSrc THEN Absent ELSE src

PassthroughSource(cfg, src) ==
    IF cfg.origSrc THEN src ELSE IF cfg.sidecar THEN "self" ELSE Absent

\* freebind_connect: what is bound before connecting to dst; a failure to bind
\* is only logged.
FreebindConnect(local, dst) ==
    IF local = Absent \/ (local = dst /\ local # "self") THEN {Absent} ELSE {local, Absent}
=============================================================================
