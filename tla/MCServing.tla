------------------------------ MODULE MCServing ------------------------------
(***************************************************************************)
(* Connections of every kind against a few contents of the store: a        *)
(* gateway that moves to another address, port and identity, one known     *)
(* only by name, a workload with a PROXY tunnel, a waypoint of another     *)
(* address, and no local workload at all.                                  *)
(***************************************************************************)
EXTENDS Requests, Dns, Tls, Lifecycle, DataPath, Wire, Convert, Settings, Probes, Netfilter

CONSTANTS a4, a6, g1, g2, v1, o4, o6, lo, net, ns1, hGw, hWp, hSvc, hDns, i1, i2, i3, san

Scopes == {"Region", "Zone"}
Loc(r, z) == [s \in Scopes |-> IF s = "Region" THEN r ELSE z]

W0 == [uid |-> "local", ips |-> <<a4, a6>>, net |-> net, host |-> Absent, ns |-> ns1, services |-> {},
       tunnel |-> Absent, waypoint |-> Absent, egress |-> <<>>, loc |-> Loc(1, 1), capacity |-> 1, id |-> i1]
S0 == [host |-> hGw, ns |-> ns1, canonical |-> FALSE, vips |-> {}, ports |-> <<>>, eps |-> <<>>,
       lb |-> Absent, family |-> Absent, waypoint |-> Absent, sans |-> {}]

Policy(action, cidrs, ports, gateway) ==
    [namespaces |-> {}, cidrs |-> cidrs, ports |-> ports, action |-> action, gateway |-> gateway]
ByName(h) == [to |-> [host |-> h, ns |-> ns1], port |-> 8]
ByIp(ip)  == [to |-> [ip |-> ip, net |-> net], port |-> 8]

\* First match wins: the second policy on o4 is never used.
Egress == << Policy("Deny", {o4}, {25}, Absent), Policy("Gateway", {o4, o6}, {}, ByName(hGw)),
             Policy("Passthrough", {o4}, {}, Absent), Policy("Gateway", {v1}, {}, ByIp(g1)),
             Policy("Gateway", {lo}, {80}, Absent) >>

Gw(ips, id, z) == [W0 EXCEPT !.uid = "gw", !.ips = ips, !.id = id, !.loc = Loc(1, z)]
GwService(port, sans, lb) ==
    [S0 EXCEPT !.eps = ("gw" :> (8 :> port)), !.ports = (8 :> 0), !.sans = sans, !.lb = lb]
Strict == [mode |-> "Strict", prefs |-> <<"Region", "Zone">>]

Sender == [W0 EXCEPT !.egress = Egress]
Waypoint == [W0 EXCEPT !.services = {[host |-> hSvc, ns |-> ns1]}]
Wp == [S0 EXCEPT !.host = hWp, !.eps = ("local" :> <<>>)]
Svc == [S0 EXCEPT !.host = hSvc, !.vips = {[ip |-> v1, net |-> net]}, !.ports = (80 :> 8),
                  !.eps = ("local" :> (90 :> 15)), !.waypoint = ByName(hWp)]

\* Services the workload does not belong to: one with the name of its own, one with
\* another name.
Foreign(h) == [S0 EXCEPT !.host = h, !.ns = "ns9", !.ports = (80 :> 8)]

ServingStores ==
    { [workloads |-> {Sender, Gw(<<g1>>, i2, 1)}, services |-> <<GwService(8, {}, Strict)>>],
      [workloads |-> {Sender, Gw(<<g2, g1>>, i3, 2)}, services |-> <<GwService(9, {san}, Absent)>>],
      [workloads |-> {Sender, [Gw(<<>>, i3, 2) EXCEPT !.host = hDns]},
       services |-> <<GwService(8, {san}, [mode |-> "Failover", prefs |-> <<"Region", "Zone">>])>>],
      [workloads |-> {Waypoint}, services |-> <<Foreign(hSvc), Wp, Svc>>],
      [workloads |-> {Waypoint, [W0 EXCEPT !.uid = "other", !.ips = <<o4>>, !.waypoint = ByName(hGw)]},
       services |-> <<[Svc EXCEPT !.waypoint = Absent], Foreign(hDns)>>],
      [workloads |-> {[Waypoint EXCEPT !.tunnel = [port |-> 15, proxy |-> TRUE]]}, services |-> <<Svc>>],
      [workloads |-> {}, services |-> <<>>] }

To(ip, port) == [ip |-> ip, port |-> port]
Hbone(connect, authority) == [connect |-> connect, authority |-> authority, dst |-> a4]
Socks(cut, methods, atyp, ip) ==
    [cut |-> cut, version |-> 5, methods |-> methods, command |-> 1, atyp |-> atyp, ip |-> ip, port |-> 80]

ServingInputs ==
    [tcp |-> {To(o4, 25), To(o4, 80), To(o6, 80), To(v1, 80), To(a4, 15), To(lo, 80), To(g2, 80)},
     udp |-> {To(o4, 80), To(o6, 80), To(g2, 80)},
     socks |-> {Socks(TRUE, {0}, 1, o4), Socks(FALSE, {2}, 1, o4), Socks(FALSE, {0}, 3, Absent), Socks(FALSE, {0}, 1, o4)},
     hbone |-> {Hbone(FALSE, To(a4, 80)), Hbone(TRUE, Absent), Hbone(TRUE, To(a4, 80)), Hbone(TRUE, To(a4, 15)),
                Hbone(TRUE, To(v1, 80)), Hbone(TRUE, To(o4, 80)),
                Hbone(TRUE, [host |-> hSvc, port |-> 80]), Hbone(TRUE, [host |-> hSvc, port |-> 90]),
                Hbone(TRUE, [host |-> hSvc, port |-> 91]), Hbone(TRUE, [host |-> hDns, port |-> 80])},
     plain |-> {To(a4, 80), To(a4, 15)}]

ServingConfigs ==
    {[sidecar |-> FALSE, noFreebind |-> FALSE, origSrc |-> TRUE, localhostTunnel |-> t, onDemand |-> ~t] : t \in BOOLEAN}
    \cup {[sidecar |-> TRUE, noFreebind |-> FALSE, origSrc |-> FALSE, localhostTunnel |-> FALSE, onDemand |-> FALSE],
          [sidecar |-> FALSE, noFreebind |-> TRUE, origSrc |-> TRUE, localhostTunnel |-> FALSE, onDemand |-> FALSE]}
ServingAnswers == {{}, {g1}, {g2, a6}}

-----------------------------------------------------------------------------
(* DNS: a service in two namespaces, a wildcard, headless ones with and    *)
(* without the cluster's domain, and a store without the client.           *)

Cluster == <<"cluster", "local">>
InCluster(svc, ns) == <<svc, ns, "svc">> \o Cluster
Vip(ip) == [ip |-> ip, net |-> net]
DnsService(host, ns, vips) == [S0 EXCEPT !.host = host, !.ns = ns, !.vips = vips]
Www == <<"www", "example">>

Client == [W0 EXCEPT !.ns = "ns1"]
Pod == [W0 EXCEPT !.uid = "pod", !.ns = "ns1", !.ips = <<g2, a6>>]
DnsServices1 ==
    << [DnsService(Www, "ns2", {Vip(g1)}) EXCEPT !.canonical = TRUE], DnsService(Www, "ns1", {Vip(v1), [ip |-> g2, net |-> Absent]}),
       DnsService(<<"*", "example">>, "ns3", {Vip(o4), Vip(o6)}),
       DnsService(InCluster("a", "ns1"), "ns1", {Vip(v1)}),
       DnsService(<<"headless", "example">>, "ns1", {}),
       [DnsService(InCluster("h", "ns2"), "ns2", {}) EXCEPT !.eps = ("pod" :> <<>> @@ "gone" :> <<>>)] >>
DnsServices2 ==
    << [DnsService(Www, "ns2", {Vip(g1)}) EXCEPT !.canonical = TRUE, !.family = "IPv4"], DnsService(Www, "ns3", {Vip(o4)}),
       DnsService(<<"*", "ns1", "svc">> \o Cluster, "ns1", {Vip(g2)}),
       [DnsService(InCluster("h", "ns2"), "ns2", {}) EXCEPT !.eps = ("pod" :> <<>>), !.family = "IPv4"] >>

ServingDnsStores ==
    { [workloads |-> {Client, Pod}, services |-> DnsServices1],
      [workloads |-> {Client, [Pod EXCEPT !.ips = <<a6>>]}, services |-> DnsServices2],
      [workloads |-> {Client}, services |-> Reverse(DnsServices1)],
      [workloads |-> {}, services |-> <<>>] }

Ask(name, type) == [message |-> "Query", op |-> "Query", info |-> TRUE, name |-> name, type |-> type]
ServingAsked ==
    {Ask(Www, t) : t \in {"A", "AAAA", "MX"}} \cup {Ask(n, "A") : n \in
        { <<"a">>, <<"a", "ns1">>, <<"a", "ns1", "svc">>, InCluster("a", "ns1"), <<"b">>, <<"x", "example">>,
          <<"headless", "example">>, Www \o <<"ns1", "svc">> \o Cluster, Www \o Cluster, <<"unknown">>,
          <<"h", "ns2">> \o <<"svc">> \o Cluster, <<"h", "ns2">>, <<"p", "h", "ns2", "svc">>, Www \o <<"corp">>, <<"a", "corp">> }}
    \cup {Ask(<<"h", "ns2">>, "AAAA"), [Ask(Www, "A") EXCEPT !.info = FALSE],
          [Ask(Www, "A") EXCEPT !.op = "Update"], [Ask(Www, "A") EXCEPT !.message = "Response"]}

ServingDnsConfigs ==
    {[perPod |-> p, preferred |-> n, ipv6 |-> p] : p \in BOOLEAN, n \in {"", "ns3"}}
ServingResolvConf == << <<"corp">> >>
ServingLabels == STRING

-----------------------------------------------------------------------------
(* TLS: peers with every defect, answers of the CA that cannot be used.    *)

Spiffe(td) == [td |-> td, sa |-> "sa"]
Uri(id, text) == [type |-> "URI", id |-> id, text |-> text]
DnsName(text) == [type |-> "DNS", id |-> Absent, text |-> text]
Cert0 == [root |-> 0, sans |-> <<Uri(Spiffe("td1"), "spiffe1")>>, expired |-> FALSE, serial |-> 1, ext |-> "none",
          nb |-> 1, na |-> 4, parses |-> TRUE]

ServingPeers ==
    { Cert0, [Cert0 EXCEPT !.root = 1], [Cert0 EXCEPT !.expired = TRUE], [Cert0 EXCEPT !.serial = 2],
      [Cert0 EXCEPT !.sans = <<>>], [Cert0 EXCEPT !.sans = <<DnsName("manager")>>],
      [Cert0 EXCEPT !.sans = <<Uri(Absent, "other"), Uri(Spiffe("td1"), "spiffe1")>>],
      [Cert0 EXCEPT !.sans = <<Uri(Spiffe("td2"), "spiffe2")>>],
      [Cert0 EXCEPT !.sans = <<Uri(Spiffe("td2"), "spiffe2"), Uri(Spiffe("td1"), "spiffe1")>>] }

ServingResponses ==
    { <<>>, <<Cert0>>, <<Cert0, Cert0>>, <<Cert0, Cert0, [Cert0 EXCEPT !.root = 1]>>,
      <<[Cert0 EXCEPT !.nb = 4, !.na = 1], Cert0>>, <<[Cert0 EXCEPT !.parses = FALSE], Cert0>>,
      <<[Cert0 EXCEPT !.ext = "twice"], Cert0>>, <<[Cert0 EXCEPT !.sans = <<Uri(Spiffe("td2"), "spiffe2")>>], Cert0>> }

ServingRequested == {Spiffe("td1"), Spiffe("td2")}
ServingCrlFiles ==
    {[kind |-> "list", revoked |-> r] : r \in SUBSET {1, 2}} \cup {[kind |-> k, revoked |-> {}] : k \in {"missing", "broken"}}
ServingTlsConfigs ==
    {[impersonate |-> i, alt |-> "alt", auth |-> "Token", tokenFile |-> IF i THEN "token" ELSE "empty",
      ownDomain |-> d, allowed |-> {"manager"}] : i \in BOOLEAN, d \in {"td1", Absent}}
    \cup {[impersonate |-> FALSE, alt |-> Absent, auth |-> "None", tokenFile |-> "empty", ownDomain |-> "td1", allowed |-> {}]}

-----------------------------------------------------------------------------
(* The process: in-pod with and without its own proxy, dedicated, without  *)
(* a proxy, without xDS.                                                   *)

Life0 == [shared |-> FALSE, proxy |-> TRUE, dns |-> FALSE, self |-> FALSE, xds |-> TRUE, unix |-> FALSE]
ServingLifeConfigs ==
    { [Life0 EXCEPT !.dns = TRUE], [Life0 EXCEPT !.shared = TRUE, !.xds = FALSE],
      [Life0 EXCEPT !.shared = TRUE, !.self = TRUE, !.proxy = FALSE, !.unix = TRUE] }

-----------------------------------------------------------------------------
(* Bytes: TCP and HTTP/2 on either side, capsules of every kind, and what  *)
(* the kernel may attach to a message.                                     *)

ServingCopySides == {[down |-> "tcp", up |-> "tcp"], [down |-> "tcp", up |-> "h2"], [down |-> "h2", up |-> "tcp"]}

Capsule(type, ctx, payload) == [type |-> type, ctx |-> ctx, payload |-> payload, width |-> 1]
Long(n) == [k \in 1..n |-> k]
FirstCapsule == Capsule(0, 0, <<7>>)
LastCapsule == [Capsule(0, 0, <<8, 9>>) EXCEPT !.width = 2]
ServingCapsuleStreams ==
    {<<FirstCapsule, c, LastCapsule>> : c \in {Capsule(0, 0, <<>>), Capsule(0, 0, Long(3)), Capsule(0, 0, Long(11)), Capsule(0, 1, <<5>>),
                                 Capsule(3, 0, <<5>>), [Capsule(3, 0, Long(4)) EXCEPT !.width = 2], Capsule(0, NoCtx, <<>>)}}

ServingAgentMessages ==
    [cmsgs : {<<>>, << <<1>> >>, << <<1, 2>> >>, << <<1>>, <<2>> >>, << <<1>>, <<2, 3>> >>}, trunc : BOOLEAN,
     ctrunc : BOOLEAN, payload : {"Add", "Keep", "Del", "SnapshotSent", "none", "broken"}]

-----------------------------------------------------------------------------
(* Resources: one of each kind, sound or with one defect.                  *)

WirePolicy(policy, cidrs, ports, gateway) == [policy |-> policy, namespaces |-> {}, cidrs |-> cidrs, ports |-> ports, gateway |-> gateway]
WireGateway(service, port) == [service |-> service, port |-> port]
Blocked == WirePolicy(1, {"o"}, {}, Missing)
Sent == WirePolicy(2, {"o", "p"}, {443}, WireGateway(<<"gw", "ns", "svc">>, 0))
Open == WirePolicy(0, {}, {}, Missing)
Elsewhere == [WirePolicy(1, {}, {}, Missing) EXCEPT !.namespaces = {"other"}]

Ext(name, url, decodes, value) == [name |-> name, config |-> [url |-> url, decodes |-> decodes, value |-> value]]
EgressExt(ps) == Ext("egress", "EgressPolicies", TRUE, ps)
RefExt(names) == Ext("traffic-policy-reference", "PolicyReference", TRUE, [type |-> "TrafficPolicy", names |-> names])
LabelsExt == Ext("meta", "WorkloadMetadata", TRUE, "k=v")

WireW == [kind |-> "workload", waypoint |-> Missing, tunnel |-> Missing, ips |-> <<[len |-> 4, ip |-> "a"]>>, services |-> {<<"ns", "/", "h">>},
          exts |-> <<>>, protocol |-> 1, mode |-> 0, status |-> 0, td |-> "", sa |-> "sa", cluster |-> "", namespace |-> "ns",
          workloadName |-> "w", type |-> 2, canonical |-> "app", revision |-> "", region |-> "r", zone |-> "", capacity |-> Missing]
WireS == [kind |-> "service", vips |-> <<[len |-> 16, ip |-> "v"]>>, waypoint |-> Missing, lb |-> Missing, families |-> 0, host |-> "h",
          namespace |-> "ns", ports |-> <<[service |-> 80, target |-> 8080], [service |-> 65616, target |-> 90]>>]

EgressExts ==
    {<<EgressExt(ps)>> : ps \in {<<>>, <<Blocked, Sent, Open>>, <<Elsewhere, Sent, Blocked>>, <<Blocked, WirePolicy(3, {}, {}, Missing), Open>>,
        <<WirePolicy(1, {"bad"}, {}, Missing), Open>>, <<WirePolicy(1, {"o"}, {70000}, Missing), Open>>, <<WirePolicy(2, {"o"}, {}, Missing), Open>>,
        <<WirePolicy(2, {"o"}, {}, WireGateway(<<"gw">>, 1)), Open>>, <<WirePolicy(2, {"o"}, {}, WireGateway(<<"gw", "ns">>, 70000)), Open>>}}
RefExts ==
    {<<RefExt(names)>> : names \in {<<>>, <<"p", "q">>, <<"p", "p">>, <<"*">>, <<"">>}}
    \cup {<<RefExt(<<"p">>), RefExt(<<"q">>)>>, <<[RefExt(<<"p">>) EXCEPT !.config = Missing]>>, <<[RefExt(<<"p">>) EXCEPT !.config.url = "other"]>>,
          <<[RefExt(<<"p">>) EXCEPT !.config.decodes = FALSE]>>, <<[RefExt(<<"p">>) EXCEPT !.config.value.type = "other"]>>}
OtherExts ==
    { <<LabelsExt, EgressExt(<<Open>>), RefExt(<<"q">>), EgressExt(<<Blocked>>)>>, <<[LabelsExt EXCEPT !.config.decodes = FALSE], RefExt(<<>>)>>,
      <<Ext("x", "unknown", TRUE, 0), [LabelsExt EXCEPT !.config = Missing]>>, <<[EgressExt(<<>>) EXCEPT !.config.decodes = FALSE]>> }

WireGw(dest) == [dest |-> dest, port |-> 15008]
ServingWorkloads ==
    {[WireW EXCEPT !.exts = es] : es \in EgressExts \cup RefExts \cup OtherExts}
    \cup {[WireW EXCEPT !.waypoint = WireGw(d)] : d \in {Missing, [len |-> 4, ip |-> "g"], [len |-> 5, ip |-> "g"], [host |-> "g", ns |-> "ns"]}}
    \cup {[WireW EXCEPT !.tunnel = [protocol |-> p, port |-> q]] : p \in {0, 1, 2}, q \in {0, 80}}
    \cup {[WireW EXCEPT !.ips = <<[len |-> 3, ip |-> "a"]>>], [WireW EXCEPT !.services = {<<"h">>}], [WireW EXCEPT !.protocol = 2],
          [WireW EXCEPT !.mode = 2], [WireW EXCEPT !.status = 2], [WireW EXCEPT !.type = 9, !.td = "td", !.zone = "z", !.region = "", !.revision = "v1"],
          [WireW EXCEPT !.kind = "unknown"]}
ServingServices ==
    {WireS, [WireS EXCEPT !.vips = <<[len |-> 0, ip |-> "v"]>>], [WireS EXCEPT !.families = 4], [WireS EXCEPT !.waypoint = WireGw(Missing)]}
    \cup {[WireS EXCEPT !.lb = [prefs |-> p, mode |-> m, health |-> h]] : p \in {<<>>, <<1, 6>>, <<0>>}, m \in {1, 4}, h \in {0, 2}}

Network2(bits, length) == [len |-> 4, bits |-> bits, length |-> length]
WirePort(protocol, port, end) == [protocol |-> protocol, port |-> port, end |-> end]
WireRule(action, src, ports) == [action |-> action, match |-> [src |-> src, dst |-> {}, ports |-> ports]]
WireP(rules) == [kind |-> "policy", ingress |-> rules, egress |-> <<>>]
ServingPolicies ==
    {WireP(<<WireRule(1, {Network2(<<1, 1>>, n)}, {WirePort(0, 2, 3)}), WireRule(0, {}, {})>>) : n \in {0, 1, 3}}
    \cup {WireP(<<WireRule(1, {}, {WirePort(0, p, e)}), WireRule(0, {}, {})>>) : p \in {Missing, 0, 2}, e \in {Missing, 1, 65536}}
    \cup {WireP(<<WireRule(1, {}, {WirePort(t, p, Missing)}), WireRule(0, {}, {})>>) : t \in {3, 5}, p \in {Missing, 2}}
    \cup {[WireP(Missing) EXCEPT !.egress = <<WireRule(2, {}, {})>>], WireP(<<[WireRule(0, {}, {}) EXCEPT !.match = Missing]>>), WireP(Missing)}

ServingWireResources == [w1 |-> ServingWorkloads, s1 |-> ServingServices, p1 |-> ServingPolicies]
ServingPolicyProbes == [src : {<<0, 1>>, <<1, 0>>}, dst : {<<0, 0>>}, port : 1..4]
ServingProbes == [ns : {"ns", "other"}, ip : {"o", "p", "z"}, port : {25, 443}]

-----------------------------------------------------------------------------
(* Environments: everything unset, and groups of variables that interact.  *)

NoMeta == [k \in {"DNS_CAPTURE", "DNS_PROXY_ADDR", "CLUSTER_ID"} |-> Unset]
Env0 == [ipv6 |-> Unset, kernelV6 |-> TRUE, kubernetes |-> TRUE, mesh |-> Unset, proxyConfig |-> Unset, meta |-> NoMeta,
         xds |-> Unset, fakeCa |-> Unset, ca |-> Unset, xdsRoot |-> Unset, caRoot |-> Unset, token |-> Unset, clusterId |-> Unset,
         mode |-> Unset, info |-> Unset, pod |-> <<"ns", "pod", "sa">>, localPath |-> Unset, localXds |-> Unset, proxy |-> Unset,
         udp |-> Unset, udpSessions |-> Unset, udpIdle |-> Unset, onDemand |-> Unset, deadline |-> Unset, grace |-> Unset, mark |-> Unset,
         threads |-> Unset, cpuLimit |-> Unset, backend |-> Unset, manager |-> Unset, tokenEnabled |-> Unset, debounce |-> Unset,
         tls |-> Unset, allowed |-> <<>>, unix |-> Unset, socketPath |-> "absolute", crl |-> "", xdsHeader |-> Unset]
EnvUri(text) == [text |-> text, scheme |-> text = "full"]
Pc(prefixed, value) == [NoProxyConfig EXCEPT !.discovery = EnvUri("mesh"), !.meta = (<<prefixed, "DNS_CAPTURE">> :> value)]
SomePc == {Unset, Bad, Pc(TRUE, "TRUE"), Pc(FALSE, "false"), [Pc(FALSE, "true") EXCEPT !.discovery = Bad, !.concurrency = 4]}

ServingEnvironments ==
    {[Env0 EXCEPT !.mesh = a, !.proxyConfig = b, !.meta = m, !.xds = x, !.onDemand = d] :
        a \in SomePc, b \in SomePc, m \in {NoMeta, [NoMeta EXCEPT !["DNS_CAPTURE"] = "false", !["DNS_PROXY_ADDR"] = "0.0.0.0"],
                                           [NoMeta EXCEPT !["DNS_PROXY_ADDR"] = Bad]},
        x \in {Unset, EnvUri(""), EnvUri("full"), EnvUri("part")}, d \in {Unset, TRUE}}
    \cup {[Env0 EXCEPT !.mode = mo, !.info = i, !.pod = p, !.udp = u, !.mark = k] :
        mo \in {Unset, "dedicated", "other"}, i \in {Unset, <<"ns">>, <<"ns", "w", "sa">>}, p \in {<<Unset, "pod", "sa">>, <<"ns", "pod", "sa">>},
        u \in {Unset, TRUE}, k \in {Unset, 7}}
    \cup {[Env0 EXCEPT !.manager = mg, !.tokenEnabled = t, !.debounce = d, !.tls = l, !.allowed = al, !.proxy = pr, !.xds = x] :
        mg \in {Unset, TRUE}, t \in {Unset, TRUE}, d \in {Unset, 0}, l \in {Unset, TRUE}, al \in {<<>>, <<"">>, <<"", "m">>},
        pr \in {Unset, FALSE}, x \in {Unset, EnvUri("")}}
    \cup {[Env0 EXCEPT !.grace = g, !.deadline = d] : g \in {0, 1, 2, 10, 11, Bad}, d \in {Unset, 3}}
    \cup {[Env0 EXCEPT !.threads = t, !.cpuLimit = c] : t \in {Unset, Bad, <<3>>, <<0, "%">>, <<1, "%">>, <<50, "%">>, <<100, "%">>}, c \in {Unset, Bad, 3}}
    \cup {[Env0 EXCEPT !.ipv6 = v, !.kernelV6 = k, !.unix = TRUE, !.socketPath = sp] : v \in {Unset, FALSE}, k \in BOOLEAN, sp \in {"absolute", "relative"}}
    \cup {[Env0 EXCEPT !.fakeCa = f, !.ca = c, !.token = t, !.caRoot = r, !.kubernetes = k] :
        f \in {Unset, TRUE}, c \in {Unset, Bad, EnvUri("part")}, t \in {Unset, "istio-token", "secret"}, r \in {Unset, "SYSTEM", "inline"}, k \in BOOLEAN}
    \cup {[Env0 EXCEPT !.localPath = a, !.localXds = b, !.udpSessions = n, !.udpIdle = i] :
        a \in {Unset, "file"}, b \in {Unset, "inline"}, n \in {Unset, 0}, i \in {Unset, 0}}

-----------------------------------------------------------------------------
(* Probers of each kind and of none, with a name for a port, and malformed *)

Prober0 == [http |-> Nil, tcp |-> Nil, grpc |-> Nil, wellFormed |-> TRUE]
OnPort(port) == [port |-> port]
ServingProbers ==
    { [a |-> [Prober0 EXCEPT !.http = OnPort(<<"int", 80>>)], b |-> [Prober0 EXCEPT !.tcp = OnPort(<<"int", 81>>)], c |-> [Prober0 EXCEPT !.grpc = OnPort(<<"int", 82>>)]],
      [a |-> [Prober0 EXCEPT !.tcp = OnPort(<<"text", 0>>)], b |-> Prober0, c |-> [Prober0 EXCEPT !.tcp = OnPort(<<"int", 81>>), !.grpc = OnPort(<<"int", 82>>)]],
      [a |-> [Prober0 EXCEPT !.http = OnPort(<<"text", 80>>)]], [a |-> [Prober0 EXCEPT !.http = OnPort(<<"int", 80>>), !.wellFormed = FALSE]],
      [a |-> [Prober0 EXCEPT !.http = OnPort(<<"int", 80>>), !.grpc = OnPort(<<"int", 82>>)]] }
ServingHosts == {Nil, [name |-> "pod", port |-> 15020], [name |-> "other", port |-> 443]}
ProbesRest == probers = Nil /\ app = "healthy" /\ ProbesInit

-----------------------------------------------------------------------------
(* Rule sets of the firewall and the packets they are tried on.            *)

cidr(v4, hosts) == [v4 |-> v4, hosts |-> hosts]
NetA == cidr(TRUE, {"a"})
NetB == cidr(TRUE, {"b"})
NetBC == cidr(TRUE, {"b", "c"})
NetA6 == cidr(FALSE, {"a6"})

group(proto, ports) == [protocol |-> proto, ports |-> ports]
portGroups ==
    {<<>>,
     <<group("NonTcp", <<>>)>>,
     <<group("NonTcp", <<<<53, 53>>, <<80, 90>>>>)>>,
     <<group("Icmp", <<>>)>>,
     <<group("Udp", <<<<53, 53>>, <<60, 60>>, <<85, 85>>>>)>>,
     <<group("Sctp", <<>>), group("Udp", <<<<80, 90>>>>)>>}

match(s, d, g) == [source_ips |-> s, dest_ips |-> d, port_groups |-> g]
rule(a, d, p, c) == [action |-> a, direction |-> d, priority |-> p, clauses |-> c]
deny(d) == rule("Deny", d, 100, <<<<match(<<>>, <<>>, <<group("NonTcp", <<>>)>>)>>>>)
ruleset(inline, rules, attached) == [inline_rules |-> inline, rules |-> rules, policy_attached |-> attached]

\* One allowed match before the default; a gate before unsorted rules; three
\* ANDed clauses, the first of them with two alternatives.
ServingRuleSets ==
    UNION {{ruleset(<<>>, <<rule("Allow", "Inbound", 1, <<<<match(s, d, g)>>>>), deny("Inbound")>>, FALSE),
            ruleset(<<rule("Allow", "Outbound", 1, <<<<match(s, <<>>, g)>>>>), deny("Outbound")>>,
                    <<rule("Deny", "Outbound", 2, <<<<match(<<>>, d, <<>>)>>>>),
                      rule("Allow", "Outbound", 1, <<<<match(<<NetA, NetBC>>, <<>>, g)>>>>)>>, TRUE),
            ruleset(<<>>, <<rule("Deny", "Inbound", 0, <<<<match(s, <<>>, <<>>), match(<<NetB>>, <<>>, <<>>)>>,
                                                         <<match(<<>>, d, <<>>)>>, <<match(<<>>, <<>>, g)>>>>),
                            rule("Allow", "Inbound", 0, <<<<match(<<>>, <<NetA, NetB>>, <<>>)>>>>)>>, TRUE)} :
        s \in {<<>>, <<NetA>>, <<NetA, NetB>>, <<NetA, NetA6>>}, d \in {<<>>, <<NetB>>, <<NetA6>>, <<NetBC, NetA, NetA6>>}, g \in portGroups}

packet(d, v4, src, dst, proto, port) ==
    [direction |-> d, v4 |-> v4, src |-> src, dst |-> dst, proto |-> proto, port |-> port,
     established |-> FALSE, loopback |-> FALSE, proxy |-> FALSE]

ServingPackets ==
    {packet(d, TRUE, src, dst, proto, port) : d \in {"Inbound", "Outbound"}, src \in {"a", "b", "c"}, dst \in {"a", "b"},
                                              proto \in {"tcp", "udp", "sctp", "icmp"}, port \in {53, 85}}
    \cup {packet(d, FALSE, "a6", "a6", proto, 53) : d \in {"Inbound", "Outbound"}, proto \in {"tcp", "udp", "icmpv6"}}
    \cup {[packet(d, TRUE, "b", "b", "udp", 53) EXCEPT !.proxy = TRUE] : d \in {"Inbound", "Outbound"}}
    \cup {[packet("Outbound", v4, "a", "b", "sctp", port) EXCEPT !.established = TRUE] : v4 \in BOOLEAN, port \in {53, 85}}
    \cup {[packet(d, TRUE, "a", "a", "icmp", 53) EXCEPT !.loopback = TRUE] : d \in {"Inbound", "Outbound"}}

-----------------------------------------------------------------------------
(* The parts share no state: a behaviour is one of one part, the others    *)
(* rest in an initial state.                                               *)

VARIABLE part

ReqRests == /\ cfg = (CHOOSE c \in Configs : TRUE) /\ store = (CHOOSE st \in Stores : TRUE)
            /\ ReqInit
DnsRests == /\ dnsCfg = (CHOOSE c \in DnsConfigs : TRUE) /\ dnsStore = (CHOOSE st \in DnsStores : TRUE)
            /\ DnsInit
TlsRests == /\ tlsCfg = (CHOOSE c \in TlsConfigs : TRUE)
            /\ TlsInit
            /\ crl.file.kind = "missing" /\ ~ca.gap

LifeRests == /\ lifeCfg = [Life0 EXCEPT !.dns = TRUE] /\ sock = "none"
             /\ LifeInit

CopyRests == ckind = [down |-> "tcp", up |-> "tcp"] /\ CopyInit
WireRests == wsent = (CHOOSE cs \in CapsuleStreams : TRUE) /\ WireInit

ServingInit ==
    /\ part \in {"requests", "dns", "ca", "peers", "life", "copy", "wire", "convert", "settings", "probes"}
    /\ IF part = "requests" THEN ReqInit ELSE ReqRests
    /\ IF part = "dns" THEN DnsInit ELSE DnsRests
    /\ IF part = "ca" THEN TlsInit /\ crl.file.kind = "missing"
       ELSE IF part = "peers" THEN TlsInit /\ ~ca.gap ELSE TlsRests
    /\ IF part = "life" THEN LifeInit ELSE LifeRests
    /\ IF part = "copy" THEN CopyInit ELSE CopyRests
    /\ IF part = "wire" THEN WireInit ELSE WireRests
    /\ ConvertInit
    /\ IF part = "settings" THEN SettingsInit ELSE env = Env0 /\ settings = Unset
    /\ IF part = "probes" THEN ProbesInit ELSE ProbesRest

ServingNext ==
    /\ UNCHANGED part
    /\ \/ part = "requests" /\ ReqNext /\ UNCHANGED <<dnsVars, tlsVars, lifeVars, copyVars, wireVars, convertVars, settingsVars, probeVars>>
       \/ part = "dns" /\ DnsNext /\ UNCHANGED <<reqVars, tlsVars, lifeVars, copyVars, wireVars, convertVars, settingsVars, probeVars>>
       \/ part = "ca" /\ CaNext /\ UNCHANGED <<reqVars, dnsVars, lifeVars, copyVars, wireVars, convertVars, settingsVars, probeVars>>
       \/ part = "peers" /\ PeersNext /\ UNCHANGED <<reqVars, dnsVars, lifeVars, copyVars, wireVars, convertVars, settingsVars, probeVars>>
       \/ part = "life" /\ LifeNext /\ UNCHANGED <<reqVars, dnsVars, tlsVars, copyVars, wireVars, convertVars, settingsVars, probeVars>>
       \/ part = "copy" /\ CopyNext /\ UNCHANGED <<reqVars, dnsVars, tlsVars, lifeVars, wireVars, convertVars, settingsVars, probeVars>>
       \/ part = "wire" /\ WireNext /\ UNCHANGED <<reqVars, dnsVars, tlsVars, lifeVars, copyVars, convertVars, settingsVars, probeVars>>
       \/ part = "convert" /\ ConvertNext /\ UNCHANGED <<reqVars, dnsVars, tlsVars, lifeVars, copyVars, wireVars, settingsVars, probeVars>>
       \/ part = "settings" /\ SettingsNext /\ UNCHANGED <<reqVars, dnsVars, tlsVars, lifeVars, copyVars, wireVars, convertVars, probeVars>>
       \/ part = "probes" /\ ProbesNext /\ UNCHANGED <<reqVars, dnsVars, tlsVars, lifeVars, copyVars, wireVars, convertVars, settingsVars>>

\* Both backends render rule sets into what they mean: nftables, with its families
\* and named sets, decides every packet as the first rule that fires does, and so
\* does iptables, with its products and multiport chunks, for every IPv4 packet
\* ("matching the cartesian expansion semantics of the iptables backend", nft.rs
\* render_rule).  The one difference is the DNS of a pod with the DNS proxy: iptables
\* lets all of it pass ("Bypass redirected DNS", ipt.rs), so the same policy is
\* enforced on it by nftables only.
BackendsFaithful == \A k \in DOMAIN Faithful : Faithful[k]

\* What comes from outside is kept as it was meant: resources as they were sent
\* (Convert), settings as the parts that use them need them (Settings), and the
\* rules of the firewall as the kernel is given them (Netfilter).
InputsHonoured == StoredAsSent /\ SettingsUsable /\ BackendsFaithful
==============================================================================
