------------------------------ MODULE Requests ------------------------------
(***************************************************************************)
(* The life of a proxied connection from accept to its record in the       *)
(* metrics: OutboundConnection of src/proxy/outbound.rs (also used by      *)
(* SOCKS5 and CONNECT-UDP), Inbound::serve_connect of src/proxy/inbound.rs *)
(* over src/proxy/h2/server.rs, and InboundPassthrough.                    *)
(*                                                                         *)
(* Every step between two awaits, or between two reads of the state, is an *)
(* action; the store may change between any two.  Whether the policies     *)
(* admit a connection and close it later is a choice here, see             *)
(* ConnectionManager; the request to a gateway uses the pool, see          *)
(* HbonePool; the sessions of UDP are OutboundUdp.                         *)
(***************************************************************************)
EXTENDS Routing

CONSTANTS
    Conns,
    Local,          \* uid of the workload this proxy serves
    Stores,         \* contents the store may have
    Inputs,         \* what a connection may ask for, per kind
    Configs,        \* [sidecar, noFreebind, origSrc, localhostTunnel, onDemand]
    Answers,        \* what a resolver may answer for a hostname
    MaxUpdates

ASSUME RequestsAssumption ==
    /\ IsFiniteSet(Conns) /\ Absent \notin Nat \cup {"HBONE", "client"}
    /\ DOMAIN Inputs \subseteq {"tcp", "udp", "socks", "hbone", "plain"}
    /\ "hbone" \in DOMAIN Inputs =>
         \A in \in Inputs["hbone"] : in.dst # "loopback" /\ (in.authority # Absent => "ip" \in DOMAIN in.authority <=> "host" \notin DOMAIN in.authority)

\* A destination is [ip, net] or [host, ns]; workloads and services can be told apart.
ASSUME StoresAssumption ==
    \A st \in Stores :
        /\ \A w \in st.workloads :
              /\ ~IsService(w) /\ w.ips \in Seq(Range(w.ips))
              /\ \A n \in w.services : n = [host |-> n.host, ns |-> n.ns]
        /\ \A s \in Range(st.services) : IsService(s) /\ s # Absent
        /\ \A x \in st.workloads \cup Range(st.services) : x.waypoint # Absent =>
              LET d == x.waypoint.to
              IN d = IF "ip" \in DOMAIN d THEN [ip |-> d.ip, net |-> d.net] ELSE [host |-> d.host, ns |-> d.ns]

VARIABLES
    cfg,
    store,
    updates,
    conn,           \* the task of a connection
    metrics         \* connection_opens, connection_close, connection_failures, open_sockets

reqVars == <<cfg, store, updates, conn, metrics>>

Idle == [stage |-> "idle", kind |-> Absent, in |-> Absent, local |-> Absent, up |-> Absent,
         hop |-> Absent, checked |-> Absent, sans |-> {}, proto |-> Absent, tracker |-> "none",
         guard |-> FALSE, answer |-> Absent, socket |-> FALSE, bound |-> Absent, ds |-> Absent, why |-> Absent, seen |-> {}]

ReqInit ==
    /\ cfg \in Configs
    /\ store \in Stores
    /\ updates = 0
    /\ conn = [c \in Conns |-> Idle]
    /\ metrics = [opened |-> 0, closed |-> 0, failed |-> 0, sockets |-> 0]

Alive(c) == conn[c].stage \notin {"idle", "end"}
With(r, fields) == [x \in DOMAIN Idle |-> IF x \in DOMAIN fields THEN fields[x] ELSE r[x]]
Set(c, fields) == conn' = [conn EXCEPT ![c] = With(conn[c], fields)]
LocalWorkloads == {w \in store.workloads : w.uid = Local}

\* xDS changes the store.
Update(st) ==
    /\ updates < MaxUpdates /\ st # store
    /\ store' = st /\ updates' = updates + 1
    /\ conn' = [c \in Conns |-> IF Alive(c) THEN With(conn[c], [seen |-> conn[c].seen \cup {st}]) ELSE conn[c]]
    /\ UNCHANGED <<cfg, metrics>>

-----------------------------------------------------------------------------
(* Ends of a connection                                                    *)

\* Only what ended well is counted as closed.
RecordedGood(c, m, flag) ==
    IF conn[c].tracker # "live" THEN m
    ELSE IF flag = "None" THEN [m EXCEPT !.closed = @ + 1] ELSE [m EXCEPT !.failed = @ + 1]

\* ConnectionResultBuilder::build counts the connection, with the labels it keeps.
Opened(m) == [m EXCEPT !.opened = @ + 1]

\* extract_failure_reason
FailureReason(err) ==
    IF err = "Tls" THEN "TlsFailure"
    ELSE IF err \in {"Http2Handshake", "H2"} THEN "Http2HandshakeFailure"
    ELSE IF err = "MaybeHBONENetworkPolicyError" THEN "NetworkPolicyError"
    ELSE IF err = "Identity" THEN "IdentityError"
    ELSE IF err \in {"AuthorizationPolicyRejection", "AuthorizationPolicyLateRejection"} THEN "AuthorizationPolicyDenied"
    ELSE "ConnectionFailure"

\* ConnectionResult: a live tracker is recorded exactly once, by record or by
\* its Drop; flags decide whether the connection counts as failed.
Recorded(c, m, flag) ==
    IF conn[c].tracker # "live" THEN m
    ELSE [m EXCEPT !.closed = @ + 1, !.failed = @ + (IF flag = "None" THEN 0 ELSE 1)]

TrackerAfter(c) == IF conn[c].tracker = "live" THEN "done" ELSE conn[c].tracker

\* SocketCloseGuard
Closed(c, m) == IF conn[c].socket THEN [m EXCEPT !.sockets = @ - 1] ELSE m

\* The task returns with an error, or "None": the tracker is recorded with its reason,
\* the guard released or dropped, and with the task of an HBONE request the socket
\* stays open.
Ends(c, err, code) ==
    LET keeps == conn[c].kind = "hbone" /\ conn[c].stage # "tls"
        m == Recorded(c, metrics, IF err = "None" THEN "None" ELSE FailureReason(err))
    IN /\ Set(c, [stage |-> "end", tracker |-> TrackerAfter(c), guard |-> FALSE, why |-> err,
                  answer |-> IF conn[c].answer = Absent THEN code ELSE conn[c].answer,
                  socket |-> keeps /\ conn[c].socket])
       /\ metrics' = IF keeps THEN m ELSE Closed(c, m)
       /\ UNCHANGED <<cfg, store, updates>>

\* log_early_deny and the answer, if there is one: no tracker exists yet.
EarlyDeny(c, code) == Ends(c, "None", code)

\* The task is dropped by force_shutdown: the tracker, if any, by its Drop.
Cancel(c) ==
    /\ Alive(c) /\ conn[c].kind # "hbone"
    /\ Ends(c, "None", Absent)

\* The connection of an HBONE request ends: the peer leaves, a ping is not
\* answered, or it did not drain in time.  The task of the request runs on.
ConnectionEnds(c) ==
    /\ conn[c].kind = "hbone" /\ conn[c].socket /\ conn[c].stage \notin {"tls", "idle"}
    /\ Set(c, [socket |-> FALSE])
    /\ metrics' = Closed(c, metrics)
    /\ UNCHANGED <<cfg, store, updates>>

-----------------------------------------------------------------------------
(* Accept                                                                  *)

FirstStage == [tcp |-> "local", udp |-> "local", socks |-> "greeting", hbone |-> "tls", plain |-> "local"]

Accept(c, kind, in) ==
    /\ conn[c].stage = "idle"
    /\ Set(c, [stage |-> FirstStage[kind], kind |-> kind, in |-> in, socket |-> kind # "udp", seen |-> {store}])
    /\ metrics' = IF kind = "udp" THEN metrics ELSE [metrics EXCEPT !.sockets = @ + 1]
    /\ UNCHANGED <<cfg, store, updates>>

\* get_workload: waits for the local workload, five seconds at most.
GetWorkload(c, next) ==
    /\ conn[c].stage = "local"
    /\ \E w \in LocalWorkloads : Set(c, [local |-> w, stage |-> next])
    /\ UNCHANGED <<cfg, store, updates, metrics>>

GetWorkloadTimesOut(c) ==
    /\ conn[c].stage = "local" /\ LocalWorkloads = {}
    /\ EarlyDeny(c, IF conn[c].kind = "hbone" THEN 503 ELSE Absent)

-----------------------------------------------------------------------------
(* Outbound                                                                *)

\* negotiate_socks_connection of a message that is cut short at some field or
\* complete: the code of the answer, 0 for success.
SocksAnswer(in) ==
    IF in.cut THEN 1                                          \* General, read_exact failed
    ELSE IF in.version # 5 \/ 0 \notin in.methods \/ in.command # 1 \/ in.atyp \notin {1, 3, 4} THEN 7
    ELSE IF in.atyp = 3 /\ in.ip = Absent THEN 4              \* HostUnreachable
    ELSE 0

\* handle_socks_connection: success is sent before anything is routed.
Negotiate(c) ==
    /\ conn[c].stage = "greeting"
    /\ IF SocksAnswer(conn[c].in) # 0 THEN EarlyDeny(c, SocksAnswer(conn[c].in))
       ELSE /\ Set(c, [stage |-> "local", answer |-> 0])
            /\ UNCHANGED <<cfg, store, updates, metrics>>

OutLocal(c) == conn[c].kind \in {"tcp", "udp", "socks"} /\ GetWorkload(c, "route")

\* sandbox_for_connection: an error of the registered sandbox refuses the
\* connection; the sandbox itself, if any, is chosen once, see SandboxManager.
SandboxForConnection(c) ==
    /\ conn[c].kind \in {"tcp", "udp", "socks"} /\ conn[c].stage = "local" /\ LocalWorkloads # {}
    /\ EarlyDeny(c, Absent)

Target(c) == [ip |-> conn[c].in.ip, port |-> conn[c].in.port]

\* build_request and apply_egress_policy, up to the choice of a gateway.
BuildRequest(c) ==
    LET src == conn[c].local
        decision == EgressDecision(src, Target(c))
        gateway == MatchEgressPolicy(src.egress, src.ns, Target(c)).gateway
        ups == Waypoints(store, gateway, src)
    IN /\ conn[c].stage = "route"
       /\ \/ /\ decision \in {"SelfCall", "Denied", "GatewayMissing"}
             /\ EarlyDeny(c, Absent)
          \/ /\ decision = "Passthrough" /\ conn[c].kind # "udp"
             /\ Set(c, [stage |-> "admit", proto |-> "TCP", hop |-> Target(c), checked |-> Target(c)])
             /\ UNCHANGED <<cfg, store, updates, metrics>>
          \/ /\ decision = "Passthrough" /\ conn[c].kind = "udp"      \* UnsupportedFeature
             /\ EarlyDeny(c, Absent)
          \/ /\ decision = "Gateway" /\ ups = {}                      \* UnknownWaypoint
             /\ EarlyDeny(c, Absent)
          \/ /\ decision = "Gateway"
             /\ \E up \in ups : Set(c, [stage |-> "resolve", up |-> up, proto |-> "HBONE", checked |-> Target(c)])
             /\ UNCHANGED <<cfg, store, updates, metrics>>

\* The workload is looked up again after the lookup of its name.
ChosenFresh(c) ==
    LET up == conn[c].up
        now == {w \in store.workloads : w.uid = up.w.uid}
    IN IF now = {} THEN up ELSE [up EXCEPT !.w = CHOOSE w \in now : TRUE]
Chosen(c) == conn[c].up

\* The address whose family decides: the target's, or the gateway's own IP.
FamilyOf(c) ==
    LET gateway == MatchEgressPolicy(conn[c].local.egress, conn[c].local.ns, Target(c)).gateway
    IN IF "ip" \in DOMAIN gateway.to THEN gateway.to.ip ELSE Target(c).ip

\* finalize_upstream: an address of the workload, or one its hostname resolves to.
Resolve(c) ==
    LET up == Chosen(c)
        fixed == PickAddress(up, FamilyOf(c))
        ips == IF fixed # Absent THEN {fixed}
               ELSE IF up.w.host = Absent THEN {}
               ELSE UNION {Resolved(a, FamilyOf(c)) : a \in Answers}
        mayFail == fixed = Absent
    IN /\ conn[c].stage = "resolve"
       /\ \/ /\ \E ip \in ips : Set(c, [stage |-> IF conn[c].kind = "udp" THEN "masque" ELSE "admit",
                                        hop |-> [ip |-> ip, port |-> up.port], sans |-> Sans(up)])
             /\ UNCHANGED <<cfg, store, updates, metrics>>
          \/ mayFail /\ EarlyDeny(c, Absent)

\* connect_udp: only numeric IPv4 targets with a port have a path.
ConnectUdp(c) ==
    /\ conn[c].stage = "masque"
    /\ IF Target(c).ip \in IPv6 \/ Target(c).port = 0 THEN EarlyDeny(c, Absent)
       ELSE /\ Set(c, [stage |-> "copy"])
            /\ UNCHANGED <<cfg, store, updates, metrics>>

-----------------------------------------------------------------------------
(* Inbound                                                                 *)

\* serve_client: the TLS handshake; a failed one ends the connection.
Handshake(c, ok) ==
    /\ conn[c].stage = "tls"
    /\ IF ~ok THEN EarlyDeny(c, Absent)
       ELSE /\ Set(c, [stage |-> "request"])
            /\ UNCHANGED <<cfg, store, updates, metrics>>

\* build_inbound_request: the method and the authority.
Request(c) ==
    LET in == conn[c].in
    IN /\ conn[c].stage = "request"
       /\ IF ~in.connect \/ in.authority = Absent THEN EarlyDeny(c, 400)
          ELSE /\ Set(c, [stage |-> "local"])
               /\ UNCHANGED <<cfg, store, updates, metrics>>

InLocal(c) == conn[c].kind = "hbone" /\ GetWorkload(c, "validate")

\* With on-demand xDS an unknown target is asked for, and looked up once more when
\* the demand is answered, see XdsClient; the task waits for it without a deadline.
ValidateDestination(c) ==
    LET x == conn[c]
        valid == ValidDestination(store, x.local, x.in.dst, x.in.authority)
        asks == x.stage = "validate" /\ cfg.onDemand /\ NeedsDemand(store, x.local, x.in.dst, x.in.authority)
    IN /\ x.stage \in {"validate", "demanded"}
       /\ IF valid \/ asks
          THEN /\ Set(c, [stage |-> IF valid THEN "upstream" ELSE "demanded"])
               /\ UNCHANGED <<cfg, store, updates, metrics>>
          ELSE EarlyDeny(c, 400)

\* The address that is connected to.
InboundHop(up) == [ip |-> IF ToLocalhost(cfg, up) THEN "loopback" ELSE up.ip, port |-> up.port]

InboundChecked(in, up) == [ip |-> up.ip, port |-> up.port]

\* The header of the client is believed.
GuessesTrusting(services, w, host, port) ==
    IF host # Absent THEN {[host |-> host, ns |-> w.ns]} ELSE {Absent}

\* The service that the metrics name; host is the one of the Forwarded header.
Guesses(services, w, host, port) ==
    LET found == GuessInboundService(services, host, w, port)
    IN IF found = {} THEN {Absent} ELSE {[host |-> s.host, ns |-> s.ns] : s \in found}

\* find_inbound_upstream, with the services that the guess is made from later.
FindInboundUpstream(c) ==
    LET services == InboundServices(store, conn[c].local, conn[c].in.authority)
    IN /\ conn[c].stage = "upstream"
       /\ \E up \in InboundUpstreams(store, conn[c].local, conn[c].in.dst, conn[c].in.authority) :
             IF "err" \in DOMAIN up THEN EarlyDeny(c, 503)
             ELSE /\ \E host \in {Absent} \cup {s.host : s \in Range(store.services)} :
                     \E ds \in Guesses(services, conn[c].local, host, up.port) :
                        Set(c, [stage |-> "source", up |-> up, hop |-> InboundHop(up), ds |-> ds,
                                checked |-> InboundChecked(conn[c].in, up)])
                  /\ UNCHANGED <<cfg, store, updates, metrics>>

\* proxy_inbound_plaintext up to the lookup of the source.
Plaintext(c) ==
    /\ conn[c].stage = "local" /\ conn[c].kind = "plain"
    /\ \/ conn[c].in.port \in IllegalPorts /\ EarlyDeny(c, Absent)
       \/ /\ conn[c].in.port \notin IllegalPorts
          /\ \E w \in LocalWorkloads : \E ds \in Guesses(ServicesOf(store, w), w, Absent, conn[c].in.port) :
                Set(c, [local |-> w, stage |-> "source", hop |-> Target(c), checked |-> Target(c), ds |-> ds])
          /\ UNCHANGED <<cfg, store, updates, metrics>>

\* fetch_workload_by_address for the source, which waits for a demand if it is
\* unknown, and the tracker is built.
FetchSource(c) ==
    /\ conn[c].stage = "source"
    /\ Set(c, [stage |-> "admit", tracker |-> "live"])
    /\ metrics' = Opened(metrics)
    /\ UNCHANGED <<cfg, store, updates>>

-----------------------------------------------------------------------------
(* Admission and data                                                      *)

\* assert_rbac.  An outbound tracker is built only once the connection is
\* admitted; a refused one leaves no trace in the metrics.
Outbound(c) == conn[c].kind \in {"tcp", "socks"}

Admit(c) ==
    /\ conn[c].stage = "admit"
    /\ Set(c, [stage |-> "connect", guard |-> TRUE, tracker |-> "live"])
    /\ metrics' = IF Outbound(c) THEN Opened(metrics) ELSE metrics
    /\ UNCHANGED <<cfg, store, updates>>

\* The refusal is recorded but not answered.
DenySilent(c) == conn[c].stage = "admit" /\ Ends(c, "AuthorizationPolicyRejection", Absent)

Deny(c) ==
    /\ conn[c].stage = "admit"
    /\ Ends(c, "AuthorizationPolicyRejection", IF conn[c].kind = "hbone" THEN 401 ELSE Absent)

\* The address that the client's own connection came from is "client".
SourceOf(c) ==
    CASE conn[c].kind = "hbone" -> InboundSource(cfg, conn[c].up, "client")
      [] conn[c].kind = "plain" -> PassthroughSource(cfg, "client")
      [] OTHER -> Absent

\* freebind_connect or the request to the gateway.
Connected(c) ==
    /\ conn[c].stage = "connect"
    /\ \E b \in FreebindConnect(SourceOf(c), conn[c].hop.ip) :
          Set(c, [stage |-> IF conn[c].kind = "hbone" THEN "respond" ELSE "copy", bound |-> b])
    /\ UNCHANGED <<cfg, store, updates, metrics>>

ConnectFails(c) ==
    /\ conn[c].stage = "connect"
    /\ \E err \in (IF conn[c].proto = "HBONE" THEN {"Tls", "Http2Handshake", "MaybeHBONENetworkPolicyError", "Identity", "H2"}
                ELSE {"ConnectionFailed"}) :
          Ends(c, err, IF conn[c].kind = "hbone" THEN 503 ELSE Absent)

\* send_response(200) and the PROXY header.  It fails when the connection is gone.
Respond(c) ==
    /\ conn[c].stage = "respond"
    /\ IF conn[c].socket
       THEN /\ Set(c, [stage |-> "copy", answer |-> 200])
            /\ UNCHANGED <<cfg, store, updates, metrics>>
       ELSE Ends(c, "H2", Absent)

\* copy_bidirectional returns.
CopyEnds(c, err) ==
    /\ conn[c].stage = "copy"
    /\ conn[c].kind = "hbone" /\ ~conn[c].socket => err # "None"
    /\ Ends(c, err, Absent)

\* wait_for_drain of the guard: outbound, the future and with it the tracker are
\* dropped; inbound, the rejection is recorded.
PolicyCloses(c) ==
    /\ conn[c].guard /\ (conn[c].kind = "hbone" => conn[c].stage # "connect")
    /\ Ends(c, IF Outbound(c) THEN "None" ELSE "AuthorizationPolicyLateRejection", Absent)

ReqNext ==
    \/ \E st \in Stores : Update(st)
    \/ \E c \in Conns :
        \/ \E kind \in DOMAIN Inputs : \E in \in Inputs[kind] : Accept(c, kind, in)
        \/ Cancel(c) \/ ConnectionEnds(c) \/ GetWorkloadTimesOut(c)
        \/ Negotiate(c) \/ OutLocal(c) \/ SandboxForConnection(c) \/ BuildRequest(c) \/ Resolve(c) \/ ConnectUdp(c)
        \/ \E ok \in BOOLEAN : Handshake(c, ok)
        \/ Request(c) \/ InLocal(c) \/ ValidateDestination(c) \/ FindInboundUpstream(c) \/ Plaintext(c) \/ FetchSource(c)
        \/ Admit(c) \/ Deny(c) \/ Connected(c) \/ ConnectFails(c) \/ Respond(c)
        \/ \E err \in {"None", "Io"} : CopyEnds(c, err)
        \/ PolicyCloses(c)

-----------------------------------------------------------------------------
(* Properties                                                              *)

Reached(c) == conn[c].stage \in {"respond", "copy"}

\* A target that names us as its waypoint, by a service we are an endpoint of or
\* by our address, in some state of the store the request has lived in.
SandwichedBy(c) ==
    \E st \in conn[c].seen : \E t \in st.workloads \cup Range(st.services) :
        /\ [net |-> Network, ip |-> conn[c].in.authority.ip] \in
               (IF IsService(t) THEN t.vips ELSE {[net |-> t.net, ip |-> a] : a \in Range(t.ips)})
        /\ t.waypoint # Absent
        /\ \/ \E s \in Range(st.services) :
                 Local \in DOMAIN s.eps /\ t.waypoint.to \in {[host |-> s.host, ns |-> s.ns]} \cup s.vips
           \/ \E w \in st.workloads :
                 /\ conn[c].in.dst \in Range(w.ips)
                 /\ t.waypoint.to \in {[host |-> w.host, ns |-> w.ns]} \cup {[ip |-> a, net |-> w.net] : a \in Range(w.ips)}

\* The service that the metrics name: the best match of the hostname in the authority,
\* in some state of the store the request has lived in, or one of the workload's.
NamedService(x) ==
    IF "host" \in DOMAIN x.in.authority
    THEN \E st \in x.seen : LET s == GetBestByHost(st, x.in.authority.host, x.local.ns)
                            IN s # Absent /\ x.ds = [host |-> s.host, ns |-> s.ns]
    ELSE x.ds \in x.local.services

\* The address that the policies were asked about is the one that is connected
\* to (serve_connect, proxy_to, proxy_inbound_plaintext).  An inbound request stays
\* on the address it arrived at, never reaches a port of ztunnel unless the
\* workload's own tunnel is there, and names another address only if the workload
\* has a tunnel or is the waypoint of that address, also when that was only learnt
\* from a demand.  A connection to the loopback address never carries the client's
\* address, and the service that the metrics name is the one of the authority's
\* hostname, or for an address one the workload belongs to, whatever the client's
\* Forwarded header says (find_inbound_upstream, guess_inbound_service).
EndsWhereChecked ==
    \A c \in Conns : Reached(c) =>
        LET x == conn[c]
        IN /\ x.proto # "HBONE" => x.hop.port = x.checked.port /\ x.hop.ip \in {x.checked.ip, "loopback"}
           /\ x.kind \in {"tcp", "socks"} /\ x.proto = "TCP" => ~SelfCall(x.local, x.hop)
           /\ x.kind = "plain" => x.hop.port \notin IllegalPorts
           /\ x.kind = "hbone" =>
                /\ x.hop.ip \in {x.in.dst, "loopback"}
                /\ x.hop.ip = "loopback" => x.bound # "client"
                /\ x.ds # Absent => NamedService(x)
                /\ x.hop.port \in IllegalPorts => x.local.tunnel # Absent /\ x.local.tunnel.port = x.hop.port
                /\ "ip" \in DOMAIN x.in.authority =>
                     x.in.authority.ip = x.in.dst \/ x.local.tunnel # Absent \/ SandwichedBy(c)

\* The next hop of a request through a gateway, its port and the identities that
\* are accepted there come from one state of the store, even though the store may
\* change while the gateway's name is resolved (fetch_waypoint, finalize_upstream).
CoherentHop ==
    \A c \in Conns : conn[c].proto = "HBONE" /\ Reached(c) =>
        LET x == conn[c]
            gateway == MatchEgressPolicy(x.local.egress, x.local.ns, Target(c)).gateway
        IN \E st \in x.seen : \E w \in st.workloads :
              /\ x.hop.ip \in Range(w.ips) \/ (w.host # Absent /\ \E a \in Answers : x.hop.ip \in a)
              /\ \/ x.hop.port = gateway.port /\ x.sans = {w.id}
                 \/ \E s \in Range(st.services) :
                       /\ w.uid \in DOMAIN s.eps /\ TargetPort(s, w, gateway.port) = x.hop.port
                       /\ x.sans = {w.id} \cup s.sans

\* Whatever ends a connection, cancellation and the closing of policies included,
\* it is counted as closed once and only if it was counted as opened, and its socket
\* is given back once.  A request over HBONE is left without an answer only if its
\* connection is gone, or if the policies close it between the connection to the
\* workload and the answer; 200 is sent only by an admitted one, and one that was
\* refused after it was counted is counted as failed (ConnectionResult and its Drop,
\* SocketCloseGuard, serve_connect).
Accounted ==
    /\ metrics.opened = metrics.closed + Cardinality({c \in Conns : conn[c].tracker = "live"})
    /\ metrics.sockets = Cardinality({c \in Conns : conn[c].socket})
    /\ metrics.failed <= metrics.closed
    /\ \A c \in Conns :
         /\ conn[c].stage = "end" => conn[c].tracker # "live" /\ ~conn[c].guard
         /\ conn[c].kind = "hbone" /\ conn[c].answer = 200 => conn[c].guard \/ conn[c].stage = "end"
         /\ conn[c].kind = "hbone" /\ conn[c].stage = "end" =>
              /\ conn[c].answer = Absent => ~conn[c].socket \/ conn[c].why = "AuthorizationPolicyLateRejection"
              /\ conn[c].answer \in {401, 503} /\ conn[c].tracker = "done" => conn[c].why # "None"
=============================================================================
