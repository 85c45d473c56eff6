-------------------------------- MODULE Probes --------------------------------
(***************************************************************************)
(* The probes of the kubelet that the stats server answers for the         *)
(* application (src/probe.rs, routed by src/metrics/server.rs).            *)
(*                                                                         *)
(* What the application does may change while a probe is on its way.  A    *)
(* prober has an action of one kind or several: [port], with the port      *)
(* <<"int", n>> or <<"text", n>>, where n is 0 if the text is no number.   *)
(* A Host header is [name, port].                                          *)
(***************************************************************************)
EXTENDS Naturals, FiniteSets

CONSTANTS
    Nil,
    Kubelets,       \* requests in flight
    ProberSets,     \* path -> [http, tcp, grpc, wellFormed]
    Hosts,          \* Host headers of requests, Nil for none
    StatusPort,     \* of the stats server itself
    MaxRedirects,   \* requests of one probe, 10 in the code
    MaxChanges      \* of the application

ASSUME ProbesAssumption ==
    /\ MaxRedirects \in Nat \ {0}
    /\ Nil \notin {"http", "tcp", "grpc"}
    /\ \A h \in Hosts : h = Nil \/ "port" \in DOMAIN h

VARIABLES
    probers,    \* what is configured, Nil if nothing is
    server,     \* "starting", "up" or "failed"
    app,        \* what the application does now
    inflight,   \* kubelet -> its request, or Nil
    tasks,      \* health checks whose request is gone
    appChanges

probeVars == <<probers, server, app, inflight, tasks, appChanges>>

\* Serving; answering with errors; not listening; silent; redirecting to itself,
\* to another port of its host, where another program answers, or to another host.
AppStates == {"healthy", "sick", "down", "hung", "loops", "detours", "moved"}

\* What counts as a success of each kind of probe.
Passes == [http |-> {"healthy", "detours", "moved"}, tcp |-> AppStates \ {"down"}, grpc |-> {"healthy"}]

ProbesInit ==
    /\ probers \in ProberSets \cup {Nil}
    /\ server = "starting" /\ app \in AppStates
    /\ inflight = [k \in Kubelets |-> Nil] /\ tasks = {} /\ appChanges = 0

-----------------------------------------------------------------------------
(* Start                                                                   *)

Kinds(p) == {k \in {"http", "tcp", "grpc"} : p[k] # Nil}

ValidateAppKubeProber(p) ==
    /\ p.wellFormed /\ Cardinality(Kinds(p)) = 1
    /\ \A k \in Kinds(p) \cap {"http", "tcp"} : p[k].port[1] = "int"

\* Only the HTTP ones are validated and get a client.
ServerNew ==
    /\ server = "starting"
    /\ server' = IF probers = Nil THEN "up"
                 ELSE IF \A path \in DOMAIN probers : probers[path].http # Nil => ValidateAppKubeProber(probers[path])
                 THEN "up" ELSE "failed"
    /\ UNCHANGED <<probers, app, inflight, tasks, appChanges>>

-----------------------------------------------------------------------------
(* A probe                                                                 *)

IntValue(port) == port[2]

\* The port of the stats server in the Host header is the application's.
FinalHost(host, port) ==
    CASE host = Nil -> [name |-> "pod", port |-> port]
      [] host.port = StatusPort -> [host EXCEPT !.port = port]
      [] OTHER -> host

\* The first action that there is.
Kind(p) == CASE p.http # Nil -> "http" [] p.tcp # Nil -> "tcp" [] p.grpc # Nil -> "grpc" [] OTHER -> Nil

ProbeAnswer(k, status) == inflight' = [inflight EXCEPT ![k].stage = "answered", ![k].status = status]

HandleAppProbe(k, path, host) ==
    LET Refuse(status) == [stage |-> "answered", kind |-> Nil, port |-> 0, host |-> Nil, hops |-> 0, status |-> status, seen |-> {}]
    IN /\ server = "up" /\ inflight[k] = Nil
       /\ inflight' = [inflight EXCEPT ![k] =
            IF probers = Nil THEN Refuse(404)
            ELSE IF path \notin DOMAIN probers THEN Refuse(400)
            ELSE LET p == probers[path] kind == Kind(p)
                 IN IF kind = Nil THEN Refuse(500)
                    ELSE [stage |-> "connecting", kind |-> kind, port |-> IntValue(p[kind].port),
                          host |-> IF kind = "http" THEN FinalHost(host, IntValue(p[kind].port)) ELSE Nil,
                          hops |-> 0, status |-> 0, seen |-> {app}]]
       /\ UNCHANGED <<probers, server, app, tasks, appChanges>>

Connects(k) == app # "down" /\ inflight[k].port # 0

\* Refused, or without an answer and given up after the timeout of the prober.
ProbeConnectFails(k) ==
    /\ inflight[k] # Nil /\ inflight[k].stage = "connecting"
    /\ ProbeAnswer(k, 500)
    /\ UNCHANGED <<probers, server, app, tasks, appChanges>>

\* The outcome of connecting is looked at inside that of the timeout.
TcpStatusOuter(connected) == 200
TcpStatus(connected) == IF connected THEN 200 ELSE 500

TcpSocket(k) ==
    /\ inflight[k] # Nil /\ inflight[k].kind = "tcp" /\ inflight[k].stage = "connecting"
    /\ ProbeAnswer(k, TcpStatus(Connects(k)))
    /\ UNCHANGED <<probers, server, app, tasks, appChanges>>

\* A redirect is followed while it stays on the host, whatever its port, and fewer
\* than MaxRedirects requests were made; one that leaves the host is the answer,
\* and counts as a success.
HttpStatus == [healthy |-> 200, sick |-> 503, moved |-> 200]
HttpGet(k) ==
    /\ inflight[k] # Nil /\ inflight[k].kind = "http" /\ inflight[k].stage = "connecting" /\ Connects(k)
    /\ \/ app \in DOMAIN HttpStatus /\ ProbeAnswer(k, HttpStatus[app])
       \/ app = "loops" /\ inflight[k].hops + 1 < MaxRedirects /\ inflight' = [inflight EXCEPT ![k].hops = @ + 1]
       \/ app = "detours" /\ inflight[k].hops + 1 < MaxRedirects /\ \E status \in {200, 500, 503} : ProbeAnswer(k, status)
       \/ app \in {"loops", "detours"} /\ inflight[k].hops + 1 >= MaxRedirects /\ ProbeAnswer(k, 500)
    /\ UNCHANGED <<probers, server, app, tasks, appChanges>>

\* The connection of a health check is made within the timeout, the call itself
\* in a task of its own without one.
GrpcConnect(k) ==
    /\ inflight[k] # Nil /\ inflight[k].kind = "grpc" /\ inflight[k].stage = "connecting" /\ Connects(k)
    /\ inflight' = [inflight EXCEPT ![k].stage = "checking"]
    /\ UNCHANGED <<probers, server, app, tasks, appChanges>>

GrpcCheck(k) ==
    /\ inflight[k] # Nil /\ inflight[k].stage = "checking" /\ app # "hung"
    /\ ProbeAnswer(k, IF app = "healthy" THEN 200 ELSE 500)
    /\ UNCHANGED <<probers, server, app, tasks, appChanges>>

-----------------------------------------------------------------------------
(* The others                                                              *)

\* A kubelet that gave up, or has its answer: a health check goes on without it.
KubeletLeaves(k) ==
    /\ inflight[k] # Nil
    /\ tasks' = IF inflight[k].stage = "checking" THEN tasks \cup {k} ELSE tasks
    /\ inflight' = [inflight EXCEPT ![k] = Nil]
    /\ UNCHANGED <<probers, server, app, appChanges>>

TaskEnds(k) == k \in tasks /\ app # "hung" /\ tasks' = tasks \ {k} /\ UNCHANGED <<probers, server, app, inflight, appChanges>>

AppChanges(new) ==
    /\ appChanges < MaxChanges /\ new # app
    /\ app' = new /\ appChanges' = appChanges + 1
    /\ inflight' = [k \in Kubelets |-> IF inflight[k] = Nil \/ inflight[k].stage = "answered" THEN inflight[k] ELSE [inflight[k] EXCEPT !.seen = @ \cup {new}]]
    /\ UNCHANGED <<probers, server, tasks>>

ProbesNext ==
    \/ ServerNew
    \/ \E k \in Kubelets :
          \/ \E path \in (IF probers = Nil THEN {} ELSE DOMAIN probers) \cup {"unknown"}, host \in Hosts : HandleAppProbe(k, path, host)
          \/ ProbeConnectFails(k) \/ TcpSocket(k) \/ HttpGet(k) \/ GrpcConnect(k) \/ GrpcCheck(k)
          \/ KubeletLeaves(k) \/ TaskEnds(k)
    \/ \E new \in AppStates : AppChanges(new)

-----------------------------------------------------------------------------
(* Properties                                                              *)

\* A probe that is answered with success was sent to a port of the application, and
\* some time while it was on its way the application was in a condition that counts
\* for its kind; the application is never asked for the port of the stats server,
\* unless the prober itself names it (handle_app_probe and its handlers).
ProbesTruthful ==
    \A k \in Kubelets : inflight[k] # Nil =>
        /\ inflight[k].status = 200 =>
              inflight[k].kind # Nil /\ inflight[k].port # 0 /\ inflight[k].seen \cap Passes[inflight[k].kind] # {}
        /\ inflight[k].host # Nil /\ inflight[k].host.port = StatusPort => inflight[k].port = StatusPort
        /\ inflight[k].hops < MaxRedirects
===============================================================================
