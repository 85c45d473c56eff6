------------------------------ MODULE Lifecycle ------------------------------
(***************************************************************************)
(* The process from start to exit: build_with_cert and wait_termination of *)
(* src/app.rs, readiness of src/readiness.rs, signals of src/signal.rs,    *)
(* the HTTP servers of src/hyper_util.rs and src/admin/unix.rs, and        *)
(* run_with_drain of src/drain.rs.                                         *)
(*                                                                         *)
(* The listeners of a proxy are "inbound" and "outbound", the others are   *)
(* built alike.  What a task does once it serves is modelled elsewhere.    *)
(***************************************************************************)
EXTENDS Naturals, Sequences, FiniteSets, SequencesExt, TLC

CONSTANTS
    LifeConfigs,    \* [shared, proxy, dns, self, xds, unix]
    LifeConns,      \* connections to any of the servers
    SocketFiles     \* what may be at the path of the admin socket: "none", "stale", "file", "other"

VARIABLES
    lifeCfg,
    life,           \* stage of main, the step of the build, how it ended, shutdown requests
    pending,        \* Ready: the names of the tasks it waits for
    synced,         \* the first answers of xDS came, or there is no xDS
    comp,           \* none, bound, sent to the data plane pool, serving, draining, closed
    lconn,          \* [of, st]
    sock            \* the file at the path of the admin socket

\* Config: the switches that decide which tasks there are.
ASSUME LifeAssumption ==
    LifeConfigs \subseteq [shared : BOOLEAN, proxy : BOOLEAN, dns : BOOLEAN, self : BOOLEAN, xds : BOOLEAN, unix : BOOLEAN]

\* Before its start the process owns no file at the path.
ASSUME SocketAssumption == "mine" \notin SocketFiles

lifeVars == <<lifeCfg, life, pending, synced, comp, lconn, sock>>

Http == {"readiness", "admin", "stats"}
Listeners == {"inbound", "outbound", "self"}
Components == Http \cup Listeners \cup {"policy_watcher", "dns", "manager"}

\* The proxies that the configuration asks for.
Wanted ==
    IF lifeCfg.shared THEN {"manager"} \cup (IF lifeCfg.self THEN {"self"} ELSE {})
    ELSE (IF lifeCfg.proxy THEN {"inbound", "outbound", "policy_watcher"} ELSE {})
         \cup (IF lifeCfg.dns THEN {"dns"} ELSE {})

\* Tasks are registered only when they are created.
RegisterLate(c) == {"state_manager"}

\* register_task, first thing in the build.
RegisterTasks(c) ==
    {"state_manager"} \cup (IF c.proxy THEN {"proxy"} ELSE {}) \cup (IF c.dns THEN {"dns_proxy"} ELSE {})

BuildSteps ==
    IF lifeCfg.shared THEN <<"readiness", "state", "admin", "factory", "self", "manager", "serve_admin", "stats">>
    ELSE <<"readiness", "state", "admin", "factory", "dns", "proxy", "serve_admin", "stats">>

LifeInit ==
    /\ lifeCfg \in LifeConfigs
    /\ life = [stage |-> "build", step |-> 1, how |-> "", quit |-> 0, int |-> FALSE]
    /\ pending = RegisterTasks(lifeCfg)
    /\ synced = FALSE
    /\ comp = [c \in Components |-> "none"]
    /\ lconn = [n \in LifeConns |-> [of |-> "", st |-> "none"]]
    /\ sock \in IF lifeCfg.unix THEN SocketFiles ELSE {"none"}

Alives(c) == {n \in LifeConns : lconn[n].of = c /\ lconn[n].st \in {"request", "idle"}}
SetComp(cs, st) == comp' = [c \in Components |-> IF c \in cs THEN st ELSE comp[c]]
Step == BuildSteps[life.step]

-----------------------------------------------------------------------------
(* Start                                                                   *)

\* UnixServer::bind: a socket that nobody answers is replaced, anything else
\* stands in the way.  The look and the bind are one step here.
UnixBinds(file) == file \in {"none", "stale"}

\* What each step of the build creates.
At(step) == life.stage = "build" /\ Step = step
Advance ==
    /\ life' = IF life.step = Len(BuildSteps) THEN [life EXCEPT !.stage = "run"] ELSE [life EXCEPT !.step = @ + 1]
    /\ UNCHANGED <<lifeCfg, lconn>>

BuildReadiness ==
    /\ At("readiness") /\ Advance
    /\ SetComp({"readiness"}, "sent")
    /\ UNCHANGED <<pending, synced, sock>>

\* Without xDS the sender of the watch is dropped, and nobody waits.
BuildState ==
    /\ At("state") /\ Advance
    /\ synced' = ~lifeCfg.xds
    /\ UNCHANGED <<comp, pending, sock>>

BuildAdmin ==
    /\ At("admin") /\ Advance
    /\ lifeCfg.unix => UnixBinds(sock)
    /\ SetComp({"admin"}, "bound")
    /\ sock' = IF lifeCfg.unix THEN "mine" ELSE sock
    /\ UNCHANGED <<pending, synced>>

BuildFactory == At("factory") /\ Advance /\ UNCHANGED <<comp, pending, synced, sock>>

BuildSelf ==
    /\ At("self") /\ Advance
    /\ SetComp(Wanted \cap {"self"}, "sent")
    /\ UNCHANGED <<pending, synced, sock>>

BuildManager ==
    /\ At("manager") /\ Advance
    /\ SetComp({"manager"}, "sent")
    /\ pending' = pending \cup {"workload_proxy_manager"}
    /\ UNCHANGED <<synced, sock>>

\* new_proxies_from_factory: a proxy and its DNS server are created before any
\* of the two is sent to the pool, and their tasks are done then.
BuildDns ==
    /\ At("dns") /\ Advance
    /\ SetComp(Wanted \cap {"dns"}, "bound")
    /\ UNCHANGED <<pending, synced, sock>>

BuildProxy ==
    /\ At("proxy") /\ Advance
    /\ SetComp(Wanted, "sent")
    /\ pending' = pending \ {"proxy", "dns_proxy"}
    /\ UNCHANGED <<synced, sock>>

ServeAdmin ==
    /\ At("serve_admin") /\ Advance
    /\ SetComp({"admin"}, "serving")
    /\ UNCHANGED <<pending, synced, sock>>

\* The end of the function: the tasks it still holds are dropped.
BuildStats ==
    /\ At("stats") /\ Advance
    /\ SetComp({"stats"}, "serving")
    /\ pending' = pending \ {"proxy", "dns_proxy"}
    /\ UNCHANGED <<synced, sock>>

BuildStep ==
    \/ BuildReadiness \/ BuildState \/ BuildAdmin \/ BuildFactory \/ BuildSelf
    \/ BuildManager \/ BuildDns \/ BuildProxy \/ ServeAdmin \/ BuildStats

\* An error of any step: what build_with_cert holds is dropped, the tasks that
\* block readiness among it, and the threads of the pool run on.
BuildFails ==
    /\ life.stage = "build" /\ Step # "serve_admin"
    /\ life' = [life EXCEPT !.stage = "failed"]
    /\ pending' = pending \ ({"proxy", "dns_proxy"} \cup (IF life.step <= 2 THEN {"state_manager"} ELSE {}))
    /\ UNCHANGED <<lifeCfg, synced, comp, lconn, sock>>

\* Then main returns the error; what was bound is dropped, the file of the admin
\* socket with it.
Dropped(file) == IF file = "mine" THEN "none" ELSE file
MainFails ==
    /\ life.stage = "failed"
    /\ life' = [life EXCEPT !.stage = "exited", !.how = "error"]
    /\ sock' = Dropped(sock)
    /\ UNCHANGED <<lifeCfg, pending, synced, comp, lconn>>

\* The state manager runs from its step on; AdsClient drops block_ready.
XdsSynced ==
    /\ ~synced /\ life.stage # "exited" /\ (life.stage = "build" => life.step > 2)
    /\ synced' = TRUE
    /\ UNCHANGED <<lifeCfg, life, pending, comp, lconn, sock>>

StateReady ==
    /\ synced /\ life.stage # "exited" /\ "state_manager" \in pending
    /\ pending' = pending \ {"state_manager"}
    /\ UNCHANGED <<lifeCfg, life, synced, comp, lconn, sock>>

\* A task of the pool starts; all but the readiness server wait for xDS first.
StartTask(c) ==
    /\ life.stage # "exited" /\ comp[c] = "sent" /\ (synced \/ c = "readiness")
    /\ SetComp({c}, "serving")
    /\ UNCHANGED <<lifeCfg, life, pending, synced, lconn, sock>>

\* WorkloadProxyManager: the agent is connected, or lost.  Its run may fail.
ManagerReady(ok) ==
    /\ life.stage # "exited" /\ comp["manager"] = "serving"
    /\ pending' = IF ok THEN pending \ {"workload_proxy_manager"} ELSE pending \cup {"workload_proxy_manager"}
    /\ UNCHANGED <<lifeCfg, life, synced, comp, lconn, sock>>

ManagerFails ==
    /\ life.stage # "exited" /\ comp["manager"] = "serving"
    /\ life' = [life EXCEPT !.stage = "exited", !.how = "error"]
    /\ UNCHANGED <<lifeCfg, pending, synced, comp, lconn, sock>>

\* GET /healthz/ready
HandleReady == IF pending = {} THEN 200 ELSE 500

-----------------------------------------------------------------------------
(* Connections                                                             *)

LifeAccept(n, c) ==
    /\ life.stage # "exited" /\ lconn[n].st = "none" /\ c \in Http \cup Listeners /\ comp[c] = "serving"
    /\ lconn' = [lconn EXCEPT ![n] = [of |-> c, st |-> "request"]]
    /\ UNCHANGED <<lifeCfg, life, pending, synced, comp, sock>>

\* A request is answered, which takes a peer that reads: the server waits for it
\* without a timeout, in a drain too.  The connection is kept open, unless it
\* drains.
HttpAnswered(n) ==
    /\ life.stage # "exited" /\ lconn[n].of \in Http /\ lconn[n].st = "request"
    /\ lconn' = [lconn EXCEPT ![n].st = IF life.stage = "drain" THEN "ended" ELSE "idle"]
    /\ UNCHANGED <<lifeCfg, life, pending, synced, comp, sock>>

\* graceful_shutdown ends a connection without a request.
GracefulShutdown(n) == lconn[n].st = "idle" /\ life.stage = "drain"

HttpDrains(n) ==
    /\ lconn[n].of \in Http /\ GracefulShutdown(n)
    /\ lconn' = [lconn EXCEPT ![n].st = "ended"]
    /\ UNCHANGED <<lifeCfg, life, pending, synced, comp, sock>>

\* The peer leaves, or sends its next request.
PeerActs(n) ==
    /\ life.stage # "exited" /\ lconn[n].st \in {"request", "idle"}
    /\ lconn' = [lconn EXCEPT ![n].st = IF @ = "idle" THEN "request" ELSE "ended"]
    /\ UNCHANGED <<lifeCfg, life, pending, synced, comp, sock>>

-----------------------------------------------------------------------------
(* Shutdown                                                                *)

\* POST /quitquitquit: the channel holds one request; a further one waits for
\* the deadline and is answered like the first.
Quit(n) ==
    /\ life.stage \in {"build", "run"} /\ lconn[n].of = "admin" /\ lconn[n].st = "request"
    /\ life' = [life EXCEPT !.quit = 1]
    /\ UNCHANGED <<lifeCfg, pending, synced, comp, lconn, sock>>

\* Before wait_termination a signal has its default action.  A second SIGINT
\* ends the process, a second SIGTERM is ignored: its handler is still there.
Signal(kind) ==
    /\ life.stage \in {"build", "failed", "run", "drain"}
    /\ life.stage = "drain" => kind = "SIGINT" /\ life.int
    /\ life' = IF life.stage = "run" THEN [life EXCEPT !.stage = "drain", !.int = kind = "SIGINT"]
               ELSE [life EXCEPT !.stage = "exited", !.how = "killed"]
    /\ UNCHANGED <<lifeCfg, pending, synced, comp, lconn, sock>>

WaitTermination ==
    /\ life.stage = "run" /\ life.quit = 1
    /\ life' = [life EXCEPT !.stage = "drain"]
    /\ UNCHANGED <<lifeCfg, pending, synced, comp, lconn, sock>>

\* The accept loop of a server ends, by the drain or by an error of accept; that
\* of the admin API removes the socket's file before it lets go of the drain,
\* unless another process has replaced it.
StopAccepting(c) ==
    /\ life.stage # "exited" /\ c \in Http \ {"admin"} /\ comp[c] = "serving"
    /\ SetComp({c}, "closed")
    /\ UNCHANGED <<lifeCfg, life, pending, synced, lconn, sock>>

AdminStops ==
    /\ life.stage # "exited" /\ comp["admin"] = "serving"
    /\ SetComp({"admin"}, "draining")
    /\ UNCHANGED <<lifeCfg, life, pending, synced, lconn, sock>>

SocketCleanup ==
    /\ life.stage # "exited" /\ comp["admin"] = "draining"
    /\ SetComp({"admin"}, "closed")
    /\ sock' = Dropped(sock)
    /\ UNCHANGED <<lifeCfg, life, pending, synced, lconn>>

\* Another process binds the path: ours does not answer any more.
OtherBinds ==
    /\ lifeCfg.unix /\ sock \in {"none", "stale", "mine"}
    /\ sock = "mine" => comp["admin"] = "draining" \/ life.stage = "exited"
    /\ sock' = "other"
    /\ UNCHANGED <<lifeCfg, life, pending, synced, comp, lconn>>

\* The drain is released at once.
ReleaseEarly(c) == "closed"

\* run_with_drain: the accept loop is dropped, the connections are waited for.
SubDrain(c) == "draining"

RunWithDrain(c) ==
    /\ life.stage = "drain" /\ c \in Listeners /\ comp[c] = "serving"
    /\ SetComp({c}, SubDrain(c))
    /\ UNCHANGED <<lifeCfg, life, pending, synced, lconn, sock>>

SubDrained(c) ==
    /\ life.stage = "drain" /\ c \in Listeners /\ comp[c] = "draining" /\ Alives(c) = {}
    /\ SetComp({c}, "closed")
    /\ UNCHANGED <<lifeCfg, life, pending, synced, lconn, sock>>

\* The deadline: what is left is told to stop, and not waited for.
ForceShutdown(c) ==
    /\ life.stage = "drain" /\ c \in Listeners /\ comp[c] = "draining" /\ Alives(c) # {}
    /\ SetComp({c}, "closed")
    /\ lconn' = [n \in LifeConns |-> IF n \in Alives(c) THEN [lconn[n] EXCEPT !.st = "forced"] ELSE lconn[n]]
    /\ UNCHANGED <<lifeCfg, life, pending, synced, sock>>

\* The DNS server, the watcher of policies and the manager of workloads end,
\* see Dns, ConnectionManager and WorkloadManager.
TaskDrains(c) ==
    /\ life.stage = "drain" /\ c \in {"dns", "policy_watcher", "manager"} /\ comp[c] = "serving"
    /\ SetComp({c}, "closed")
    /\ UNCHANGED <<lifeCfg, life, pending, synced, lconn, sock>>

\* start_drain_and_wait returns once every watcher is dropped, and main with it.
Watching(c) == comp[c] \in {"bound", "sent", "serving", "draining"} \/ (c \in Http /\ Alives(c) # {})
DrainDone ==
    /\ life.stage = "drain" /\ \A c \in Components : ~Watching(c)
    /\ life' = [life EXCEPT !.stage = "exited", !.how = "drained"]
    /\ UNCHANGED <<lifeCfg, pending, synced, comp, lconn, sock>>

\* The steps of a drain that this process takes whatever its peers do.
DrainSteps ==
    \/ \E c \in Components : StartTask(c) \/ StopAccepting(c) \/ RunWithDrain(c) \/ SubDrained(c) \/ ForceShutdown(c) \/ TaskDrains(c)
    \/ \E n \in LifeConns : HttpDrains(n)
    \/ AdminStops \/ SocketCleanup \/ DrainDone

LifeNext ==
    \/ BuildStep \/ BuildFails \/ MainFails \/ XdsSynced \/ StateReady \/ ManagerFails
    \/ \E ok \in BOOLEAN : ManagerReady(ok)
    \/ \E n \in LifeConns : (\E c \in Components : LifeAccept(n, c)) \/ HttpAnswered(n) \/ PeerActs(n) \/ Quit(n)
    \/ \E kind \in {"SIGINT", "SIGTERM"} : Signal(kind)
    \/ WaitTermination \/ OtherBinds \/ DrainSteps

\* A drain goes on whenever it can.  Nothing makes the control plane answer or a
\* peer read what it asked for.
LifeFairSpec == LifeInit /\ [][LifeNext]_lifeVars /\ WF_lifeVars(DrainSteps)

-----------------------------------------------------------------------------
(* Properties                                                              *)

\* While /healthz/ready answers 200, every proxy of the configuration is bound and
\* the first state of xDS is there, whatever order the tasks of the start come in
\* (Ready and BlockReady), until the build fails: a process about to return its
\* error has dropped its tasks and may still answer.  A configuration without a proxy registers no task that
\* lasts to the end of the build, and is left out.
ReadyIsTrue ==
    life.stage \in {"build", "run"} /\ lifeCfg.proxy /\ HandleReady = 200 =>
        synced /\ \A c \in Wanted : comp[c] # "none"

\* A process that ended by a graceful drain has cut no connection, except one that
\* outlived the deadline and was told to stop, and has left no socket file behind
\* (run_with_drain, start_drain_and_wait, SocketCleanup).
DrainedClean ==
    life.how = "drained" =>
        /\ \A n \in LifeConns : lconn[n].st \in {"none", "ended", "forced"}
        /\ sock # "mine"

\* What a drain may wait for without end: a task that was built and waits for the
\* first answers of xDS, or an HTTP peer that does not read its answer.
WaitsForOthers ==
    \/ ~synced /\ \E c \in Components : comp[c] = "sent"
    \/ \E n \in LifeConns : lconn[n].of \in Http /\ lconn[n].st = "request"

\* A drain ends cleanly, and until then some step of the process itself is possible,
\* unless it waits for the control plane or for a peer (start_drain_and_wait).
DrainSound ==
    /\ DrainedClean
    /\ life.stage = "drain" /\ ~WaitsForOthers => ENABLED DrainSteps

\* What the comment in build_with_cert says: "there is still a hard timeout if the
\* draining takes too long", so that a drain ends whatever others do.
HardTimeout == (life.stage = "drain") ~> (life.stage = "exited")
==============================================================================
