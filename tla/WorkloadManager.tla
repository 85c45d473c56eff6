-------------------------- MODULE WorkloadManager --------------------------
(***************************************************************************)
(* The in-pod workload proxy manager: src/inpod/workloadmanager.rs and     *)
(* src/inpod/statemanager.rs with the counters of src/inpod/admin.rs.      *)
(*                                                                         *)
(* The manager is one task.  It reads messages of the node agent from a    *)
(* Unix socket and acknowledges each before the next is sent, starts and   *)
(* drains one proxy per pod, retries starts that failed on a timer, and    *)
(* reconnects.  The start of a proxy is awaited: meanwhile drained proxies *)
(* exit.  The agent (external) has a cache of pods that changes at any     *)
(* time; proto/zds.proto gives its side of the protocol.  The firewall     *)
(* coordinator gets its events through an unbounded FIFO channel, so fw is *)
(* the state it reaches by the events sent so far.                         *)
(***************************************************************************)
EXTENDS Naturals, FiniteSets

CONSTANTS
    Uids, Netns, None,
    MaxChurn,       \* bound on changes of the agent's cache
    MaxBreaks,      \* bound on lost connections and failed announcements
    MaxFailures,    \* bound on starts that fail
    MaxProxies      \* bound on proxies alive at one time

Ids == 1..MaxProxies

\* A proxy task, and the entry of a pod in the admin handler.
Proxies  == [uid : Uids, netns : Netns, signal : {"none", "Immediate", "Graceful"}]
Counters == [state : {"Pending", "Up"}, count : Nat]

ASSUME WorkloadManagerAssumption ==
    /\ Netns \cap {None, "Kept", "Refused", "Stale"} = {}
    /\ None \notin Ids \cup Proxies \cup Counters \cup {"Kept", "Refused", "Stale"}
    /\ MaxChurn \in Nat /\ MaxBreaks \in Nat /\ MaxFailures \in Nat /\ MaxProxies \in Nat

VARIABLES
    pods,       \* the agent's cache
    told,       \* what the agent sent last on this connection, per pod
    due,        \* pods of the snapshot the agent has not sent yet
    mode,       \* where the manager's task is
    busy,       \* the start it awaits: pod, netns and whether it is a retry
    todo,       \* the pending workloads retry_pending has taken
    states,     \* workload_states: the proxy of each pod, or None
    pending,    \* pending_workloads: the netns to try again, or None
    received,   \* snapshot_received
    names,      \* snapshot_names
    timer,      \* next_pending_retry is armed
    ready,      \* no block_ready is registered
    alive,      \* proxy tasks: id -> [uid, netns, signal] or None
    draining,   \* proxies whose drain the manager will join
    admin,      \* admin handler: per pod [state, count], or None
    fw,         \* pods under the firewall coordinator, by netns
    drainReq,   \* the process is told to drain
    churn, breaks, failures

agentVars == <<pods, told, due, churn>>
proxyVars == <<states, alive, draining, admin, fw>>
snapVars  == <<received, names>>
vars == <<agentVars, proxyVars, snapVars, mode, busy, todo, pending, timer, ready, drainReq, breaks, failures>>

Nothing == [u \in Uids |-> None]
Idle == [uid |-> None, netns |-> None, retry |-> FALSE]

Init ==
    /\ pods = Nothing
    /\ told = Nothing /\ due = {}
    /\ mode = "connecting" /\ busy = Idle /\ todo = Nothing
    /\ states = Nothing /\ pending = Nothing
    /\ received = FALSE /\ names = {}
    /\ timer = FALSE /\ ready = FALSE
    /\ alive = [g \in Ids |-> None] /\ draining = {}
    /\ admin = Nothing /\ fw = Nothing
    /\ drainReq = FALSE
    /\ churn = 0 /\ breaks = 0 /\ failures = 0

CheckReady == ready' = (received' /\ pending' = Nothing)

-----------------------------------------------------------------------------
(* The node agent and the process (external)                               *)

PodAdded(u, n) ==
    /\ churn < MaxChurn /\ pods[u] # n
    /\ pods' = [pods EXCEPT ![u] = n]
    /\ told' = [told EXCEPT ![u] = IF @ \in {"Kept", "Refused"} THEN "Stale" ELSE @]
    /\ churn' = churn + 1
    /\ UNCHANGED <<due, proxyVars, snapVars, mode, busy, todo, pending, timer, ready, drainReq, breaks, failures>>

PodDeleted(u) ==
    /\ churn < MaxChurn /\ pods[u] # None
    /\ pods' = [pods EXCEPT ![u] = None]
    /\ due' = due \ {u}
    /\ churn' = churn + 1
    /\ UNCHANGED <<told, proxyVars, snapVars, mode, busy, todo, pending, timer, ready, drainReq, breaks, failures>>

DrainRequested ==
    /\ ~drainReq
    /\ drainReq' = TRUE
    /\ UNCHANGED <<agentVars, proxyVars, snapVars, mode, busy, todo, pending, timer, ready, breaks, failures>>

Untold(u) == pods[u] # None /\ told[u] \notin {pods[u], "Kept", "Refused"}

\* The agent sends something about a pod and considers it told.
Tell(u, what) ==
    /\ told' = [told EXCEPT ![u] = what]
    /\ due' = due \ {u}
    /\ UNCHANGED <<pods, churn>>

-----------------------------------------------------------------------------
(* Proxies                                                                 *)

\* DrainingTasks::shutdown_workload; finished handles are dropped.
Shutdown(us, mode0) ==
    LET gone == {states[u] : u \in us}
    IN /\ alive' = [g \in Ids |-> IF g \in gone /\ alive[g] # None THEN [alive[g] EXCEPT !.signal = mode0] ELSE alive[g]]
       /\ draining' = IF gone = {} THEN draining ELSE {g \in draining : alive[g] # None} \cup gone

\* A drained proxy ends: proxy_down on the admin handler.
ProxyDownEager(g) ==
    admin' = [admin EXCEPT ![alive[g].uid] = None]

ProxyDown(g) ==
    LET u == alive[g].uid
    IN admin' = [admin EXCEPT ![u] = IF @.count = 1 THEN None ELSE [admin[u] EXCEPT !.count = @ - 1]]

ProxyExits(g) ==
    /\ alive[g] # None /\ alive[g].signal # "none"
    /\ ProxyDown(g)
    /\ alive' = [alive EXCEPT ![g] = None]
    /\ UNCHANGED <<agentVars, snapVars, states, draining, fw, mode, busy, todo, pending, timer, ready, drainReq, breaks, failures>>

-----------------------------------------------------------------------------
(* Starting a proxy: add_workload                                          *)

\* After a start, the manager goes back to reading, or to the next retry.
Return(b) == mode' = (IF b.retry THEN "retrying" ELSE "reading") /\ busy' = Idle

\* A new netns that leaves the old proxy alone.
ReplaceLeaks(u, n) ==
    /\ states' = [states EXCEPT ![u] = None]
    /\ UNCHANGED <<alive, draining, fw>>

\* A proxy in another netns is removed and drained first: del_workload.
Replace(u, n) ==
    IF states[u] = None THEN UNCHANGED <<states, alive, draining, fw>>
    ELSE /\ states' = [states EXCEPT ![u] = None]
         /\ fw' = [fw EXCEPT ![u] = None]
         /\ Shutdown({u}, "Immediate")

\* add_workload_inner up to the await: nothing to do if the pod has a proxy
\* in this netns; else the admin handler shows it as pending.
SameNetns(u, n) == states[u] # None /\ alive[states[u]].netns = n

AlreadyRuns(u, b) ==
    /\ SameNetns(u, b.netns)
    /\ pending' = [pending EXCEPT ![u] = None]
    /\ Return(b)
    /\ IF b.retry THEN UNCHANGED ready ELSE CheckReady
    /\ UNCHANGED <<proxyVars, timer>>

BeginStart(u, b) ==
    /\ ~SameNetns(u, b.netns)
    /\ Replace(u, b.netns)
    /\ pending' = IF states[u] = None THEN pending ELSE [pending EXCEPT ![u] = None]
    /\ admin' = [admin EXCEPT ![u] = IF @ = None THEN [state |-> "Pending", count |-> 0]
                                     ELSE [admin[u] EXCEPT !.state = "Pending"]]
    /\ mode' = "starting" /\ busy' = b
    /\ UNCHANGED <<timer, ready>>

Begin(u, b) == AlreadyRuns(u, b) \/ BeginStart(u, b)

\* AddPod at the firewall coordinator: a pod it has in another netns is set
\* up again.
FirewallAddOnce(u, n) == fw' = IF fw[u] = None THEN [fw EXCEPT ![u] = n] ELSE fw
FirewallAdd(u, n) == fw' = [fw EXCEPT ![u] = n]

\* The factory returns a proxy, which is spawned and recorded.
ProxyUp(u) ==
    admin' = [admin EXCEPT ![u] = IF @ = None THEN [state |-> "Up", count |-> 1]
                                  ELSE [state |-> "Up", count |-> @.count + 1]]

StartOk ==
    /\ mode = "starting"
    /\ \E g \in Ids : alive[g] = None
    /\ LET u == busy.uid
           g == CHOOSE i \in Ids : alive[i] = None
       IN /\ alive' = [alive EXCEPT ![g] = [uid |-> u, netns |-> busy.netns, signal |-> "none"]]
          /\ states' = [states EXCEPT ![u] = g]
          /\ draining' = draining \ {g}      \* the id is free again
          /\ ProxyUp(u)
          /\ FirewallAdd(u, busy.netns)
          /\ pending' = [pending EXCEPT ![u] = None]
    /\ Return(busy)
    /\ UNCHANGED snapVars
    /\ IF busy.retry THEN UNCHANGED ready ELSE CheckReady
    /\ UNCHANGED <<agentVars, todo, timer, drainReq, breaks, failures>>

\* The factory fails: the workload is retried later, the firewall is told
\* anyway.  process answers with a nack, arms the timer and does not
\* re-evaluate readiness.
StartFailsForgets(u, n) == UNCHANGED pending
StartFailsKeeps(u, n) == pending' = [pending EXCEPT ![u] = n]

StartFails ==
    /\ mode = "starting" /\ failures < MaxFailures
    /\ FirewallAdd(busy.uid, busy.netns)
    /\ StartFailsKeeps(busy.uid, busy.netns)
    /\ timer' = (timer \/ ~busy.retry)
    /\ Return(busy)
    /\ failures' = failures + 1
    /\ UNCHANGED <<agentVars, snapVars, states, alive, draining, admin, todo, ready, drainReq, breaks>>

-----------------------------------------------------------------------------
(* Messages: process and process_msg                                       *)

NoteName(u)  == names' = IF received THEN names ELSE names \cup {u}

Reading == mode = "reading" /\ ~drainReq

ReceiveAdd(u) ==
    /\ Reading
    /\ Untold(u)
    /\ Tell(u, pods[u])
    /\ NoteName(u)
    /\ UNCHANGED received
    /\ Begin(u, [uid |-> u, netns |-> pods[u], retry |-> FALSE])
    /\ UNCHANGED <<todo, drainReq, breaks, failures>>

\* InpodNetns::new fails: reported as a proxy error, nothing is recorded.
ReceiveAddBadNetns(u) ==
    /\ Reading /\ failures < MaxFailures
    /\ Untold(u)
    /\ Tell(u, "Refused")
    /\ NoteName(u)
    /\ timer' = TRUE
    /\ failures' = failures + 1
    /\ UNCHANGED <<proxyVars, received, mode, busy, todo, pending, ready, drainReq, breaks>>

\* The agent lost the file descriptor of a pod of its snapshot.
ReceiveKeep(u) ==
    /\ Reading /\ ~received
    /\ pods[u] # None /\ u \in due
    /\ Tell(u, "Kept")
    /\ names' = names \cup {u}
    /\ UNCHANGED <<received, pending>>
    /\ CheckReady
    /\ UNCHANGED <<proxyVars, mode, busy, todo, timer, drainReq, breaks, failures>>

\* Before the snapshot a deleted pod is left to reconcile.
DelKeepsPending(u) ==
    /\ names' = names \ {u}
    /\ UNCHANGED <<proxyVars, pending>>

DelBeforeSnapshot(u) ==
    /\ names' = names \ {u}
    /\ pending' = [pending EXCEPT ![u] = None]
    /\ UNCHANGED proxyVars

DelAfterSnapshot(u) ==
    /\ pending' = [pending EXCEPT ![u] = None]
    /\ Replace(u, None)
    /\ UNCHANGED <<names, admin>>

ReceiveDel(u) ==
    /\ Reading
    /\ pods[u] = None /\ told[u] # None
    /\ Tell(u, None)
    /\ IF received THEN DelAfterSnapshot(u) ELSE DelBeforeSnapshot(u)
    /\ UNCHANGED received
    /\ CheckReady
    /\ UNCHANGED <<mode, busy, todo, timer, drainReq, breaks, failures>>

\* reconcile drains what the snapshot did not name.
Unnamed == {u \in Uids : states[u] # None /\ u \notin names}

ReceiveSnapshotSent ==
    /\ Reading /\ ~received /\ due = {}
    /\ states' = [u \in Uids |-> IF u \in Unnamed THEN None ELSE states[u]]
    /\ fw' = [u \in Uids |-> IF u \in Unnamed THEN None ELSE fw[u]]
    /\ Shutdown(Unnamed, "Immediate")
    /\ names' = {}
    /\ received' = TRUE
    /\ UNCHANGED pending
    /\ CheckReady
    /\ UNCHANGED <<agentVars, admin, mode, busy, todo, timer, drainReq, breaks, failures>>

\* A message without its info, a second snapshot, a late keep: the agent
\* speaks another protocol, the process exits without draining anything.
ProtocolError ==
    /\ Reading /\ breaks < MaxBreaks
    /\ mode' = "exited"
    /\ ready' = FALSE
    /\ breaks' = breaks + 1
    /\ UNCHANGED <<agentVars, proxyVars, snapVars, busy, todo, pending, timer, drainReq, failures>>

-----------------------------------------------------------------------------
(* Retries: read_message_and_retry_proxies                                 *)

RetryTimer ==
    /\ mode = "reading" /\ timer
    /\ timer' = FALSE
    /\ todo' = pending
    /\ pending' = Nothing
    /\ mode' = "retrying"
    /\ UNCHANGED <<agentVars, proxyVars, snapVars, busy, ready, drainReq, breaks, failures>>

RetryNext(u) ==
    /\ mode = "retrying" /\ todo[u] # None
    /\ todo' = [todo EXCEPT ![u] = None]
    /\ Begin(u, [uid |-> u, netns |-> todo[u], retry |-> TRUE])
    /\ UNCHANGED <<agentVars, snapVars, drainReq, breaks, failures>>

\* The last retry succeeds and nobody looks at readiness.
RetryDoneSilent ==
    /\ mode = "retrying" /\ todo = Nothing
    /\ mode' = "reading"
    /\ timer' = (pending # Nothing)
    /\ UNCHANGED <<agentVars, proxyVars, snapVars, pending, ready, busy, todo, drainReq, breaks, failures>>

RetryDone ==
    /\ mode = "retrying" /\ todo = Nothing
    /\ mode' = "reading"
    /\ UNCHANGED <<pending, received, names>>
    /\ IF pending # Nothing THEN timer' = TRUE /\ UNCHANGED ready
                            ELSE timer' = FALSE /\ CheckReady
    /\ UNCHANGED <<agentVars, proxyVars, busy, todo, drainReq, breaks, failures>>

-----------------------------------------------------------------------------
(* Connections and drain: run_internal and run                             *)

ResetSnapshot == names' = {} /\ pending' = Nothing /\ received' = FALSE

Connect ==
    /\ mode = "connecting" /\ ~drainReq
    /\ ResetSnapshot
    /\ timer' = FALSE
    /\ mode' = "reading"
    /\ told' = Nothing
    /\ due' = {u \in Uids : pods[u] # None}
    /\ UNCHANGED <<pods, churn, proxyVars, busy, todo, ready, drainReq, breaks, failures>>

\* The connection is accepted and the announcement fails.
AnnounceFails ==
    /\ mode = "connecting" /\ ~drainReq /\ breaks < MaxBreaks
    /\ ResetSnapshot
    /\ told' = Nothing /\ due' = {}
    /\ ready' = FALSE
    /\ breaks' = breaks + 1
    /\ UNCHANGED <<pods, churn, proxyVars, mode, busy, todo, timer, drainReq, failures>>

\* End of stream, a failed read or a failed answer.
Disconnect ==
    /\ mode = "reading" /\ ~drainReq /\ breaks < MaxBreaks
    /\ mode' = "connecting"
    /\ ready' = FALSE
    /\ timer' = FALSE
    /\ breaks' = breaks + 1
    /\ UNCHANGED <<agentVars, proxyVars, snapVars, busy, todo, pending, drainReq, failures>>

\* The drain is not looked at while connecting.
StartDrainReading ==
    /\ drainReq /\ mode = "reading"
    /\ mode' = "draining"
    /\ ready' = FALSE
    /\ timer' = FALSE
    /\ alive' = [g \in Ids |-> IF \E u \in Uids : states[u] = g THEN [alive[g] EXCEPT !.signal = "Graceful"] ELSE alive[g]]
    /\ UNCHANGED <<agentVars, snapVars, states, draining, admin, fw, busy, todo, pending, drainReq, breaks, failures>>

\* The drain ends reading and connecting: the proxies of all workloads are
\* drained gracefully.
StartDrain ==
    /\ drainReq /\ mode \in {"reading", "connecting"}
    /\ mode' = "draining"
    /\ ready' = FALSE
    /\ timer' = FALSE
    /\ alive' = [g \in Ids |-> IF \E u \in Uids : states[u] = g THEN [alive[g] EXCEPT !.signal = "Graceful"] ELSE alive[g]]
    /\ UNCHANGED <<agentVars, snapVars, states, draining, admin, fw, busy, todo, pending, drainReq, breaks, failures>>

\* A drain that joins only the proxies in service.
DrainDoneEarly ==
    /\ mode = "draining"
    /\ \A u \in Uids : states[u] # None => alive[states[u]] = None
    /\ mode' = "drained"
    /\ UNCHANGED <<agentVars, proxyVars, snapVars, busy, todo, pending, timer, ready, drainReq, breaks, failures>>

\* WorkloadProxyManagerState::drain has joined everything.
DrainDone ==
    /\ mode = "draining"
    /\ \A u \in Uids : states[u] # None => alive[states[u]] = None
    /\ \A g \in draining : alive[g] = None
    /\ mode' = "drained"
    /\ UNCHANGED <<agentVars, proxyVars, snapVars, busy, todo, pending, timer, ready, drainReq, breaks, failures>>

Manager ==
    \/ \E u \in Uids : ReceiveAdd(u) \/ ReceiveDel(u)
    \/ ReceiveSnapshotSent
    \/ RetryTimer \/ (\E u \in Uids : RetryNext(u)) \/ RetryDone
    \/ Connect \/ StartDrain \/ DrainDone

Next ==
    \/ \E u \in Uids : PodDeleted(u) \/ \E n \in Netns : PodAdded(u, n)
    \/ DrainRequested
    \/ Manager
    \/ StartOk \/ StartFails
    \/ \E u \in Uids : ReceiveAddBadNetns(u) \/ ReceiveKeep(u)
    \/ ProtocolError \/ Disconnect \/ AnnounceFails
    \/ \E g \in Ids : ProxyExits(g)

Spec == Init /\ [][Next]_vars

\* The task is scheduled, the agent goes on sending what it has to tell, a
\* drained proxy ends (its drain is bounded by a deadline) and a start that
\* is tried again and again succeeds at last.
FairSpec ==
    /\ Spec
    /\ WF_vars(Manager) /\ SF_vars(StartOk)
    /\ \A g \in Ids : WF_vars(ProxyExits(g))

-----------------------------------------------------------------------------
(* Properties                                                              *)

TypeOK ==
    /\ pods \in [Uids -> Netns \cup {None}]
    /\ told \in [Uids -> Netns \cup {None, "Kept", "Refused", "Stale"}]
    /\ due \subseteq Uids
    /\ mode \in {"connecting", "reading", "starting", "retrying", "draining", "drained", "exited"}
    /\ busy \in [uid : Uids \cup {None}, netns : Netns \cup {None}, retry : BOOLEAN]
    /\ {todo, pending} \subseteq [Uids -> Netns \cup {None}]
    /\ states \in [Uids -> Ids \cup {None}]
    /\ received \in BOOLEAN /\ names \subseteq Uids
    /\ timer \in BOOLEAN /\ ready \in BOOLEAN
    /\ alive \in [Ids -> Proxies \cup {None}]
    /\ draining \subseteq Ids
    /\ admin \in [Uids -> [state : {"Pending", "Up"}, count : 0..MaxProxies] \cup {None}]
    /\ fw \in [Uids -> Netns \cup {None}]

Working == mode \in {"connecting", "reading", "starting", "retrying"}

\* The netns the manager works for on behalf of a pod: running, to be retried
\* or being started.
Holds(u, n) ==
    \/ states[u] # None /\ alive[states[u]] # None /\ alive[states[u]].netns = n
    \/ pending[u] = n \/ todo[u] = n
    \/ busy.uid = u /\ busy.netns = n

\* Whatever the agent added on this connection is running in the netns it
\* named, or will be tried again: no failed, repeated or overtaken start, and
\* no delete before the snapshot, loses a pod.  A netns that could not be
\* opened is the exception (ReceiveAddBadNetns records nothing).
AddsTakeEffect ==
    Working => \A u \in Uids : told[u] \in Netns => Holds(u, told[u])

\* After the snapshot the manager works for no pod the agent did not name on
\* this connection: what disappeared while it was disconnected, or was deleted
\* before the snapshot, is neither running nor waiting to be started.
NothingForgottenRuns ==
    Working /\ received => \A u \in Uids, n \in Netns : Holds(u, n) => told[u] # None

\* Every proxy is the one its pod has, or has been told to end and will be
\* joined: replacing, deleting and reconciling lose no proxy, and two proxies
\* of one pod are never both in service.
NoOrphanProxy ==
    Working => \A g \in Ids : alive[g] # None =>
        \/ states[alive[g].uid] = g /\ alive[g].signal = "none"
        \/ g \in draining /\ alive[g].signal = "Immediate"

\* The admin handler counts the proxies of a pod exactly, whatever the order
\* of the end of the old proxy and the start of the new one, so proxy_down
\* never meets an entry without a proxy ("proxy_down called where no proxy was
\* created").
AdminCountsProxies ==
    \A u \in Uids :
        (IF admin[u] = None THEN 0 ELSE admin[u].count)
            = Cardinality({g \in Ids : alive[g] # None /\ alive[g].uid = u})

\* The firewall coordinator has every pod the manager runs or will start, in
\* the same netns, failed starts included.
FirewallCovers ==
    Working => \A u \in Uids, n \in Netns :
        (states[u] # None /\ alive[states[u]].netns = n) \/ pending[u] = n => fw[u] = n

\* The three who keep track of proxies agree with the proxies there are: the
\* manager (DrainingTasks, workload_states), the admin handler and the firewall
\* coordinator, through every order of replacements, failures and ends.
ProxiesAccounted == NoOrphanProxy /\ AdminCountsProxies /\ FirewallCovers

InSync ==
    /\ ready
    /\ \A u \in Uids :
        /\ told[u] \in {pods[u], "Kept", "Refused"}
        /\ told[u] \in Netns \cup {None} =>
              {alive[g].netns : g \in {g \in Ids : alive[g] # None /\ alive[g].uid = u}} = {told[u]} \ {None}

\* Once the agent's cache is at rest and the connection holds, the proxies
\* match the cache and the manager is ready for good; or it has drained, or
\* left over a protocol error.
Converges == <>[](InSync \/ mode \in {"drained", "exited"})

\* The manager implements the contract of a graceful drain: work is the proxies
\* that are alive, those deleted or replaced earlier included; the drain joins
\* them all, and no proxy is started after it began.  Only a protocol error
\* ends the manager with proxies alive.  A drain that is asked for completes.
Contract == INSTANCE GracefulDrain WITH
    Work <- Ids,
    active <- {g \in Ids : alive[g] # None},
    phase <- IF Working THEN "serving"
             ELSE CASE mode = "draining" -> "draining" [] mode = "drained" -> "stopped" [] OTHER -> "aborted"
DrainContract ==
    /\ Contract!Spec
    /\ []<>(drainReq => mode \in {"drained", "exited"})
=============================================================================
