-------------------------- MODULE ConnectionManager --------------------------
(***************************************************************************)
(* Tracking of proxied connections and their termination when the policy   *)
(* changes: proxy/connection_manager.rs, with the drain channels of        *)
(* drain.rs and the three users of the ConnectionGuard (inbound.rs,        *)
(* inbound_passthrough.rs, outbound.rs).                                   *)
(*                                                                         *)
(* Every connection task registers its ConnectionContext, asserts the      *)
(* policy, and serves while it listens to the drain channel of the context.*)
(* One PolicyWatcher task per proxy re-evaluates every tracked context     *)
(* when it is notified, and closes the ones no longer allowed.  All tasks  *)
(* interleave; an action is what one task does under one lock or between   *)
(* two await points.                                                       *)
(***************************************************************************)
EXTENDS Naturals, FiniteSets

CONSTANTS
    Conns,      \* connection tasks; a task that ends serves a new connection
    Ctxs,       \* ConnectionContexts; several connections may share one
    Chans,      \* identities of drain channels
    NoCtx,      \* "no context"
    NoChan      \* "no channel"

ASSUME NoneAssumption == NoChan \notin Chans /\ NoCtx \notin Ctxs

\* Only finitely many tasks run at one time.
ASSUME ConnsAssumption == IsFiniteSet(Conns)

VARIABLES
    \* ConnectionManager
    drains,     \* HashMap<ConnectionContext, ConnectionDrain>
    \* connection tasks
    pc,         \* where each task stands
    ctx,        \* the context it registered
    watch,      \* the channel it registered on
    told,       \* tasks whose channel was signalled, or lost its trigger
    \* policy state, abstracted to the contexts state.assert_rbac accepts
    allowed,
    changed,    \* the watcher's receiver holds an unseen notification
    \* PolicyWatcher
    wpc,        \* where the watcher stands
    todo,       \* contexts of the snapshot still to evaluate
    target,     \* the context it found denied and is about to close
    closing,    \* the channel close() waits for
    \* the proxy
    draining,   \* its drain was signalled
    early       \* history: connections admitted before the watcher subscribed

connVars    == <<pc, ctx, watch, told, early>>
policyVars  == <<allowed, changed>>
watcherVars == <<wpc, todo, target, closing>>
vars == <<drains, pc, ctx, watch, told, early, allowed, changed,
          wpc, todo, target, closing, draining>>

\* An absent key of the HashMap.
NoDrain == [chan |-> NoChan, count |-> 0]

ConnPc    == {"idle", "registered", "rejected", "guarded", "serving", "releasing",
              "gone"}
WatcherPc == {"start", "waiting", "sweeping", "denied", "closing", "stopped"}

TypeOK ==
    /\ drains \in [Ctxs -> [chan : Chans \cup {NoChan}, count : Nat]]
    /\ pc \in [Conns -> ConnPc]
    /\ ctx \in [Conns -> Ctxs \cup {NoCtx}]
    /\ watch \in [Conns -> Chans \cup {NoChan}]
    /\ told \subseteq Conns
    /\ early \subseteq Conns
    /\ allowed \subseteq Ctxs
    /\ changed \in BOOLEAN
    /\ wpc \in WatcherPc
    /\ todo \subseteq Ctxs
    /\ target \in Ctxs \cup {NoCtx}
    /\ closing \in Chans \cup {NoChan}
    /\ draining \in BOOLEAN

-----------------------------------------------------------------------------
Init ==
    /\ drains = [k \in Ctxs |-> NoDrain]
    /\ pc = [c \in Conns |-> "idle"]
    /\ ctx = [c \in Conns |-> NoCtx]
    /\ watch = [c \in Conns |-> NoChan]
    /\ told = {}
    /\ early = {}
    /\ allowed \in SUBSET Ctxs
    /\ changed = FALSE
    /\ wpc = "start" /\ todo = {} /\ target = NoCtx /\ closing = NoChan
    /\ draining = FALSE

-----------------------------------------------------------------------------
(* The map of drains                                                       *)

Tracked(k) == drains[k].chan # NoChan

\* A channel identity is free again once nobody can refer to the channel.
Free(ch) ==
    /\ \A k \in Ctxs : drains[k].chan # ch
    /\ \A c \in Conns : watch[c] # ch
    /\ closing # ch

Watchers(ch) == {c \in Conns : watch[c] = ch}

\* register(): join the channel of an occupied entry, or insert a new one.
Join(c, k) ==
    /\ Tracked(k)
    /\ drains' = [drains EXCEPT ![k].count = @ + 1]
    /\ watch' = [watch EXCEPT ![c] = drains[k].chan]

Create(c, k) ==
    /\ ~Tracked(k)
    /\ \E ch \in Chans :
        /\ Free(ch)
        /\ drains' = [drains EXCEPT ![k] = [chan |-> ch, count |-> 1]]
        /\ watch' = [watch EXCEPT ![c] = ch]

\* release(): the map afterwards.  The last one out removes the entry, and
\* nothing happens when there is none.
Released(k) ==
    IF drains[k].count > 1 THEN [drains EXCEPT ![k].count = @ - 1]
                           ELSE [drains EXCEPT ![k] = NoDrain]

\* A removed entry drops its DrainTrigger, and every watcher of the channel
\* observes that as an immediate drain.
CutByRelease(k) ==
    IF Tracked(k) /\ drains[k].count <= 1 THEN Watchers(drains[k].chan) ELSE {}

-----------------------------------------------------------------------------
(* Connection tasks                                                        *)

\* The task ends: its context and its watcher are dropped.  A listener of a
\* proxy that drains accepts no further connection.
Ended(c) ==
    /\ pc' = [pc EXCEPT ![c] = IF draining THEN "gone" ELSE "idle"]
    /\ ctx' = [ctx EXCEPT ![c] = NoCtx]
    /\ watch' = [watch EXCEPT ![c] = NoChan]
    /\ early' = early \ {c}

\* The task ends after it released its context.
ReleaseAndEnd(c) ==
    /\ drains' = Released(ctx[c])
    /\ told' = (told \cup CutByRelease(ctx[c])) \ {c}
    /\ Ended(c)

\* The task ends without a release.
EndWithoutRelease(c) ==
    /\ told' = told \ {c}
    /\ Ended(c)
    /\ UNCHANGED drains

\* assert_rbac(), first half: register before the policy is evaluated.
Register(c, k) ==
    /\ pc[c] = "idle"
    /\ pc' = [pc EXCEPT ![c] = "registered"]
    /\ ctx' = [ctx EXCEPT ![c] = k]
    /\ Join(c, k) \/ Create(c, k)
    /\ UNCHANGED <<told, early, policyVars, watcherVars, draining>>

\* assert_rbac(), second half: evaluate the policy under the state's read lock.
AssertRbac(c) ==
    /\ pc[c] = "registered"
    /\ pc' = [pc EXCEPT ![c] = IF ctx[c] \in allowed THEN "guarded" ELSE "rejected"]
    /\ early' = IF wpc = "start" THEN early \cup {c} ELSE early
    /\ UNCHANGED <<drains, ctx, watch, told, policyVars, watcherVars, draining>>

\* assert_rbac() failed: release and return AuthorizationPolicyRejection.
Reject(c) ==
    /\ pc[c] = "rejected"
    /\ ReleaseAndEnd(c)
    /\ UNCHANGED <<policyVars, watcherVars, draining>>

\* Mutant: a guard without a Drop implementation.
GuardDropKeeps(c) ==
    /\ pc[c] = "guarded"
    /\ EndWithoutRelease(c)
    /\ UNCHANGED <<policyVars, watcherVars, draining>>

\* The guard is dropped before its watcher was taken (the upstream connect
\* failed, or the task was cancelled): Drop releases.
GuardDrop(c) ==
    /\ pc[c] = "guarded"
    /\ ReleaseAndEnd(c)
    /\ UNCHANGED <<policyVars, watcherVars, draining>>

\* handle_connection!: take the watcher and race it against the traffic.
TakeWatcher(c) ==
    /\ pc[c] = "guarded"
    /\ pc' = [pc EXCEPT ![c] = "serving"]
    /\ UNCHANGED <<drains, ctx, watch, told, early, policyVars, watcherVars, draining>>

\* The traffic ends first.  select! drops the watcher before it runs the arm
\* that releases, so other tasks may run in between.
Finish(c) ==
    /\ pc[c] = "serving"
    /\ pc' = [pc EXCEPT ![c] = "releasing"]
    /\ UNCHANGED <<drains, ctx, watch, told, early, policyVars, watcherVars, draining>>

GuardRelease(c) ==
    /\ pc[c] = "releasing"
    /\ ReleaseAndEnd(c)
    /\ UNCHANGED <<policyVars, watcherVars, draining>>

\* The drain is observed first: AuthorizationPolicyLateRejection.  Nothing is
\* released, whoever signalled has removed the entry.
LateRejection(c) ==
    /\ pc[c] = "serving"
    /\ c \in told
    /\ EndWithoutRelease(c)
    /\ UNCHANGED <<policyVars, watcherVars, draining>>

\* force_shutdown drops the task of a draining proxy while it serves.  The
\* guard's watcher is taken, so Drop does not release.
Cancel(c) ==
    /\ draining
    /\ pc[c] = "serving"
    /\ EndWithoutRelease(c)
    /\ UNCHANGED <<policyVars, watcherVars, draining>>

-----------------------------------------------------------------------------
(* PolicyWatcher                                                           *)

\* run() starts: subscribe() marks every earlier notification as seen.
Subscribe ==
    /\ wpc = "start"
    /\ wpc' = "waiting"
    /\ UNCHANGED <<drains, connVars, policyVars, todo, target, closing, draining>>

\* changed() returns, the notification is seen; then connections().
WakeUp ==
    /\ wpc = "waiting" /\ changed
    /\ changed' = FALSE
    /\ todo' = {k \in Ctxs : Tracked(k)}
    /\ wpc' = "sweeping"
    /\ UNCHANGED <<drains, connVars, allowed, target, closing, draining>>

\* One iteration of the loop over the snapshot: assert_rbac() on the context.
Evaluate(k) ==
    /\ wpc = "sweeping" /\ k \in todo
    /\ todo' = todo \ {k}
    /\ IF k \in allowed
         THEN UNCHANGED <<wpc, target>>
         ELSE wpc' = "denied" /\ target' = k
    /\ UNCHANGED <<drains, connVars, policyVars, closing, draining>>

\* Mutant: wait for the watchers before sending the signal.
CloseSilently ==
    /\ wpc = "denied"
    /\ Tracked(target)
    /\ drains' = [drains EXCEPT ![target] = NoDrain]
    /\ closing' = drains[target].chan
    /\ wpc' = "closing"
    /\ target' = NoCtx
    /\ UNCHANGED <<connVars, policyVars, todo, draining>>

\* close(): remove the entry, drop its own rx, signal the watchers.
Close ==
    /\ wpc = "denied"
    /\ Tracked(target)
    /\ drains' = [drains EXCEPT ![target] = NoDrain]
    /\ told' = told \cup Watchers(drains[target].chan)
    /\ closing' = drains[target].chan
    /\ wpc' = "closing"
    /\ target' = NoCtx
    /\ UNCHANGED <<pc, ctx, watch, early, policyVars, todo, draining>>

\* close() of a context that was released since the snapshot: only logged.
CloseNothing ==
    /\ wpc = "denied"
    /\ ~Tracked(target)
    /\ wpc' = "sweeping"
    /\ target' = NoCtx
    /\ UNCHANGED <<drains, connVars, policyVars, todo, closing, draining>>

\* start_drain_and_wait() returns once every watcher of the channel is dropped.
CloseWait ==
    /\ wpc = "closing"
    /\ \A c \in Conns : watch[c] = closing => pc[c] = "releasing"
    /\ wpc' = "sweeping"
    /\ closing' = NoChan
    /\ UNCHANGED <<drains, connVars, policyVars, todo, target, draining>>

\* Mutant: notifications that arrived during the sweep are marked as seen.
SweepDoneMarksSeen ==
    /\ wpc = "sweeping" /\ todo = {}
    /\ wpc' = "waiting"
    /\ changed' = FALSE
    /\ UNCHANGED <<drains, connVars, allowed, todo, target, closing, draining>>

SweepDone ==
    /\ wpc = "sweeping" /\ todo = {}
    /\ wpc' = "waiting"
    /\ UNCHANGED <<drains, connVars, policyVars, todo, target, closing, draining>>

\* The select! arm of the drain; never taken in the middle of a sweep.
Stop ==
    /\ wpc = "waiting" /\ draining
    /\ wpc' = "stopped"
    /\ UNCHANGED <<drains, connVars, policyVars, todo, target, closing, draining>>

-----------------------------------------------------------------------------
(* Environment                                                             *)

\* An XDS handler changes policies or bindings and calls policies.send(), both
\* under the state's write lock.  Only an existing receiver is notified.
UpdatePolicy ==
    /\ allowed' \in SUBSET Ctxs
    /\ changed' = (wpc # "start")
    /\ UNCHANGED <<drains, connVars, watcherVars, draining>>

\* The proxy is asked to drain.
StartDrain ==
    /\ ~draining
    /\ draining' = TRUE
    /\ UNCHANGED <<drains, connVars, policyVars, watcherVars>>

-----------------------------------------------------------------------------
ConnStep(c) ==
    \/ AssertRbac(c) \/ Reject(c)
    \/ GuardDrop(c) \/ TakeWatcher(c)
    \/ GuardRelease(c) \/ LateRejection(c)

WatcherStep ==
    \/ Subscribe \/ WakeUp
    \/ \E k \in Ctxs : Evaluate(k)
    \/ Close \/ CloseNothing \/ CloseWait
    \/ SweepDone \/ Stop

Next ==
    \/ \E c \in Conns, k \in Ctxs : Register(c, k)
    \/ \E c \in Conns : ConnStep(c) \/ Finish(c) \/ Cancel(c)
    \/ WatcherStep
    \/ UpdatePolicy
    \/ StartDrain

\* Tokio polls every runnable task.  GuardDrop or TakeWatcher comes within
\* CONNECTION_TIMEOUT; how long a connection serves (Finish) is up to its peers.
Fairness ==
    /\ \A c \in Conns : WF_vars(ConnStep(c))
    /\ WF_vars(WatcherStep)

Spec == Init /\ [][Next]_vars /\ Fairness

-----------------------------------------------------------------------------
(* Properties                                                              *)

\* Admitted, and not yet told to stop.
Live(c) == pc[c] \in {"guarded", "serving"} /\ c \notin told

\* Once the PolicyWatcher is back waiting and has no notification left, every
\* connection that is still proxied is allowed by the policy of this moment, in
\* whatever order registrations, evaluations, releases and policy changes came
\* (the purpose of registering before asserting in assert_rbac).  Connections
\* admitted before the watcher subscribed are exempt: a change between their
\* admission and Subscribe notifies nobody.
NoStaleAllow ==
    (wpc = "waiting" /\ ~changed) =>
        \A c \in Conns \ early : Live(c) => ctx[c] \in allowed

\* A listening connection is always reachable through the map: the entry of its
\* context holds the very channel it listens to, so close() cannot miss it.
LiveIsTracked ==
    \A c \in Conns :
        (pc[c] \notin {"idle", "releasing", "gone"} /\ c \notin told)
            => drains[ctx[c]].chan = watch[c]

\* What NoStaleAllow needs to be inductive.  A live connection is allowed, or
\* the watcher still has to look at its context: a notification is unseen, the
\* context is in the rest of the snapshot, or it is the one about to be closed.
SweepCovers ==
    \A c \in Conns \ early : Live(c) =>
        \/ ctx[c] \in allowed
        \/ changed
        \/ ctx[c] \in todo
        \/ wpc = "denied" /\ target = ctx[c]
        \/ wpc = "stopped"

PcConsistent ==
    /\ \A c \in Conns : pc[c] \notin {"idle", "gone"} => ctx[c] \in Ctxs /\ watch[c] \in Chans
    /\ wpc = "denied" => target \in Ctxs
    /\ wpc \in {"start", "waiting"} => todo = {}
    /\ wpc = "start" => {c \in Conns : pc[c] \in {"guarded", "serving"}} \subseteq early

\* The inductive invariant behind NoStaleAllow and LiveIsTracked: where the
\* assert_rbac, guard and watcher code stands, and what is still to be evaluated.
EnforcementInv == PcConsistent /\ LiveIsTracked /\ SweepCovers

\* Until the proxy drains, the counter of an entry never exceeds the
\* connections that registered on it and have not released: release() always
\* gets to remove the entry, and the map does not grow for ever.
NoLeakedEntry ==
    ~draining =>
        \A k \in Ctxs : Tracked(k) =>
            /\ drains[k].count >= 1
            /\ drains[k].count <= Cardinality({c \in Conns : watch[c] = drains[k].chan})

\* Enforcement ends: a proxied connection whose context the policy denies is
\* terminated, unless the policy allows it again or the proxy drains (the watcher
\* then stops), and close() returns, so that no connection can hold up the watcher,
\* and with it the enforcement for all others, for ever.
DeniedIsClosed ==
    /\ \A c \in Conns : \A k \in Ctxs :
        []<>(pc[c] = "serving" /\ ctx[c] = k /\ c \notin early => k \in allowed \/ draining)
    /\ []<>(wpc # "closing")
=============================================================================
