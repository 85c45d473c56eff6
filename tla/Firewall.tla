------------------------------ MODULE Firewall ------------------------------
\* The firewall controllers: InpodFirewallController (firewall/inpod.rs) for
\* the pods of a node and FirewallController (firewall/dedicated.rs) for the
\* pod ztunnel runs in, with the calls they make to the netfilter backend
\* (nft.rs, ipt.rs) and the choice of the backend (detect.rs).  What a rule
\* set means is in Netfilter; here it is a name, and the hash of the policies
\* is the rule set they resolve to.
EXTENDS Integers, Sequences, FiniteSets, FiniteSetsExt, SequencesExt

CONSTANTS
    Pods,
    Gens,                \* a pod's sandbox may be recreated with another netns
    RuleSets,            \* what the policies of a workload can resolve to
    NoRules,             \* an empty chain
    NoWorkload,          \* the workload is not in the xDS state
    Zero,                \* last_policy_hash of a pod without applied rules
    NoPod, NoJob,
    Hosts,               \* the netfilter tools that may be installed
    MaxInitRetries,      \* MAX_INIT_RETRIES (5)
    MaxChanges, MaxFaults   \* bounds of the environment

\* The values that stand for none are no values, and a plain iptables is one of
\* the other two.
ASSUME FirewallAssumption ==
    /\ Pods # {} /\ Gens # {} /\ RuleSets # {} /\ MaxInitRetries \in Nat
    /\ NoWorkload \notin RuleSets /\ Zero \notin RuleSets
    /\ NoJob \notin Pods \X Gens
    /\ NoPod \notin [ns : Pods \X Gens, hash : RuleSets \cup {Zero}, state : {"Enrolled", "PendingWorkload", "InitFailed"}, retries : Nat]
    /\ Hosts \subseteq [nft : BOOLEAN, legacy : BOOLEAN, compat : BOOLEAN, plain : {"none", "legacy", "compat"}]

VARIABLES
    proxyMode,  \* "inpod" or "dedicated"
    host,       \* the installed tools
    kind,       \* the backend detected
    stranded,   \* history: netns in which a start chose iptables beside nftables rules
    want,       \* resolve_workload_firewall: the current rules of a pod's workload
    polNote,    \* the policies have changed since the controller last looked
    wlNote,     \* a workload was inserted since the controller last looked
    events,     \* FirewallEvents sent by the workload manager
    home,       \* the netns last reported for a pod, or none
    podStates,  \* the controller's map of PodFirewallState
    pc, back,   \* what the controller awaits, and where a pod event returns to
    jobs, done, \* applies computed under the state's lock; those that succeeded
    retrying, cur,  \* pods left to retry, and the pod whose rules are being applied
    hooked,     \* the jumps to our chains per netns and kind
    table,      \* the rules in our chains per netns, kind and direction
    late,       \* applies that timed out and whose process still runs
    tainted,    \* netns in which such a process finished last
    missed,     \* pods whose latest apply failed
    leftover,   \* netns whose cleanup failed
    changes, faults

env == <<proxyMode, host, kind, stranded>>
kernel == <<hooked, table, late, tainted, leftover>>
control == <<pc, back, jobs, done, retrying, cur>>
firewallVars == <<env, want, polNote, wlNote, events, home, podStates, control, kernel, missed, changes, faults>>

PodNetns == Pods \X Gens
Self == CHOOSE p \in Pods : TRUE           \* the pod a dedicated ztunnel runs in
Own  == <<Self, CHOOSE g \in Gens : TRUE>>
Directions == {"Inbound", "Outbound"}
Kinds == {"nft", "legacy", "compat"}   \* native nft, and the tables of the two iptables

-----------------------------------------------------------------------------
(* Detection of the backend                                                *)

\* probe_iptables: an installed variant and whether it has our chains.  A
\* plain iptables is a link to one of the other two.
Probe(h, variant, exists) ==
    IF variant = "plain" THEN (IF h.plain = "none" THEN {} ELSE {[table |-> h.plain, exists |-> exists[h.plain]]})
    ELSE IF h[variant] THEN {[table |-> variant, exists |-> exists[variant]]} ELSE {}

ChooseIptablesVariant(h, exists) ==
    LET legacy == Probe(h, "legacy", exists)
    IN IF \E v \in legacy : v.exists THEN legacy
       ELSE IF Probe(h, "compat", exists) # {} THEN Probe(h, "compat", exists)
       ELSE IF Probe(h, "plain", exists) # {} THEN Probe(h, "plain", exists)
       ELSE legacy

\* A detection that does not look for existing rules.
DetectBackendBlind(h, exists, isAuto, dedicated) ==
    LET ipt == ChooseIptablesVariant(h, exists)
    IN IF isAuto /\ h.nft THEN {"nft"} ELSE {v.table : v \in ipt}

\* Existing rules force iptables in a dedicated ztunnel; nft is preferred
\* otherwise.  The empty set is the error.
DetectBackend(h, exists, isAuto, dedicated) ==
    LET ipt == ChooseIptablesVariant(h, exists)
    IN IF dedicated /\ \E v \in ipt : v.exists THEN {v.table : v \in ipt}
       ELSE IF isAuto /\ h.nft THEN {"nft"}
       ELSE {v.table : v \in ipt}

-----------------------------------------------------------------------------
(* The backend                                                             *)

Empty == [d \in Directions |-> NoRules]
Full(r) == [d \in Directions |-> r]

\* do_init creates a chain and a jump per direction and stops at the first
\* failure; what exists already is left.  nftables has no init.
InitDone(ns) == [hooked EXCEPT ![ns][kind] = IF kind = "nft" THEN hooked[ns][kind] ELSE Directions]
InitBroken(ns) == {[hooked EXCEPT ![ns][kind] = hooked[ns][kind] \cup part] : part \in {{}, {"Inbound"}}}

CanFault == faults < MaxFaults
Fault == CanFault /\ faults' = faults + 1

Applied(ns, r) ==
    /\ table' = [table EXCEPT ![ns][kind] = Full(r)]
    /\ hooked' = [hooked EXCEPT ![ns][kind] = IF kind = "nft" THEN Directions ELSE hooked[ns][kind]]
    /\ tainted' = tainted \ {ns}
    /\ UNCHANGED <<late, leftover, faults>>

\* apply fails: the script is rejected as a whole, or 30 seconds pass and the
\* child process, which nobody kills, may still finish.
ApplyFails(ns, r) ==
    /\ Fault
    /\ late' \in {late, late \cup {[ns |-> ns, kind |-> kind, rules |-> r]}}
    /\ UNCHANGED <<hooked, table, tainted, leftover>>

LateApply ==
    \E l \in late :
        /\ late' = late \ {l}
        /\ table' = [table EXCEPT ![l.ns][l.kind] = Full(l.rules)]
        /\ hooked' = [hooked EXCEPT ![l.ns][l.kind] = IF l.kind = "nft" THEN Directions ELSE hooked[l.ns][l.kind]]
        /\ tainted' = tainted \cup {l.ns}
        /\ UNCHANGED <<env, home, want, polNote, wlNote, events, podStates, control, missed, leftover, changes, faults>>

\* A cleanup that forgets the outbound chain.
CleanupInbound(ns) ==
    /\ table' = [table EXCEPT ![ns][kind]["Inbound"] = NoRules]
    /\ leftover' = leftover \ {ns}
    /\ UNCHANGED <<hooked, late, tainted, faults>>

\* cleanup flushes the chain of each direction; a failure is only logged.
Cleanup(ns) ==
    /\ \/ /\ table' = [table EXCEPT ![ns][kind] = Empty]
          /\ leftover' = leftover \ {ns}
          /\ faults' = faults
       \/ /\ Fault
          /\ \E d \in Directions : table' = [table EXCEPT ![ns][kind][d] = NoRules]
          /\ leftover' = leftover \cup {ns}
    /\ UNCHANGED <<hooked, late, tainted>>

-----------------------------------------------------------------------------
FirewallInit ==
    /\ proxyMode \in {"inpod", "dedicated"}
    /\ host \in Hosts
    /\ \E isAuto \in BOOLEAN :
          kind \in DetectBackend(host, [k \in Kinds |-> FALSE], isAuto, proxyMode = "dedicated")
    /\ stranded = {}
    /\ want \in {[p \in Pods |-> w] : w \in {NoWorkload, CHOOSE r \in RuleSets : TRUE}}
    /\ polNote = FALSE /\ wlNote = FALSE
    /\ events = <<>> /\ home = [p \in Pods |-> NoJob]
    /\ podStates = [p \in Pods |-> NoPod]
    /\ pc = IF proxyMode = "inpod" THEN "select" ELSE "boot"
    /\ back = "select"
    /\ jobs = {} /\ done = {} /\ retrying = {} /\ cur = NoJob
    /\ hooked = [n \in PodNetns |-> [k \in Kinds |-> {}]]
    /\ table = [n \in PodNetns |-> [k \in Kinds |-> Empty]]
    /\ late = {} /\ tainted = {} /\ missed = {} /\ leftover = {}
    /\ changes = 0 /\ faults = 0

\* The environment: xDS changes what a pod's workload resolves to and tells
\* the watchers (xds.rs; PolicyState shows that every such change is told).
\* The controller holds no lock while it applies.
StateChanges(ps, r) ==
    /\ changes < MaxChanges
    /\ proxyMode = "dedicated" => ps = {Self}
    /\ \A p \in ps : want[p] # r
    /\ want' = [p \in Pods |-> IF p \in ps THEN r ELSE want[p]]
    /\ polNote' = TRUE
    /\ wlNote' = (wlNote \/ (proxyMode = "inpod" /\ \E p \in ps : want[p] = NoWorkload))
    /\ changes' = changes + 1
    /\ UNCHANGED <<env, home, events, podStates, control, kernel, missed, faults>>

\* The workload manager reports pods (statemanager.rs send_fw_event).
PodEvent(e) ==
    /\ proxyMode = "inpod" /\ pc # "drained"
    /\ changes < MaxChanges
    /\ changes' = changes + 1
    /\ events' = Append(events, e)
    /\ home' = [home EXCEPT ![e.pod] = e.ns]
    /\ UNCHANGED <<env, want, polNote, wlNote, podStates, control, kernel, missed, faults>>

-----------------------------------------------------------------------------
(* Pod lifecycle (inpod.rs)                                                *)

Listening == proxyMode = "inpod" /\ pc \in {"select", "debounce"}
Job(p, ns, r) == [pod |-> p, ns |-> ns, rules |-> r]
Retryable == {p \in Pods : podStates[p] # NoPod /\ podStates[p].state = "InitFailed" /\ podStates[p].retries < MaxInitRetries}

\* handle_add_pod without the comparison of the netns.
HandleAddPodByUid ==
    LET e == Head(events) IN
    /\ Listening /\ events # <<>> /\ e.ns # NoJob
    /\ events' = Tail(events)
    /\ IF podStates[e.pod] # NoPod THEN UNCHANGED <<podStates, control, kernel, missed, faults>>
       ELSE /\ pc' = "init" /\ back' = pc /\ cur' = Job(e.pod, e.ns, NoRules)
            /\ missed' = missed \ {e.pod}
            /\ UNCHANGED <<podStates, jobs, done, retrying, kernel, faults>>
    /\ UNCHANGED <<env, home, want, polNote, wlNote, changes>>

\* handle_add_pod: a known netns is skipped, another one replaces it, which
\* cleans the old one first.
HandleAddPod ==
    LET e == Head(events) IN
    /\ Listening /\ events # <<>> /\ e.ns # NoJob
    /\ events' = Tail(events)
    /\ IF podStates[e.pod] # NoPod /\ podStates[e.pod].ns = e.ns
       THEN UNCHANGED <<podStates, control, kernel, missed, faults>>
       ELSE /\ podStates' = [podStates EXCEPT ![e.pod] = NoPod]
            /\ IF podStates[e.pod] # NoPod THEN Cleanup(podStates[e.pod].ns) ELSE UNCHANGED <<kernel, faults>>
            /\ pc' = "init" /\ back' = pc /\ cur' = Job(e.pod, e.ns, NoRules)
            /\ missed' = missed \ {e.pod}
            /\ UNCHANGED <<jobs, done, retrying>>
    /\ UNCHANGED <<env, home, want, polNote, wlNote, changes>>

HandleRemovePod ==
    LET e == Head(events) IN
    /\ Listening /\ events # <<>> /\ e.ns = NoJob
    /\ events' = Tail(events)
    /\ IF podStates[e.pod] = NoPod THEN UNCHANGED <<kernel, faults>> ELSE Cleanup(podStates[e.pod].ns)
    /\ podStates' = [podStates EXCEPT ![e.pod] = NoPod]
    /\ missed' = missed \ {e.pod}
    /\ UNCHANGED <<env, home, want, polNote, wlNote, control, changes>>

\* What a pod becomes when try_init_and_apply returns: a new entry, or in a
\* retry the old one, whose failures are counted.
Settle(st, hash) ==
    LET p == cur.pod
        retries == IF podStates[p] # NoPod /\ st = "InitFailed" THEN podStates[p].retries + 1 ELSE 0
    IN /\ podStates' = [podStates EXCEPT ![p] = [ns |-> cur.ns, hash |-> hash, state |-> st, retries |-> retries]]
       /\ cur' = NoJob
       /\ pc' = IF retrying = {} THEN back ELSE "retry"
       /\ UNCHANGED <<back, jobs, done, retrying>>

\* try_init_and_apply: init, then the rules are looked up under the lock ...
InitFails ==
    /\ pc = "init" /\ kind # "nft"
    /\ Fault
    /\ hooked' \in InitBroken(cur.ns)
    /\ IF proxyMode = "dedicated" THEN pc' = "stopped" /\ UNCHANGED <<podStates, back, jobs, done, retrying, cur>>
       ELSE Settle("InitFailed", Zero)
    /\ UNCHANGED <<env, home, want, polNote, wlNote, events, table, late, tainted, leftover, missed, changes>>

InitWithoutWorkload ==
    /\ proxyMode = "inpod" /\ pc = "init" /\ want[cur.pod] = NoWorkload
    /\ hooked' = InitDone(cur.ns)
    /\ Settle("PendingWorkload", Zero)
    /\ UNCHANGED <<env, home, want, polNote, wlNote, events, table, late, tainted, leftover, missed, changes, faults>>

InitResolves ==
    /\ proxyMode = "inpod" /\ pc = "init" /\ want[cur.pod] # NoWorkload
    /\ hooked' = InitDone(cur.ns)
    /\ cur' = [cur EXCEPT !.rules = want[cur.pod]]
    /\ pc' = "apply"
    /\ UNCHANGED <<env, home, want, polNote, wlNote, events, podStates, back, jobs, done, retrying, table, late, tainted, leftover, missed, changes, faults>>

\* ... and applied after it is released.
ApplyInit ==
    /\ proxyMode = "inpod" /\ pc = "apply"
    /\ \/ Applied(cur.ns, cur.rules) /\ Settle("Enrolled", cur.rules)
       \/ ApplyFails(cur.ns, cur.rules) /\ Settle("InitFailed", Zero)
    /\ UNCHANGED <<env, home, want, polNote, wlNote, events, missed, changes>>

-----------------------------------------------------------------------------
(* Policy changes, workload insertions and retries (inpod.rs)              *)

\* debounce_and_rebuild: more changes extend the wait, up to a maximum.
SeePolicies ==
    /\ Listening /\ polNote
    /\ polNote' = FALSE
    /\ pc' = "debounce"
    /\ UNCHANGED <<env, home, want, wlNote, events, podStates, back, jobs, done, retrying, cur, kernel, missed, changes, faults>>

Resolved(p) == Job(p, podStates[p].ns, want[p])

\* Debouncer::wait: some time without a change has passed, or the maximum.
DebounceOver == pc = "debounce"

\* rebuild_all_pods: the pods whose hash differs, computed under the lock.
RebuildAllPods ==
    LET due == {p \in Pods : /\ podStates[p] # NoPod /\ podStates[p].state # "InitFailed"
                             /\ want[p] # NoWorkload /\ want[p] # podStates[p].hash}
    IN /\ proxyMode = "inpod" /\ DebounceOver
       /\ jobs' = {Resolved(p) : p \in due}
       /\ done' = {}
       /\ pc' = IF due = {} THEN "select" ELSE "rebuild"
       /\ UNCHANGED <<env, home, want, polNote, wlNote, events, podStates, back, retrying, cur, kernel, missed, changes, faults>>

\* The applies run concurrently and end in any order.
RebuildApply(j) ==
    /\ pc = "rebuild" /\ j \in jobs
    /\ jobs' = jobs \ {j}
    /\ \/ Applied(j.ns, j.rules) /\ done' = done \cup {j} /\ missed' = missed \ {j.pod}
       \/ ApplyFails(j.ns, j.rules) /\ done' = done /\ missed' = missed \cup {j.pod}
    /\ UNCHANGED <<env, home, want, polNote, wlNote, events, podStates, pc, back, retrying, cur, changes>>

Enrol(entry, r) == [entry EXCEPT !.hash = r, !.state = "Enrolled"]

\* The results are recorded when all are in; a failure leaves the old hash.
RebuildCommit ==
    /\ pc = "rebuild" /\ jobs = {}
    /\ podStates' = [p \in Pods |-> IF \E j \in done : j.pod = p
                               THEN Enrol(podStates[p], (CHOOSE j \in done : j.pod = p).rules) ELSE podStates[p]]
    /\ done' = {}
    /\ pc' = "select"
    /\ UNCHANGED <<env, home, want, polNote, wlNote, events, back, jobs, retrying, cur, kernel, missed, changes, faults>>

\* A rebuild that does not mark the insertion as seen.
RebuildPendingUnseen ==
    LET due == {p \in Pods : podStates[p] # NoPod /\ podStates[p].state = "PendingWorkload" /\ want[p] # NoWorkload}
    IN /\ proxyMode = "inpod" /\ pc = "select" /\ wlNote
       /\ jobs' = {Resolved(p) : p \in due}
       /\ pc' = IF due = {} THEN "select" ELSE "pending"
       /\ UNCHANGED <<env, home, want, polNote, wlNote, events, podStates, back, done, retrying, cur, kernel, missed, changes, faults>>

\* rebuild_pending_workload_pods, on any insertion of a workload.
RebuildPending ==
    LET due == {p \in Pods : podStates[p] # NoPod /\ podStates[p].state = "PendingWorkload" /\ want[p] # NoWorkload}
    IN /\ proxyMode = "inpod" /\ pc = "select" /\ wlNote
       /\ wlNote' = FALSE
       /\ jobs' = {Resolved(p) : p \in due}
       /\ pc' = IF due = {} THEN "select" ELSE "pending"
       /\ UNCHANGED <<env, home, want, polNote, events, podStates, back, done, retrying, cur, kernel, missed, changes, faults>>

PendingApply(j) ==
    /\ pc = "pending" /\ j \in jobs
    /\ jobs' = jobs \ {j}
    /\ pc' = IF jobs = {j} THEN "select" ELSE pc
    /\ \/ Applied(j.ns, j.rules) /\ podStates' = [podStates EXCEPT ![j.pod] = Enrol(podStates[j.pod], j.rules)] /\ missed' = missed \ {j.pod}
       \/ ApplyFails(j.ns, j.rules) /\ podStates' = podStates /\ missed' = missed \cup {j.pod}
    /\ UNCHANGED <<env, home, want, polNote, wlNote, events, back, done, retrying, cur, changes>>

\* retry_init_failed_pods, at every tick while has_retryable_pods.
RetryTick ==
    /\ proxyMode = "inpod" /\ pc = "select" /\ Retryable # {}
    /\ retrying' = Retryable
    /\ pc' = "retry" /\ back' = "select"
    /\ UNCHANGED <<env, home, want, polNote, wlNote, events, podStates, jobs, done, cur, kernel, missed, changes, faults>>

RetryPod(p) ==
    /\ pc = "retry" /\ p \in retrying
    /\ retrying' = retrying \ {p}
    /\ cur' = Job(p, podStates[p].ns, NoRules)
    /\ pc' = "init"
    /\ UNCHANGED <<env, home, want, polNote, wlNote, events, podStates, back, jobs, done, kernel, missed, changes, faults>>

-----------------------------------------------------------------------------
(* FirewallController (dedicated.rs): one netns, its own                   *)

LastHash == IF podStates[Self] = NoPod THEN Zero ELSE podStates[Self].hash

Boot ==
    /\ pc = "boot"
    /\ cur' = Job(Self, Own, NoRules) /\ pc' = "init"
    /\ UNCHANGED <<env, home, want, polNote, wlNote, events, podStates, back, jobs, done, retrying, kernel, missed, changes, faults>>

\* run: after init the policies are subscribed to, then resolved.
Resolve ==
    /\ proxyMode = "dedicated" /\ pc = "init"
    /\ hooked' = InitDone(Own)
    /\ polNote' = FALSE
    /\ IF want[Self] = NoWorkload THEN pc' = "select" /\ cur' = NoJob
       ELSE pc' = "own" /\ cur' = Job(Self, Own, want[Self])
    /\ UNCHANGED <<env, home, want, wlNote, events, podStates, back, jobs, done, retrying, table, late, tainted, leftover, missed, changes, faults>>

SeeOwnPolicies ==
    /\ proxyMode = "dedicated" /\ pc \in {"select", "debounce"} /\ polNote
    /\ polNote' = FALSE
    /\ pc' = "debounce"
    /\ UNCHANGED <<env, home, want, wlNote, events, podStates, back, jobs, done, retrying, cur, kernel, missed, changes, faults>>

RebuildOwn ==
    /\ proxyMode = "dedicated" /\ DebounceOver
    /\ IF want[Self] \in {NoWorkload, LastHash} THEN pc' = "select" /\ cur' = NoJob
       ELSE pc' = "own" /\ cur' = Job(Self, Own, want[Self])
    /\ UNCHANGED <<env, home, want, polNote, wlNote, events, podStates, back, jobs, done, retrying, kernel, missed, changes, faults>>

ApplyOwn ==
    /\ pc = "own"
    /\ \/ /\ Applied(Own, cur.rules)
          /\ podStates' = [podStates EXCEPT ![Self] = [ns |-> Own, hash |-> cur.rules, state |-> "Enrolled", retries |-> 0]]
          /\ missed' = missed \ {Self}
       \/ ApplyFails(Own, cur.rules) /\ podStates' = podStates /\ missed' = missed \cup {Self}
    /\ pc' = "select" /\ cur' = NoJob
    /\ UNCHANGED <<env, home, want, polNote, wlNote, events, back, jobs, done, retrying, changes>>

\* Drain: a dedicated ztunnel cleans up, the rules of pods stay in place.
Drain ==
    /\ pc \in {"select", "debounce"}
    /\ pc' = "drained"
    /\ IF proxyMode = "dedicated" THEN Cleanup(Own) ELSE UNCHANGED <<kernel, faults>>
    /\ UNCHANGED <<env, home, want, polNote, wlNote, events, podStates, back, jobs, done, retrying, cur, missed, changes>>

\* A dedicated ztunnel that crashed, or was drained, starts again in the same
\* netns, with either backend mode; the tools are the same.  Its xDS state is
\* empty, the tables are not, and a process of its former life may still run.
Restart ==
    /\ proxyMode = "dedicated" /\ changes < MaxChanges
    /\ changes' = changes + 1
    /\ \E isAuto \in BOOLEAN :
          kind' \in DetectBackend(host, [k \in Kinds |-> hooked[Own][k] # {}], isAuto, TRUE)
    /\ stranded' = stranded \cup {n \in {Own} : kind' # "nft" /\ (table[n]["nft"] # Empty \/ \E l \in late : l.kind = "nft")}
    /\ podStates' = [p \in Pods |-> NoPod]
    /\ pc' = "boot" /\ cur' = NoJob
    /\ want' = [p \in Pods |-> NoWorkload]
    /\ polNote' = FALSE /\ missed' = {}
    /\ UNCHANGED <<proxyMode, host, home, wlNote, events, back, jobs, done, retrying, kernel, faults>>

Controller ==
    \/ HandleAddPod \/ HandleRemovePod
    \/ InitFails \/ InitWithoutWorkload \/ InitResolves \/ ApplyInit
    \/ SeePolicies \/ RebuildAllPods \/ RebuildCommit
    \/ \E j \in jobs : RebuildApply(j) \/ PendingApply(j)
    \/ RebuildPending \/ RetryTick
    \/ \E p \in retrying : RetryPod(p)
    \/ Boot \/ Resolve \/ SeeOwnPolicies \/ RebuildOwn \/ ApplyOwn

FirewallNext ==
    \/ Controller
    \/ \E ps \in (SUBSET Pods) \ {{}}, r \in RuleSets \cup {NoWorkload} : StateChanges(ps, r)
    \/ \E p \in Pods : \E n \in ({p} \X Gens) \cup {NoJob} : PodEvent([pod |-> p, ns |-> n])
    \/ LateApply \/ Drain \/ Restart

\* The controller's task is scheduled and its calls return (the applies have a
\* timeout); nothing is assumed of xDS, of pods or of a late process.
FirewallSpec == FirewallInit /\ [][FirewallNext]_firewallVars /\ WF_firewallVars(Controller)

-----------------------------------------------------------------------------
(* Properties                                                              *)

Quiet == pc = "select" /\ events = <<>> /\ ~polNote /\ ~wlNote /\ Retryable = {}

InForce(ns, r) == \A d \in Directions : table[ns][kind][d] = r /\ d \in hooked[ns][kind]

\* When the controller has nothing left to do, every pod reported to it
\* enforces, in its present netns, the current rules of its workload in both
\* directions; the only exceptions
\* are a pod given up after MAX_INIT_RETRIES, one whose latest apply failed,
\* and one whose rules a timed out process replaced.  No change made while
\* rules were computed, applied or retried is lost.
CurrentAtRest ==
    Quiet =>
        /\ \A p \in Pods :
              /\ home[p] # NoJob => podStates[p] # NoPod /\ podStates[p].ns = home[p]
              /\ home[p] # NoJob =>
                \/ p \in missed \/ podStates[p].ns \in tainted
                \/ podStates[p].state = "InitFailed" /\ podStates[p].retries = MaxInitRetries
                \/ want[p] = NoWorkload
                \/ podStates[p].state = "Enrolled" /\ InForce(podStates[p].ns, want[p])
        /\ proxyMode = "dedicated" /\ want[Self] # NoWorkload =>
              Self \in missed \/ Own \in tainted \/ InForce(Own, want[Self])

\* Rules stay only in the netns of known pods: what a pod left, by removal, by
\* a new netns or by the drain of a dedicated ztunnel, is flushed unless the
\* flush itself failed or a timed out apply came after it.
NothingLeftBehind ==
    /\ proxyMode = "inpod" /\ pc = "select" =>
          \A n \in PodNetns : table[n][kind] # Empty =>
              n \in leftover \cup tainted \/ \E p \in Pods : podStates[p] # NoPod /\ podStates[p].ns = n
    /\ proxyMode = "dedicated" /\ pc = "drained" =>
          table[Own][kind] = Empty \/ Own \in leftover \cup tainted

\* Rules of two backends are not in force together, through crashes, restarts
\* and changes of the mode: iptables rules, of either variant, are found again and
\* kept to ("existing iptables rules in the current netns force iptables to avoid
\* mixing backends", detect_backend).  nftables rules are not looked for: a start
\* with the iptables mode leaves them beside its own, and that is the only way.
OneBackend ==
    \A n \in PodNetns :
        /\ Cardinality({k \in Kinds \ {"nft"} : table[n][k] # Empty}) <= 1
        /\ n \notin stranded => Cardinality({k \in Kinds : table[n][k] # Empty}) <= 1

\* The rules of the backend in use are those the state calls for and no others, at
\* rest and through failures, and no other backend has rules but those that a start
\* with another mode left: the three parts above (InPodFirewallController::run,
\* DedicatedFirewallController::run, detect_backend).
RulesCurrent == CurrentAtRest /\ NothingLeftBehind /\ OneBackend

\* The controller comes to rest: every event, change and retry is dealt with,
\* whatever fails on the way.
Settles == []<>(Quiet \/ pc \in {"stopped", "drained"})
=============================================================================
