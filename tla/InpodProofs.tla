---------------------------- MODULE InpodProofs ----------------------------
(***************************************************************************)
(* TLAPS proofs about WorkloadManager, for any sets of pods and network    *)
(* namespaces and any bounds: what the node agent adds takes effect, what  *)
(* it forgot does not run, the manager, the admin handler and the firewall *)
(* coordinator agree with the proxies there are, and the drain joins every *)
(* proxy (the contract of GracefulDrain); and about Firewall, which the     *)
(* manager tells of its pods: the rules in the kernel are the current ones *)
(* at rest, and none are left behind or beside those of another backend.   *)
(***************************************************************************)
EXTENDS WorkloadManager, Firewall, FiniteSetTheorems, SequenceTheorems, TLAPS

-----------------------------------------------------------------------------
(* The inductive invariant                                                 *)

AgentType ==
    /\ pods \in [Uids -> Netns \cup {None}]
    /\ told \in [Uids -> Netns \cup {None, "Kept", "Refused", "Stale"}]
    /\ due \subseteq Uids

TaskType ==
    /\ mode \in {"connecting", "reading", "starting", "retrying", "draining", "drained", "exited"}
    /\ busy \in [uid : Uids \cup {None}, netns : Netns \cup {None}, retry : BOOLEAN]
    /\ todo \in [Uids -> Netns \cup {None}]
    /\ pending \in [Uids -> Netns \cup {None}]
    /\ received \in BOOLEAN /\ names \subseteq Uids
    /\ timer \in BOOLEAN /\ ready \in BOOLEAN

ProxyType ==
    /\ states \in [Uids -> Ids \cup {None}]
    /\ alive \in [Ids -> Proxies \cup {None}]
    /\ draining \subseteq Ids
    /\ admin \in [Uids -> Counters \cup {None}]
    /\ fw \in [Uids -> Netns \cup {None}]

\* The proxy workload_states has for a pod runs, for this pod, and was not told
\* to end.
InService ==
    \A u \in Uids : states[u] # None =>
        /\ alive[states[u]] # None
        /\ alive[states[u]].uid = u /\ alive[states[u]].signal = "none"

\* Every proxy is in service or was told to end and will be joined.
Owned ==
    \A g \in Ids : alive[g] # None =>
        \/ states[alive[g].uid] = g /\ alive[g].signal = "none"
        \/ g \in draining /\ alive[g].signal = "Immediate"

\* Every proxy is one that the drain joins.
Joined ==
    \A g \in Ids : alive[g] # None => states[alive[g].uid] = g \/ g \in draining

ProxiesOf(a, u) == {g \in Ids : a[g] # None /\ a[g].uid = u}

CountOf(entry) == IF entry = None THEN 0 ELSE entry.count

\* The admin handler counts the proxies of a pod.
Counted ==
    \A u \in Uids : CountOf(admin[u]) = Cardinality(ProxiesOf(alive, u))

\* A pod in service or to be retried is under the firewall in that netns.
FwCovers ==
    \A u \in Uids :
        /\ states[u] # None => fw[u] = alive[states[u]].netns
        /\ pending[u] # None => fw[u] = pending[u]

ProxyInv ==
    /\ Working => InService /\ Owned /\ FwCovers
    /\ mode = "draining" => Joined
    /\ mode = "drained" => \A g \in Ids : alive[g] = None
    /\ Counted

\* The start the manager awaits is of a pod the agent told it about, in the
\* netns it told last, that has no proxy in service.
BusySound ==
    /\ mode # "starting" => busy = Idle
    /\ mode = "starting" =>
        /\ busy.uid \in Uids /\ busy.netns \in Netns
        /\ states[busy.uid] = None /\ todo[busy.uid] = None
        /\ told[busy.uid] # None
        /\ told[busy.uid] \in Netns => told[busy.uid] = busy.netns

\* A workload waits for its retry in one place, without a proxy in service, and
\* only if the agent told of it.
WaitingSound ==
    \A u \in Uids :
        /\ todo[u] # None =>
            /\ mode = "retrying" \/ (mode = "starting" /\ busy.retry)
            /\ pending[u] = None /\ states[u] = None /\ told[u] # None
        /\ pending[u] # None => states[u] = None /\ told[u] # None

\* Until the snapshot is complete, snapshot_names holds what the agent told of;
\* afterwards only that is in service.
NamesSound ==
    \A u \in Uids :
        /\ ~received => (u \in names <=> told[u] # None)
        /\ received /\ states[u] # None => told[u] # None

\* The netns a pod is served in, or waits to be served in.
Serves(u, n) ==
    \/ states[u] # None /\ alive[states[u]].netns = n
    \/ pending[u] = n \/ todo[u] = n
    \/ mode = "starting" /\ busy.uid = u /\ busy.netns = n

AddsServed == \A u \in Uids : told[u] \in Netns => Serves(u, told[u])

TaskInv == Working => BusySound /\ WaitingSound /\ NamesSound /\ AddsServed

ManagerInv == AgentType /\ TaskType /\ ProxyType /\ ProxyInv /\ TaskInv

-----------------------------------------------------------------------------
(* What the steps do to the proxies                                        *)

\* The proxies that run and the pods they run for are what they were.
SameProxies ==
    \A g \in Ids :
        /\ alive'[g] = None <=> alive[g] = None
        /\ alive[g] # None => alive'[g].uid = alive[g].uid /\ alive'[g].netns = alive[g].netns

\* While the same proxies run, the admin handler's counts stay right.
LEMMA CountKept ==
    ASSUME Counted, SameProxies, \A u \in Uids : CountOf(admin'[u]) = CountOf(admin[u])
    PROVE  Counted'
  <1> SUFFICES ASSUME NEW u \in Uids
               PROVE  CountOf(admin'[u]) = Cardinality(ProxiesOf(alive', u))
    BY DEF Counted, CountOf, ProxiesOf
  <1>1. ProxiesOf(alive', u) = ProxiesOf(alive, u)
    BY DEF ProxiesOf, SameProxies
  <1> QED
    BY <1>1 DEF Counted

\* shutdown_workload of some pods in service: their proxies are told to end and
\* will be joined, the others are left alone.
LEMMA ShutdownStep ==
    ASSUME ProxyType, InService, Owned, NEW us \in SUBSET Uids,
           \A u \in us : states[u] # None,
           states' \in [Uids -> Ids \cup {None}],
           \A u \in Uids : states'[u] = IF u \in us THEN None ELSE states[u],
           Shutdown(us, "Immediate")
    PROVE  /\ alive' \in [Ids -> Proxies \cup {None}] /\ draining' \subseteq Ids
           /\ InService' /\ Owned' /\ SameProxies
  <1>1. PICK gone : gone = {states[u] : u \in us}
    OBVIOUS
  <1>2. /\ \A u \in us : states[u] \in gone
        /\ \A g \in gone : \E u \in us : g = states[u]
        /\ gone \subseteq Ids
    BY <1>1 DEF ProxyType
  <1>3. \A g \in Ids : alive'[g] = IF g \in gone /\ alive[g] # None
                                     THEN [alive[g] EXCEPT !.signal = "Immediate"] ELSE alive[g]
    BY <1>1 DEF Shutdown
  <1>4. alive' \in [Ids -> Proxies \cup {None}]
    <2>1. \A g \in Ids : alive'[g] \in Proxies \cup {None}
      BY <1>3 DEF ProxyType, Proxies
    <2>2. alive' = [g \in Ids |-> alive'[g]]
      BY DEF Shutdown
    <2> QED
      BY <2>1, <2>2
  <1>5. draining' \subseteq Ids /\ \A g \in Ids : alive[g] # None =>
                                    (g \in draining' <=> g \in draining \/ g \in gone)
    BY <1>1, <1>2 DEF Shutdown, ProxyType
  <1>6. \A g \in Ids : /\ alive'[g] = None <=> alive[g] = None
                       /\ alive[g] # None =>
                            /\ alive'[g].uid = alive[g].uid /\ alive'[g].netns = alive[g].netns
                            /\ alive'[g].signal = IF g \in gone THEN "Immediate" ELSE alive[g].signal
    <2> SUFFICES ASSUME NEW g \in Ids
                 PROVE  /\ alive'[g] = None <=> alive[g] = None
                        /\ alive[g] # None =>
                             /\ alive'[g].uid = alive[g].uid /\ alive'[g].netns = alive[g].netns
                             /\ alive'[g].signal = IF g \in gone THEN "Immediate" ELSE alive[g].signal
      OBVIOUS
    <2>1. alive[g] \in Proxies \cup {None}
      BY DEF ProxyType
    <2>2. CASE alive[g] = None
      BY <2>2, <1>3
    <2>3. CASE alive[g] # None
      <3>1. alive[g] \in Proxies
        BY <2>1, <2>3
      <3>2. [alive[g] EXCEPT !.signal = "Immediate"] \in Proxies
        BY <3>1 DEF Proxies
      <3>3. alive'[g] \in Proxies
        BY <3>1, <3>2, <1>3
      <3>4. alive'[g] # None
        BY <3>3, WorkloadManagerAssumption
      <3> QED
        BY <2>3, <3>1, <3>4, <1>3 DEF Proxies
    <2> QED
      BY <2>2, <2>3
  <1>7. InService'
    <2> SUFFICES ASSUME NEW u \in Uids, states'[u] # None
                 PROVE  /\ alive'[states'[u]] # None
                        /\ alive'[states'[u]].uid = u /\ alive'[states'[u]].signal = "none"
      BY DEF InService
    <2>1. u \notin us /\ states'[u] = states[u] /\ states[u] \in Ids
      BY DEF ProxyType
    <2>2. alive[states[u]] # None /\ alive[states[u]].uid = u /\ alive[states[u]].signal = "none"
      BY <2>1 DEF InService
    <2>3. states[u] \notin gone
      BY <2>1, <2>2, <1>2 DEF InService
    <2> QED
      BY <2>1, <2>2, <2>3, <1>6
  <1>8. Owned'
    <2> SUFFICES ASSUME NEW g \in Ids, alive'[g] # None
                 PROVE  \/ states'[alive'[g].uid] = g /\ alive'[g].signal = "none"
                        \/ g \in draining' /\ alive'[g].signal = "Immediate"
      BY DEF Owned
    <2>1. alive[g] # None /\ alive[g].uid \in Uids
      BY <1>6 DEF ProxyType, Proxies
    <2>2. CASE g \in gone
      BY <2>1, <2>2, <1>5, <1>6
    <2>3. CASE g \notin gone
      <3>1. CASE states[alive[g].uid] = g /\ alive[g].signal = "none"
        <4>1. alive[g].uid \notin us
          BY <2>1, <2>3, <3>1, <1>2
        <4> QED
          BY <2>1, <2>3, <3>1, <4>1, <1>6
      <3>2. CASE g \in draining /\ alive[g].signal = "Immediate"
        BY <2>1, <2>3, <3>2, <1>5, <1>6
      <3> QED
        BY <2>1, <3>1, <3>2 DEF Owned
    <2> QED
      BY <2>2, <2>3
  <1> QED
    BY <1>4, <1>5, <1>6, <1>7, <1>8 DEF SameProxies

\* del_workload_of a pod, whether it has a proxy or not.
LEMMA ReplaceStep ==
    ASSUME ProxyType, InService, Owned, NEW u \in Uids, NEW n, Replace(u, n)
    PROVE  /\ states' \in [Uids -> Ids \cup {None}] /\ alive' \in [Ids -> Proxies \cup {None}]
           /\ draining' \subseteq Ids /\ fw' \in [Uids -> Netns \cup {None}]
           /\ InService' /\ Owned' /\ SameProxies
           /\ \A v \in Uids : states'[v] = IF v = u THEN None ELSE states[v]
           /\ \A v \in Uids : fw'[v] = IF v = u /\ states[u] # None THEN None ELSE fw[v]
  <1>1. CASE states[u] = None
    BY <1>1 DEF Replace, SameProxies, InService, Owned, ProxyType
  <1>2. CASE states[u] # None
    <2>1. /\ states' = [states EXCEPT ![u] = None]
          /\ fw' = [fw EXCEPT ![u] = None]
          /\ Shutdown({u}, "Immediate")
      BY <1>2 DEF Replace
    <2>2. /\ states' \in [Uids -> Ids \cup {None}] /\ fw' \in [Uids -> Netns \cup {None}]
          /\ \A v \in Uids : states'[v] = IF v \in {u} THEN None ELSE states[v]
          /\ \A v \in Uids : fw'[v] = IF v = u THEN None ELSE fw[v]
      BY <2>1 DEF ProxyType
    <2>3. {u} \in SUBSET Uids /\ \A v \in {u} : states[v] # None
      BY <1>2
    <2>4. /\ alive' \in [Ids -> Proxies \cup {None}] /\ draining' \subseteq Ids
          /\ InService' /\ Owned' /\ SameProxies
      BY <2>1, <2>2, <2>3, ShutdownStep
    <2> QED
      BY <1>2, <2>2, <2>4
  <1> QED
    BY <1>1, <1>2

\* One proxy more or less of a pod.
LEMMA OneProxy ==
    ASSUME NEW a, NEW b, NEW g \in Ids, NEW u,
           \A h \in Ids : h # g => a[h] = b[h]
    PROVE  /\ Cardinality(ProxiesOf(a, u)) \in Nat /\ Cardinality(ProxiesOf(b, u)) \in Nat
           /\ a[g] = None /\ b[g] # None /\ b[g].uid = u =>
                Cardinality(ProxiesOf(b, u)) = Cardinality(ProxiesOf(a, u)) + 1
           /\ a[g] # None /\ b[g] = None /\ a[g].uid = u =>
                /\ Cardinality(ProxiesOf(b, u)) = Cardinality(ProxiesOf(a, u)) - 1
                /\ Cardinality(ProxiesOf(a, u)) >= 1
  <1> DEFINE S == ProxiesOf(a, u)
             T == ProxiesOf(b, u)
  <1>1. IsFiniteSet(Ids)
    BY WorkloadManagerAssumption, FS_Interval DEF Ids
  <1>2. IsFiniteSet(S) /\ IsFiniteSet(T)
    BY <1>1, FS_Subset DEF ProxiesOf
  <1>3. Cardinality(S) \in Nat /\ Cardinality(T) \in Nat
    BY <1>2, FS_CardinalityType
  <1>4. ASSUME a[g] = None, b[g] # None, b[g].uid = u
        PROVE  Cardinality(T) = Cardinality(S) + 1
    <2>1. T = S \cup {g} /\ g \notin S
      BY <1>4 DEF ProxiesOf
    <2> QED
      BY <2>1, <1>2, FS_AddElement
  <1>5. ASSUME a[g] # None, b[g] = None, a[g].uid = u
        PROVE  Cardinality(T) = Cardinality(S) - 1 /\ Cardinality(S) >= 1
    <2>1. T = S \ {g} /\ g \in S
      BY <1>5 DEF ProxiesOf
    <2>2. Cardinality(T) = Cardinality(S) - 1
      BY <2>1, <1>2, FS_RemoveElement
    <2> QED
      BY <2>2, <1>3
  <1> QED
    BY <1>3, <1>4, <1>5

\* A step that leaves the proxies, the admin handler and the firewall alone and
\* has nothing new to retry.
LEMMA QuietStep ==
    ASSUME ProxyType, ProxyInv, UNCHANGED proxyVars, Working' => Working,
           mode' = mode \/ mode' \notin {"draining", "drained"},
           \A u \in Uids : pending'[u] # None => pending'[u] = pending[u]
    PROVE  ProxyType' /\ ProxyInv'
  <1>1. ProxyType'
    BY DEF ProxyType, proxyVars
  <1>2. Working' => InService' /\ Owned' /\ FwCovers'
    BY DEF ProxyInv, proxyVars, InService, Owned, FwCovers
  <1>3. mode' = "draining" => Joined'
    BY DEF ProxyInv, proxyVars, Joined
  <1>4. mode' = "drained" => \A g \in Ids : alive'[g] = None
    BY DEF ProxyInv, proxyVars
  <1>5. Counted'
    BY DEF ProxyInv, proxyVars, Counted, CountOf, ProxiesOf
  <1> QED
    BY <1>1, <1>2, <1>3, <1>4, <1>5 DEF ProxyInv

-----------------------------------------------------------------------------
(* The steps keep the invariant                                            *)

\* The agent's cache changes and the process is told to drain.
LEMMA AgentStep ==
    ASSUME ManagerInv,
           \/ \E u \in Uids : PodDeleted(u) \/ \E n \in Netns : PodAdded(u, n)
           \/ DrainRequested
    PROVE  ManagerInv'
  <1> USE DEF ManagerInv
  <1>1. /\ UNCHANGED <<mode, busy, todo, pending, received, names, timer, ready>>
        /\ UNCHANGED proxyVars
    BY DEF PodDeleted, PodAdded, DrainRequested, snapVars
  <1>2. /\ AgentType'
        /\ \A u \in Uids : (told'[u] = None <=> told[u] = None)
                          /\ (told'[u] \in Netns => told'[u] = told[u])
    BY WorkloadManagerAssumption
       DEF PodDeleted, PodAdded, DrainRequested, agentVars, AgentType
  <1>3. TaskType'
    BY <1>1 DEF TaskType
  <1>4. ProxyType' /\ ProxyInv'
    BY <1>1, QuietStep DEF Working
  <1>5. TaskInv'
    <2> SUFFICES ASSUME Working PROVE BusySound' /\ WaitingSound' /\ NamesSound' /\ AddsServed'
      BY <1>1 DEF TaskInv, Working
    <2>1. UNCHANGED <<states, alive>>
      BY <1>1 DEF proxyVars
    <2>2. BusySound'
      BY <1>1, <1>2, <2>1 DEF TaskInv, BusySound
    <2>3. WaitingSound' /\ NamesSound'
      BY <1>1, <1>2, <2>1 DEF TaskInv, WaitingSound, NamesSound
    <2>4. AddsServed'
      BY <1>1, <1>2, <2>1 DEF TaskInv, AddsServed, Serves
    <2> QED
      BY <2>2, <2>3, <2>4
  <1> QED
    BY <1>2, <1>3, <1>4, <1>5

\* A proxy that was told to end ends: it is not one in service, and the admin
\* handler takes it off.
LEMMA ExitStep ==
    ASSUME ManagerInv, NEW g \in Ids, ProxyExits(g)
    PROVE  ManagerInv'
  <1> USE DEF ManagerInv, ProxyExits
  <1>1. PICK u \in Uids : u = alive[g].uid
    BY DEF ProxyType, Proxies
  <1>2. /\ alive' \in [Ids -> Proxies \cup {None}]
        /\ alive'[g] = None /\ \A h \in Ids : h # g => alive'[h] = alive[h]
        /\ UNCHANGED <<states, draining, fw, mode, busy, todo, pending, timer, ready>>
        /\ UNCHANGED <<pods, told, due, received, names>>
    BY DEF ProxyType, agentVars, snapVars
  <1>3. /\ Cardinality(ProxiesOf(alive, u)) \in Nat
        /\ Cardinality(ProxiesOf(alive', u)) = Cardinality(ProxiesOf(alive, u)) - 1
        /\ Cardinality(ProxiesOf(alive, u)) >= 1
    <2>1. alive[g] # None /\ alive'[g] = None /\ alive[g].uid = u
      BY <1>1, <1>2
    <2>2. \A h \in Ids : h # g => alive[h] = alive'[h]
      BY <1>2
    <2> QED
      BY ONLY g \in Ids, OneProxy, <2>1, <2>2
  <1>4. /\ CountOf(admin[u]) = Cardinality(ProxiesOf(alive, u))
        /\ admin[u] # None /\ admin[u] \in Counters
    BY <1>3 DEF ProxyInv, Counted, CountOf, ProxyType
  <1>5. /\ admin' = [v \in Uids |-> admin'[v]]
        /\ admin'[u] = IF admin[u].count = 1 THEN None
                       ELSE [admin[u] EXCEPT !.count = admin[u].count - 1]
        /\ \A v \in Uids : v # u => admin'[v] = admin[v]
    <2>1. ProxyDown(g) /\ admin \in [Uids -> Counters \cup {None}]
      BY DEF ProxyType
    <2>2. alive[g].uid \in Uids
      BY <1>1
    <2>3. admin'[alive[g].uid] = IF admin[alive[g].uid].count = 1 THEN None
                                 ELSE [admin[alive[g].uid] EXCEPT !.count = admin[alive[g].uid].count - 1]
      BY ONLY <2>1, <2>2 DEF ProxyDown
    <2>4. /\ admin' = [v \in Uids |-> admin'[v]]
          /\ \A v \in Uids : v # alive[g].uid => admin'[v] = admin[v]
      BY ONLY <2>1, <2>2 DEF ProxyDown
    <2> QED
      BY <1>1, <2>3, <2>4
  <1>6. /\ admin' \in [Uids -> Counters \cup {None}]
        /\ CountOf(admin'[u]) = CountOf(admin[u]) - 1
        /\ \A v \in Uids : v # u => admin'[v] = admin[v]
    <2>1. admin[u].count \in Nat /\ admin[u].count >= 1
      BY <1>3, <1>4 DEF CountOf, Counters
    <2>2. CASE admin[u].count = 1
      BY <2>2, <1>4, <1>5 DEF ProxyType, CountOf
    <2>3. CASE admin[u].count # 1
      <3>1. PICK r : r = [admin[u] EXCEPT !.count = admin[u].count - 1]
        OBVIOUS
      <3>2. r \in Counters /\ r.count = admin[u].count - 1
        BY <2>1, <2>3, <3>1, <1>4 DEF Counters
      <3>3. r # None
        BY <3>2, WorkloadManagerAssumption
      <3>4. admin'[u] = r
        BY <2>3, <3>1, <1>5
      <3> QED
        BY <3>2, <3>3, <3>4, <1>4, <1>5 DEF ProxyType, CountOf
    <2> QED
      BY <2>2, <2>3
  <1>7. Counted'
    <2> SUFFICES ASSUME NEW v \in Uids
                 PROVE  CountOf(admin'[v]) = Cardinality(ProxiesOf(alive', v))
      BY DEF Counted, CountOf, ProxiesOf
    <2>1. CASE v = u
      BY <2>1, <1>3, <1>4, <1>6
    <2>2. CASE v # u
      <3>1. Cardinality(ProxiesOf(alive', v)) = Cardinality(ProxiesOf(alive, v))
        <4>1. alive[g].uid # v /\ alive'[g] = None
          BY <2>2, <1>1, <1>2
        <4>2. \A h \in Ids : h # g => alive[h] = alive'[h]
          BY <1>2
        <4>3. ProxiesOf(alive', v) = ProxiesOf(alive, v)
          BY <4>1, <4>2 DEF ProxiesOf
        <4> QED
          BY <4>3
      <3> QED
        BY <2>2, <3>1, <1>6 DEF ProxyInv, Counted
    <2> QED
      BY <2>1, <2>2
  <1>8. AgentType' /\ TaskType' /\ ProxyType'
    BY <1>2, <1>6 DEF AgentType, TaskType, ProxyType
  <1>9. ASSUME Working PROVE \A v \in Uids : states[v] # g
    BY <1>9, WorkloadManagerAssumption DEF ProxyInv, InService
  <1>10. ProxyInv'
    <2>1. Working' => InService' /\ FwCovers'
      BY <1>2, <1>9 DEF Working, ProxyInv, ProxyType, InService, FwCovers
    <2>2. Working' => Owned'
      BY <1>2 DEF Working, ProxyInv, Owned
    <2>3. mode' = "draining" => Joined'
      BY <1>2 DEF ProxyInv, Joined
    <2>4. mode' = "drained" => \A h \in Ids : alive'[h] = None
      BY <1>2 DEF ProxyInv
    <2> QED
      BY <2>1, <2>2, <2>3, <2>4, <1>7 DEF ProxyInv
  <1>11. TaskInv'
    <2> SUFFICES ASSUME Working PROVE BusySound' /\ WaitingSound' /\ NamesSound' /\ AddsServed'
      BY <1>2 DEF TaskInv, Working
    <2>1. BusySound' /\ WaitingSound' /\ NamesSound'
      BY <1>2 DEF TaskInv, BusySound, WaitingSound, NamesSound
    <2>2. \A v \in Uids : states[v] # None => alive'[states[v]] = alive[states[v]]
      BY <1>2, <1>9 DEF ProxyType
    <2>3. AddsServed'
      BY <1>2, <2>2 DEF TaskInv, AddsServed, Serves
    <2> QED
      BY <2>1, <2>3
  <1> QED
    BY <1>8, <1>10, <1>11

\* add_workload_inner up to the await, for a pod without a proxy in this netns:
\* a proxy in another netns is taken out of service and told to end.
LEMMA BeginStartStep ==
    ASSUME ManagerInv, mode \in {"reading", "retrying"}, NEW u \in Uids, NEW b, BeginStart(u, b)
    PROVE  /\ ProxyType' /\ ProxyInv' /\ SameProxies
           /\ mode' = "starting" /\ busy' = b /\ UNCHANGED <<timer, ready>>
           /\ pending' \in [Uids -> Netns \cup {None}]
           /\ \A v \in Uids : pending'[v] = IF v = u /\ states[u] # None THEN None ELSE pending[v]
           /\ \A v \in Uids : states'[v] = IF v = u THEN None ELSE states[v]
  <1> USE DEF ManagerInv
  <1>1. Working /\ InService /\ Owned /\ FwCovers /\ Counted
    BY DEF ProxyInv, Working
  <1>2. Replace(u, b.netns)
    BY DEF BeginStart
  <1>3. /\ states' \in [Uids -> Ids \cup {None}] /\ alive' \in [Ids -> Proxies \cup {None}]
        /\ draining' \subseteq Ids /\ fw' \in [Uids -> Netns \cup {None}]
        /\ InService' /\ Owned' /\ SameProxies
        /\ \A v \in Uids : states'[v] = IF v = u THEN None ELSE states[v]
        /\ \A v \in Uids : fw'[v] = IF v = u /\ states[u] # None THEN None ELSE fw[v]
    BY <1>1, <1>2, ReplaceStep
  <1>4. /\ mode' = "starting" /\ busy' = b /\ UNCHANGED <<timer, ready>>
        /\ pending' \in [Uids -> Netns \cup {None}]
        /\ \A v \in Uids : pending'[v] = IF v = u /\ states[u] # None THEN None ELSE pending[v]
    BY DEF BeginStart, TaskType
  <1>5. /\ admin' \in [Uids -> Counters \cup {None}]
        /\ \A v \in Uids : CountOf(admin'[v]) = CountOf(admin[v])
    <2>1. admin \in [Uids -> Counters \cup {None}]
      BY DEF ProxyType
    <2>2. PICK r : r = IF admin[u] = None THEN [state |-> "Pending", count |-> 0]
                       ELSE [admin[u] EXCEPT !.state = "Pending"]
      OBVIOUS
    <2>3. r \in Counters /\ r.count = CountOf(admin[u])
      BY <2>1, <2>2 DEF Counters, CountOf
    <2>4. r # None
      BY <2>3, WorkloadManagerAssumption
    <2>5. admin' = [admin EXCEPT ![u] = r]
      BY <2>2 DEF BeginStart
    <2> QED
      BY <2>1, <2>3, <2>4, <2>5 DEF CountOf
  <1>6. FwCovers'
    <2> SUFFICES ASSUME NEW v \in Uids
                 PROVE  /\ states'[v] # None => fw'[v] = alive'[states'[v]].netns
                        /\ pending'[v] # None => fw'[v] = pending'[v]
      BY DEF FwCovers
    <2>1. states'[v] # None => fw'[v] = alive'[states'[v]].netns
      BY <1>1, <1>3 DEF FwCovers, SameProxies, InService, ProxyType
    <2>2. pending'[v] # None => fw'[v] = pending'[v]
      BY <1>1, <1>3, <1>4 DEF FwCovers
    <2> QED
      BY <2>1, <2>2
  <1>7. Counted'
    BY <1>1, <1>3, <1>5, CountKept
  <1> QED
    BY <1>3, <1>4, <1>5, <1>6, <1>7 DEF ProxyType, ProxyInv

\* add_workload_inner for a pod that has a proxy in this netns: there is
\* nothing left to retry.
LEMMA AlreadyRunsStep ==
    ASSUME ManagerInv, mode \in {"reading", "retrying"}, NEW u \in Uids, NEW b,
           mode = IF b.retry THEN "retrying" ELSE "reading", AlreadyRuns(u, b)
    PROVE  /\ ProxyType' /\ ProxyInv' /\ UNCHANGED proxyVars
           /\ states[u] # None /\ alive[states[u]].netns = b.netns
           /\ mode' = mode /\ busy' = Idle /\ timer' = timer /\ ready' \in BOOLEAN
           /\ pending' \in [Uids -> Netns \cup {None}]
           /\ \A v \in Uids : pending'[v] = IF v = u THEN None ELSE pending[v]
  <1> USE DEF ManagerInv
  <1>1. /\ UNCHANGED proxyVars /\ timer' = timer
        /\ states[u] # None /\ alive[states[u]].netns = b.netns
        /\ mode' = mode /\ busy' = Idle
    BY DEF AlreadyRuns, SameNetns, Return
  <1>2. /\ pending' \in [Uids -> Netns \cup {None}]
        /\ \A v \in Uids : pending'[v] = IF v = u THEN None ELSE pending[v]
    BY DEF AlreadyRuns, TaskType
  <1>3. ready' \in BOOLEAN
    BY DEF AlreadyRuns, CheckReady, TaskType
  <1>4. ProxyType' /\ ProxyInv'
    BY <1>1, <1>2, QuietStep DEF Working
  <1> QED
    BY <1>1, <1>2, <1>3, <1>4

\* AddWorkload of the agent.
LEMMA ReceiveAddStep ==
    ASSUME ManagerInv, NEW u \in Uids, ReceiveAdd(u)
    PROVE  ManagerInv' /\ SameProxies
  <1> USE DEF ManagerInv
  <1>1. PICK n \in Netns : n = pods[u]
    BY DEF ReceiveAdd, Untold, AgentType
  <1>2. PICK b : b = [uid |-> u, netns |-> n, retry |-> FALSE]
    OBVIOUS
  <1>3. /\ b.uid = u /\ b.netns = n /\ b.retry = FALSE
        /\ b \in [uid : Uids \cup {None}, netns : Netns \cup {None}, retry : BOOLEAN]
    BY <1>2
  <1>4. mode = "reading" /\ Begin(u, b)
    BY <1>1, <1>2 DEF ReceiveAdd, Reading
  <1>5. /\ AgentType' /\ told'[u] = n /\ \A v \in Uids : v # u => told'[v] = told[v]
        /\ n # None
    BY <1>1, WorkloadManagerAssumption DEF ReceiveAdd, Tell, AgentType
  <1>6. /\ received' = received /\ todo' = todo /\ names' \subseteq Uids
        /\ \A v \in Uids : v \in names' <=> v \in names \/ (~received /\ v = u)
    BY DEF ReceiveAdd, NoteName, TaskType
  <1>7. Working /\ BusySound /\ WaitingSound /\ NamesSound /\ AddsServed
    BY <1>4 DEF TaskInv, Working
  <1>8. /\ busy = Idle /\ \A v \in Uids : todo[v] = None
    BY <1>4, <1>7 DEF BusySound, WaitingSound
  <1>9. CASE BeginStart(u, b)
    <2>1. /\ ProxyType' /\ ProxyInv' /\ SameProxies
          /\ mode' = "starting" /\ busy' = b /\ UNCHANGED <<timer, ready>>
          /\ pending' \in [Uids -> Netns \cup {None}]
          /\ \A v \in Uids : pending'[v] = IF v = u /\ states[u] # None THEN None ELSE pending[v]
          /\ \A v \in Uids : states'[v] = IF v = u THEN None ELSE states[v]
      BY <1>4, <1>9, BeginStartStep
    <2>2. TaskType'
      BY <2>1, <1>3, <1>6 DEF TaskType
    <2>3. BusySound'
      BY <2>1, <1>3, <1>5, <1>6, <1>8 DEF BusySound
    <2>4. WaitingSound'
      BY <2>1, <1>5, <1>6, <1>7, <1>8 DEF WaitingSound
    <2>5. NamesSound'
      BY <2>1, <1>5, <1>6, <1>7 DEF NamesSound
    <2>6. AddsServed'
      <3> SUFFICES ASSUME NEW v \in Uids, told'[v] \in Netns PROVE Serves(v, told[v])'
        BY DEF AddsServed
      <3>1. CASE v = u
        BY <3>1, <2>1, <1>3, <1>5 DEF Serves
      <3>2. CASE v # u
        <4>1. \/ states[v] # None /\ alive[states[v]].netns = told[v]
              \/ pending[v] = told[v]
          BY <3>2, <1>4, <1>5, <1>7, <1>8, WorkloadManagerAssumption DEF AddsServed, Serves
        <4>2. states[v] # None => alive'[states[v]].netns = alive[states[v]].netns
          BY <2>1, <1>7 DEF SameProxies, ProxyInv, InService, ProxyType
        <4> QED
          BY <3>2, <4>1, <4>2, <2>1, <1>5 DEF Serves
      <3> QED
        BY <3>1, <3>2
    <2> QED
      BY <2>1, <2>2, <2>3, <2>4, <2>5, <2>6, <1>5 DEF TaskInv
  <1>10. CASE AlreadyRuns(u, b)
    <2>1. /\ ProxyType' /\ ProxyInv' /\ UNCHANGED proxyVars
          /\ states[u] # None /\ alive[states[u]].netns = n
          /\ mode' = mode /\ busy' = Idle /\ timer' = timer /\ ready' \in BOOLEAN
          /\ pending' \in [Uids -> Netns \cup {None}]
          /\ \A v \in Uids : pending'[v] = IF v = u THEN None ELSE pending[v]
      BY <1>3, <1>4, <1>10, AlreadyRunsStep
    <2>2. TaskType'
      BY <2>1, <1>6, <1>8 DEF TaskType
    <2>3. UNCHANGED <<states, alive>>
      BY <2>1 DEF proxyVars
    <2>4. BusySound' /\ WaitingSound' /\ NamesSound'
      BY <2>1, <2>3, <1>4, <1>5, <1>6, <1>7, <1>8 DEF BusySound, WaitingSound, NamesSound
    <2>5. AddsServed'
      BY <2>1, <2>3, <1>4, <1>5, <1>6, <1>7, <1>8 DEF AddsServed, Serves
    <2> QED
      BY <2>1, <2>2, <2>3, <2>4, <2>5, <1>5 DEF TaskInv, SameProxies
  <1> QED
    BY <1>4, <1>9, <1>10 DEF Begin

\* retry_pending takes up one of the workloads it has taken.
LEMMA RetryNextStep ==
    ASSUME ManagerInv, NEW u \in Uids, RetryNext(u)
    PROVE  ManagerInv' /\ SameProxies
  <1> USE DEF ManagerInv
  <1>1. PICK n \in Netns : n = todo[u]
    BY DEF RetryNext, TaskType
  <1>2. PICK b : b = [uid |-> u, netns |-> n, retry |-> TRUE]
    OBVIOUS
  <1>3. /\ b.uid = u /\ b.netns = n /\ b.retry = TRUE
        /\ b \in [uid : Uids \cup {None}, netns : Netns \cup {None}, retry : BOOLEAN]
    BY <1>2
  <1>4. mode = "retrying" /\ Begin(u, b) /\ todo[u] # None
    BY <1>1, <1>2 DEF RetryNext
  <1>5. /\ AgentType' /\ told' = told /\ received' = received /\ names' = names
        /\ todo' \in [Uids -> Netns \cup {None}]
        /\ \A v \in Uids : todo'[v] = IF v = u THEN None ELSE todo[v]
    BY DEF RetryNext, agentVars, snapVars, AgentType, TaskType
  <1>6. Working /\ BusySound /\ WaitingSound /\ NamesSound /\ AddsServed
    BY <1>4 DEF TaskInv, Working
  <1>7. /\ busy = Idle /\ states[u] = None /\ pending[u] = None /\ told[u] # None
        /\ told[u] \in Netns => told[u] = n
    <2>1. busy = Idle /\ states[u] = None /\ pending[u] = None /\ told[u] # None
      BY <1>4, <1>6 DEF BusySound, WaitingSound
    <2>2. told[u] \in Netns => told[u] = n
      BY <2>1, <1>1, <1>4, <1>6, WorkloadManagerAssumption DEF AddsServed, Serves
    <2> QED
      BY <2>1, <2>2
  <1>8. ~AlreadyRuns(u, b)
    BY <1>7 DEF AlreadyRuns, SameNetns
  <1>9. /\ ProxyType' /\ ProxyInv' /\ SameProxies
        /\ mode' = "starting" /\ busy' = b /\ UNCHANGED <<timer, ready>>
        /\ pending' \in [Uids -> Netns \cup {None}]
        /\ \A v \in Uids : pending'[v] = IF v = u /\ states[u] # None THEN None ELSE pending[v]
        /\ \A v \in Uids : states'[v] = IF v = u THEN None ELSE states[v]
    BY <1>4, <1>8, BeginStartStep DEF Begin
  <1>10. TaskType'
    BY <1>3, <1>5, <1>9 DEF TaskType
  <1>11. BusySound'
    BY <1>3, <1>5, <1>7, <1>9 DEF BusySound
  <1>12. WaitingSound' /\ NamesSound'
    BY <1>3, <1>4, <1>5, <1>6, <1>9 DEF WaitingSound, NamesSound
  <1>13. AddsServed'
    <2> SUFFICES ASSUME NEW v \in Uids, told[v] \in Netns PROVE Serves(v, told[v])'
      BY <1>5 DEF AddsServed
    <2>1. CASE v = u
      BY <2>1, <1>3, <1>5, <1>7, <1>9 DEF Serves
    <2>2. CASE v # u
      <3>1. \/ states[v] # None /\ alive[states[v]].netns = told[v]
            \/ pending[v] = told[v] \/ todo[v] = told[v]
        BY <1>4, <1>6 DEF AddsServed, Serves
      <3>2. states[v] # None => alive'[states[v]].netns = alive[states[v]].netns
        BY <1>6, <1>9 DEF SameProxies, ProxyInv, InService, ProxyType
      <3> QED
        BY <2>2, <3>1, <3>2, <1>5, <1>9 DEF Serves
    <2> QED
      BY <2>1, <2>2
  <1> QED
    BY <1>5, <1>9, <1>10, <1>11, <1>12, <1>13 DEF TaskInv

\* The factory returned a proxy: it is the pod's only one in service.
LEMMA StartOkStep ==
    ASSUME ManagerInv, StartOk
    PROVE  ManagerInv'
  <1> USE DEF ManagerInv
  <1>1. Working /\ BusySound /\ WaitingSound /\ NamesSound /\ AddsServed
    BY DEF TaskInv, Working, StartOk
  <1>2. InService /\ Owned /\ FwCovers /\ Counted
    BY <1>1 DEF ProxyInv
  <1>3. PICK u \in Uids : u = busy.uid
    BY <1>1 DEF BusySound, StartOk
  <1>4. PICK n \in Netns : n = busy.netns
    BY <1>1 DEF BusySound, StartOk
  <1>5. PICK g \in Ids : alive[g] = None /\ g = CHOOSE i \in Ids : alive[i] = None
    BY DEF StartOk
  <1>6. PICK p : p = [uid |-> u, netns |-> n, signal |-> "none"]
    OBVIOUS
  <1>7. p \in Proxies /\ p # None /\ p.uid = u /\ p.netns = n /\ p.signal = "none"
    <2>1. p \in Proxies
      BY <1>6 DEF Proxies
    <2> QED
      BY <2>1, <1>6, WorkloadManagerAssumption
  <1>8. /\ alive' = [alive EXCEPT ![g] = p]
        /\ states' = [states EXCEPT ![u] = g]
        /\ draining' = draining \ {g}
        /\ fw' = [fw EXCEPT ![u] = n]
        /\ pending' = [pending EXCEPT ![u] = None]
    BY <1>3, <1>4, <1>5, <1>6 DEF StartOk, FirewallAdd
  <1>9. /\ alive' \in [Ids -> Proxies \cup {None}] /\ states' \in [Uids -> Ids \cup {None}]
        /\ draining' \subseteq Ids /\ fw' \in [Uids -> Netns \cup {None}]
        /\ pending' \in [Uids -> Netns \cup {None}]
        /\ alive'[g] = p /\ \A h \in Ids : h # g => alive[h] = alive'[h]
        /\ \A v \in Uids : states'[v] = IF v = u THEN g ELSE states[v]
        /\ \A v \in Uids : fw'[v] = IF v = u THEN n ELSE fw[v]
        /\ \A v \in Uids : pending'[v] = IF v = u THEN None ELSE pending[v]
        /\ \A h \in Ids : h # g => (h \in draining' <=> h \in draining)
    BY <1>7, <1>8 DEF ProxyType, TaskType
  <1>10. /\ UNCHANGED <<pods, told, due, received, names, todo, timer>>
         /\ busy' = Idle /\ mode' = (IF busy.retry THEN "retrying" ELSE "reading")
         /\ ready' \in BOOLEAN
    BY DEF StartOk, Return, CheckReady, agentVars, snapVars, TaskType
  <1>11. g # None /\ \A v \in Uids : states[v] # g
    BY <1>2, <1>5, WorkloadManagerAssumption DEF InService
  <1>12. admin' \in [Uids -> Counters \cup {None}] /\ Counted'
    <2>1. admin \in [Uids -> Counters \cup {None}]
      BY DEF ProxyType
    <2>2. PICK r : r = IF admin[u] = None THEN [state |-> "Up", count |-> 1]
                       ELSE [state |-> "Up", count |-> admin[u].count + 1]
      OBVIOUS
    <2>3. r \in Counters /\ r.count = CountOf(admin[u]) + 1
      BY <2>1, <2>2 DEF Counters, CountOf
    <2>4. r # None
      BY <2>3, WorkloadManagerAssumption
    <2>5. admin' = [admin EXCEPT ![u] = r]
      BY <2>2, <1>3 DEF StartOk, ProxyUp
    <2>6. /\ admin' \in [Uids -> Counters \cup {None}]
          /\ CountOf(admin'[u]) = CountOf(admin[u]) + 1
          /\ \A v \in Uids : v # u => admin'[v] = admin[v]
      BY <2>1, <2>3, <2>4, <2>5 DEF CountOf
    <2>7. Counted'
      <3> SUFFICES ASSUME NEW v \in Uids
                   PROVE  CountOf(admin'[v]) = Cardinality(ProxiesOf(alive', v))
        BY DEF Counted, CountOf, ProxiesOf
      <3>1. CASE v = u
        <4>1. \A h \in Ids : h # g => alive[h] = alive'[h]
          BY <1>9
        <4>2. alive[g] = None /\ alive'[g] # None /\ alive'[g].uid = u
          BY <1>5, <1>7, <1>9
        <4>3. Cardinality(ProxiesOf(alive', u)) = Cardinality(ProxiesOf(alive, u)) + 1
          BY ONLY g \in Ids, OneProxy, <4>1, <4>2
        <4> QED
          BY <3>1, <4>3, <2>6, <1>2 DEF Counted
      <3>2. CASE v # u
        <4>1. ProxiesOf(alive', v) = ProxiesOf(alive, v)
          BY <3>2, <1>5, <1>7, <1>9, ZenonT(60) DEF ProxiesOf
        <4> QED
          BY <3>2, <4>1, <2>6, <1>2 DEF Counted
      <3> QED
        BY <3>1, <3>2
    <2> QED
      BY <2>6, <2>7
  <1>13. InService' /\ FwCovers'
    BY <1>2, <1>7, <1>9, <1>11 DEF InService, FwCovers, ProxyType
  <1>14. Owned'
    <2> SUFFICES ASSUME NEW h \in Ids, alive'[h] # None
                 PROVE  \/ states'[alive'[h].uid] = h /\ alive'[h].signal = "none"
                        \/ h \in draining' /\ alive'[h].signal = "Immediate"
      BY DEF Owned
    <2>1. CASE h = g
      BY <2>1, <1>7, <1>9
    <2>2. CASE h # g
      <3>1. alive'[h] = alive[h] /\ alive[h].uid \in Uids
        BY <2>2, <1>9 DEF ProxyType, Proxies
      <3>2. states[u] = None
        BY <1>1, <1>3 DEF BusySound, StartOk
      <3>3. CASE states[alive[h].uid] = h /\ alive[h].signal = "none"
        <4>1. alive[h].uid # u
          BY <3>2, <3>3, WorkloadManagerAssumption
        <4> QED
          BY <3>1, <3>3, <4>1, <1>9
      <3>4. CASE h \in draining /\ alive[h].signal = "Immediate"
        BY <2>2, <3>1, <3>4, <1>9
      <3> QED
        BY <3>1, <3>3, <3>4, <1>2 DEF Owned
    <2> QED
      BY <2>1, <2>2
  <1>15. AgentType' /\ TaskType' /\ ProxyType'
    BY <1>9, <1>10, <1>12 DEF AgentType, TaskType, ProxyType, Idle
  <1>16. ProxyInv'
    BY <1>10, <1>12, <1>13, <1>14 DEF ProxyInv
  <1>17. /\ told[u] # None /\ (told[u] \in Netns => told[u] = n)
         /\ states[u] = None /\ todo[u] = None /\ mode = "starting"
         /\ mode' \in {"reading", "retrying"} /\ (busy.retry => mode' = "retrying")
    BY <1>1, <1>3, <1>4, <1>10 DEF BusySound, StartOk
  <1>18. BusySound' /\ NamesSound'
    <2>1. BusySound'
      BY <1>10, <1>17 DEF BusySound
    <2>2. NamesSound'
      <3>1. /\ received' = received /\ names' = names /\ told' = told /\ received \in BOOLEAN
            /\ \A v \in Uids : v # u => states'[v] = states[v]
        BY <1>9, <1>10 DEF TaskType
      <3> QED
        BY ONLY <1>1, <1>17, <3>1 DEF NamesSound
    <2> QED
      BY <2>1, <2>2
  <1>19. WaitingSound'
    BY <1>1, <1>9, <1>10, <1>17 DEF WaitingSound
  <1>20. AddsServed'
    <2> SUFFICES ASSUME NEW v \in Uids, told[v] \in Netns PROVE Serves(v, told[v])'
      BY <1>10 DEF AddsServed
    <2>1. CASE v = u
      BY <2>1, <1>7, <1>9, <1>10, <1>11, <1>17 DEF Serves
    <2>2. CASE v # u
      <3>1. \/ states[v] # None /\ alive[states[v]].netns = told[v]
            \/ pending[v] = told[v] \/ todo[v] = told[v]
        BY <2>2, <1>1, <1>3 DEF AddsServed, Serves
      <3>2. states[v] # None => alive'[states[v]].netns = alive[states[v]].netns
        BY <1>9, <1>11 DEF ProxyType
      <3> QED
        BY <2>2, <3>1, <3>2, <1>9, <1>10 DEF Serves
    <2> QED
      BY <2>1, <2>2
  <1> QED
    BY <1>15, <1>16, <1>18, <1>19, <1>20 DEF TaskInv

\* The factory failed: the workload waits for its retry, under the firewall.
LEMMA StartFailsStep ==
    ASSUME ManagerInv, StartFails
    PROVE  ManagerInv'
  <1> USE DEF ManagerInv
  <1>1. Working /\ BusySound /\ WaitingSound /\ NamesSound /\ AddsServed
    BY DEF TaskInv, Working, StartFails
  <1>2. InService /\ Owned /\ FwCovers /\ Counted
    BY <1>1 DEF ProxyInv
  <1>3. PICK u \in Uids : u = busy.uid
    BY <1>1 DEF BusySound, StartFails
  <1>4. PICK n \in Netns : n = busy.netns
    BY <1>1 DEF BusySound, StartFails
  <1>5. /\ fw' = [fw EXCEPT ![u] = n] /\ pending' = [pending EXCEPT ![u] = n]
        /\ UNCHANGED <<states, alive, draining, admin>>
        /\ UNCHANGED <<pods, told, due, received, names, todo, ready>>
        /\ busy' = Idle /\ mode' = (IF busy.retry THEN "retrying" ELSE "reading")
    BY <1>3, <1>4 DEF StartFails, FirewallAdd, StartFailsKeeps, Return, agentVars, snapVars
  <1>6. /\ fw' \in [Uids -> Netns \cup {None}] /\ pending' \in [Uids -> Netns \cup {None}]
        /\ \A v \in Uids : fw'[v] = IF v = u THEN n ELSE fw[v]
        /\ \A v \in Uids : pending'[v] = IF v = u THEN n ELSE pending[v]
    BY <1>5 DEF ProxyType, TaskType
  <1>7. timer' \in BOOLEAN
    BY DEF StartFails, TaskType
  <1>8. AgentType' /\ TaskType' /\ ProxyType'
    BY <1>5, <1>6, <1>7 DEF AgentType, TaskType, ProxyType, Idle
  <1>9. /\ told[u] # None /\ (told[u] \in Netns => told[u] = n)
        /\ states[u] = None /\ todo[u] = None /\ mode = "starting"
        /\ mode' \in {"reading", "retrying"} /\ (busy.retry => mode' = "retrying")
    BY <1>1, <1>3, <1>4, <1>5 DEF BusySound, StartFails
  <1>10. InService' /\ Owned' /\ FwCovers' /\ Counted'
    <2>1. InService' /\ Owned'
      BY <1>2, <1>5 DEF InService, Owned
    <2>2. FwCovers'
      BY <1>2, <1>5, <1>6, <1>9 DEF FwCovers
    <2>3. Counted'
      BY <1>2, <1>5 DEF Counted, CountOf, ProxiesOf
    <2> QED
      BY <2>1, <2>2, <2>3
  <1>11. ProxyInv'
    BY <1>5, <1>10 DEF ProxyInv
  <1>12. BusySound' /\ WaitingSound' /\ NamesSound'
    <2>1. BusySound'
      BY <1>5, <1>9 DEF BusySound
    <2>2. WaitingSound'
      BY <1>1, <1>5, <1>6, <1>9 DEF WaitingSound
    <2>3. NamesSound'
      BY <1>1, <1>5 DEF NamesSound
    <2> QED
      BY <2>1, <2>2, <2>3
  <1>13. AddsServed'
    <2> SUFFICES ASSUME NEW v \in Uids, told[v] \in Netns PROVE Serves(v, told[v])'
      BY <1>5 DEF AddsServed
    <2>1. CASE v = u
      BY <2>1, <1>5, <1>6, <1>9 DEF Serves
    <2>2. CASE v # u
      BY <2>2, <1>1, <1>3, <1>5, <1>6 DEF AddsServed, Serves
    <2> QED
      BY <2>1, <2>2
  <1> QED
    BY <1>8, <1>11, <1>12, <1>13 DEF TaskInv

\* DelWorkload of the agent, before and after the snapshot.
LEMMA ReceiveDelStep ==
    ASSUME ManagerInv, NEW u \in Uids, ReceiveDel(u)
    PROVE  ManagerInv' /\ SameProxies
  <1> USE DEF ManagerInv
  <1>1. mode = "reading" /\ Working /\ BusySound /\ WaitingSound /\ NamesSound /\ AddsServed
    BY DEF TaskInv, Working, ReceiveDel, Reading
  <1>2. InService /\ Owned /\ FwCovers /\ Counted
    BY <1>1 DEF ProxyInv
  <1>3. busy = Idle /\ \A v \in Uids : todo[v] = None
    BY <1>1 DEF BusySound, WaitingSound
  <1>4. /\ AgentType' /\ told'[u] = None /\ \A v \in Uids : v # u => told'[v] = told[v]
    BY DEF ReceiveDel, Tell, AgentType
  <1>5. /\ UNCHANGED <<received, mode, busy, todo, timer>>
        /\ names' = (IF received THEN names ELSE names \ {u})
        /\ pending' = [pending EXCEPT ![u] = None] /\ admin' = admin
        /\ ready' \in BOOLEAN
    BY DEF ReceiveDel, DelAfterSnapshot, DelBeforeSnapshot, CheckReady, proxyVars, TaskType
  <1>6. /\ pending' \in [Uids -> Netns \cup {None}] /\ names' \subseteq Uids
        /\ \A v \in Uids : pending'[v] = IF v = u THEN None ELSE pending[v]
    BY <1>5 DEF TaskType
  <1>7. AgentType' /\ TaskType'
    BY <1>4, <1>5, <1>6 DEF TaskType
  <1>8. /\ ProxyType' /\ InService' /\ Owned' /\ FwCovers' /\ Counted' /\ SameProxies
        /\ \A v \in Uids : states'[v] = IF v = u /\ received THEN None ELSE states[v]
    <2>1. CASE received
      <3>1. Replace(u, None)
        BY <2>1 DEF ReceiveDel, DelAfterSnapshot
      <3>2. /\ states' \in [Uids -> Ids \cup {None}] /\ alive' \in [Ids -> Proxies \cup {None}]
            /\ draining' \subseteq Ids /\ fw' \in [Uids -> Netns \cup {None}]
            /\ InService' /\ Owned' /\ SameProxies
            /\ \A v \in Uids : states'[v] = IF v = u THEN None ELSE states[v]
            /\ \A v \in Uids : fw'[v] = IF v = u /\ states[u] # None THEN None ELSE fw[v]
        BY <1>2, <3>1, ReplaceStep
      <3>3. ProxyType'
        BY <3>2, <1>5 DEF ProxyType
      <3>4. Counted'
        BY <3>2, <1>2, <1>5, CountKept
      <3>5. FwCovers'
        <4> SUFFICES ASSUME NEW v \in Uids
                     PROVE  /\ states'[v] # None => fw'[v] = alive'[states'[v]].netns
                            /\ pending'[v] # None => fw'[v] = pending'[v]
          BY DEF FwCovers
        <4>1. states'[v] # None => fw'[v] = alive'[states'[v]].netns
          BY <3>2, <1>2 DEF FwCovers, SameProxies, InService, ProxyType
        <4>2. pending'[v] # None => fw'[v] = pending'[v]
          BY <3>2, <1>2, <1>6 DEF FwCovers
        <4> QED
          BY <4>1, <4>2
      <3> QED
        BY <2>1, <3>2, <3>3, <3>4, <3>5
    <2>2. CASE ~received
      <3>1. UNCHANGED <<states, alive, draining, admin, fw>>
        BY <2>2 DEF ReceiveDel, DelBeforeSnapshot, proxyVars
      <3>2. InService' /\ Owned' /\ SameProxies /\ ProxyType'
        BY <3>1, <1>2 DEF InService, Owned, SameProxies, ProxyType
      <3>3. FwCovers'
        BY <3>1, <1>2, <1>6 DEF FwCovers
      <3>4. Counted'
        BY <3>1, <1>2 DEF Counted, CountOf, ProxiesOf
      <3> QED
        BY <2>2, <3>1, <3>2, <3>3, <3>4
    <2> QED
      BY <2>1, <2>2
  <1>9. ProxyInv'
    BY <1>1, <1>5, <1>8 DEF ProxyInv
  <1>10. BusySound' /\ WaitingSound'
    BY <1>1, <1>3, <1>4, <1>5, <1>6, <1>8 DEF BusySound, WaitingSound
  <1>11. NamesSound'
    BY <1>1, <1>4, <1>5, <1>8 DEF NamesSound
  <1>12. AddsServed'
    <2> SUFFICES ASSUME NEW v \in Uids, told'[v] \in Netns PROVE Serves(v, told[v])'
      BY DEF AddsServed
    <2>1. v # u /\ told'[v] = told[v] /\ told[v] # None
      BY <1>4, WorkloadManagerAssumption
    <2>2. \/ states[v] # None /\ alive[states[v]].netns = told[v]
          \/ pending[v] = told[v]
      BY <2>1, <1>1, <1>3, <1>4 DEF AddsServed, Serves
    <2>3. states[v] # None => alive'[states[v]].netns = alive[states[v]].netns
      BY <1>2, <1>8 DEF SameProxies, InService, ProxyType
    <2> QED
      BY <2>1, <2>2, <2>3, <1>6, <1>8 DEF Serves
  <1> QED
    BY <1>7, <1>8, <1>9, <1>10, <1>11, <1>12 DEF TaskInv

\* SnapshotSent: reconcile takes out of service what the snapshot did not name.
LEMMA SnapshotStep ==
    ASSUME ManagerInv, ReceiveSnapshotSent
    PROVE  ManagerInv' /\ SameProxies
  <1> USE DEF ManagerInv
  <1>1. mode = "reading" /\ Working /\ BusySound /\ WaitingSound /\ NamesSound /\ AddsServed
    BY DEF TaskInv, Working, ReceiveSnapshotSent, Reading
  <1>2. InService /\ Owned /\ FwCovers /\ Counted
    BY <1>1 DEF ProxyInv
  <1>3. busy = Idle /\ \A v \in Uids : todo[v] = None
    BY <1>1 DEF BusySound, WaitingSound
  <1>4. /\ ~received /\ received' = TRUE /\ names' = {} /\ pending' = pending /\ admin' = admin
        /\ UNCHANGED <<pods, told, due, mode, busy, todo, timer>> /\ ready' \in BOOLEAN
    BY DEF ReceiveSnapshotSent, CheckReady, agentVars, TaskType
  <1>5. PICK us \in SUBSET Uids : us = Unnamed
    BY DEF Unnamed
  <1>6. \A v \in Uids : v \in us <=> states[v] # None /\ v \notin names
    BY <1>5 DEF Unnamed
  <1>7. /\ states' = [v \in Uids |-> IF v \in us THEN None ELSE states[v]]
        /\ fw' = [v \in Uids |-> IF v \in us THEN None ELSE fw[v]]
        /\ Shutdown(us, "Immediate")
    BY <1>5 DEF ReceiveSnapshotSent
  <1>8. /\ states' \in [Uids -> Ids \cup {None}] /\ fw' \in [Uids -> Netns \cup {None}]
        /\ \A v \in Uids : states'[v] = IF v \in us THEN None ELSE states[v]
        /\ \A v \in Uids : fw'[v] = IF v \in us THEN None ELSE fw[v]
    BY <1>7 DEF ProxyType
  <1>9. /\ alive' \in [Ids -> Proxies \cup {None}] /\ draining' \subseteq Ids
        /\ InService' /\ Owned' /\ SameProxies
    <2>1. \A v \in us : states[v] # None
      BY <1>6
    <2> QED
      BY <2>1, <1>2, <1>7, <1>8, ShutdownStep
  <1>10. AgentType' /\ TaskType' /\ ProxyType'
    BY <1>4, <1>8, <1>9 DEF AgentType, TaskType, ProxyType
  <1>11. FwCovers'
    <2> SUFFICES ASSUME NEW v \in Uids
                 PROVE  /\ states'[v] # None => fw'[v] = alive'[states'[v]].netns
                        /\ pending'[v] # None => fw'[v] = pending'[v]
      BY DEF FwCovers
    <2>1. states'[v] # None => fw'[v] = alive'[states'[v]].netns
      BY <1>2, <1>8, <1>9 DEF FwCovers, SameProxies, InService, ProxyType
    <2>2. pending'[v] # None => fw'[v] = pending'[v]
      BY <1>1, <1>2, <1>4, <1>6, <1>8 DEF FwCovers, WaitingSound
    <2> QED
      BY <2>1, <2>2
  <1>12. ProxyInv'
    <2>1. Counted'
      BY <1>2, <1>4, <1>9, CountKept
    <2> QED
      BY <2>1, <1>1, <1>4, <1>9, <1>11 DEF ProxyInv
  <1>13. BusySound' /\ WaitingSound'
    BY <1>1, <1>3, <1>4, <1>8 DEF BusySound, WaitingSound
  <1>14. NamesSound'
    BY <1>1, <1>4, <1>6, <1>8 DEF NamesSound
  <1>15. AddsServed'
    <2> SUFFICES ASSUME NEW v \in Uids, told[v] \in Netns PROVE Serves(v, told[v])'
      BY <1>4 DEF AddsServed
    <2>1. \/ states[v] # None /\ alive[states[v]].netns = told[v]
          \/ pending[v] = told[v]
      BY <1>1, <1>3, WorkloadManagerAssumption DEF AddsServed, Serves
    <2>2. v \notin us
      BY <1>1, <1>4, <1>6, WorkloadManagerAssumption DEF NamesSound
    <2>3. states[v] # None => alive'[states[v]].netns = alive[states[v]].netns
      BY <1>2, <1>9 DEF SameProxies, InService, ProxyType
    <2> QED
      BY <2>1, <2>2, <2>3, <1>4, <1>8 DEF Serves
  <1> QED
    BY <1>9, <1>10, <1>12, <1>13, <1>14, <1>15 DEF TaskInv

\* An added pod whose netns cannot be opened, and KeepWorkload: the pod is
\* named, nothing is started.
LEMMA NamedOnlyStep ==
    ASSUME ManagerInv, NEW u \in Uids, ReceiveAddBadNetns(u) \/ ReceiveKeep(u)
    PROVE  ManagerInv'
  <1> USE DEF ManagerInv
  <1>1. mode = "reading" /\ Working /\ BusySound /\ WaitingSound /\ NamesSound /\ AddsServed
    BY DEF TaskInv, Working, ReceiveAddBadNetns, ReceiveKeep, Reading
  <1>2. /\ UNCHANGED <<received, mode, busy, todo, pending>> /\ UNCHANGED proxyVars
        /\ timer' \in BOOLEAN /\ ready' \in BOOLEAN
    BY DEF ReceiveAddBadNetns, ReceiveKeep, CheckReady, TaskType
  <1>3. /\ names' \subseteq Uids
        /\ \A v \in Uids : ~received => (v \in names' <=> v \in names \/ v = u)
    BY DEF ReceiveAddBadNetns, ReceiveKeep, NoteName, TaskType
  <1>4. /\ AgentType' /\ told'[u] # None /\ told'[u] \notin Netns
        /\ \A v \in Uids : v # u => told'[v] = told[v]
    BY WorkloadManagerAssumption DEF ReceiveAddBadNetns, ReceiveKeep, Tell, AgentType
  <1>5. ProxyType' /\ ProxyInv'
    BY <1>2, QuietStep DEF Working
  <1>6. TaskType'
    BY <1>2, <1>3 DEF TaskType
  <1>7. UNCHANGED <<states, alive>>
    BY <1>2 DEF proxyVars
  <1>8. BusySound' /\ WaitingSound' /\ NamesSound'
    BY <1>1, <1>2, <1>3, <1>4, <1>7 DEF BusySound, WaitingSound, NamesSound
  <1>9. AddsServed'
    BY <1>1, <1>2, <1>4, <1>7 DEF AddsServed, Serves
  <1> QED
    BY <1>4, <1>5, <1>6, <1>8, <1>9 DEF TaskInv

\* The retry timer moves what is pending, and the end of a round of retries.
LEMMA RetryRoundStep ==
    ASSUME ManagerInv, RetryTimer \/ RetryDone
    PROVE  ManagerInv'
  <1> USE DEF ManagerInv
  <1>1. /\ Working /\ Working' /\ mode \in {"reading", "retrying"}
        /\ BusySound /\ WaitingSound /\ NamesSound /\ AddsServed
    BY DEF TaskInv, Working, RetryTimer, RetryDone
  <1>2. busy = Idle
    BY <1>1 DEF BusySound
  <1>3. /\ UNCHANGED <<pods, told, due, received, names, busy>> /\ UNCHANGED proxyVars
        /\ timer' \in BOOLEAN /\ ready' \in BOOLEAN
        /\ mode' \in {"reading", "retrying"}
    BY DEF RetryTimer, RetryDone, CheckReady, agentVars, snapVars, TaskType
  <1>4. /\ todo' \in [Uids -> Netns \cup {None}] /\ pending' \in [Uids -> Netns \cup {None}]
        /\ \A v \in Uids : \/ todo'[v] = None /\ pending'[v] = pending[v] /\ todo[v] = None
                           \/ /\ todo'[v] = pending[v] /\ pending'[v] = None /\ todo[v] = None
                              /\ mode' = "retrying"
    <2>1. CASE RetryTimer
      <3>1. todo' = pending /\ pending' = Nothing /\ mode' = "retrying" /\ mode = "reading"
        BY <2>1 DEF RetryTimer
      <3>2. \A v \in Uids : todo[v] = None
        BY <3>1, <1>1 DEF WaitingSound
      <3> QED
        BY <3>1, <3>2 DEF TaskType, Nothing
    <2>2. CASE RetryDone
      BY <2>2 DEF RetryDone, TaskType, Nothing
    <2> QED
      BY <2>1, <2>2
  <1>5. ProxyType' /\ ProxyInv'
    BY <1>1, <1>3, <1>4, QuietStep
  <1>6. AgentType' /\ TaskType'
    BY <1>3, <1>4 DEF AgentType, TaskType
  <1>7. UNCHANGED <<states, alive>>
    BY <1>3 DEF proxyVars
  <1>8. BusySound' /\ NamesSound'
    BY <1>1, <1>2, <1>3, <1>7 DEF BusySound, NamesSound
  <1>9. WaitingSound'
    BY <1>1, <1>3, <1>4, <1>7 DEF WaitingSound
  <1>10. AddsServed'
    BY <1>1, <1>3, <1>4, <1>7 DEF AddsServed, Serves
  <1> QED
    BY <1>5, <1>6, <1>8, <1>9, <1>10 DEF TaskInv

\* A new connection starts from nothing told and nothing pending; the proxies
\* of the old one keep running.
LEMMA ConnectionStep ==
    ASSUME ManagerInv, Connect \/ AnnounceFails
    PROVE  ManagerInv'
  <1> USE DEF ManagerInv
  <1>1. mode = "connecting" /\ Working /\ BusySound /\ WaitingSound
    BY DEF TaskInv, Working, Connect, AnnounceFails
  <1>2. busy = Idle /\ \A v \in Uids : todo[v] = None
    BY <1>1 DEF BusySound, WaitingSound
  <1>3. /\ UNCHANGED <<pods, busy, todo>> /\ UNCHANGED proxyVars
        /\ timer' \in BOOLEAN /\ ready' \in BOOLEAN
        /\ mode' \in {"reading", "connecting"}
        /\ told' = Nothing /\ pending' = Nothing /\ names' = {} /\ received' = FALSE
        /\ due' \subseteq Uids
    BY DEF Connect, AnnounceFails, ResetSnapshot, TaskType
  <1>4. \A v \in Uids : told'[v] = None /\ pending'[v] = None
    BY <1>3 DEF Nothing
  <1>5. ProxyType' /\ ProxyInv'
    <2>1. Working' => Working
      BY <1>1
    <2> QED
      BY <2>1, <1>3, <1>4, QuietStep
  <1>6. AgentType' /\ TaskType'
    BY <1>3 DEF AgentType, TaskType, Nothing
  <1>7. BusySound' /\ NamesSound' /\ WaitingSound'
    BY <1>2, <1>3, <1>4 DEF BusySound, NamesSound, WaitingSound
  <1>8. AddsServed'
    BY <1>4, WorkloadManagerAssumption DEF AddsServed
  <1> QED
    BY <1>5, <1>6, <1>7, <1>8 DEF TaskInv

\* A lost connection changes nothing but where the task stands; a protocol
\* error ends it.
LEMMA LostStep ==
    ASSUME ManagerInv, Disconnect \/ ProtocolError
    PROVE  ManagerInv'
  <1> USE DEF ManagerInv
  <1>1. mode = "reading" /\ Working /\ BusySound /\ WaitingSound /\ NamesSound /\ AddsServed
    BY DEF TaskInv, Working, Disconnect, ProtocolError, Reading
  <1>2. busy = Idle /\ \A v \in Uids : todo[v] = None
    BY <1>1 DEF BusySound, WaitingSound
  <1>3. /\ UNCHANGED <<pods, told, due, received, names, busy, todo, pending>>
        /\ UNCHANGED proxyVars
        /\ timer' \in BOOLEAN /\ ready' \in BOOLEAN
        /\ mode' \in {"connecting", "exited"}
    BY DEF Disconnect, ProtocolError, agentVars, snapVars, TaskType
  <1>4. ProxyType' /\ ProxyInv'
    <2>1. Working' => Working
      BY <1>1
    <2> QED
      BY <2>1, <1>3, QuietStep
  <1>5. AgentType' /\ TaskType'
    BY <1>3 DEF AgentType, TaskType
  <1>6. UNCHANGED <<states, alive>>
    BY <1>3 DEF proxyVars
  <1>7. BusySound' /\ NamesSound' /\ WaitingSound'
    BY <1>1, <1>2, <1>3, <1>6 DEF BusySound, NamesSound, WaitingSound
  <1>8. AddsServed'
    BY <1>1, <1>3, <1>6 DEF AddsServed, Serves
  <1> QED
    BY <1>4, <1>5, <1>7, <1>8 DEF TaskInv

\* The drain begins: the proxies in service are told to end too, and all are
\* joined.
LEMMA StartDrainStep ==
    ASSUME ManagerInv, StartDrain
    PROVE  ManagerInv' /\ SameProxies
  <1> USE DEF ManagerInv
  <1>1. Working /\ InService /\ Owned /\ Counted
    BY DEF ProxyInv, Working, StartDrain
  <1>2. /\ UNCHANGED <<pods, told, due, received, names, busy, todo, pending>>
        /\ UNCHANGED <<states, draining, admin, fw>>
        /\ timer' = FALSE /\ ready' = FALSE /\ mode' = "draining"
    BY DEF StartDrain, agentVars, snapVars
  <1>3. \A g \in Ids : \/ alive'[g] = alive[g]
                       \/ (\E u \in Uids : states[u] = g)
                            /\ alive'[g] = [alive[g] EXCEPT !.signal = "Graceful"]
    BY DEF StartDrain
  <1>4. \A g \in Ids : (\E u \in Uids : states[u] = g) => alive[g] \in Proxies
    BY <1>1, WorkloadManagerAssumption DEF InService, ProxyType
  <1>5. \A g \in Ids :
          /\ alive'[g] \in Proxies \cup {None}
          /\ alive'[g] = None <=> alive[g] = None
          /\ alive[g] # None => alive'[g].uid = alive[g].uid /\ alive'[g].netns = alive[g].netns
    <2> SUFFICES ASSUME NEW g \in Ids
                 PROVE  /\ alive'[g] \in Proxies \cup {None}
                        /\ alive'[g] = None <=> alive[g] = None
                        /\ alive[g] # None => /\ alive'[g].uid = alive[g].uid
                                              /\ alive'[g].netns = alive[g].netns
      OBVIOUS
    <2>1. CASE alive'[g] = alive[g]
      BY <2>1 DEF ProxyType
    <2>2. CASE (\E u \in Uids : states[u] = g) /\ alive'[g] = [alive[g] EXCEPT !.signal = "Graceful"]
      <3>1. alive[g] \in Proxies
        BY <2>2, <1>4
      <3>2. alive'[g] \in Proxies /\ alive'[g].uid = alive[g].uid /\ alive'[g].netns = alive[g].netns
        BY <2>2, <3>1 DEF Proxies
      <3> QED
        BY <3>1, <3>2, WorkloadManagerAssumption
    <2> QED
      BY <2>1, <2>2, <1>3
  <1>6. alive' \in [Ids -> Proxies \cup {None}]
    <2>1. alive' = [g \in Ids |-> alive'[g]]
      BY DEF StartDrain
    <2> QED
      BY <2>1, <1>5
  <1>7. AgentType' /\ TaskType' /\ ProxyType'
    BY <1>2, <1>6 DEF AgentType, TaskType, ProxyType
  <1>8. SameProxies
    BY <1>5 DEF SameProxies
  <1>9. Joined'
    BY <1>1, <1>2, <1>5 DEF Joined, Owned
  <1>10. Counted'
    BY <1>1, <1>2, <1>8, CountKept
  <1> QED
    BY <1>2, <1>7, <1>8, <1>9, <1>10 DEF ProxyInv, TaskInv, Working

\* The drain is done when every proxy it joins has ended.
LEMMA DrainDoneStep ==
    ASSUME ManagerInv, DrainDone
    PROVE  ManagerInv' /\ \A g \in Ids : alive[g] = None
  <1> USE DEF ManagerInv
  <1>1. /\ UNCHANGED <<pods, told, due, received, names, busy, todo, pending, timer, ready>>
        /\ UNCHANGED <<states, alive, draining, admin, fw>>
        /\ mode = "draining" /\ mode' = "drained"
    BY DEF DrainDone, agentVars, snapVars, proxyVars
  <1>2. \A g \in Ids : alive[g] = None
    <2> SUFFICES ASSUME NEW g \in Ids, alive[g] # None PROVE FALSE
      OBVIOUS
    <2>1. alive[g].uid \in Uids
      BY DEF ProxyType, Proxies
    <2>2. states[alive[g].uid] = g \/ g \in draining
      BY <1>1 DEF ProxyInv, Joined
    <2> QED
      BY <2>1, <2>2, WorkloadManagerAssumption DEF DrainDone
  <1>3. AgentType' /\ TaskType' /\ ProxyType'
    BY <1>1 DEF AgentType, TaskType, ProxyType
  <1>4. Counted'
    BY <1>1 DEF ProxyInv, Counted, CountOf, ProxiesOf
  <1> QED
    BY <1>1, <1>2, <1>3, <1>4 DEF ProxyInv, TaskInv, Working

-----------------------------------------------------------------------------
(* The theorems                                                            *)

\* The manager starts without proxies.
LEMMA InitEstablishes == Init => ManagerInv
  <1> SUFFICES ASSUME Init PROVE ManagerInv
    OBVIOUS
  <1> USE DEF Init
  <1>1. \A u \in Uids : /\ told[u] = None /\ todo[u] = None /\ pending[u] = None
                        /\ states[u] = None /\ admin[u] = None
    BY DEF Nothing
  <1>2. AgentType /\ TaskType /\ ProxyType
    <2>1. AgentType
      BY DEF AgentType, Nothing
    <2>2. TaskType
      BY DEF TaskType, Nothing, Idle
    <2>3. ProxyType
      BY DEF ProxyType, Nothing
    <2> QED
      BY <2>1, <2>2, <2>3
  <1>3. Counted
    <2> SUFFICES ASSUME NEW u \in Uids PROVE CountOf(admin[u]) = Cardinality(ProxiesOf(alive, u))
      BY DEF Counted
    <2>1. ProxiesOf(alive, u) = {}
      BY DEF ProxiesOf
    <2> QED
      BY <1>1, <2>1, FS_EmptySet DEF CountOf
  <1>4. InService /\ Owned /\ FwCovers
    BY <1>1 DEF InService, Owned, FwCovers
  <1>5. BusySound /\ WaitingSound /\ NamesSound /\ AddsServed
    BY <1>1, WorkloadManagerAssumption DEF BusySound, WaitingSound, NamesSound, AddsServed
  <1> QED
    BY <1>2, <1>3, <1>4, <1>5 DEF ManagerInv, ProxyInv, TaskInv

\* Every step of the agent, the task and the proxies keeps the invariant.
LEMMA ManagerStep == ManagerInv /\ [Next]_vars => ManagerInv'
  <1> SUFFICES ASSUME ManagerInv, [Next]_vars PROVE ManagerInv'
    OBVIOUS
  <1>1. CASE UNCHANGED vars
    <2>1. /\ UNCHANGED <<pods, told, due, mode, busy, todo, pending, received, names, timer, ready>>
          /\ UNCHANGED proxyVars
      BY <1>1 DEF vars, agentVars, snapVars
    <2>2. ProxyType' /\ ProxyInv'
      BY <2>1, QuietStep DEF ManagerInv, Working
    <2>3. AgentType' /\ TaskType'
      BY <2>1 DEF ManagerInv, AgentType, TaskType
    <2>4. UNCHANGED <<states, alive>>
      BY <2>1 DEF proxyVars
    <2>5. TaskInv'
      BY <2>1, <2>4 DEF ManagerInv, TaskInv, Working, BusySound, WaitingSound, NamesSound,
         AddsServed, Serves
    <2> QED
      BY <2>2, <2>3, <2>5 DEF ManagerInv
  <1>2. CASE Manager
    BY <1>2, ReceiveAddStep, ReceiveDelStep, SnapshotStep, RetryRoundStep, RetryNextStep,
       ConnectionStep, StartDrainStep, DrainDoneStep DEF Manager
  <1>3. CASE Next /\ ~Manager
    BY <1>3, AgentStep, StartOkStep, StartFailsStep, NamedOnlyStep, LostStep, ConnectionStep,
       ExitStep DEF Next
  <1> QED
    BY <1>1, <1>2, <1>3

\* The invariant holds for ever.
THEOREM ManagerInvariant == Spec => []ManagerInv
  BY InitEstablishes, ManagerStep, PTL DEF Spec

\* The state of the manager, the admin handler and the firewall keeps its type;
\* no pod is ever counted more proxies than there can be.
THEOREM TypeCorrect == Spec => []TypeOK
  <1>1. ManagerInv => TypeOK
    <2> SUFFICES ASSUME ManagerInv PROVE TypeOK
      OBVIOUS
    <2>1. ASSUME NEW u \in Uids
          PROVE  admin[u] \in [state : {"Pending", "Up"}, count : 0..MaxProxies] \cup {None}
      <3>1. IsFiniteSet(Ids) /\ Cardinality(Ids) = MaxProxies
        BY WorkloadManagerAssumption, FS_Interval DEF Ids
      <3>2. Cardinality(ProxiesOf(alive, u)) <= MaxProxies
        BY <3>1, FS_Subset DEF ProxiesOf
      <3>3. CountOf(admin[u]) <= MaxProxies
        BY <3>2 DEF ManagerInv, ProxyInv, Counted
      <3>4. admin[u] \in Counters \cup {None}
        BY DEF ManagerInv, ProxyType
      <3>5. MaxProxies \in Nat
        BY WorkloadManagerAssumption
      <3> QED
        BY <3>3, <3>4, <3>5 DEF CountOf, Counters
    <2>2. admin \in [Uids -> [state : {"Pending", "Up"}, count : 0..MaxProxies] \cup {None}]
      BY <2>1 DEF ManagerInv, ProxyType
    <2> QED
      BY <2>2 DEF ManagerInv, AgentType, TaskType, ProxyType, TypeOK
  <1> QED
    BY <1>1, ManagerInvariant, PTL

\* No failed, repeated or overtaken start and no delete loses a pod the agent
\* added on this connection.
THEOREM AddsAlwaysTakeEffect == Spec => []AddsTakeEffect
  <1>1. ManagerInv => AddsTakeEffect
    <2> SUFFICES ASSUME ManagerInv, Working, NEW u \in Uids, told[u] \in Netns
                 PROVE  Holds(u, told[u])
      BY DEF AddsTakeEffect
    <2>1. Serves(u, told[u]) /\ InService
      BY DEF ManagerInv, TaskInv, AddsServed, ProxyInv
    <2> QED
      BY <2>1 DEF Serves, Holds, InService
  <1> QED
    BY <1>1, ManagerInvariant, PTL

\* After the snapshot nothing runs or waits that the agent did not name on this
\* connection.
THEOREM ForgottenNeverRuns == Spec => []NothingForgottenRuns
  <1>1. ManagerInv => NothingForgottenRuns
    <2> SUFFICES ASSUME ManagerInv, Working, received,
                        NEW u \in Uids, NEW n \in Netns, Holds(u, n)
                 PROVE  told[u] # None
      BY DEF NothingForgottenRuns
    <2>1. BusySound /\ WaitingSound /\ NamesSound /\ n # None
      BY WorkloadManagerAssumption DEF ManagerInv, TaskInv
    <2>2. CASE busy.uid = u /\ busy.netns = n
      BY <2>1, <2>2 DEF BusySound, Idle
    <2>3. CASE states[u] # None \/ pending[u] = n \/ todo[u] = n
      BY <2>1, <2>3 DEF WaitingSound, NamesSound
    <2> QED
      BY <2>2, <2>3 DEF Holds
  <1> QED
    BY <1>1, ManagerInvariant, PTL

\* The manager, the admin handler and the firewall coordinator agree with the
\* proxies that run.
THEOREM ProxiesAlwaysAccounted == Spec => []ProxiesAccounted
  <1>1. ManagerInv => ProxiesAccounted
    <2> SUFFICES ASSUME ManagerInv PROVE ProxiesAccounted
      OBVIOUS
    <2>1. NoOrphanProxy
      BY DEF ManagerInv, ProxyInv, NoOrphanProxy, Owned
    <2>2. AdminCountsProxies
      BY DEF ManagerInv, ProxyInv, AdminCountsProxies, Counted, CountOf, ProxiesOf
    <2>3. FirewallCovers
      BY WorkloadManagerAssumption DEF ManagerInv, ProxyInv, FirewallCovers, FwCovers
    <2> QED
      BY <2>1, <2>2, <2>3 DEF ProxiesAccounted
  <1> QED
    BY <1>1, ManagerInvariant, PTL

-----------------------------------------------------------------------------
(* The refinement                                                          *)

\* The state of GracefulDrain the manager implements.
Phase == IF Working THEN "serving"
         ELSE CASE mode = "draining" -> "draining" [] mode = "drained" -> "stopped" [] OTHER -> "aborted"

Active == {g \in Ids : alive[g] # None}

\* Where the same proxies run and the task goes on working, the contract sees
\* nothing.
LEMMA Unseen ==
    ASSUME SameProxies, \/ Working /\ Working'
                        \/ mode' = mode
    PROVE  UNCHANGED <<Phase, Active>>
  <1>1. Active' = Active
    BY DEF Active, SameProxies
  <1>2. Phase' = Phase
    BY DEF Phase, Working
  <1> QED
    BY <1>1, <1>2

\* Every step of the manager is a step of the contract or leaves it alone.
LEMMA ContractStep ==
    ASSUME ManagerInv, [Next]_vars
    PROVE  [Contract!Next]_<<Phase, Active>>
  <1>1. CASE UNCHANGED vars
    <2>1. UNCHANGED <<mode, alive>>
      BY <1>1 DEF vars, proxyVars
    <2> QED
      BY <2>1 DEF Phase, Active, Working
  <1>2. CASE \E u \in Uids : ReceiveAdd(u) \/ RetryNext(u) \/ ReceiveDel(u)
    <2>1. SameProxies
      BY <1>2, ReceiveAddStep, RetryNextStep, ReceiveDelStep
    <2>2. Working /\ Working'
      BY <1>2 DEF ReceiveAdd, RetryNext, ReceiveDel, Reading, Working, Begin, BeginStart,
         AlreadyRuns, Return
    <2> QED
      BY <2>1, <2>2, Unseen
  <1>3. CASE ReceiveSnapshotSent
    <2>1. SameProxies
      BY <1>3, SnapshotStep
    <2>2. Working /\ Working'
      BY <1>3 DEF ReceiveSnapshotSent, Reading, Working
    <2> QED
      BY <2>1, <2>2, Unseen
  <1>4. CASE \/ RetryTimer \/ RetryDone \/ Connect \/ AnnounceFails \/ Disconnect \/ StartFails
             \/ \E u \in Uids : ReceiveAddBadNetns(u) \/ ReceiveKeep(u)
    <2>1. alive' = alive
      BY <1>4 DEF RetryTimer, RetryDone, Connect, AnnounceFails, Disconnect, StartFails,
         ReceiveAddBadNetns, ReceiveKeep, proxyVars
    <2>2. Working /\ Working'
      BY <1>4 DEF RetryTimer, RetryDone, Connect, AnnounceFails, Disconnect, StartFails,
         ReceiveAddBadNetns, ReceiveKeep, Reading, Working, Return
    <2>3. SameProxies
      BY <2>1 DEF SameProxies
    <2> QED
      BY <2>2, <2>3, Unseen
  <1>5. CASE \/ \E u \in Uids : PodDeleted(u) \/ \E n \in Netns : PodAdded(u, n)
             \/ DrainRequested
    <2>1. alive' = alive /\ mode' = mode
      BY <1>5 DEF PodDeleted, PodAdded, DrainRequested, proxyVars
    <2>2. SameProxies
      BY <2>1 DEF SameProxies
    <2> QED
      BY <2>1, <2>2, Unseen
  <1>6. ASSUME NEW g \in Ids, ProxyExits(g) PROVE Contract!Next
    <2>1. alive' = [alive EXCEPT ![g] = None] /\ alive[g] # None /\ mode' = mode
      BY <1>6 DEF ProxyExits
    <2>2. g \in Active /\ Active' = Active \ {g}
      BY <2>1 DEF Active, ManagerInv, ProxyType
    <2>3. Phase' = Phase
      BY <2>1 DEF Phase, Working
    <2>4. Contract!Finish(g)
      BY <2>2, <2>3 DEF Contract!Finish, Active, Phase
    <2> QED
      BY <2>4 DEF Contract!Next
  <1>7. CASE StartOk
    <2>1. PICK g \in Ids : alive[g] = None /\ g = CHOOSE i \in Ids : alive[i] = None
      BY <1>7 DEF StartOk
    <2>2. PICK p : p = [uid |-> busy.uid, netns |-> busy.netns, signal |-> "none"]
      OBVIOUS
    <2>3. p \in Proxies
      BY <1>7, <2>2 DEF ManagerInv, TaskInv, BusySound, Working, StartOk, Proxies
    <2>4. p # None
      BY <2>3, WorkloadManagerAssumption
    <2>5. alive' = [alive EXCEPT ![g] = p]
      BY <1>7, <2>1, <2>2 DEF StartOk
    <2>6. g \notin Active /\ Active' = Active \cup {g}
      BY <2>1, <2>4, <2>5 DEF Active, ManagerInv, ProxyType
    <2>7. Phase = "serving" /\ Phase' = "serving"
      BY <1>7 DEF Phase, Working, StartOk, Return
    <2>8. Contract!TakeUp(g)
      BY <2>6, <2>7 DEF Contract!TakeUp, Active, Phase
    <2> QED
      BY <2>8 DEF Contract!Next
  <1>8. CASE StartDrain
    <2>1. Active' = Active
      BY <1>8, StartDrainStep DEF Active, SameProxies
    <2>2. Phase = "serving" /\ Phase' = "draining"
      BY <1>8 DEF StartDrain, Phase, Working
    <2>3. Contract!StartDrain
      BY <2>1, <2>2 DEF Contract!StartDrain, Active, Phase
    <2> QED
      BY <2>3 DEF Contract!Next
  <1>9. CASE DrainDone
    <2>1. Active = {} /\ Active' = Active
      BY <1>9, DrainDoneStep DEF Active, DrainDone, proxyVars
    <2>2. Phase = "draining" /\ Phase' = "stopped"
      BY <1>9 DEF DrainDone, Phase, Working
    <2>3. Contract!Stop
      BY <2>1, <2>2 DEF Contract!Stop, Active, Phase
    <2> QED
      BY <2>3 DEF Contract!Next
  <1>10. CASE ProtocolError
    <2>1. Active' = Active
      BY <1>10 DEF ProtocolError, Active, proxyVars
    <2>2. Phase = "serving" /\ Phase' = "aborted"
      BY <1>10 DEF ProtocolError, Reading, Phase, Working
    <2>3. Contract!Abort
      BY <2>1, <2>2 DEF Contract!Abort, Active, Phase
    <2> QED
      BY <2>3 DEF Contract!Next
  <1> QED
    BY <1>1, <1>2, <1>3, <1>4, <1>5, <1>6, <1>7, <1>8, <1>9, <1>10 DEF Next, Manager

\* The manager implements the contract of a graceful drain: a proxy is started
\* only before the drain, and the drain ends only when every proxy, of earlier
\* replacements and deletes too, has ended.
THEOREM DrainIsGraceful == Spec => Contract!Spec
  <1>1. Init => Contract!Init
    BY DEF Init, Contract!Init, Working
  <1>2. ManagerInv /\ [Next]_vars => [Contract!Next]_<<Phase, Active>>
    BY ContractStep
  <1> QED
    BY <1>1, <1>2, ManagerInvariant, PTL DEF Spec, Contract!Spec, Phase, Active

-----------------------------------------------------------------------------
(* The firewall controllers: the inductive invariant                       *)

\* The values of the state: the hashes of rule sets, the entries of the
\* controller's map, the jobs computed under the lock, and the kernel's side.
Hashes == RuleSets \cup {Zero}
Entries == [ns : PodNetns, hash : Hashes, state : {"Enrolled", "PendingWorkload", "InitFailed"}, retries : Nat]
Chains == [Directions -> RuleSets \cup {NoRules}]
Jumps == SUBSET Directions
JobSet == [pod : Pods, ns : PodNetns, rules : RuleSets]

\* The types of the variables.
FwType ==
    /\ proxyMode \in {"inpod", "dedicated"} /\ host \in Hosts /\ kind \in Kinds /\ stranded \in SUBSET PodNetns
    /\ want \in [Pods -> RuleSets \cup {NoWorkload}]
    /\ polNote \in BOOLEAN
    /\ events \in Seq([pod : Pods, ns : PodNetns \cup {NoJob}])
    /\ home \in [Pods -> PodNetns \cup {NoJob}]
    /\ podStates \in [Pods -> Entries \cup {NoPod}]
    /\ pc \in {"select", "debounce", "init", "apply", "rebuild", "pending", "retry", "boot", "own", "stopped", "drained"}
    /\ back \in {"select", "debounce"}
    /\ jobs \in SUBSET JobSet /\ done \in SUBSET JobSet
    /\ retrying \in SUBSET Pods
    /\ hooked \in [PodNetns -> [Kinds -> Jumps]]
    /\ table \in [PodNetns -> [Kinds -> Chains]]
    /\ late \in SUBSET [ns : PodNetns, kind : Kinds, rules : RuleSets]

\* The backend in use is one that a host without rules has, and only it has rules,
\* or a process that may still set some, but for the nftables rules that a start
\* with the other mode has left; iptables has none without its jumps, by which a
\* new start finds it again (detect_backend).
Backends ==
    /\ kind = "nft" => host.nft
    /\ kind # "nft" => \E v \in ChooseIptablesVariant(host, [k \in Kinds |-> FALSE]) : v.table = kind
    /\ \A n \in PodNetns, k \in Kinds \ {kind} : k # "nft" => table[n][k] = Empty /\ hooked[n][k] = {}
    /\ \A n \in PodNetns : kind # "nft" /\ table[n]["nft"] # Empty => n \in stranded
    /\ \A n \in PodNetns : kind # "nft" /\ table[n][kind] # Empty => hooked[n][kind] # {}
    /\ \A l \in late : \/ l.kind = kind /\ (kind # "nft" => hooked[l.ns][kind] # {})
                       \/ l.kind = "nft" /\ kind # "nft" /\ l.ns \in stranded
    /\ proxyMode = "dedicated" =>
          \A n \in PodNetns \ {Own} : (\A k \in Kinds : table[n][k] = Empty /\ hooked[n][k] = {}) /\ \A l \in late : l.ns # n

\* Which parts of the control are used in which mode.
Modes ==
    /\ proxyMode = "dedicated" =>
          /\ pc \in {"boot", "init", "own", "select", "debounce", "stopped", "drained"}
          /\ events = <<>> /\ jobs = {} /\ done = {} /\ retrying = {}
          /\ \A p \in Pods : home[p] = NoJob
          /\ \A p \in Pods : podStates[p] # NoPod => p = Self /\ podStates[p].ns = Own /\ podStates[p].state = "Enrolled"
          /\ pc = "own" => cur.rules \in RuleSets
          /\ pc = "init" => cur.ns = Own
    /\ proxyMode = "inpod" => pc \notin {"boot", "own", "stopped"}
    /\ pc \notin {"init", "apply", "retry"} => retrying = {}
    /\ pc \notin {"rebuild", "pending"} => jobs = {}
    /\ pc # "rebuild" => done = {}

\* A netns is that of one pod.
NetnsOwned ==
    /\ \A p \in Pods : podStates[p] # NoPod => podStates[p].ns[1] = p
    /\ \A i \in DOMAIN events : events[i].ns # NoJob => events[i].ns[1] = events[i].pod
    /\ \A p \in Pods : home[p] # NoJob => home[p][1] = p

\* The pod whose rules are set up is new, or one that is tried again.
Current ==
    proxyMode = "inpod" /\ pc \in {"init", "apply"} =>
        /\ cur.pod \in Pods /\ cur.ns \in PodNetns /\ cur.ns[1] = cur.pod
        /\ cur.pod \notin retrying
        /\ podStates[cur.pod] # NoPod =>
              /\ podStates[cur.pod].ns = cur.ns /\ podStates[cur.pod].state = "InitFailed"
              /\ podStates[cur.pod].retries < MaxInitRetries
        /\ pc = "apply" => cur.rules \in RuleSets /\ (kind # "nft" => hooked[cur.ns][kind] = Directions)

\* Only pods whose setup failed are tried again, and not too often; a pod without
\* rules has no hash.
Retries ==
    /\ \A p \in Pods : podStates[p] # NoPod =>
          podStates[p].retries <= MaxInitRetries /\ (podStates[p].state # "Enrolled" => podStates[p].hash = Zero)
    /\ \A p \in retrying : podStates[p] # NoPod /\ podStates[p].state = "InitFailed" /\ podStates[p].retries < MaxInitRetries

\* The rules being applied are for pods as they are known.
Applying ==
    /\ \A j \in jobs \cup done :
          podStates[j.pod] # NoPod /\ podStates[j.pod].ns = j.ns /\ podStates[j.pod].state # "InitFailed"
    /\ \A i, j \in jobs \cup done : i.pod = j.pod => i = j
    /\ jobs \cap done = {}

\* The jumps are there wherever the setup has succeeded.
Hooks ==
    /\ \A p \in Pods : podStates[p] # NoPod /\ podStates[p].state # "InitFailed" /\ kind # "nft" =>
          hooked[podStates[p].ns][kind] = Directions
    /\ proxyMode = "dedicated" /\ pc \in {"select", "debounce", "own"} /\ kind # "nft" => hooked[Own][kind] = Directions

\* The rules that the controller believes in force are, unless a timed out process
\* has replaced them.
Believed ==
    \A p \in Pods : podStates[p] # NoPod /\ podStates[p].ns \notin tainted =>
        /\ \A j \in done : j.pod = p => InForce(j.ns, j.rules)
        /\ podStates[p].state = "Enrolled" /\ (\A j \in done : j.pod # p) /\ (proxyMode = "dedicated" => pc # "drained") =>
              InForce(podStates[p].ns, podStates[p].hash)

\* A change of the policies is known that has not been taken up.
Noticed == polNote \/ pc \in {"debounce", "drained"} \/ (pc \in {"init", "apply", "retry"} /\ back = "debounce")

\* Otherwise every pod has, or is getting, the rules that it wants; a failure is
\* known.
Fresh ==
    ~Noticed =>
        /\ proxyMode = "inpod" => \A p \in Pods : podStates[p] # NoPod =>
              \/ p \in missed \/ want[p] = NoWorkload \/ podStates[p].state = "InitFailed"
              \/ podStates[p].state = "Enrolled" /\ podStates[p].hash = want[p]
              \/ \E j \in jobs \cup done : j.pod = p
        /\ \A j \in jobs \cup done : j.rules = want[j.pod]
        /\ proxyMode = "inpod" /\ pc = "apply" => cur.rules = want[cur.pod]
        /\ proxyMode = "dedicated" /\ pc = "own" => cur.rules = want[Self]
        /\ proxyMode = "dedicated" /\ pc = "select" =>
              want[Self] = NoWorkload \/ Self \in missed \/ (podStates[Self] # NoPod /\ podStates[Self].hash = want[Self])

\* What the manager reported last of a pod is still to come, or taken up.
Reported ==
    /\ \A i \in DOMAIN events : (\A j \in DOMAIN events : j > i => events[j].pod # events[i].pod) => events[i].ns = home[events[i].pod]
    /\ \A p \in Pods : (\A i \in DOMAIN events : events[i].pod # p) /\ home[p] # NoJob =>
          \/ podStates[p] # NoPod /\ podStates[p].ns = home[p]
          \/ pc \in {"init", "apply"} /\ cur.pod = p /\ cur.ns = home[p]

\* Rules are only where they may be.
Cleaned ==
    /\ proxyMode = "inpod" =>
          \A n \in PodNetns : table[n][kind] # Empty =>
              n \in leftover \cup tainted \/ \E p \in Pods : podStates[p] # NoPod /\ podStates[p].ns = n
    /\ proxyMode = "dedicated" /\ pc = "drained" => table[Own][kind] = Empty \/ Own \in leftover \cup tainted

\* The inductive invariant.
FwInv ==
    /\ FwType /\ Backends /\ Modes /\ NetnsOwned /\ Current /\ Retries /\ Applying /\ Hooks /\ Believed /\ Fresh /\ Reported /\ Cleaned

-----------------------------------------------------------------------------
(* The kernel                                                              *)

\* A step of the backend in one netns: it changes the rules there, of the backend
\* in use, and takes no jump away.
Around(ns) ==
    /\ table' \in [PodNetns -> [Kinds -> Chains]]
    /\ hooked' \in [PodNetns -> [Kinds -> Jumps]]
    /\ \A n \in PodNetns, k \in Kinds : n # ns \/ k # kind => table'[n][k] = table[n][k] /\ hooked'[n][k] = hooked[n][k]
    /\ hooked[ns][kind] \subseteq hooked'[ns][kind]

\* The rules that will be in force.
Forced(ns, r) == \A d \in Directions : table'[ns][kind][d] = r /\ d \in hooked'[ns][kind]

\* A rule set in both directions is not an empty chain in one of them.
LEMMA FullTyped == \A r \in RuleSets : Full(r) \in Chains /\ \A d \in Directions : Full(r)[d] = r
  BY DEF Full, Chains

\* A flushed chain is one.
LEMMA EmptyTyped == Empty \in Chains
  BY DEF Empty, Chains

\* apply sets both chains of the backend in use, and with nftables the jumps.
LEMMA AppliedAround ==
    ASSUME FwType, NEW ns \in PodNetns, NEW r \in RuleSets, Applied(ns, r)
    PROVE  /\ Around(ns) /\ table'[ns][kind] = Full(r)
           /\ hooked'[ns][kind] = (IF kind = "nft" THEN Directions ELSE hooked[ns][kind])
           /\ late' = late /\ leftover' = leftover /\ tainted' = tainted \ {ns}
<1>1. kind \in Kinds /\ hooked[ns][kind] \in Jumps /\ Directions \in Jumps
  BY DEF FwType, Jumps
<1>2. PICK f : f = (IF kind = "nft" THEN Directions ELSE hooked[ns][kind]) /\ f \in Jumps
  BY <1>1
<1>3. /\ table' \in [PodNetns -> [Kinds -> Chains]]
      /\ table'[ns][kind] = Full(r)
      /\ \A n \in PodNetns, o \in Kinds : n # ns \/ o # kind => table'[n][o] = table[n][o]
  <2>1. PICK g \in Chains : g = Full(r)
    BY FullTyped
  <2>2. table' = [table EXCEPT ![ns][kind] = g]
    BY <2>1 DEF Applied
  <2>. QED
    BY ONLY <1>1, <2>1, <2>2, FwType DEF FwType
<1>4. hooked' = [hooked EXCEPT ![ns][kind] = f]
  BY <1>2 DEF Applied
<1>5. /\ hooked' \in [PodNetns -> [Kinds -> Jumps]]
      /\ hooked'[ns][kind] = f
      /\ \A n \in PodNetns, o \in Kinds : n # ns \/ o # kind => hooked'[n][o] = hooked[n][o]
  BY <1>1, <1>2, <1>4 DEF FwType
<1>. QED
  BY <1>1, <1>2, <1>3, <1>5 DEF Around, Applied, Jumps

\* A failed apply changes nothing yet: its process may be alive.
LEMMA ApplyFailsAround ==
    ASSUME FwType, NEW ns \in PodNetns, NEW r \in RuleSets, ApplyFails(ns, r)
    PROVE  /\ Around(ns) /\ table' = table /\ hooked' = hooked /\ tainted' = tainted /\ leftover' = leftover
           /\ late' \in SUBSET [ns : PodNetns, kind : Kinds, rules : RuleSets]
           /\ \A l \in late' : l \in late \/ (l.ns = ns /\ l.kind = kind)
<1>1. kind \in Kinds
  BY DEF FwType
<1>2. PICK l : l = [ns |-> ns, kind |-> kind, rules |-> r]
  OBVIOUS
<1>3. l \in [ns : PodNetns, kind : Kinds, rules : RuleSets] /\ l.ns = ns /\ l.kind = kind
  BY <1>1, <1>2
<1>4. late' \in {late, late \cup {l}}
  BY <1>2 DEF ApplyFails
<1>. QED
  BY <1>3, <1>4 DEF ApplyFails, Around, FwType, Chains

\* do_init sets the jumps of iptables, and leaves what exists.
LEMMA InitAround ==
    ASSUME FwType, NEW ns \in PodNetns, table' = table,
           hooked' = InitDone(ns) \/ hooked' \in InitBroken(ns)
    PROVE  /\ Around(ns)
           /\ hooked' = InitDone(ns) /\ kind # "nft" => hooked'[ns][kind] = Directions
<1>1. kind \in Kinds /\ hooked[ns][kind] \in Jumps
  BY DEF FwType
<1>2. PICK f \in Jumps : /\ hooked[ns][kind] \subseteq f /\ hooked' = [hooked EXCEPT ![ns][kind] = f]
                         /\ hooked' = InitDone(ns) /\ kind # "nft" => f = Directions
  <2>1. CASE hooked' = InitDone(ns)
    <3>1. CASE kind = "nft"
      <4>1. hooked' = [hooked EXCEPT ![ns][kind] = hooked[ns][kind]]
        BY <2>1, <3>1 DEF InitDone
      <4>. QED
        BY <1>1, <3>1, <4>1
    <3>2. CASE kind # "nft"
      <4>1. hooked' = [hooked EXCEPT ![ns][kind] = Directions]
        BY <2>1, <3>2 DEF InitDone
      <4>. QED
        BY <1>1, <3>2, <4>1 DEF Jumps
    <3>. QED
      BY <3>1, <3>2
  <2>2. CASE hooked' \in InitBroken(ns) /\ hooked' # InitDone(ns)
    <3>1. PICK part \in {{}, {"Inbound"}} : hooked' = [hooked EXCEPT ![ns][kind] = hooked[ns][kind] \cup part]
      BY <2>2 DEF InitBroken
    <3>2. part \in Jumps
      BY <3>1 DEF Directions, Jumps
    <3>. QED
      BY <1>1, <2>2, <3>1, <3>2 DEF Jumps
  <2>. QED
    BY <2>1, <2>2
<1>3. /\ hooked' = [hooked EXCEPT ![ns][kind] = f] /\ hooked[ns][kind] \subseteq f
      /\ hooked' = InitDone(ns) /\ kind # "nft" => f = Directions
  BY <1>2, Zenon
<1>4. /\ hooked' \in [PodNetns -> [Kinds -> Jumps]] /\ hooked'[ns][kind] = f
      /\ \A n \in PodNetns, o \in Kinds : n # ns \/ o # kind => hooked'[n][o] = hooked[n][o]
  BY ONLY <1>1, <1>3, f \in Jumps, FwType DEF FwType
<1>5. table' \in [PodNetns -> [Kinds -> Chains]]
  BY DEF FwType
<1>. QED
  BY <1>3, <1>4, <1>5, Zenon DEF Around

\* cleanup empties both chains, or one of them and says so.
LEMMA CleanupAround ==
    ASSUME FwType, NEW ns \in PodNetns, Cleanup(ns)
    PROVE  /\ Around(ns) /\ hooked' = hooked /\ late' = late /\ tainted' = tainted
           /\ \/ table'[ns][kind] = Empty /\ leftover' = leftover \ {ns}
              \/ leftover' = leftover \cup {ns}
           /\ table[ns][kind] = Empty => table'[ns][kind] = Empty
<1>1. kind \in Kinds /\ table[ns][kind] \in Chains
  BY DEF FwType, Chains
<1>2. PICK f \in Chains : /\ table' = [table EXCEPT ![ns][kind] = f]
                          /\ (f = Empty /\ leftover' = leftover \ {ns}) \/ leftover' = leftover \cup {ns}
                          /\ table[ns][kind] = Empty => f = Empty
  <2>1. CASE table' = [table EXCEPT ![ns][kind] = Empty] /\ leftover' = leftover \ {ns}
    BY <2>1, EmptyTyped
  <2>2. ASSUME NEW d \in Directions, table' = [table EXCEPT ![ns][kind][d] = NoRules], leftover' = leftover \cup {ns}
        PROVE  \E f \in Chains : /\ table' = [table EXCEPT ![ns][kind] = f]
                                 /\ (f = Empty /\ leftover' = leftover \ {ns}) \/ leftover' = leftover \cup {ns}
                                 /\ table[ns][kind] = Empty => f = Empty
    <3>1. PICK f : f = [table[ns][kind] EXCEPT ![d] = NoRules]
      OBVIOUS
    <3>2. f \in Chains /\ (table[ns][kind] = Empty => f = Empty)
      BY <1>1, <3>1 DEF Chains, Empty
    <3>3. table' = [table EXCEPT ![ns][kind] = f]
      BY <2>2, <3>1
    <3>. QED
      BY <2>2, <3>2, <3>3
  <2>. QED
    BY <2>1, <2>2 DEF Cleanup
<1>3. /\ table' \in [PodNetns -> [Kinds -> Chains]] /\ table'[ns][kind] = f
      /\ \A n \in PodNetns, o \in Kinds : n # ns \/ o # kind => table'[n][o] = table[n][o]
  <2>1. table' = [table EXCEPT ![ns][kind] = f]
    BY <1>2, Zenon
  <2>. QED
    BY ONLY <1>1, <2>1, f \in Chains, FwType DEF FwType
<1>. QED
  BY <1>2, <1>3 DEF Around, Cleanup, FwType

\* A step that changes neither the rules nor the backend keeps them so.
LEMMA BackendsSame ==
    ASSUME FwInv, UNCHANGED <<env, kernel>>
    PROVE  Backends'
<1>1. UNCHANGED <<proxyMode, host, kind, stranded, hooked, table, late>> /\ Backends
  BY DEF FwInv, env, kernel
<1>. QED
  BY ONLY <1>1 DEF Backends

\* Whatever a step does in one netns, only the backend in use has rules, and
\* iptables none without jumps.
LEMMA BackendsStay ==
    ASSUME FwType, Backends, NEW ns \in PodNetns, Around(ns), UNCHANGED <<proxyMode, host, kind, stranded>>,
           proxyMode = "dedicated" => ns = Own,
           kind # "nft" /\ table'[ns][kind] # Empty => hooked'[ns][kind] # {},
           \A l \in late' : l \in late \/ (l.ns = ns /\ l.kind = kind /\ (kind # "nft" => hooked'[ns][kind] # {}))
    PROVE  Backends'
<1>1. \A n \in PodNetns, k \in Kinds \ {kind} : k # "nft" => table'[n][k] = Empty /\ hooked'[n][k] = {}
  BY DEF Backends, Around, FwType
<1>5. \A n \in PodNetns : kind # "nft" /\ table'[n]["nft"] # Empty => n \in stranded
  BY DEF Backends, Around, FwType, Kinds
<1>2. \A n \in PodNetns : kind # "nft" /\ table'[n][kind] # Empty => hooked'[n][kind] # {}
  BY DEF Backends, Around, FwType
<1>3. ASSUME NEW l \in late' PROVE \/ l.kind = kind /\ (kind # "nft" => hooked'[l.ns][kind] # {})
                                   \/ l.kind = "nft" /\ kind # "nft" /\ l.ns \in stranded
  <2>1. CASE l.ns = ns /\ l.kind = kind /\ (kind # "nft" => hooked'[ns][kind] # {})
    BY <2>1
  <2>2. CASE l \in late
    <3>1. /\ l.ns \in PodNetns /\ kind \in Kinds
          /\ \/ l.kind = kind /\ (kind # "nft" => hooked[l.ns][kind] # {})
             \/ l.kind = "nft" /\ kind # "nft" /\ l.ns \in stranded
      BY <2>2 DEF Backends, FwType
    <3>2. hooked[l.ns][kind] \subseteq hooked'[l.ns][kind]
      BY <3>1 DEF Around
    <3>. QED
      BY <3>1, <3>2
  <2>. QED
    BY <2>1, <2>2
<1>4. proxyMode = "dedicated" =>
          \A n \in PodNetns \ {Own} : (\A k \in Kinds : table'[n][k] = Empty /\ hooked'[n][k] = {}) /\ \A l \in late' : l.ns # n
  BY DEF Backends, Around, FwType
<1>. QED
  BY <1>1, <1>2, <1>3, <1>4, <1>5 DEF Backends

-----------------------------------------------------------------------------
(* The pods                                                                *)

\* What one pod is set to.
LEMMA PodSet ==
    ASSUME FwType, NEW p \in Pods, NEW e \in Entries \cup {NoPod}, podStates' = [podStates EXCEPT ![p] = e]
    PROVE  /\ podStates' \in [Pods -> Entries \cup {NoPod}]
           /\ podStates'[p] = e
           /\ \A q \in Pods : q # p => podStates'[q] = podStates[q]
  BY DEF FwType

\* What none stands for is no entry.
LEMMA EntriesKnown == \A e \in Entries : e # NoPod
  BY FirewallAssumption DEF Entries, Hashes, PodNetns

\* The pods of different netns are different.
LEMMA OwnNetns ==
    ASSUME NetnsOwned, NEW p \in Pods, NEW q \in Pods, p # q, podStates[p] # NoPod, podStates[q] # NoPod
    PROVE  podStates[p].ns # podStates[q].ns
  BY DEF NetnsOwned

\* What a pod becomes when its setup ends, well or not.
LEMMA Settled ==
    ASSUME FwInv, proxyMode = "inpod", pc \in {"init", "apply"}, NEW st \in {"Enrolled", "PendingWorkload", "InitFailed"},
           NEW hash \in Hashes, Settle(st, hash)
    PROVE  \E e \in Entries :
             /\ e.ns = cur.ns /\ e.hash = hash /\ e.state = st /\ e.retries <= MaxInitRetries
             /\ podStates' = [podStates EXCEPT ![cur.pod] = e]
<1>. DEFINE n == IF podStates[cur.pod] # NoPod /\ st = "InitFailed" THEN podStates[cur.pod].retries + 1 ELSE 0
<1>1. cur.pod \in Pods /\ cur.ns \in PodNetns
  BY DEF FwInv, Current
<1>2. n \in Nat /\ n <= MaxInitRetries
  <2>1. CASE podStates[cur.pod] # NoPod
    <3>1. podStates[cur.pod] \in Entries
      BY <1>1, <2>1 DEF FwInv, FwType
    <3>2. PICK m \in Nat : m = podStates[cur.pod].retries
      BY <3>1 DEF Entries
    <3>3. m < MaxInitRetries
      BY <2>1, <3>2 DEF FwInv, Current
    <3>. QED
      BY <3>2, <3>3, FirewallAssumption
  <2>. QED
    BY <2>1, FirewallAssumption
<1>. HIDE DEF n
<1>3. PICK e : e = [ns |-> cur.ns, hash |-> hash, state |-> st, retries |-> n]
  OBVIOUS
<1>4. e \in Entries /\ e.ns = cur.ns /\ e.hash = hash /\ e.state = st /\ e.retries = n
  BY <1>1, <1>2, <1>3 DEF Entries
<1>5. podStates' = [podStates EXCEPT ![cur.pod] = e]
  BY <1>3 DEF Settle, n
<1>. QED
  BY <1>2, <1>4, <1>5

\* The pod whose setup ends is known again, and as it says.
LEMMA SettleKeeps ==
    ASSUME FwInv, proxyMode = "inpod", pc \in {"init", "apply"}, UNCHANGED <<env, home, want, polNote, events, missed>>,
           NEW st \in {"Enrolled", "PendingWorkload", "InitFailed"}, NEW hash \in Hashes, Settle(st, hash),
           Around(cur.ns), Backends', late' \in SUBSET [ns : PodNetns, kind : Kinds, rules : RuleSets],
           tainted \ {cur.ns} \subseteq tainted', leftover' = leftover,
           st # "InitFailed" /\ kind # "nft" => hooked'[cur.ns][kind] = Directions,
           st = "PendingWorkload" => want[cur.pod] = NoWorkload, st # "Enrolled" => hash = Zero,
           st = "Enrolled" => pc = "apply" /\ hash = cur.rules /\ Forced(cur.ns, hash)
    PROVE  FwInv'
<1>. DEFINE p == cur.pod
<1>1. p \in Pods /\ cur.ns \in PodNetns /\ cur.ns[1] = p /\ p \notin retrying
  BY DEF FwInv, Current
<1>2. PICK e \in Entries : /\ e.ns = cur.ns /\ e.hash = hash /\ e.state = st /\ e.retries <= MaxInitRetries
                           /\ podStates' = [podStates EXCEPT ![p] = e]
  BY Settled
<1>3. /\ podStates' \in [Pods -> Entries \cup {NoPod}] /\ podStates'[p] = e /\ e # NoPod
      /\ \A q \in Pods : q # p => podStates'[q] = podStates[q]
  BY <1>1, <1>2, PodSet, EntriesKnown DEF FwInv
<1>4. /\ UNCHANGED <<proxyMode, host, kind, stranded, back, jobs, done, retrying>>
      /\ pc' = IF retrying = {} THEN back ELSE "retry"
  BY DEF Settle, env
<1>5. jobs = {} /\ done = {}
  BY DEF FwInv, Modes
<1>. HIDE DEF p
<1>6. pc' \in {"select", "debounce", "retry"}
  BY <1>4 DEF FwInv, FwType
<1>7. FwType'
  BY <1>3, <1>4, <1>6 DEF FwInv, FwType, Around, Chains
<1>8. Modes'
  BY <1>4, <1>5, <1>6 DEF FwInv, Modes, FwType
<1>9. NetnsOwned'
  BY <1>1, <1>2, <1>3 DEF FwInv, NetnsOwned
<1>10. Current'
  BY <1>6 DEF Current
<1>11. Retries'
  BY <1>1, <1>2, <1>3, <1>4 DEF FwInv, Retries, FwType
<1>12. Applying'
  BY <1>4, <1>5 DEF Applying
<1>13. \A q \in Pods : q # p /\ podStates[q] # NoPod => podStates[q].ns # cur.ns /\ podStates[q] \in Entries
  BY <1>1 DEF FwInv, NetnsOwned, FwType
<1>14. \A q \in Pods : q # p /\ podStates[q] # NoPod => podStates[q].ns \in PodNetns
  BY <1>13 DEF Entries
<1>15. Hooks'
  BY <1>1, <1>2, <1>3, <1>4, <1>13, <1>14 DEF FwInv, Hooks, Around, FwType
<1>16. Believed'
  <2>1. ASSUME NEW q \in Pods, podStates'[q] # NoPod, podStates'[q].ns \notin tainted', podStates'[q].state = "Enrolled"
        PROVE  Forced(podStates'[q].ns, podStates'[q].hash)
    <3>1. CASE q = p
      BY <1>2, <1>3, <2>1, <3>1
    <3>2. CASE q # p
      <4>1. InForce(podStates[q].ns, podStates[q].hash)
        BY <1>3, <1>5, <1>13, <2>1, <3>2 DEF FwInv, Believed
      <4>2. \A k \in Kinds : table'[podStates[q].ns][k] = table[podStates[q].ns][k] /\ hooked'[podStates[q].ns][k] = hooked[podStates[q].ns][k]
        BY <1>3, <1>13, <1>14, <2>1, <3>2 DEF Around
      <4>. QED
        BY <1>3, <2>1, <3>2, <4>1, <4>2 DEF Forced, InForce, FwInv, FwType
    <3>. QED
      BY <3>1, <3>2
  <2>. QED
    BY <1>4, <1>5, <2>1 DEF Believed, InForce, Forced
<1>17. Fresh'
  <2>1. SUFFICES ASSUME ~Noticed' PROVE Fresh'
    BY DEF Fresh
  <2>2. ~Noticed
    BY <1>4, <2>1 DEF Noticed
  <2>3. st = "Enrolled" => hash = want[p]
    BY <2>2 DEF FwInv, Fresh, p
  <2>4. \A q \in Pods : podStates'[q] # NoPod =>
              \/ q \in missed \/ want[q] = NoWorkload \/ podStates'[q].state = "InitFailed"
              \/ podStates'[q].state = "Enrolled" /\ podStates'[q].hash = want[q]
    <3>1. ASSUME NEW q \in Pods, podStates'[q] # NoPod, q # p
          PROVE  \/ q \in missed \/ want[q] = NoWorkload \/ podStates'[q].state = "InitFailed"
                 \/ podStates'[q].state = "Enrolled" /\ podStates'[q].hash = want[q]
      BY <1>3, <1>5, <2>2, <3>1 DEF FwInv, Fresh
    <3>2. \/ want[p] = NoWorkload \/ podStates'[p].state = "InitFailed"
          \/ podStates'[p].state = "Enrolled" /\ podStates'[p].hash = want[p]
      BY <1>2, <1>3, <2>3 DEF p
    <3>. QED
      BY <3>1, <3>2
  <2>. QED
    BY <1>4, <1>5, <1>6, <2>4 DEF Fresh
<1>18. Reported'
  <2>1. \A i \in DOMAIN events : (\A j \in DOMAIN events : j > i => events[j].pod # events[i].pod) => events[i].ns = home[events[i].pod]
    BY DEF FwInv, Reported
  <2>2. \A q \in Pods : (\A i \in DOMAIN events : events[i].pod # q) /\ home[q] # NoJob =>
            podStates'[q] # NoPod /\ podStates'[q].ns = home[q]
    <3>1. ASSUME NEW q \in Pods, \A i \in DOMAIN events : events[i].pod # q, home[q] # NoJob
          PROVE  podStates'[q] # NoPod /\ podStates'[q].ns = home[q]
      <4>1. \/ podStates[q] # NoPod /\ podStates[q].ns = home[q]
            \/ p = q /\ cur.ns = home[q]
        BY <3>1 DEF FwInv, Reported, p
      <4>2. podStates[p] # NoPod => podStates[p].ns = cur.ns
        BY DEF FwInv, Current, p
      <4>. QED
        BY <1>2, <1>3, <3>1, <4>1, <4>2
    <3>. QED
      BY <3>1
  <2>. QED
    BY <2>1, <2>2 DEF Reported
<1>19. Cleaned'
  <2>1. ASSUME NEW n \in PodNetns, table'[n][kind] # Empty
        PROVE  n \in leftover \cup tainted' \/ \E q \in Pods : podStates'[q] # NoPod /\ podStates'[q].ns = n
    <3>1. CASE n = cur.ns
      BY <1>1, <1>2, <1>3, <3>1
    <3>2. CASE n # cur.ns
      <4>1. table[n][kind] # Empty
        BY <2>1, <3>2 DEF Around, FwInv, FwType
      <4>2. n \in leftover \cup tainted \/ \E q \in Pods : podStates[q] # NoPod /\ podStates[q].ns = n
        BY <4>1 DEF FwInv, Cleaned
      <4>3. ASSUME NEW q \in Pods, podStates[q] # NoPod, podStates[q].ns = n PROVE q # p
        BY <3>2, <4>3 DEF FwInv, Current, p
      <4>. QED
        BY <1>3, <3>2, <4>2, <4>3
    <3>. QED
      BY <3>1, <3>2
  <2>. QED
    BY <1>4, <2>1 DEF Cleaned
<1>. QED
  BY <1>7, <1>8, <1>9, <1>10, <1>11, <1>12, <1>15, <1>16, <1>17, <1>18, <1>19 DEF FwInv

\* The steps of the setup of a pod (try_init_and_apply).
LEMMA InitFailsKeeps ==
    ASSUME FwInv, InitFails
    PROVE  FwInv'
<1>1. CASE proxyMode = "inpod"
  <2>1. cur.ns \in PodNetns
    BY <1>1 DEF FwInv, Current, InitFails
  <2>2. Around(cur.ns)
    BY <2>1, InitAround DEF FwInv, InitFails
  <2>3. UNCHANGED <<env, home, want, polNote, events, missed, late, tainted, leftover, table>> /\ Settle("InitFailed", Zero)
    BY <1>1 DEF InitFails
  <2>4. Backends'
    <3>1. kind # "nft" /\ table'[cur.ns][kind] # Empty => hooked'[cur.ns][kind] # {}
      <4>1. kind # "nft" /\ table[cur.ns][kind] # Empty => hooked[cur.ns][kind] # {}
        BY <2>1 DEF FwInv, Backends
      <4>2. table' = table /\ hooked[cur.ns][kind] \subseteq hooked'[cur.ns][kind]
        BY <2>2, <2>3 DEF Around
      <4>. QED
        BY <4>1, <4>2
    <3>. QED
      BY <1>1, <2>1, <2>2, <2>3, <3>1, BackendsStay DEF FwInv, env
  <2>5. late' \in SUBSET [ns : PodNetns, kind : Kinds, rules : RuleSets]
    BY <2>3 DEF FwInv, FwType
  <2>. QED
    BY <1>1, <2>2, <2>3, <2>4, <2>5, SettleKeeps DEF InitFails, Hashes
<1>2. CASE proxyMode = "dedicated"
  <2>1. cur.ns = Own /\ pc = "init" /\ Own \in PodNetns
    BY <1>2, FirewallAssumption DEF FwInv, Modes, InitFails, Own, Self, PodNetns
  <2>2. Around(Own)
    BY <2>1, InitAround DEF FwInv, InitFails
  <2>3. /\ pc' = "stopped" /\ UNCHANGED <<podStates, back, jobs, done, retrying, cur>>
        /\ UNCHANGED <<env, home, want, polNote, events, missed, late, tainted, leftover, table>>
    BY <1>2 DEF InitFails
  <2>4. Backends'
    <3>1. kind # "nft" /\ table'[Own][kind] # Empty => hooked'[Own][kind] # {}
      BY <2>1, <2>2, <2>3 DEF FwInv, Backends, Around
    <3>. QED
      BY <1>2, <2>1, <2>2, <2>3, <3>1, BackendsStay DEF FwInv, env
  <2>5. FwType'
    BY <2>2, <2>3 DEF FwInv, FwType, Around, env
  <2>6. Modes' /\ NetnsOwned' /\ Retries' /\ Applying'
    BY <1>2, <2>1, <2>3 DEF FwInv, Modes, NetnsOwned, Retries, Applying, env
  <2>7. Current' /\ Cleaned'
    BY <1>2, <2>3 DEF Current, Cleaned, env
  <2>11. Reported'
    BY <1>2, <2>1, <2>3 DEF FwInv, Modes, Reported, env
  <2>8. Hooks'
    <3>1. kind \in Kinds /\ hooked'[Own][kind] \in SUBSET Directions /\ hooked[Own][kind] \subseteq hooked'[Own][kind]
      BY <2>1, <2>2 DEF FwInv, FwType, Around, Jumps
    <3>2. ASSUME NEW q \in Pods, podStates[q] # NoPod, podStates[q].state # "InitFailed", kind # "nft"
          PROVE  podStates[q].ns = Own /\ hooked'[Own][kind] = Directions
      BY <1>2, <3>1, <3>2 DEF FwInv, Modes, Hooks
    <3>. QED
      BY <1>2, <2>3, <3>2 DEF Hooks, env
  <2>9. Believed'
    <3>1. done = {} /\ \A p \in Pods : podStates[p] # NoPod => podStates[p].ns = Own
      BY <1>2 DEF FwInv, Modes
    <3>2. ASSUME NEW r, InForce(Own, r)
          PROVE  InForce(Own, r)'
      BY <2>2, <2>3, <3>2 DEF InForce, Around, env
    <3>3. ASSUME NEW p \in Pods, podStates[p] # NoPod, Own \notin tainted, podStates[p].state = "Enrolled"
          PROVE  InForce(Own, podStates[p].hash)'
      <4>1. PICK r : r = podStates[p].hash
        OBVIOUS
      <4>2. InForce(Own, r)
        BY <2>1, <3>1, <3>3, <4>1 DEF FwInv, Believed
      <4>3. InForce(Own, r)'
        BY <3>2, <4>2
      <4>4. r = podStates'[p].hash
        BY <2>3, <4>1
      <4>. QED
        BY <4>3, <4>4
    <3>. QED
      BY <2>3, <3>1, <3>3 DEF Believed
  <2>10. Fresh'
    BY <1>2, <2>1, <2>3 DEF FwInv, Fresh, Noticed, Modes, env
  <2>. QED
    BY <2>4, <2>5, <2>6, <2>7, <2>8, <2>9, <2>10, <2>11 DEF FwInv
<1>. QED
  BY <1>1, <1>2 DEF FwInv, FwType

\* The setup ends early for a pod whose workload is not known yet.
LEMMA InitWithoutWorkloadKeeps ==
    ASSUME FwInv, InitWithoutWorkload
    PROVE  FwInv'
<1>1. cur.ns \in PodNetns /\ proxyMode = "inpod" /\ pc = "init"
  BY DEF FwInv, Current, InitWithoutWorkload
<1>2. UNCHANGED <<env, home, want, polNote, events, missed, late, tainted, leftover, table>> /\ Settle("PendingWorkload", Zero)
  BY DEF InitWithoutWorkload
<1>3. Around(cur.ns) /\ (kind # "nft" => hooked'[cur.ns][kind] = Directions)
  BY <1>1, InitAround DEF FwInv, InitWithoutWorkload
<1>4. Backends'
  <2>1. kind # "nft" /\ table'[cur.ns][kind] # Empty => hooked'[cur.ns][kind] # {}
    BY <1>3 DEF Directions
  <2>. QED
    BY <1>1, <1>2, <1>3, <2>1, BackendsStay DEF FwInv, env
<1>5. late' \in SUBSET [ns : PodNetns, kind : Kinds, rules : RuleSets]
  BY <1>2 DEF FwInv, FwType
<1>. QED
  BY <1>1, <1>2, <1>3, <1>4, <1>5, SettleKeeps DEF InitWithoutWorkload, Hashes

\* The setup ends with the rules in force, or has failed.
LEMMA ApplyInitKeeps ==
    ASSUME FwInv, ApplyInit
    PROVE  FwInv'
<1>1. /\ cur.pod \in Pods /\ cur.ns \in PodNetns /\ cur.rules \in RuleSets /\ proxyMode = "inpod" /\ pc = "apply"
      /\ kind # "nft" => hooked[cur.ns][kind] = Directions
  BY DEF FwInv, Current, ApplyInit
<1>2. UNCHANGED <<env, home, want, polNote, events, missed>> /\ FwType
  BY DEF FwInv, ApplyInit
<1>3. CASE Applied(cur.ns, cur.rules) /\ Settle("Enrolled", cur.rules)
  <2>1. /\ Around(cur.ns) /\ table'[cur.ns][kind] = Full(cur.rules)
        /\ hooked'[cur.ns][kind] = (IF kind = "nft" THEN Directions ELSE hooked[cur.ns][kind])
        /\ late' = late /\ leftover' = leftover /\ tainted' = tainted \ {cur.ns}
    BY <1>1, <1>2, <1>3, AppliedAround
  <2>2. hooked'[cur.ns][kind] = Directions
    BY <1>1, <2>1
  <2>3. Backends'
    <3>1. hooked'[cur.ns][kind] # {}
      BY <2>2 DEF Directions
    <3>. QED
      BY <1>1, <1>2, <2>1, <3>1, BackendsStay DEF FwInv, env
  <2>4. Forced(cur.ns, cur.rules)
    BY <1>1, <2>1, <2>2, FullTyped DEF Forced
  <2>5. late' \in SUBSET [ns : PodNetns, kind : Kinds, rules : RuleSets]
    BY <2>1 DEF FwInv, FwType
  <2>. QED
    BY <1>1, <1>2, <1>3, <2>1, <2>2, <2>3, <2>4, <2>5, SettleKeeps DEF Hashes
<1>4. CASE ApplyFails(cur.ns, cur.rules) /\ Settle("InitFailed", Zero)
  <2>1. /\ Around(cur.ns) /\ table' = table /\ hooked' = hooked /\ tainted' = tainted /\ leftover' = leftover
        /\ late' \in SUBSET [ns : PodNetns, kind : Kinds, rules : RuleSets]
        /\ \A l \in late' : l \in late \/ (l.ns = cur.ns /\ l.kind = kind)
    BY <1>1, <1>2, <1>4, ApplyFailsAround
  <2>2. Backends'
    <3>1. kind # "nft" => hooked'[cur.ns][kind] # {}
      BY <1>1, <2>1 DEF Directions
    <3>. QED
      BY <1>1, <1>2, <2>1, <3>1, BackendsStay DEF FwInv, env
  <2>. QED
    BY <1>1, <1>2, <1>4, <2>1, <2>2, SettleKeeps DEF Hashes
<1>. QED
  BY <1>3, <1>4 DEF ApplyInit

\* In another netns, what is in force stays.
LEMMA ElsewhereForced ==
    ASSUME FwType, NEW ns \in PodNetns, Around(ns), NEW n \in PodNetns, n # ns, NEW r, InForce(n, r)
    PROVE  Forced(n, r)
  BY DEF FwType, Around, InForce, Forced

\* New jumps leave the rules in force.
LEMMA GrowForced ==
    ASSUME FwType, NEW ns \in PodNetns, Around(ns), table' = table, NEW n \in PodNetns, NEW r, InForce(n, r)
    PROVE  Forced(n, r)
<1>1. kind \in Kinds
  BY DEF FwType
<1>2. hooked[n][kind] \subseteq hooked'[n][kind]
  BY <1>1 DEF Around
<1>. QED
  BY <1>2 DEF InForce, Forced

\* No step takes a jump away.
LEMMA HooksGrow ==
    ASSUME FwType, NEW ns \in PodNetns, Around(ns), NEW n \in PodNetns, hooked[n][kind] = Directions
    PROVE  hooked'[n][kind] = Directions
<1>1. kind \in Kinds
  BY DEF FwType
<1>2. hooked[n][kind] \subseteq hooked'[n][kind] /\ hooked'[n][kind] \in Jumps
  BY <1>1 DEF Around
<1>. QED
  BY <1>2 DEF Jumps

\* The netns of a pod that is known.
LEMMA PodKnown ==
    ASSUME FwInv, NEW p \in Pods, podStates[p] # NoPod
    PROVE  podStates[p] \in Entries /\ podStates[p].ns \in PodNetns /\ podStates[p].ns[1] = p
<1>1. podStates[p] \in Entries
  BY DEF FwInv, FwType
<1>. QED
  BY <1>1 DEF Entries, FwInv, NetnsOwned

\* A step that only adds jumps, and keeps the pods, keeps what is believed of them.
LEMMA GrowKeeps ==
    ASSUME FwInv, NEW ns \in PodNetns, Around(ns), table' = table, UNCHANGED <<proxyMode, kind, podStates, done, tainted>>,
           pc # "drained"
    PROVE  /\ Believed'
           /\ \A p \in Pods : podStates'[p] # NoPod /\ podStates'[p].state # "InitFailed" /\ kind' # "nft" =>
                  hooked'[podStates'[p].ns][kind'] = Directions
<1>1. ASSUME NEW p \in Pods, podStates[p] # NoPod, podStates[p].ns \notin tainted, NEW j \in done, j.pod = p
      PROVE  Forced(j.ns, j.rules)
  <2>1. InForce(j.ns, j.rules) /\ j.ns \in PodNetns
    BY <1>1 DEF FwInv, Believed, FwType, JobSet
  <2>. QED
    BY <2>1, GrowForced DEF FwInv
<1>2. ASSUME NEW p \in Pods, podStates[p] # NoPod, podStates[p].ns \notin tainted, podStates[p].state = "Enrolled", \A j \in done : j.pod # p
      PROVE  Forced(podStates[p].ns, podStates[p].hash)
  <2>1. InForce(podStates[p].ns, podStates[p].hash) /\ podStates[p].ns \in PodNetns
    BY <1>2, PodKnown DEF FwInv, Believed
  <2>. QED
    BY <2>1, GrowForced DEF FwInv
<1>3. Believed'
  BY <1>1, <1>2 DEF Believed, InForce, Forced
<1>4. ASSUME NEW p \in Pods, podStates[p] # NoPod, podStates[p].state # "InitFailed", kind # "nft"
      PROVE  hooked'[podStates[p].ns][kind] = Directions
  BY <1>4, PodKnown, HooksGrow DEF FwInv, Hooks
<1>. QED
  BY <1>3, <1>4

\* The jumps are there, and the rules of the pod have been looked up under the lock.
LEMMA InitResolvesKeeps ==
    ASSUME FwInv, InitResolves
    PROVE  FwInv'
<1>1. /\ cur.pod \in Pods /\ cur.ns \in PodNetns /\ proxyMode = "inpod" /\ pc = "init" /\ cur.pod \notin retrying /\ cur.ns[1] = cur.pod
      /\ podStates[cur.pod] # NoPod =>
            /\ podStates[cur.pod].ns = cur.ns /\ podStates[cur.pod].state = "InitFailed"
            /\ podStates[cur.pod].retries < MaxInitRetries
  BY DEF FwInv, Current, InitResolves
<1>2. /\ UNCHANGED <<env, home, want, polNote, events, podStates, back, jobs, done, retrying, missed, late, tainted, leftover, table>>
      /\ pc' = "apply" /\ cur' = [cur EXCEPT !.rules = want[cur.pod]]
  BY DEF InitResolves
<1>3. Around(cur.ns) /\ (kind # "nft" => hooked'[cur.ns][kind] = Directions)
  BY <1>1, <1>2, InitAround DEF FwInv, InitResolves
<1>4. cur'.pod = cur.pod /\ cur'.ns = cur.ns
  BY <1>2
<1>5. cur'.rules = want[cur.pod] /\ want[cur.pod] \in RuleSets
  <2>1. want[cur.pod] \in RuleSets
    BY <1>1 DEF FwInv, FwType, InitResolves
  <2>. QED
    BY <1>2, <2>1
<1>6. Backends'
  <2>1. kind # "nft" /\ table'[cur.ns][kind] # Empty => hooked'[cur.ns][kind] # {}
    BY <1>3 DEF Directions
  <2>. QED
    BY <1>1, <1>2, <1>3, <2>1, BackendsStay DEF FwInv, env
<1>7. FwType'
  BY <1>2, <1>3 DEF FwInv, FwType, Around, env
<1>8. Modes' /\ NetnsOwned' /\ Retries' /\ Applying' /\ Cleaned'
  BY <1>1, <1>2 DEF FwInv, Modes, NetnsOwned, Retries, Applying, Cleaned, env
<1>9. Current'
  BY <1>1, <1>2, <1>3, <1>4, <1>5 DEF Current, env
<1>10. Believed' /\ Hooks'
  BY <1>1, <1>2, <1>3, GrowKeeps DEF Hooks, env
<1>11. Fresh'
  BY <1>1, <1>2, <1>4, <1>5 DEF FwInv, Fresh, Noticed, env
<1>12. Reported'
  BY <1>1, <1>2, <1>4 DEF FwInv, Reported, env
<1>. QED
  BY <1>6, <1>7, <1>8, <1>9, <1>10, <1>11, <1>12 DEF FwInv

\* The jobs computed for pods that are known, with the rules that they want.
LEMMA JobsMade ==
    ASSUME FwInv, NEW owed \in SUBSET Pods,
           \A p \in owed : podStates[p] # NoPod /\ podStates[p].state # "InitFailed" /\ want[p] # NoWorkload
    PROVE  /\ {Resolved(p) : p \in owed} \in SUBSET JobSet
           /\ \A p \in owed : Resolved(p).pod = p /\ Resolved(p).ns = podStates[p].ns /\ Resolved(p).rules = want[p]
<1>1. ASSUME NEW p \in owed
      PROVE  Resolved(p) \in JobSet /\ Resolved(p).pod = p /\ Resolved(p).ns = podStates[p].ns /\ Resolved(p).rules = want[p]
  <2>1. podStates[p].ns \in PodNetns /\ want[p] \in RuleSets
    BY PodKnown DEF FwInv, FwType
  <2>. QED
    BY <2>1 DEF Resolved, Job, JobSet
<1>. QED
  BY <1>1

\* Jobs for the pods due take the place of none (rebuild_all_pods,
\* rebuild_pending_workload_pods).
LEMMA JobsKeep ==
    ASSUME FwInv, proxyMode = "inpod", pc \in {"select", "debounce"}, NEW owed \in SUBSET Pods,
           \A p \in owed : podStates[p] # NoPod /\ podStates[p].state # "InitFailed" /\ want[p] # NoWorkload,
           jobs' = {Resolved(p) : p \in owed}, done' = {}, pc' \in {"select", "rebuild", "pending"}, pc' = "select" => owed = {},
           UNCHANGED <<env, home, want, polNote, events, podStates, back, retrying, kernel, missed>>,
           ~Noticed' => \A p \in Pods \ owed : podStates[p] # NoPod =>
              \/ p \in missed \/ want[p] = NoWorkload \/ podStates[p].state = "InitFailed"
              \/ podStates[p].state = "Enrolled" /\ podStates[p].hash = want[p]
    PROVE  FwInv'
<1>1. /\ jobs' \in SUBSET JobSet
      /\ \A p \in owed : Resolved(p).pod = p /\ Resolved(p).ns = podStates[p].ns /\ Resolved(p).rules = want[p]
  BY JobsMade
<1>2. \A j \in jobs' : j.pod \in owed /\ j.ns = podStates[j.pod].ns /\ j.rules = want[j.pod] /\ j = Resolved(j.pod)
  BY <1>1
<1>3. \A p \in owed : \E j \in jobs' : j.pod = p
  BY <1>1
<1>4. done = {} /\ retrying = {}
  BY DEF FwInv, Modes
<1>5. FwType' /\ Backends'
  <2>1. FwType'
    BY <1>1 DEF FwInv, FwType, env, kernel
  <2>2. Backends'
    BY <1>1, BackendsSame
  <2>. QED
    BY <2>1, <2>2
<1>6. Modes' /\ NetnsOwned' /\ Current' /\ Retries'
  BY <1>2, <1>4 DEF FwInv, Modes, NetnsOwned, Current, Retries, env, kernel
<1>7. Applying'
  BY <1>2 DEF Applying
<1>8. Hooks'
  BY DEF FwInv, Hooks, env, kernel
<1>9. Believed'
  BY <1>4 DEF FwInv, Believed, InForce, env, kernel
<1>10. Fresh'
  BY <1>2, <1>3 DEF Fresh, env
<1>11. Reported' /\ Cleaned'
  BY DEF FwInv, Reported, Cleaned, env, kernel
<1>. QED
  BY <1>5, <1>6, <1>7, <1>8, <1>9, <1>10, <1>11 DEF FwInv

\* After the debounce the pods whose rules have changed are due (rebuild_all_pods).
LEMMA RebuildAllPodsKeeps ==
    ASSUME FwInv, RebuildAllPods
    PROVE  FwInv'
<1>. DEFINE owed == {p \in Pods : /\ podStates[p] # NoPod /\ podStates[p].state # "InitFailed"
                                 /\ want[p] # NoWorkload /\ want[p] # podStates[p].hash}
<1>1. /\ proxyMode = "inpod" /\ pc = "debounce" /\ jobs' = {Resolved(p) : p \in owed} /\ done' = {}
      /\ pc' = (IF owed = {} THEN "select" ELSE "rebuild")
      /\ UNCHANGED <<env, home, want, polNote, events, podStates, back, retrying, kernel, missed>>
  BY DEF RebuildAllPods, DebounceOver
<1>2. \A p \in Pods \ owed : podStates[p] # NoPod =>
              \/ p \in missed \/ want[p] = NoWorkload \/ podStates[p].state = "InitFailed"
              \/ podStates[p].state = "Enrolled" /\ podStates[p].hash = want[p]
  <2>1. ASSUME NEW p \in Pods \ owed, podStates[p] # NoPod, want[p] # NoWorkload, podStates[p].state # "InitFailed"
        PROVE  podStates[p].state = "Enrolled" /\ podStates[p].hash = want[p]
    <3>1. want[p] = podStates[p].hash /\ want[p] \in RuleSets
      BY <2>1 DEF FwInv, FwType
    <3>. QED
      BY <2>1, <3>1, FirewallAssumption DEF FwInv, Retries
  <2>. QED
    BY <2>1
<1>3. owed \in SUBSET Pods /\ \A p \in owed : podStates[p] # NoPod /\ podStates[p].state # "InitFailed" /\ want[p] # NoWorkload
  OBVIOUS
<1>. HIDE DEF owed
<1>. QED
  BY <1>1, <1>2, <1>3, JobsKeep

\* A workload was inserted: the pods that waited are due.
LEMMA RebuildPendingKeeps ==
    ASSUME FwInv, RebuildPending
    PROVE  FwInv'
<1>. DEFINE owed == {p \in Pods : podStates[p] # NoPod /\ podStates[p].state = "PendingWorkload" /\ want[p] # NoWorkload}
<1>1. /\ proxyMode = "inpod" /\ pc = "select" /\ jobs' = {Resolved(p) : p \in owed} /\ done' = done
      /\ pc' = (IF owed = {} THEN "select" ELSE "pending")
      /\ UNCHANGED <<env, home, want, polNote, events, podStates, back, retrying, kernel, missed>>
  BY DEF RebuildPending
<1>2. done = {} /\ jobs = {}
  BY <1>1 DEF FwInv, Modes
<1>3. ~Noticed' => \A p \in Pods \ owed : podStates[p] # NoPod =>
              \/ p \in missed \/ want[p] = NoWorkload \/ podStates[p].state = "InitFailed"
              \/ podStates[p].state = "Enrolled" /\ podStates[p].hash = want[p]
  <2>1. ~Noticed' => ~Noticed
    BY <1>1 DEF Noticed
  <2>. QED
    BY <1>1, <1>2, <2>1 DEF FwInv, Fresh
<1>4. owed \in SUBSET Pods /\ \A p \in owed : podStates[p] # NoPod /\ podStates[p].state # "InitFailed" /\ want[p] # NoWorkload
  OBVIOUS
<1>. HIDE DEF owed
<1>. QED
  BY <1>1, <1>2, <1>3, <1>4, JobsKeep

\* A job is for a pod that is known, in its netns, where the jumps are.
LEMMA JobKnown ==
    ASSUME FwInv, NEW j, j \in jobs \cup done
    PROVE  /\ j.pod \in Pods /\ j.ns \in PodNetns /\ j.rules \in RuleSets /\ j.ns[1] = j.pod
           /\ podStates[j.pod] # NoPod /\ podStates[j.pod].ns = j.ns /\ podStates[j.pod].state # "InitFailed"
           /\ kind # "nft" => hooked[j.ns][kind] = Directions
           /\ proxyMode = "inpod" /\ retrying = {}
<1>1. j.pod \in Pods /\ j.ns \in PodNetns /\ j.rules \in RuleSets
  BY DEF FwInv, FwType, JobSet
<1>2. podStates[j.pod] # NoPod /\ podStates[j.pod].ns = j.ns /\ podStates[j.pod].state # "InitFailed"
  BY DEF FwInv, Applying
<1>3. kind # "nft" => hooked[j.ns][kind] = Directions
  BY <1>1, <1>2 DEF FwInv, Hooks
<1>4. proxyMode = "inpod"
  BY DEF FwInv, Modes, FwType
<1>5. pc \in {"rebuild", "pending"} /\ retrying = {}
  BY DEF FwInv, Modes
<1>. QED
  BY <1>1, <1>2, <1>3, <1>4, <1>5, PodKnown

\* The rules of a job are set: they are in force there, and elsewhere nothing
\* changes.
LEMMA JobApplies ==
    ASSUME FwInv, NEW j, j \in jobs \cup done, Applied(j.ns, j.rules), UNCHANGED env
    PROVE  /\ Around(j.ns) /\ Forced(j.ns, j.rules) /\ Backends'
           /\ late' = late /\ leftover' = leftover /\ tainted' = tainted \ {j.ns}
<1>1. j.ns \in PodNetns /\ j.rules \in RuleSets /\ (kind # "nft" => hooked[j.ns][kind] = Directions) /\ proxyMode = "inpod" /\ FwType
  BY JobKnown DEF FwInv
<1>2. /\ Around(j.ns) /\ table'[j.ns][kind] = Full(j.rules)
      /\ hooked'[j.ns][kind] = (IF kind = "nft" THEN Directions ELSE hooked[j.ns][kind])
      /\ late' = late /\ leftover' = leftover /\ tainted' = tainted \ {j.ns}
  BY <1>1, AppliedAround
<1>3. hooked'[j.ns][kind] = Directions
  BY <1>1, <1>2
<1>4. Forced(j.ns, j.rules)
  BY <1>1, <1>2, <1>3, FullTyped DEF Forced
<1>5. hooked'[j.ns][kind] # {}
  BY <1>3 DEF Directions
<1>6. Backends'
  BY <1>1, <1>2, <1>5, BackendsStay DEF FwInv, env
<1>. QED
  BY <1>2, <1>4, <1>6

\* The rules of a job are not set, or later.
LEMMA JobFails ==
    ASSUME FwInv, NEW j, j \in jobs \cup done, ApplyFails(j.ns, j.rules), UNCHANGED env
    PROVE  /\ Backends' /\ table' = table /\ hooked' = hooked /\ tainted' = tainted /\ leftover' = leftover
           /\ late' \in SUBSET [ns : PodNetns, kind : Kinds, rules : RuleSets]
<1>1. j.ns \in PodNetns /\ j.rules \in RuleSets /\ (kind # "nft" => hooked[j.ns][kind] = Directions) /\ proxyMode = "inpod" /\ FwType
  BY JobKnown DEF FwInv
<1>2. /\ Around(j.ns) /\ table' = table /\ hooked' = hooked /\ tainted' = tainted /\ leftover' = leftover
      /\ late' \in SUBSET [ns : PodNetns, kind : Kinds, rules : RuleSets]
      /\ \A l \in late' : l \in late \/ (l.ns = j.ns /\ l.kind = kind)
  BY <1>1, ApplyFailsAround
<1>3. kind # "nft" => hooked'[j.ns][kind] # {}
  BY <1>1, <1>2 DEF Directions
<1>4. Backends'
  BY <1>1, <1>2, <1>3, BackendsStay DEF FwInv, env
<1>. QED
  BY <1>2, <1>4

\* One of the applies of a rebuild ends; the pods are recorded later.
LEMMA RebuildApplyKeeps ==
    ASSUME FwInv, NEW j \in jobs, RebuildApply(j)
    PROVE  FwInv'
<1>1. /\ pc = "rebuild" /\ pc' = pc /\ jobs' = jobs \ {j} /\ j \in jobs
      /\ UNCHANGED <<env, home, want, polNote, events, podStates, back, retrying, cur>>
  BY DEF RebuildApply
<1>2. /\ j.pod \in Pods /\ j.ns \in PodNetns /\ j.ns[1] = j.pod /\ podStates[j.pod].ns = j.ns /\ podStates[j.pod] # NoPod
      /\ proxyMode = "inpod" /\ retrying = {}
  BY <1>1, JobKnown
<1>3. /\ \A i \in jobs \cup done : i.pod = j.pod => i = j
      /\ j \notin done
  BY <1>1 DEF FwInv, Applying
<1>4. CASE Applied(j.ns, j.rules) /\ done' = done \cup {j} /\ missed' = missed \ {j.pod}
  <2>1. /\ Around(j.ns) /\ Forced(j.ns, j.rules) /\ Backends'
        /\ late' = late /\ leftover' = leftover /\ tainted' = tainted \ {j.ns}
    BY <1>1, <1>4, JobApplies
  <2>2. jobs' \cup done' = jobs \cup done /\ jobs' \cap done' = {}
    BY <1>1, <1>3, <1>4 DEF FwInv, Applying
  <2>3. FwType'
    BY <1>1, <1>4, <2>1 DEF FwInv, FwType, Around, env
  <2>4. Modes' /\ NetnsOwned' /\ Current' /\ Retries' /\ Reported'
    BY <1>1, <1>2 DEF FwInv, Modes, NetnsOwned, Current, Retries, Reported, env
  <2>5. Applying'
    BY <1>1, <2>2 DEF FwInv, Applying
  <2>6. Hooks'
    <3>1. ASSUME NEW p \in Pods, podStates[p] # NoPod, podStates[p].state # "InitFailed", kind # "nft"
          PROVE  hooked'[podStates[p].ns][kind] = Directions
      BY <1>2, <2>1, <3>1, PodKnown, HooksGrow DEF FwInv, Hooks
    <3>. QED
      BY <1>1, <1>2, <3>1 DEF Hooks, env
  <2>7. Believed'
    <3>1. ASSUME NEW p \in Pods, podStates[p] # NoPod, podStates[p].ns \notin tainted', NEW i \in done', i.pod = p
          PROVE  Forced(i.ns, i.rules)
      <4>1. CASE i = j
        BY <2>1, <4>1
      <4>2. CASE i # j
        <5>1. i \in done /\ p # j.pod
          BY <1>3, <1>4, <3>1, <4>2
        <5>2. podStates[p].ns # j.ns /\ podStates[p].ns \in PodNetns /\ podStates[p].ns = i.ns
          BY <1>2, <3>1, <5>1, PodKnown, JobKnown
        <5>3. InForce(i.ns, i.rules)
          BY <2>1, <3>1, <5>1, <5>2 DEF FwInv, Believed
        <5>. QED
          BY <1>2, <2>1, <5>2, <5>3, ElsewhereForced DEF FwInv
      <4>. QED
        BY <4>1, <4>2
    <3>2. ASSUME NEW p \in Pods, podStates[p] # NoPod, podStates[p].ns \notin tainted', podStates[p].state = "Enrolled",
                 \A i \in done' : i.pod # p
          PROVE  Forced(podStates[p].ns, podStates[p].hash)
      <4>1. p # j.pod /\ \A i \in done : i.pod # p
        BY <1>4, <3>2
      <4>2. podStates[p].ns # j.ns /\ podStates[p].ns \in PodNetns
        BY <1>2, <3>2, <4>1, PodKnown
      <4>3. InForce(podStates[p].ns, podStates[p].hash)
        BY <1>1, <2>1, <3>2, <4>1, <4>2 DEF FwInv, Believed
      <4>. QED
        BY <1>2, <2>1, <4>2, <4>3, ElsewhereForced DEF FwInv
    <3>. QED
      BY <1>1, <3>1, <3>2 DEF Believed, InForce, Forced, env
  <2>8. Fresh'
    BY <1>1, <1>2, <1>4, <2>2 DEF FwInv, Fresh, Noticed, env
  <2>9. Cleaned'
    <3>1. ASSUME NEW n \in PodNetns, table'[n][kind] # Empty
          PROVE  n \in leftover \cup tainted' \/ \E q \in Pods : podStates[q] # NoPod /\ podStates[q].ns = n
      <4>1. CASE n = j.ns
        BY <1>2, <4>1
      <4>2. CASE n # j.ns
        BY <1>2, <2>1, <3>1, <4>2 DEF Around, FwInv, FwType, Cleaned
      <4>. QED
        BY <4>1, <4>2
    <3>. QED
      BY <1>1, <1>2, <2>1, <3>1 DEF Cleaned, env
  <2>. QED
    BY <2>1, <2>3, <2>4, <2>5, <2>6, <2>7, <2>8, <2>9 DEF FwInv
<1>5. CASE ApplyFails(j.ns, j.rules) /\ done' = done /\ missed' = missed \cup {j.pod}
  <2>1. /\ Backends' /\ table' = table /\ hooked' = hooked /\ tainted' = tainted /\ leftover' = leftover
        /\ late' \in SUBSET [ns : PodNetns, kind : Kinds, rules : RuleSets]
    BY <1>1, <1>5, JobFails
  <2>2. FwType'
    BY <1>1, <1>5, <2>1 DEF FwInv, FwType, env
  <2>3. Modes' /\ NetnsOwned' /\ Current' /\ Retries' /\ Reported'
    BY <1>1, <1>2, <1>5 DEF FwInv, Modes, NetnsOwned, Current, Retries, Reported, env
  <2>4. Applying' /\ Hooks' /\ Cleaned'
    BY <1>1, <1>5, <2>1 DEF FwInv, Applying, Hooks, Cleaned, env
  <2>5. Believed'
    BY <1>1, <1>5, <2>1 DEF FwInv, Believed, InForce, env
  <2>6. Fresh'
    BY <1>1, <1>2, <1>5 DEF FwInv, Fresh, Noticed, env
  <2>. QED
    BY <2>1, <2>2, <2>3, <2>4, <2>5, <2>6 DEF FwInv
<1>. QED
  BY <1>4, <1>5 DEF RebuildApply

\* What is recorded of a pod whose rules were applied.
LEMMA EnrolTyped ==
    ASSUME NEW e \in Entries, NEW r \in RuleSets
    PROVE  /\ Enrol(e, r) \in Entries /\ Enrol(e, r) # NoPod
           /\ Enrol(e, r).ns = e.ns /\ Enrol(e, r).hash = r /\ Enrol(e, r).state = "Enrolled" /\ Enrol(e, r).retries = e.retries
<1>1. /\ Enrol(e, r) \in Entries
      /\ Enrol(e, r).ns = e.ns /\ Enrol(e, r).hash = r /\ Enrol(e, r).state = "Enrolled" /\ Enrol(e, r).retries = e.retries
  BY DEF Entries, Enrol, Hashes
<1>. QED
  BY <1>1, EntriesKnown

\* The pods that were rebuilt are recorded with their new rules.
LEMMA RebuildCommitKeeps ==
    ASSUME FwInv, RebuildCommit
    PROVE  FwInv'
<1>1. /\ pc = "rebuild" /\ jobs = {} /\ done' = {} /\ pc' = "select"
      /\ UNCHANGED <<env, home, want, polNote, events, back, jobs, retrying, cur, kernel, missed>>
  BY DEF RebuildCommit
<1>2. /\ DOMAIN podStates' = Pods
      /\ \A p \in Pods : podStates'[p] = IF \E j \in done : j.pod = p
                            THEN Enrol(podStates[p], (CHOOSE j \in done : j.pod = p).rules) ELSE podStates[p]
      /\ podStates' = [p \in Pods |-> podStates'[p]]
  BY DEF RebuildCommit
<1>3. retrying = {} /\ proxyMode = "inpod"
  BY <1>1 DEF FwInv, Modes, FwType
<1>4. ASSUME NEW p \in Pods, NEW j \in done, j.pod = p
      PROVE  /\ podStates[p] \in Entries /\ podStates'[p] \in Entries /\ podStates[p] # NoPod /\ podStates'[p] # NoPod
             /\ podStates'[p].ns = podStates[p].ns /\ podStates'[p].retries = podStates[p].retries
             /\ podStates'[p].state = "Enrolled" /\ podStates'[p].hash = j.rules /\ podStates[p].state # "InitFailed"
             /\ j.ns = podStates[p].ns /\ j.ns \in PodNetns
  <2>1. \A i \in done : i.pod = p => i = j
    BY <1>4 DEF FwInv, Applying
  <2>2. (CHOOSE i \in done : i.pod = p) = j
    BY <1>4, <2>1
  <2>3. podStates'[p] = Enrol(podStates[p], j.rules)
    BY <1>2, <1>4, <2>2
  <2>4. /\ j.rules \in RuleSets /\ podStates[p] # NoPod /\ podStates[p].ns = j.ns /\ podStates[p].state # "InitFailed"
        /\ j.ns \in PodNetns
    BY <1>4, JobKnown
  <2>5. podStates[p] \in Entries
    BY <2>4, PodKnown
  <2>. QED
    BY <2>3, <2>4, <2>5, EnrolTyped
<1>5. \A p \in Pods : (\A j \in done : j.pod # p) => podStates'[p] = podStates[p]
  BY <1>2
<1>6. /\ \A p \in Pods : podStates'[p] # NoPod <=> podStates[p] # NoPod
      /\ \A p \in Pods : podStates[p] # NoPod =>
            podStates'[p].ns = podStates[p].ns /\ podStates'[p].retries = podStates[p].retries
      /\ \A p \in Pods : podStates[p] # NoPod /\ podStates'[p].state # "Enrolled" => podStates'[p] = podStates[p]
      /\ \A p \in Pods : podStates[p] # NoPod /\ podStates'[p].state # "InitFailed" => podStates[p].state # "InitFailed"
      /\ \A p \in Pods : podStates'[p] \in Entries \cup {NoPod}
  <2>1. \A p \in Pods : podStates[p] \in Entries \cup {NoPod}
    BY DEF FwInv, FwType
  <2>. QED
    BY <1>4, <1>5, <2>1
<1>7. FwType' /\ Backends'
  <2>1. podStates' \in [Pods -> Entries \cup {NoPod}]
    BY <1>2, <1>6
  <2>2. FwType'
    BY <1>1, <2>1 DEF FwInv, FwType, env, kernel
  <2>3. Backends'
    BY <1>1, BackendsSame
  <2>. QED
    BY <2>2, <2>3
<1>8. Modes'
  BY <1>1, <1>3 DEF Modes, env
<1>9. NetnsOwned' /\ Current'
  BY <1>1, <1>6 DEF FwInv, NetnsOwned, Current
<1>10. Retries'
  BY <1>1, <1>3, <1>6 DEF FwInv, Retries
<1>11. Applying'
  BY <1>1 DEF Applying
<1>12. Hooks'
  BY <1>1, <1>3, <1>6 DEF FwInv, Hooks, env, kernel
<1>13. Believed'
  <2>1. ASSUME NEW p \in Pods, podStates'[p] # NoPod, podStates'[p].ns \notin tainted, podStates'[p].state = "Enrolled"
        PROVE  InForce(podStates'[p].ns, podStates'[p].hash)
    <3>1. CASE \E j \in done : j.pod = p
      BY <1>4, <2>1, <3>1 DEF FwInv, Believed
    <3>2. CASE \A j \in done : j.pod # p
      BY <1>1, <1>5, <2>1, <3>2 DEF FwInv, Believed
    <3>. QED
      BY <3>1, <3>2
  <2>. QED
    BY <1>1, <2>1 DEF Believed, InForce, env, kernel
<1>14. Fresh'
  <2>1. SUFFICES ASSUME ~Noticed' PROVE Fresh'
    BY DEF Fresh
  <2>2. ~Noticed
    BY <1>1, <2>1 DEF Noticed
  <2>3. ASSUME NEW p \in Pods, podStates'[p] # NoPod
        PROVE  \/ p \in missed \/ want[p] = NoWorkload \/ podStates'[p].state = "InitFailed"
               \/ podStates'[p].state = "Enrolled" /\ podStates'[p].hash = want[p]
    <3>1. CASE \E j \in done : j.pod = p
      BY <1>4, <2>2, <3>1 DEF FwInv, Fresh
    <3>2. CASE \A j \in done : j.pod # p
      BY <1>1, <1>3, <1>5, <2>2, <2>3, <3>2 DEF FwInv, Fresh
    <3>. QED
      BY <3>1, <3>2
  <2>. QED
    BY <1>1, <1>3, <2>3 DEF Fresh, env
<1>15. Reported'
  BY <1>1, <1>6 DEF FwInv, Reported
<1>16. Cleaned'
  BY <1>1, <1>3, <1>6 DEF FwInv, Cleaned, env, kernel
<1>. QED
  BY <1>7, <1>8, <1>9, <1>10, <1>11, <1>12, <1>13, <1>14, <1>15, <1>16 DEF FwInv

\* One of the applies for pending pods ends, and is recorded at once.
LEMMA PendingApplyKeeps ==
    ASSUME FwInv, NEW j \in jobs, PendingApply(j)
    PROVE  FwInv'
<1>1. /\ pc = "pending" /\ jobs' = jobs \ {j} /\ j \in jobs
      /\ pc' = IF jobs = {j} THEN "select" ELSE pc
      /\ UNCHANGED <<env, home, want, polNote, events, back, done, retrying, cur>>
  BY DEF PendingApply
<1>2. /\ j.pod \in Pods /\ j.ns \in PodNetns /\ j.ns[1] = j.pod /\ podStates[j.pod].ns = j.ns /\ podStates[j.pod] # NoPod
      /\ j.rules \in RuleSets /\ podStates[j.pod].state # "InitFailed"
      /\ proxyMode = "inpod" /\ retrying = {}
  BY <1>1, JobKnown
<1>3. (\A i \in jobs : i.pod = j.pod => i = j) /\ done = {}
  BY <1>1 DEF FwInv, Applying, Modes
<1>4. pc' = "select" => jobs' = {}
  BY <1>1
<1>5. pc' \in {"select", "pending"}
  BY <1>1
<1>6. CASE /\ Applied(j.ns, j.rules) /\ missed' = missed \ {j.pod}
           /\ podStates' = [podStates EXCEPT ![j.pod] = Enrol(podStates[j.pod], j.rules)]
  <2>1. /\ Around(j.ns) /\ Forced(j.ns, j.rules) /\ Backends'
        /\ late' = late /\ leftover' = leftover /\ tainted' = tainted \ {j.ns}
    BY <1>1, <1>6, JobApplies
  <2>2. PICK e \in Entries : /\ e = Enrol(podStates[j.pod], j.rules) /\ e # NoPod
                             /\ e.ns = j.ns /\ e.hash = j.rules /\ e.state = "Enrolled" /\ e.retries = podStates[j.pod].retries
    BY <1>2, PodKnown, EnrolTyped
  <2>3. /\ podStates' \in [Pods -> Entries \cup {NoPod}] /\ podStates'[j.pod] = e
        /\ \A q \in Pods : q # j.pod => podStates'[q] = podStates[q]
    BY <1>2, <1>6, <2>2, PodSet DEF FwInv
  <2>4. FwType'
    BY <1>1, <1>5, <2>1, <2>3 DEF FwInv, FwType, Around, env
  <2>5. Modes'
    BY <1>1, <1>2, <1>3, <1>4, <1>5 DEF Modes, env
  <2>6. NetnsOwned' /\ Current' /\ Reported'
    BY <1>1, <1>2, <1>5, <2>2, <2>3 DEF FwInv, NetnsOwned, Current, Reported, env
  <2>7. Retries'
    BY <1>1, <1>2, <2>2, <2>3 DEF FwInv, Retries
  <2>8. Applying'
    <3>1. ASSUME NEW i \in jobs' PROVE podStates'[i.pod] # NoPod /\ podStates'[i.pod].ns = i.ns /\ podStates'[i.pod].state # "InitFailed"
      <4>1. i \in jobs /\ i.pod # j.pod /\ i.pod \in Pods
        BY <1>1, <1>3, <3>1 DEF FwInv, FwType, JobSet
      <4>. QED
        BY <2>3, <4>1 DEF FwInv, Applying
    <3>2. \A i, k \in jobs' : i.pod = k.pod => i = k
      BY <1>1 DEF FwInv, Applying
    <3>. QED
      BY <1>1, <1>3, <3>1, <3>2 DEF Applying
  <2>9. Hooks'
    <3>1. ASSUME NEW p \in Pods, podStates'[p] # NoPod, podStates'[p].state # "InitFailed", kind # "nft"
          PROVE  hooked'[podStates'[p].ns][kind] = Directions
      <4>1. podStates[p] # NoPod /\ podStates[p].state # "InitFailed" /\ podStates'[p].ns = podStates[p].ns
        BY <1>2, <2>2, <2>3, <3>1
      <4>. QED
        BY <1>2, <2>1, <3>1, <4>1, PodKnown, HooksGrow DEF FwInv, Hooks
    <3>. QED
      BY <1>1, <1>2, <3>1 DEF Hooks, env
  <2>10. Believed'
    <3>1. ASSUME NEW p \in Pods, podStates'[p] # NoPod, podStates'[p].ns \notin tainted', podStates'[p].state = "Enrolled"
          PROVE  Forced(podStates'[p].ns, podStates'[p].hash)
      <4>1. CASE p = j.pod
        BY <2>1, <2>2, <2>3, <4>1
      <4>2. CASE p # j.pod
        <5>1. podStates'[p] = podStates[p] /\ podStates[p] # NoPod
          BY <2>3, <3>1, <4>2
        <5>2. podStates[p].ns # j.ns /\ podStates[p].ns \in PodNetns
          BY <1>2, <4>2, <5>1, PodKnown
        <5>3. InForce(podStates[p].ns, podStates[p].hash)
          BY <1>1, <1>3, <2>1, <3>1, <5>1, <5>2 DEF FwInv, Believed
        <5>. QED
          BY <1>2, <2>1, <5>1, <5>2, <5>3, ElsewhereForced DEF FwInv
      <4>. QED
        BY <4>1, <4>2
    <3>. QED
      BY <1>1, <1>3, <3>1 DEF Believed, InForce, Forced, env
  <2>11. Fresh'
    <3>1. SUFFICES ASSUME ~Noticed' PROVE Fresh'
      BY DEF Fresh
    <3>2. ~Noticed
      BY <1>1, <1>5, <3>1 DEF Noticed
    <3>3. ASSUME NEW p \in Pods, podStates'[p] # NoPod
          PROVE  \/ p \in missed' \/ want[p] = NoWorkload \/ podStates'[p].state = "InitFailed"
                 \/ podStates'[p].state = "Enrolled" /\ podStates'[p].hash = want[p]
                 \/ \E i \in jobs' : i.pod = p
      <4>1. CASE p = j.pod
        BY <1>1, <2>2, <2>3, <3>2, <4>1 DEF FwInv, Fresh
      <4>2. CASE p # j.pod
        <5>1. podStates'[p] = podStates[p]
          BY <2>3, <4>2
        <5>2. \/ p \in missed \/ want[p] = NoWorkload \/ podStates[p].state = "InitFailed"
              \/ podStates[p].state = "Enrolled" /\ podStates[p].hash = want[p]
              \/ \E i \in jobs : i.pod = p
          BY <1>2, <1>3, <3>2, <3>3, <5>1 DEF FwInv, Fresh
        <5>. QED
          BY <1>1, <1>6, <4>2, <5>1, <5>2
      <4>. QED
        BY <4>1, <4>2
    <3>4. \A i \in jobs' : i.rules = want[i.pod]
      BY <1>1, <3>2 DEF FwInv, Fresh
    <3>. QED
      BY <1>1, <1>2, <1>3, <1>5, <3>3, <3>4 DEF Fresh, env
  <2>12. Cleaned'
    <3>1. ASSUME NEW n \in PodNetns, table'[n][kind] # Empty
          PROVE  n \in leftover \cup tainted' \/ \E q \in Pods : podStates'[q] # NoPod /\ podStates'[q].ns = n
      <4>1. CASE n = j.ns
        BY <1>2, <2>2, <2>3, <4>1
      <4>2. CASE n # j.ns
        <5>1. n \in leftover \cup tainted \/ \E q \in Pods : podStates[q] # NoPod /\ podStates[q].ns = n
          BY <1>2, <2>1, <3>1, <4>2 DEF Around, FwInv, FwType, Cleaned
        <5>. QED
          BY <1>2, <2>1, <2>3, <4>2, <5>1
      <4>. QED
        BY <4>1, <4>2
    <3>. QED
      BY <1>1, <1>2, <2>1, <3>1 DEF Cleaned, env
  <2>. QED
    BY <2>1, <2>4, <2>5, <2>6, <2>7, <2>8, <2>9, <2>10, <2>11, <2>12 DEF FwInv
<1>7. CASE ApplyFails(j.ns, j.rules) /\ podStates' = podStates /\ missed' = missed \cup {j.pod}
  <2>1. /\ Backends' /\ table' = table /\ hooked' = hooked /\ tainted' = tainted /\ leftover' = leftover
        /\ late' \in SUBSET [ns : PodNetns, kind : Kinds, rules : RuleSets]
    BY <1>1, <1>7, JobFails
  <2>2. FwType'
    BY <1>1, <1>5, <1>7, <2>1 DEF FwInv, FwType, env
  <2>3. Modes' /\ NetnsOwned' /\ Current' /\ Retries' /\ Reported'
    BY <1>1, <1>2, <1>3, <1>4, <1>5, <1>7 DEF FwInv, Modes, NetnsOwned, Current, Retries, Reported, env
  <2>4. Applying' /\ Hooks' /\ Cleaned'
    BY <1>1, <1>2, <1>7, <2>1 DEF FwInv, Applying, Hooks, Cleaned, env
  <2>5. Believed'
    BY <1>1, <1>5, <1>7, <2>1 DEF FwInv, Believed, InForce, env
  <2>6. Fresh'
    BY <1>1, <1>2, <1>3, <1>5, <1>7 DEF FwInv, Fresh, Noticed, env
  <2>. QED
    BY <2>1, <2>2, <2>3, <2>4, <2>5, <2>6 DEF FwInv
<1>. QED
  BY <1>6, <1>7 DEF PendingApply

\* The netns of a dedicated ztunnel.
LEMMA OwnKnown == Self \in Pods /\ Own \in PodNetns /\ Own[1] = Self
  BY FirewallAssumption DEF Own, Self, PodNetns

\* What a process does that was given up on and finishes after all.
LateBy(l) ==
    /\ late' = late \ {l}
    /\ table' = [table EXCEPT ![l.ns][l.kind] = Full(l.rules)]
    /\ hooked' = [hooked EXCEPT ![l.ns][l.kind] = IF l.kind = "nft" THEN Directions ELSE hooked[l.ns][l.kind]]
    /\ tainted' = tainted \cup {l.ns}
    /\ UNCHANGED <<env, home, want, polNote, wlNote, events, podStates, control, missed, leftover, changes, faults>>

\* One of a former life with the other backend changes nothing of the one in use.
LEMMA LateOtherKeeps ==
    ASSUME FwInv, NEW l \in late, LateBy(l), l.kind # kind
    PROVE  FwInv'
<1>1. /\ l.ns \in PodNetns /\ l.rules \in RuleSets /\ kind \in Kinds /\ l.kind = "nft" /\ "nft" \in Kinds
      /\ kind # "nft" /\ l.ns \in stranded
  BY DEF FwInv, FwType, Backends, Kinds
<1>2. proxyMode = "dedicated" => l.ns = Own
  BY <1>1 DEF FwInv, Backends
<1>3. PICK g \in Chains : g = Full(l.rules)
  BY <1>1, FullTyped
<1>4. PICK f \in Jumps : f = Directions
  BY DEF Jumps
<1>5. /\ hooked' \in [PodNetns -> [Kinds -> Jumps]]
      /\ \A n \in PodNetns, k \in Kinds : n # l.ns \/ k # "nft" => hooked'[n][k] = hooked[n][k]
  <2>1. hooked' = [hooked EXCEPT ![l.ns]["nft"] = f] /\ FwType
    BY <1>1, <1>4 DEF LateBy, FwInv
  <2>. QED
    BY ONLY <1>1, <2>1, f \in Jumps DEF FwType
<1>6. /\ table' \in [PodNetns -> [Kinds -> Chains]]
      /\ \A n \in PodNetns, k \in Kinds : n # l.ns \/ k # "nft" => table'[n][k] = table[n][k]
  <2>1. table' = [table EXCEPT ![l.ns]["nft"] = g] /\ FwType
    BY <1>1, <1>3 DEF LateBy, FwInv
  <2>. QED
    BY ONLY <1>1, <2>1, g \in Chains DEF FwType
<1>7. \A n \in PodNetns : table'[n][kind] = table[n][kind] /\ hooked'[n][kind] = hooked[n][kind]
  BY <1>1, <1>5, <1>6
<1>8. UNCHANGED <<proxyMode, host, kind, stranded, home, want, polNote, events, podStates, pc, back, jobs, done, retrying, cur, missed, leftover>>
  BY DEF LateBy, env, control
<1>9. FwType'
  BY <1>5, <1>6, <1>8 DEF FwInv, FwType, LateBy
<1>10. Backends'
  <2>1. \A n \in PodNetns, k \in Kinds \ {kind} : k # "nft" => table'[n][k] = Empty /\ hooked'[n][k] = {}
    BY <1>5, <1>6 DEF FwInv, Backends
  <2>2. \A n \in PodNetns : kind # "nft" /\ table'[n][kind] # Empty => hooked'[n][kind] # {}
    BY <1>7 DEF FwInv, Backends
  <2>3. \A o \in late' : \/ o.kind = kind /\ (kind # "nft" => hooked'[o.ns][kind] # {})
                         \/ o.kind = "nft" /\ kind # "nft" /\ o.ns \in stranded
    <3>1. \A o \in late' : o \in late /\ o.ns \in PodNetns
      BY DEF LateBy, FwInv, FwType
    <3>. QED
      BY <1>7, <3>1 DEF FwInv, Backends
  <2>4. proxyMode = "dedicated" =>
          \A n \in PodNetns \ {Own} : (\A k \in Kinds : table'[n][k] = Empty /\ hooked'[n][k] = {}) /\ \A o \in late' : o.ns # n
    BY <1>2, <1>5, <1>6 DEF FwInv, Backends, LateBy
  <2>5. \A n \in PodNetns : kind # "nft" /\ table'[n]["nft"] # Empty => n \in stranded
    <3>2. \A n \in PodNetns : kind # "nft" /\ table[n]["nft"] # Empty => n \in stranded
      BY DEF FwInv, Backends
    <3>3. ASSUME NEW n \in PodNetns, kind # "nft", table'[n]["nft"] # Empty PROVE n \in stranded
      <4>1. CASE n = l.ns
        BY <1>1, <4>1
      <4>2. CASE n # l.ns
        <5>1. table'[n]["nft"] = table[n]["nft"]
          BY <1>1, <1>6, <4>2
        <5>. QED
          BY <3>2, <3>3, <5>1
      <4>. QED
        BY <4>1, <4>2
    <3>. QED
      BY <3>3
  <2>. QED
    BY <1>1, <1>8, <2>1, <2>2, <2>3, <2>4, <2>5 DEF FwInv, Backends
<1>11. Modes' /\ NetnsOwned' /\ Retries' /\ Applying' /\ Reported' /\ Fresh'
  <2>1. Modes' /\ NetnsOwned' /\ Retries' /\ Applying'
    BY <1>8 DEF FwInv, Modes, NetnsOwned, Retries, Applying
  <2>. QED
    BY <1>8, <2>1 DEF FwInv, Reported, Fresh, Noticed
<1>12. Current'
  BY <1>7, <1>8 DEF FwInv, Current
<1>13. Hooks'
  BY <1>7, <1>8, OwnKnown, PodKnown DEF FwInv, Hooks
<1>14. Believed'
  <2>1. ASSUME NEW n \in PodNetns, NEW rules, InForce(n, rules) PROVE InForce(n, rules)'
    BY <1>7, <1>8, <2>1 DEF InForce
  <2>2. ASSUME NEW p \in Pods, podStates[p] # NoPod, podStates[p].ns \notin tainted', NEW j \in done, j.pod = p
        PROVE  InForce(j.ns, j.rules)'
    <3>1. InForce(j.ns, j.rules) /\ j.ns \in PodNetns
      BY <2>2, JobKnown DEF FwInv, Believed, LateBy
    <3>. QED
      BY <2>1, <3>1
  <2>3. ASSUME NEW p \in Pods, podStates[p] # NoPod, podStates[p].ns \notin tainted', podStates[p].state = "Enrolled",
               \A j \in done : j.pod # p, proxyMode = "dedicated" => pc # "drained"
        PROVE  InForce(podStates[p].ns, podStates[p].hash)'
    <3>1. InForce(podStates[p].ns, podStates[p].hash) /\ podStates[p].ns \in PodNetns
      BY <2>3, PodKnown DEF FwInv, Believed, LateBy
    <3>2. UNCHANGED podStates
      BY <1>8
    <3>. QED
      BY <1>7, <1>8, <3>1, <3>2 DEF InForce
  <2>. QED
    BY <1>8, <2>2, <2>3 DEF Believed
<1>15. Cleaned'
  BY <1>7, <1>8, OwnKnown DEF FwInv, Cleaned, LateBy
<1>. QED
  BY <1>9, <1>10, <1>11, <1>12, <1>13, <1>14, <1>15 DEF FwInv

\* One of the backend in use replaces its rules.
LEMMA LateSameKeeps ==
    ASSUME FwInv, NEW l \in late, LateBy(l), l.kind = kind
    PROVE  FwInv'
<1>1. /\ late' = late \ {l}
      /\ table' = [table EXCEPT ![l.ns][l.kind] = Full(l.rules)]
      /\ hooked' = [hooked EXCEPT ![l.ns][l.kind] = IF l.kind = "nft" THEN Directions ELSE hooked[l.ns][l.kind]]
      /\ tainted' = tainted \cup {l.ns}
      /\ UNCHANGED <<env, home, want, polNote, wlNote, events, podStates, control, missed, leftover, changes, faults>>
  BY DEF LateBy
<1>2. l.ns \in PodNetns /\ l.rules \in RuleSets /\ l.kind = kind /\ kind \in Kinds
  BY DEF FwInv, FwType
<1>3. kind # "nft" => hooked[l.ns][kind] # {}
  BY <1>2 DEF FwInv, Backends
<1>4. proxyMode = "dedicated" => l.ns = Own
  BY <1>2 DEF FwInv, Backends
<1>5. PICK f \in Jumps : /\ f = (IF kind = "nft" THEN Directions ELSE hooked[l.ns][kind])
                         /\ hooked[l.ns][kind] \subseteq f
  BY <1>2 DEF FwInv, FwType, Jumps
<1>6. /\ hooked' \in [PodNetns -> [Kinds -> Jumps]] /\ hooked'[l.ns][kind] = f
      /\ \A n \in PodNetns, o \in Kinds : n # l.ns \/ o # kind => hooked'[n][o] = hooked[n][o]
  <2>1. hooked' = [hooked EXCEPT ![l.ns][kind] = f]
    BY <1>1, <1>2, <1>5
  <2>. QED
    BY <1>2, <2>1 DEF FwInv, FwType
<1>7. Around(l.ns)
  <2>1. /\ table' \in [PodNetns -> [Kinds -> Chains]]
        /\ \A n \in PodNetns, o \in Kinds : n # l.ns \/ o # kind => table'[n][o] = table[n][o]
    <3>1. PICK g \in Chains : g = Full(l.rules)
      BY <1>2, FullTyped
    <3>2. table' = [table EXCEPT ![l.ns][kind] = g] /\ FwType
      BY <1>1, <1>2, <3>1 DEF FwInv
    <3>. QED
      BY ONLY <1>2, <3>2, g \in Chains DEF FwType
  <2>. QED
    BY <1>5, <1>6, <2>1 DEF Around
<1>8. Backends'
  <2>1. kind # "nft" => hooked'[l.ns][kind] # {}
    BY <1>3, <1>5, <1>6
  <2>. QED
    BY <1>1, <1>2, <1>4, <1>7, <2>1, BackendsStay DEF FwInv, env
<1>9. FwType'
  BY <1>1, <1>7 DEF FwInv, FwType, Around, env, control
<1>10. Modes' /\ NetnsOwned' /\ Retries' /\ Applying' /\ Reported'
  BY <1>1 DEF FwInv, Modes, NetnsOwned, Retries, Applying, Reported, env, control
<1>11. Current'
  <2>1. proxyMode = "inpod" /\ pc = "apply" /\ kind # "nft" => hooked'[cur.ns][kind] = Directions
    BY <1>2, <1>7, HooksGrow DEF FwInv, Current
  <2>. QED
    BY <1>1, <2>1 DEF FwInv, Current, env, control
<1>12. Hooks'
  <2>1. ASSUME NEW p \in Pods, podStates[p] # NoPod, podStates[p].state # "InitFailed", kind # "nft"
        PROVE  hooked'[podStates[p].ns][kind] = Directions
    BY <1>2, <1>7, <2>1, PodKnown, HooksGrow DEF FwInv, Hooks
  <2>2. proxyMode = "dedicated" /\ pc \in {"select", "debounce", "own"} /\ kind # "nft" => hooked'[Own][kind] = Directions
    BY <1>2, <1>7, OwnKnown, HooksGrow DEF FwInv, Hooks
  <2>. QED
    BY <1>1, <2>1, <2>2 DEF Hooks, env, control
<1>13. Believed'
  <2>1. ASSUME NEW p \in Pods, podStates[p] # NoPod, podStates[p].ns \notin tainted', NEW j \in done, j.pod = p
        PROVE  Forced(j.ns, j.rules)
    <3>1. InForce(j.ns, j.rules) /\ j.ns \in PodNetns /\ j.ns # l.ns
      BY <1>1, <2>1, JobKnown DEF FwInv, Believed
    <3>. QED
      BY <1>2, <1>7, <3>1, ElsewhereForced DEF FwInv
  <2>2. ASSUME NEW p \in Pods, podStates[p] # NoPod, podStates[p].ns \notin tainted', podStates[p].state = "Enrolled",
               \A j \in done : j.pod # p, proxyMode = "dedicated" => pc # "drained"
        PROVE  Forced(podStates[p].ns, podStates[p].hash)
    <3>1. InForce(podStates[p].ns, podStates[p].hash) /\ podStates[p].ns \in PodNetns /\ podStates[p].ns # l.ns
      BY <1>1, <2>2, PodKnown DEF FwInv, Believed
    <3>. QED
      BY <1>2, <1>7, <3>1, ElsewhereForced DEF FwInv
  <2>. QED
    BY <1>1, <2>1, <2>2 DEF Believed, InForce, Forced, env, control
<1>14. Fresh'
  BY <1>1 DEF FwInv, Fresh, Noticed, env, control
<1>15. Cleaned'
  <2>1. \A n \in PodNetns : table'[n][kind] # Empty => n \in tainted' \/ table[n][kind] # Empty
    BY <1>1, <1>2, <1>7 DEF Around
  <2>. QED
    BY <1>1, <2>1, OwnKnown DEF FwInv, Cleaned, env, control
<1>. QED
  BY <1>8, <1>9, <1>10, <1>11, <1>12, <1>13, <1>14, <1>15 DEF FwInv

\* A process that was given up on finishes after all.
LEMMA LateApplyKeeps ==
    ASSUME FwInv, LateApply
    PROVE  FwInv'
<1>1. PICK l \in late : LateBy(l)
  BY DEF LateApply, LateBy
<1>. QED
  BY <1>1, LateSameKeeps, LateOtherKeeps

\* A pod that is tried again is set up like a new one (retry_init_failed_pods).
LEMMA RetryPodKeeps ==
    ASSUME FwInv, NEW p \in retrying, RetryPod(p)
    PROVE  FwInv'
<1>1. /\ pc = "retry" /\ retrying' = retrying \ {p} /\ cur' = Job(p, podStates[p].ns, NoRules) /\ pc' = "init"
      /\ UNCHANGED <<env, home, want, polNote, events, podStates, back, jobs, done, kernel, missed>>
  BY DEF RetryPod
<1>2. /\ p \in Pods /\ podStates[p] # NoPod /\ podStates[p].state = "InitFailed" /\ podStates[p].retries < MaxInitRetries
      /\ podStates[p].ns \in PodNetns /\ podStates[p].ns[1] = p
  BY PodKnown DEF FwInv, FwType, Retries
<1>3. cur'.pod = p /\ cur'.ns = podStates[p].ns
  BY <1>1 DEF Job
<1>4. proxyMode = "inpod" /\ jobs = {} /\ done = {}
  BY <1>1 DEF FwInv, Modes, FwType
<1>5. FwType' /\ Backends'
  <2>1. FwType'
    BY <1>1 DEF FwInv, FwType, env, kernel
  <2>2. Backends'
    BY <1>1, BackendsSame
  <2>. QED
    BY <2>1, <2>2
<1>6. Modes' /\ NetnsOwned' /\ Retries' /\ Applying'
  BY <1>1, <1>4 DEF FwInv, Modes, NetnsOwned, Retries, Applying, env, kernel
<1>7. Current'
  BY <1>1, <1>2, <1>3 DEF Current, env
<1>8. Hooks' /\ Cleaned'
  BY <1>1, <1>4 DEF FwInv, Hooks, Cleaned, env, kernel
<1>9. Believed'
  BY <1>1 DEF FwInv, Believed, InForce, env, kernel
<1>10. Fresh' /\ Reported'
  BY <1>1, <1>4 DEF FwInv, Fresh, Noticed, Reported, env, kernel
<1>. QED
  BY <1>5, <1>6, <1>7, <1>8, <1>9, <1>10 DEF FwInv

\* The pods that are due for another try.
LEMMA RetryTickKeeps ==
    ASSUME FwInv, RetryTick
    PROVE  FwInv'
<1>1. /\ proxyMode = "inpod" /\ pc = "select" /\ retrying' = Retryable /\ pc' = "retry" /\ back' = "select"
      /\ UNCHANGED <<env, home, want, polNote, events, podStates, jobs, done, cur, kernel, missed>>
  BY DEF RetryTick
<1>2. FwType' /\ Backends'
  <2>1. FwType'
    BY <1>1 DEF FwInv, FwType, Retryable, env, kernel
  <2>2. Backends'
    BY <1>1 DEF FwInv, Backends, Retryable, env, kernel
  <2>. QED
    BY <2>1, <2>2
<1>3. Modes' /\ NetnsOwned' /\ Current' /\ Applying'
  BY <1>1 DEF FwInv, Modes, NetnsOwned, Current, Applying, env, kernel
<1>4. Retries'
  BY <1>1 DEF FwInv, Retries, Retryable
<1>5. Hooks' /\ Cleaned'
  BY <1>1 DEF FwInv, Hooks, Cleaned, env, kernel
<1>6. Believed'
  BY <1>1 DEF FwInv, Believed, InForce, env, kernel
<1>7. Fresh' /\ Reported'
  BY <1>1 DEF FwInv, Fresh, Noticed, Reported, env, kernel
<1>. QED
  BY <1>2, <1>3, <1>4, <1>5, <1>6, <1>7 DEF FwInv

\* A dedicated ztunnel before its first look at the policies, and what a step of it
\* keeps that touches neither its tables nor its pods.
LEMMA OwnStepKeeps ==
    ASSUME FwInv, proxyMode = "dedicated", pc \in {"boot", "init", "select", "debounce"}, pc' \in {"init", "own", "select", "debounce"},
           UNCHANGED <<env, home, want, events, podStates, back, jobs, done, retrying, table, late, tainted, leftover, missed>>,
           Around(Own), polNote' \in BOOLEAN,
           pc' = "init" => cur'.ns = Own,
           pc' # "init" /\ kind # "nft" => hooked'[Own][kind] = Directions,
           pc' = "own" => cur'.rules = want[Self] /\ want[Self] # NoWorkload,
           pc' = "select" /\ ~polNote' =>
              want[Self] = NoWorkload \/ Self \in missed \/ (podStates[Self] # NoPod /\ podStates[Self].hash = want[Self])
    PROVE  FwInv'
<1>1. Own \in PodNetns /\ Self \in Pods /\ jobs = {} /\ done = {} /\ retrying = {} /\ kind \in Kinds
  BY OwnKnown DEF FwInv, Modes, FwType
<1>2. FwType'
  BY DEF FwInv, FwType, Around, env
<1>3. Backends'
  <2>1. kind # "nft" /\ table'[Own][kind] # Empty => hooked'[Own][kind] # {}
    BY <1>1 DEF FwInv, Backends, Around
  <2>. QED
    BY <1>1, <2>1, BackendsStay DEF FwInv, env
<1>4. Modes'
  <2>1. pc' = "own" => cur'.rules \in RuleSets
    BY <1>1 DEF FwInv, FwType
  <2>. QED
    BY <1>1, <2>1 DEF FwInv, Modes, env
<1>5. NetnsOwned' /\ Current' /\ Retries' /\ Applying'
  BY <1>1 DEF FwInv, NetnsOwned, Current, Retries, Applying, env
<1>6. Believed' /\ Hooks'
  BY <1>1, GrowKeeps DEF Hooks, env
<1>7. Fresh'
  BY <1>1 DEF Fresh, Noticed, env
<1>8. Reported' /\ Cleaned'
  BY DEF FwInv, Modes, Reported, Cleaned, env
<1>. QED
  BY <1>2, <1>3, <1>4, <1>5, <1>6, <1>7, <1>8 DEF FwInv

\* Where nothing is done, nothing changes.
LEMMA AroundIdle ==
    ASSUME FwInv, table' = table, hooked' = hooked
    PROVE  Around(Own)
  BY DEF FwInv, FwType, Around

\* A dedicated ztunnel starts with its own netns (run).
LEMMA BootKeeps ==
    ASSUME FwInv, Boot
    PROVE  FwInv'
<1>1. /\ pc = "boot" /\ pc' = "init" /\ cur' = Job(Self, Own, NoRules)
      /\ UNCHANGED <<env, home, want, polNote, events, podStates, back, jobs, done, retrying, kernel, missed>>
  BY DEF Boot
<1>2. proxyMode = "dedicated" /\ cur'.ns = Own /\ Around(Own) /\ polNote' \in BOOLEAN
  BY <1>1, AroundIdle DEF FwInv, Modes, FwType, Job, kernel
<1>. QED
  BY <1>1, <1>2, OwnStepKeeps DEF kernel

\* After init the policies are looked at.
LEMMA ResolveKeeps ==
    ASSUME FwInv, Resolve
    PROVE  FwInv'
<1>1. /\ proxyMode = "dedicated" /\ pc = "init" /\ hooked' = InitDone(Own) /\ polNote' = FALSE
      /\ UNCHANGED <<env, home, want, events, podStates, back, jobs, done, retrying, table, late, tainted, leftover, missed>>
  BY DEF Resolve
<1>2. Around(Own) /\ (kind # "nft" => hooked'[Own][kind] = Directions)
  BY <1>1, OwnKnown, InitAround DEF FwInv
<1>3. CASE want[Self] = NoWorkload /\ pc' = "select"
  BY <1>1, <1>2, <1>3, OwnStepKeeps
<1>4. CASE want[Self] # NoWorkload /\ pc' = "own" /\ cur' = Job(Self, Own, want[Self])
  <2>1. cur'.rules = want[Self]
    BY <1>4 DEF Job
  <2>. QED
    BY <1>1, <1>2, <1>4, <2>1, OwnStepKeeps
<1>. QED
  BY <1>3, <1>4 DEF Resolve

\* A dedicated ztunnel sees that policies have changed.
LEMMA SeeOwnPoliciesKeeps ==
    ASSUME FwInv, SeeOwnPolicies
    PROVE  FwInv'
<1>1. /\ proxyMode = "dedicated" /\ pc \in {"select", "debounce"} /\ pc' = "debounce" /\ polNote' = FALSE
      /\ UNCHANGED <<env, home, want, events, podStates, back, jobs, done, retrying, cur, kernel, missed>>
  BY DEF SeeOwnPolicies
<1>2. Around(Own) /\ (kind # "nft" => hooked'[Own][kind] = Directions)
  BY <1>1, AroundIdle DEF FwInv, Hooks, kernel
<1>. QED
  BY <1>1, <1>2, OwnStepKeeps DEF kernel

\* After the debounce the rules are applied, unless they are those in force.
LEMMA RebuildOwnKeeps ==
    ASSUME FwInv, RebuildOwn
    PROVE  FwInv'
<1>1. /\ proxyMode = "dedicated" /\ pc = "debounce"
      /\ UNCHANGED <<env, home, want, polNote, events, podStates, back, jobs, done, retrying, kernel, missed>>
  BY DEF RebuildOwn, DebounceOver
<1>2. Around(Own) /\ (kind # "nft" => hooked'[Own][kind] = Directions) /\ polNote' \in BOOLEAN
  BY <1>1, AroundIdle DEF FwInv, FwType, Hooks, kernel
<1>3. CASE want[Self] \in {NoWorkload, LastHash} /\ pc' = "select"
  <2>1. want[Self] = NoWorkload \/ (podStates[Self] # NoPod /\ podStates[Self].hash = want[Self])
    <3>1. want[Self] \in RuleSets \cup {NoWorkload}
      BY OwnKnown DEF FwInv, FwType
    <3>. QED
      BY <1>3, <3>1, FirewallAssumption DEF LastHash
  <2>. QED
    BY <1>1, <1>2, <1>3, <2>1, OwnStepKeeps DEF kernel
<1>4. CASE want[Self] \notin {NoWorkload, LastHash} /\ pc' = "own" /\ cur' = Job(Self, Own, want[Self])
  <2>1. cur'.rules = want[Self] /\ want[Self] # NoWorkload
    BY <1>4 DEF Job
  <2>. QED
    BY <1>1, <1>2, <1>4, <2>1, OwnStepKeeps DEF kernel
<1>. QED
  BY <1>3, <1>4 DEF RebuildOwn

\* The event at the head of the channel is taken: what is reported last of a pod is
\* still to come, or was this event.
LEMMA EventTaken ==
    ASSUME FwInv, events # <<>>, events' = Tail(events), home' = home
    PROVE  /\ events' \in Seq([pod : Pods, ns : PodNetns \cup {NoJob}])
           /\ Head(events).pod \in Pods /\ Head(events).ns \in PodNetns \cup {NoJob}
           /\ Head(events).ns # NoJob => Head(events).ns[1] = Head(events).pod
           /\ \A i \in DOMAIN events' : events'[i].ns # NoJob => events'[i].ns[1] = events'[i].pod
           /\ \A i \in DOMAIN events' : (\A j \in DOMAIN events' : j > i => events'[j].pod # events'[i].pod) => events'[i].ns = home[events'[i].pod]
           /\ \A p \in Pods : (\A i \in DOMAIN events' : events'[i].pod # p) =>
                 (\A i \in DOMAIN events : events[i].pod # p) \/ (Head(events).pod = p /\ Head(events).ns = home[p])
<1>. DEFINE T == [pod : Pods, ns : PodNetns \cup {NoJob}]
<1>1. events \in Seq(T)
  BY DEF FwInv, FwType
<1>. HIDE DEF T
<1>2. PICK n \in Nat : n = Len(events)
  BY <1>1
<1>3. n >= 1 /\ DOMAIN events = 1 .. n
  BY <1>1, <1>2
<1>4. events' \in Seq(T) /\ Len(events') = n - 1 /\ DOMAIN events' = 1 .. (n - 1) /\ \A i \in 1 .. (n - 1) : events'[i] = events[i + 1]
  BY <1>1, <1>2, <1>3
<1>5. Head(events) = events[1] /\ events[1] \in T
  BY <1>1, <1>2, <1>3
<1>6. Head(events).ns # NoJob => Head(events).ns[1] = Head(events).pod
  BY <1>3, <1>5 DEF FwInv, NetnsOwned
<1>7. \A i \in DOMAIN events' : events'[i].ns # NoJob => events'[i].ns[1] = events'[i].pod
  BY <1>3, <1>4 DEF FwInv, NetnsOwned
<1>8. ASSUME NEW i \in DOMAIN events', \A j \in DOMAIN events' : j > i => events'[j].pod # events'[i].pod
      PROVE  events'[i].ns = home[events'[i].pod]
  <2>1. i \in 1 .. (n - 1) /\ i + 1 \in 1 .. n /\ events'[i] = events[i + 1]
    BY <1>3, <1>4
  <2>2. ASSUME NEW j \in 1 .. n, j > i + 1 PROVE events[j].pod # events[i + 1].pod
    <3>1. j - 1 \in 1 .. (n - 1) /\ j - 1 > i /\ (j - 1) + 1 = j
      BY <2>1, <2>2
    <3>. QED
      BY <1>4, <1>8, <2>1, <3>1
  <2>. QED
    BY <1>3, <2>1, <2>2 DEF FwInv, Reported
<1>9. ASSUME NEW p \in Pods, \A i \in DOMAIN events' : events'[i].pod # p, ~ \A i \in DOMAIN events : events[i].pod # p
      PROVE  Head(events).pod = p /\ Head(events).ns = home[p]
  <2>1. \A i \in 1 .. n : i > 1 => events[i].pod # p
    <3>1. ASSUME NEW i \in 1 .. n, i > 1 PROVE events[i].pod # p
      <4>1. i - 1 \in 1 .. (n - 1) /\ (i - 1) + 1 = i
        BY <3>1
      <4>. QED
        BY <1>4, <1>9, <4>1
    <3>. QED
      BY <3>1
  <2>2. PICK i \in 1 .. n : events[i].pod = p
    BY <1>3, <1>9
  <2>3. i = 1
    BY <2>1, <2>2
  <2>4. events[1].pod = p /\ \A j \in DOMAIN events : j > 1 => events[j].pod # events[1].pod
    BY <1>3, <2>1, <2>2, <2>3
  <2>. QED
    BY <1>3, <1>5, <2>4 DEF FwInv, Reported
<1>. QED
  BY <1>4, <1>5, <1>6, <1>7, <1>8, <1>9 DEF T

\* The head of the channel is one of its events.
LEMMA HeadKnown ==
    ASSUME FwInv, events # <<>>
    PROVE  1 \in DOMAIN events /\ Head(events) = events[1]
<1>. DEFINE T == [pod : Pods, ns : PodNetns \cup {NoJob}]
<1>1. events \in Seq(T)
  BY DEF FwInv, FwType
<1>. HIDE DEF T
<1>. QED
  BY <1>1

\* A pod is forgotten, and its netns cleaned: what is left of it is said to be.
LEMMA PodDropped ==
    ASSUME FwInv, Listening, NEW p \in Pods, podStates' = [podStates EXCEPT ![p] = NoPod],
           IF podStates[p] = NoPod THEN UNCHANGED kernel ELSE Cleanup(podStates[p].ns),
           UNCHANGED <<env, want, polNote, jobs, done, retrying>>, missed' = missed \ {p},
           pc' = pc \/ (pc' = "init" /\ back' = pc)
    PROVE  /\ podStates' \in [Pods -> Entries \cup {NoPod}] /\ podStates'[p] = NoPod
           /\ \A q \in Pods : q # p => podStates'[q] = podStates[q]
           /\ jobs = {} /\ done = {} /\ retrying = {}
           /\ table' \in [PodNetns -> [Kinds -> Chains]] /\ hooked' = hooked /\ late' = late
           /\ Backends' /\ Retries' /\ Applying' /\ Hooks' /\ Believed' /\ Cleaned'
           /\ ~Noticed' => \A q \in Pods : podStates'[q] # NoPod =>
                 \/ q \in missed' \/ want[q] = NoWorkload \/ podStates'[q].state = "InitFailed"
                 \/ podStates'[q].state = "Enrolled" /\ podStates'[q].hash = want[q]
<1>1. /\ podStates' \in [Pods -> Entries \cup {NoPod}] /\ podStates'[p] = NoPod
      /\ \A q \in Pods : q # p => podStates'[q] = podStates[q]
  BY PodSet DEF FwInv
<1>2. proxyMode = "inpod" /\ pc \in {"select", "debounce"} /\ jobs = {} /\ done = {} /\ retrying = {}
  BY DEF FwInv, Modes, Listening
<1>3. PICK ns \in PodNetns :
         /\ Around(ns) /\ hooked' = hooked /\ late' = late /\ tainted' = tainted
         /\ table'[ns][kind] = Empty \/ ns \in leftover' \/ UNCHANGED <<table, leftover>>
         /\ \A n \in PodNetns \ {ns} : n \in leftover <=> n \in leftover'
         /\ table[ns][kind] = Empty => table'[ns][kind] = Empty
         /\ podStates[p] # NoPod => ns = podStates[p].ns /\ (table'[ns][kind] = Empty \/ ns \in leftover')
         /\ podStates[p] = NoPod => UNCHANGED <<table, leftover>>
  <2>1. CASE podStates[p] = NoPod
    <3>1. UNCHANGED kernel /\ Around(Own)
      BY <2>1, AroundIdle DEF kernel
    <3>. QED
      BY <2>1, <3>1, OwnKnown DEF kernel
  <2>2. CASE podStates[p] # NoPod
    <3>1. podStates[p].ns \in PodNetns /\ Cleanup(podStates[p].ns) /\ FwType
      BY <2>2, PodKnown DEF FwInv
    <3>2. /\ Around(podStates[p].ns) /\ hooked' = hooked /\ late' = late /\ tainted' = tainted
          /\ \/ table'[podStates[p].ns][kind] = Empty /\ leftover' = leftover \ {podStates[p].ns}
             \/ leftover' = leftover \cup {podStates[p].ns}
          /\ table[podStates[p].ns][kind] = Empty => table'[podStates[p].ns][kind] = Empty
      BY <3>1, CleanupAround
    <3>. QED
      BY <2>2, <3>1, <3>2
  <2>. QED
    BY <2>1, <2>2
<1>4. \A q \in Pods : q # p /\ podStates[q] # NoPod /\ podStates[p] # NoPod => podStates[q].ns # ns
  BY <1>3, PodKnown
<1>5. Backends'
  <2>1. kind # "nft" /\ table'[ns][kind] # Empty => hooked'[ns][kind] # {}
    BY <1>3 DEF FwInv, Backends
  <2>. QED
    BY <1>2, <1>3, <2>1, BackendsStay DEF FwInv, env
<1>6. Retries' /\ Applying'
  BY <1>1, <1>2 DEF FwInv, Retries, Applying
<1>7. Hooks'
  BY <1>1, <1>2, <1>3 DEF FwInv, Hooks, env
<1>8. Believed'
  <2>1. ASSUME NEW q \in Pods, podStates'[q] # NoPod, podStates'[q].ns \notin tainted', podStates'[q].state = "Enrolled"
        PROVE  Forced(podStates'[q].ns, podStates'[q].hash)
    <3>1. q # p /\ podStates'[q] = podStates[q] /\ podStates[q] # NoPod
      BY <1>1, <2>1
    <3>2. InForce(podStates[q].ns, podStates[q].hash) /\ podStates[q].ns \in PodNetns
      BY <1>2, <1>3, <2>1, <3>1, PodKnown DEF FwInv, Believed
    <3>3. CASE podStates[p] # NoPod
      BY <1>3, <1>4, <3>1, <3>2, <3>3, ElsewhereForced DEF FwInv
    <3>4. CASE podStates[p] = NoPod
      BY <1>3, <3>1, <3>2, <3>4, GrowForced DEF FwInv
    <3>. QED
      BY <3>3, <3>4
  <2>. QED
    BY <1>2, <2>1 DEF Believed, InForce, Forced, env
<1>9. Cleaned'
  <2>1. ASSUME NEW n \in PodNetns, table'[n][kind] # Empty
        PROVE  n \in leftover' \cup tainted' \/ \E q \in Pods : podStates'[q] # NoPod /\ podStates'[q].ns = n
    <3>1. table[n][kind] # Empty
      BY <1>3, <2>1 DEF Around, FwInv, FwType
    <3>2. n \in leftover \cup tainted \/ \E q \in Pods : podStates[q] # NoPod /\ podStates[q].ns = n
      BY <1>2, <3>1 DEF FwInv, Cleaned
    <3>3. CASE podStates[p] = NoPod
      BY <1>1, <1>3, <3>2, <3>3
    <3>4. CASE podStates[p] # NoPod /\ n = ns
      BY <1>3, <2>1, <3>4
    <3>5. CASE podStates[p] # NoPod /\ n # ns
      BY <1>1, <1>3, <3>2, <3>5
    <3>. QED
      BY <3>3, <3>4, <3>5
  <2>. QED
    BY <1>2, <2>1 DEF Cleaned, env
<1>10. ~Noticed' => \A q \in Pods : podStates'[q] # NoPod =>
                 \/ q \in missed' \/ want[q] = NoWorkload \/ podStates'[q].state = "InitFailed"
                 \/ podStates'[q].state = "Enrolled" /\ podStates'[q].hash = want[q]
  <2>1. ~Noticed' => ~Noticed
    BY <1>2 DEF Noticed
  <2>. QED
    BY <1>1, <1>2, <2>1 DEF FwInv, Fresh
<1>11. table' \in [PodNetns -> [Kinds -> Chains]]
  BY <1>3 DEF Around
<1>. QED
  BY <1>1, <1>2, <1>3, <1>5, <1>6, <1>7, <1>8, <1>9, <1>10, <1>11

\* A pod is removed (handle_remove_pod).
LEMMA HandleRemovePodKeeps ==
    ASSUME FwInv, HandleRemovePod
    PROVE  FwInv'
<1>. DEFINE p == Head(events).pod
<1>1. /\ Listening /\ events # <<>> /\ Head(events).ns = NoJob /\ events' = Tail(events)
      /\ IF podStates[p] = NoPod THEN UNCHANGED kernel ELSE Cleanup(podStates[p].ns)
      /\ podStates' = [podStates EXCEPT ![p] = NoPod] /\ missed' = missed \ {p}
      /\ UNCHANGED <<env, home, want, polNote, control>>
  BY DEF HandleRemovePod
<1>2. /\ events' \in Seq([pod : Pods, ns : PodNetns \cup {NoJob}]) /\ p \in Pods
      /\ \A i \in DOMAIN events' : events'[i].ns # NoJob => events'[i].ns[1] = events'[i].pod
      /\ \A i \in DOMAIN events' : (\A j \in DOMAIN events' : j > i => events'[j].pod # events'[i].pod) => events'[i].ns = home[events'[i].pod]
      /\ \A q \in Pods : (\A i \in DOMAIN events' : events'[i].pod # q) =>
            (\A i \in DOMAIN events : events[i].pod # q) \/ (p = q /\ Head(events).ns = home[q])
  BY <1>1, EventTaken
<1>. HIDE DEF p
<1>3. /\ podStates' \in [Pods -> Entries \cup {NoPod}] /\ podStates'[p] = NoPod
      /\ \A q \in Pods : q # p => podStates'[q] = podStates[q]
      /\ jobs = {} /\ done = {} /\ retrying = {}
      /\ table' \in [PodNetns -> [Kinds -> Chains]] /\ hooked' = hooked /\ late' = late
      /\ Backends' /\ Retries' /\ Applying' /\ Hooks' /\ Believed' /\ Cleaned'
      /\ ~Noticed' => \A q \in Pods : podStates'[q] # NoPod =>
            \/ q \in missed' \/ want[q] = NoWorkload \/ podStates'[q].state = "InitFailed"
            \/ podStates'[q].state = "Enrolled" /\ podStates'[q].hash = want[q]
  BY <1>1, <1>2, PodDropped DEF control
<1>4. proxyMode = "inpod" /\ pc \in {"select", "debounce"}
  BY <1>1 DEF Listening
<1>5. FwType'
  BY <1>1, <1>2, <1>3 DEF FwInv, FwType, env, control
<1>6. Modes' /\ Current'
  BY <1>1, <1>3, <1>4 DEF Modes, Current, env, control
<1>7. NetnsOwned'
  <2>1. \A q \in Pods : podStates'[q] # NoPod => podStates'[q].ns[1] = q
    BY <1>3 DEF FwInv, NetnsOwned
  <2>2. \A q \in Pods : home'[q] # NoJob => home'[q][1] = q
    BY <1>1 DEF FwInv, NetnsOwned
  <2>. QED
    BY <1>2, <2>1, <2>2 DEF NetnsOwned
<1>8. Fresh'
  BY <1>1, <1>3, <1>4 DEF Fresh, env, control
<1>9. Reported'
  <2>1. ASSUME NEW q \in Pods, \A i \in DOMAIN events' : events'[i].pod # q, home[q] # NoJob
        PROVE  podStates'[q] # NoPod /\ podStates'[q].ns = home[q]
    <3>1. \A i \in DOMAIN events : events[i].pod # q
      BY <1>1, <1>2, <2>1
    <3>2. q # p
      BY <1>1, <3>1, HeadKnown DEF p
    <3>. QED
      BY <1>3, <1>4, <2>1, <3>1, <3>2 DEF FwInv, Reported
  <2>. QED
    BY <1>1, <1>2, <2>1 DEF Reported
<1>. QED
  BY <1>3, <1>5, <1>6, <1>7, <1>8, <1>9 DEF FwInv

\* A pod is added, perhaps with another netns than before (handle_add_pod).
LEMMA HandleAddPodKeeps ==
    ASSUME FwInv, HandleAddPod
    PROVE  FwInv'
<1>. DEFINE e == Head(events)
<1>1. /\ Listening /\ events # <<>> /\ e.ns # NoJob /\ events' = Tail(events) /\ UNCHANGED <<env, home, want, polNote>>
  BY DEF HandleAddPod
<1>2. /\ events' \in Seq([pod : Pods, ns : PodNetns \cup {NoJob}]) /\ e.pod \in Pods /\ e.ns \in PodNetns /\ e.ns[1] = e.pod
      /\ \A i \in DOMAIN events' : events'[i].ns # NoJob => events'[i].ns[1] = events'[i].pod
      /\ \A i \in DOMAIN events' : (\A j \in DOMAIN events' : j > i => events'[j].pod # events'[i].pod) => events'[i].ns = home[events'[i].pod]
      /\ \A q \in Pods : (\A i \in DOMAIN events' : events'[i].pod # q) =>
            (\A i \in DOMAIN events : events[i].pod # q) \/ (e.pod = q /\ e.ns = home[q])
  BY <1>1, EventTaken
<1>3. proxyMode = "inpod" /\ pc \in {"select", "debounce"} /\ jobs = {} /\ done = {} /\ retrying = {}
  BY <1>1 DEF FwInv, Modes, Listening
<1>4. CASE podStates[e.pod] # NoPod /\ podStates[e.pod].ns = e.ns
  <2>1. UNCHANGED <<podStates, control, kernel, missed>>
    BY <1>4 DEF HandleAddPod
  <2>. HIDE DEF e
  <2>2. FwType'
    BY <1>1, <1>2, <2>1 DEF FwInv, FwType, env, control, kernel
  <2>3. Backends' /\ Retries' /\ Applying'
    <3>1. Backends'
      <4>1. UNCHANGED <<proxyMode, host, kind, stranded, hooked, table, late>>
        BY <1>1, <2>1 DEF env, kernel
      <4>2. Backends
        BY DEF FwInv
      <4>. QED
        BY ONLY <4>1, <4>2 DEF Backends
    <3>2. Retries'
      BY <1>1, <2>1 DEF FwInv, Retries, env, control, kernel
    <3>3. Applying'
      BY <1>1, <2>1 DEF FwInv, Applying, env, control, kernel
    <3>. QED
      BY <3>1, <3>2, <3>3
  <2>8. Hooks' /\ Cleaned' /\ Current'
    BY <1>1, <2>1 DEF FwInv, Hooks, Cleaned, Current, env, control, kernel
  <2>4. Modes' /\ NetnsOwned'
    BY <1>1, <1>2, <1>3, <2>1 DEF FwInv, Modes, NetnsOwned, env, control
  <2>5. Believed'
    BY <1>1, <2>1 DEF FwInv, Believed, InForce, env, control, kernel
  <2>6. Fresh'
    BY <1>1, <2>1 DEF FwInv, Fresh, Noticed, env, control
  <2>7. Reported'
    <3>1. ASSUME NEW q \in Pods, \A i \in DOMAIN events' : events'[i].pod # q, home[q] # NoJob
          PROVE  podStates[q] # NoPod /\ podStates[q].ns = home[q]
      <4>1. (\A i \in DOMAIN events : events[i].pod # q) \/ (e.pod = q /\ e.ns = home[q])
        BY <1>2, <3>1
      <4>. QED
        BY <1>3, <1>4, <3>1, <4>1 DEF FwInv, Reported
    <3>. QED
      BY <1>1, <1>2, <2>1, <3>1 DEF Reported
  <2>. QED
    BY <2>2, <2>3, <2>4, <2>5, <2>6, <2>7, <2>8 DEF FwInv
<1>5. CASE ~(podStates[e.pod] # NoPod /\ podStates[e.pod].ns = e.ns)
  <2>1. /\ podStates' = [podStates EXCEPT ![e.pod] = NoPod]
        /\ IF podStates[e.pod] = NoPod THEN UNCHANGED kernel ELSE Cleanup(podStates[e.pod].ns)
        /\ pc' = "init" /\ back' = pc /\ cur' = Job(e.pod, e.ns, NoRules)
        /\ missed' = missed \ {e.pod} /\ UNCHANGED <<jobs, done, retrying>>
    BY <1>5 DEF HandleAddPod
  <2>. HIDE DEF e
  <2>2. PICK p \in Pods : p = e.pod
    BY <1>2
  <2>3. /\ podStates' \in [Pods -> Entries \cup {NoPod}] /\ podStates'[p] = NoPod
        /\ \A q \in Pods : q # p => podStates'[q] = podStates[q]
        /\ table' \in [PodNetns -> [Kinds -> Chains]] /\ hooked' = hooked /\ late' = late
        /\ Backends' /\ Retries' /\ Applying' /\ Hooks' /\ Believed' /\ Cleaned'
        /\ ~Noticed' => \A q \in Pods : podStates'[q] # NoPod =>
              \/ q \in missed' \/ want[q] = NoWorkload \/ podStates'[q].state = "InitFailed"
              \/ podStates'[q].state = "Enrolled" /\ podStates'[q].hash = want[q]
    BY <1>1, <2>1, <2>2, PodDropped
  <2>4. cur'.pod = p /\ cur'.ns = e.ns
    BY <2>1, <2>2 DEF Job
  <2>5. FwType'
    BY <1>1, <1>2, <1>3, <2>1, <2>3 DEF FwInv, FwType, env
  <2>6. Modes' /\ Current'
    BY <1>1, <1>2, <1>3, <2>1, <2>2, <2>3, <2>4 DEF Modes, Current, env
  <2>7. NetnsOwned'
    <3>1. \A q \in Pods : podStates'[q] # NoPod => podStates'[q].ns[1] = q
      BY <2>3 DEF FwInv, NetnsOwned
    <3>2. \A q \in Pods : home'[q] # NoJob => home'[q][1] = q
      BY <1>1 DEF FwInv, NetnsOwned
    <3>. QED
      BY <1>2, <3>1, <3>2 DEF NetnsOwned
  <2>8. Fresh'
    BY <1>1, <1>3, <2>1, <2>3 DEF Fresh, env
  <2>9. Reported'
    <3>1. ASSUME NEW q \in Pods, \A i \in DOMAIN events' : events'[i].pod # q, home[q] # NoJob
          PROVE  \/ podStates'[q] # NoPod /\ podStates'[q].ns = home[q]
                 \/ q = p /\ e.ns = home[q]
      <4>1. (\A i \in DOMAIN events : events[i].pod # q) \/ (p = q /\ e.ns = home[q])
        BY <1>2, <2>2, <3>1
      <4>2. ASSUME \A i \in DOMAIN events : events[i].pod # q PROVE q # p
        BY <1>1, <2>2, <4>2, HeadKnown DEF e
      <4>. QED
        BY <1>3, <2>3, <3>1, <4>1, <4>2 DEF FwInv, Reported
    <3>. QED
      BY <1>1, <1>2, <2>1, <2>4, <3>1 DEF Reported
  <2>. QED
    BY <2>3, <2>5, <2>6, <2>7, <2>8, <2>9 DEF FwInv
<1>. QED
  BY <1>4, <1>5

\* The workload manager reports a pod (send_fw_event).
LEMMA PodEventKeeps ==
    ASSUME FwInv, NEW p \in Pods, NEW n \in ({p} \X Gens) \cup {NoJob}, PodEvent([pod |-> p, ns |-> n])
    PROVE  FwInv'
<1>. DEFINE T == [pod : Pods, ns : PodNetns \cup {NoJob}]
<1>1. PICK e : e = [pod |-> p, ns |-> n]
  OBVIOUS
<1>2. e \in T /\ e.pod = p /\ e.ns = n /\ (n # NoJob => n[1] = p /\ n \in PodNetns)
  BY <1>1 DEF PodNetns
<1>3. /\ proxyMode = "inpod" /\ pc # "drained" /\ events' = Append(events, e) /\ home' = [home EXCEPT ![e.pod] = e.ns]
      /\ UNCHANGED <<env, want, polNote, podStates, control, kernel, missed>>
  BY <1>1 DEF PodEvent
<1>4. events \in Seq(T)
  BY DEF FwInv, FwType
<1>5. /\ home' \in [Pods -> PodNetns \cup {NoJob}] /\ home'[p] = n
      /\ \A q \in Pods : q # p => home'[q] = home[q]
  BY <1>2, <1>3 DEF FwInv, FwType
<1>. HIDE DEF T
<1>6. PICK m \in Nat : m = Len(events)
  BY <1>4
<1>7. DOMAIN events = 1 .. m /\ \A i \in 1 .. m : events[i] \in T
  BY <1>4, <1>6
<1>8. events' \in Seq(T) /\ DOMAIN events' = 1 .. (m + 1) /\ events'[m + 1] = e /\ \A i \in 1 .. m : events'[i] = events[i]
  BY <1>2, <1>3, <1>4, <1>6
<1>9. FwType'
  BY <1>3, <1>5, <1>8 DEF FwInv, FwType, T, env, control, kernel
<1>10. Backends' /\ Retries' /\ Applying'
  <2>1. Backends'
    BY <1>3 DEF FwInv, Backends, env, control, kernel
  <2>2. Retries'
    BY <1>3 DEF FwInv, Retries, env, control, kernel
  <2>3. Applying'
    BY <1>3 DEF FwInv, Applying, env, control, kernel
  <2>. QED
    BY <2>1, <2>2, <2>3
<1>11. Hooks' /\ Cleaned' /\ Current'
  BY <1>3 DEF FwInv, Hooks, Cleaned, Current, env, control, kernel
<1>12. Modes'
  BY <1>3 DEF FwInv, Modes, env, control
<1>13. NetnsOwned'
  <2>1. ASSUME NEW i \in 1 .. (m + 1), events'[i].ns # NoJob PROVE events'[i].ns[1] = events'[i].pod
    <3>1. CASE i = m + 1
      BY <1>2, <1>8, <2>1, <3>1
    <3>2. CASE i # m + 1
      <4>1. i \in 1 .. m
        BY <3>2
      <4>. QED
        BY <1>7, <1>8, <2>1, <4>1 DEF FwInv, NetnsOwned
    <3>. QED
      BY <3>1, <3>2
  <2>2. \A q \in Pods : home'[q] # NoJob => home'[q][1] = q
    BY <1>2, <1>5 DEF FwInv, NetnsOwned
  <2>. QED
    BY <1>3, <1>8, <2>1, <2>2 DEF FwInv, NetnsOwned
<1>14. Believed'
  BY <1>3 DEF FwInv, Believed, InForce, env, control, kernel
<1>15. Fresh'
  BY <1>3 DEF FwInv, Fresh, Noticed, env, control
<1>16. Reported'
  <2>1. ASSUME NEW i \in 1 .. (m + 1), \A j \in 1 .. (m + 1) : j > i => events'[j].pod # events'[i].pod
        PROVE  events'[i].ns = home'[events'[i].pod]
    <3>1. CASE i = m + 1
      BY <1>2, <1>5, <1>8, <3>1
    <3>2. CASE i # m + 1
      <4>1. i \in 1 .. m /\ m + 1 > i /\ m + 1 \in 1 .. (m + 1)
        BY <3>2
      <4>2. events'[i] = events[i] /\ events[i].pod # p /\ events[i].pod \in Pods
        BY <1>2, <1>7, <1>8, <2>1, <4>1 DEF T
      <4>3. ASSUME NEW j \in 1 .. m, j > i PROVE events[j].pod # events[i].pod
        <5>1. j \in 1 .. (m + 1)
          OBVIOUS
        <5>. QED
          BY <1>8, <2>1, <4>2, <4>3, <5>1
      <4>4. events[i].ns = home[events[i].pod]
        BY <1>7, <4>1, <4>3 DEF FwInv, Reported
      <4>. QED
        BY <1>5, <4>2, <4>4
    <3>. QED
      BY <3>1, <3>2
  <2>2. ASSUME NEW q \in Pods, \A i \in 1 .. (m + 1) : events'[i].pod # q
        PROVE  q # p /\ \A i \in 1 .. m : events[i].pod # q
    <3>1. m + 1 \in 1 .. (m + 1) /\ \A i \in 1 .. m : i \in 1 .. (m + 1)
      OBVIOUS
    <3>. QED
      BY <1>2, <1>8, <2>2, <3>1
  <2>3. ASSUME NEW q \in Pods, \A i \in 1 .. (m + 1) : events'[i].pod # q, home'[q] # NoJob
        PROVE  \/ podStates[q] # NoPod /\ podStates[q].ns = home'[q]
               \/ pc \in {"init", "apply"} /\ cur.pod = q /\ cur.ns = home'[q]
    BY <1>5, <1>7, <2>2, <2>3 DEF FwInv, Reported
  <2>4. pc' = pc /\ cur' = cur /\ podStates' = podStates
    BY <1>3 DEF control
  <2>5. \A i \in DOMAIN events' : (\A j \in DOMAIN events' : j > i => events'[j].pod # events'[i].pod) => events'[i].ns = home'[events'[i].pod]
    BY <1>8, <2>1
  <2>6. \A q \in Pods : (\A i \in DOMAIN events' : events'[i].pod # q) /\ home'[q] # NoJob =>
            \/ podStates'[q] # NoPod /\ podStates'[q].ns = home'[q]
            \/ pc' \in {"init", "apply"} /\ cur'.pod = q /\ cur'.ns = home'[q]
    BY <1>8, <2>3, <2>4
  <2>. QED
    BY <2>5, <2>6 DEF Reported
<1>. QED
  BY <1>9, <1>10, <1>11, <1>12, <1>13, <1>14, <1>15, <1>16 DEF FwInv

\* The state changes and its watchers are told.
LEMMA StateChangesKeeps ==
    ASSUME FwInv, NEW ps \in SUBSET Pods, NEW r \in RuleSets \cup {NoWorkload}, StateChanges(ps, r)
    PROVE  FwInv'
<1>1. /\ want' = [p \in Pods |-> IF p \in ps THEN r ELSE want[p]] /\ polNote' = TRUE
      /\ UNCHANGED <<env, home, events, podStates, control, kernel, missed>>
  BY DEF StateChanges
<1>2. FwType'
  BY <1>1 DEF FwInv, FwType, env, control, kernel
<1>3. Backends' /\ Retries' /\ Applying'
  <2>1. Backends'
    BY <1>1 DEF FwInv, Backends, env, control, kernel
  <2>2. Retries'
    BY <1>1 DEF FwInv, Retries, env, control, kernel
  <2>3. Applying'
    BY <1>1 DEF FwInv, Applying, env, control, kernel
  <2>. QED
    BY <2>1, <2>2, <2>3
<1>4. Hooks' /\ Cleaned' /\ Current'
  BY <1>1 DEF FwInv, Hooks, Cleaned, Current, env, control, kernel
<1>5. Modes' /\ NetnsOwned' /\ Reported'
  BY <1>1 DEF FwInv, Modes, NetnsOwned, Reported, env, control
<1>6. Believed'
  BY <1>1 DEF FwInv, Believed, InForce, env, control, kernel
<1>7. Fresh'
  BY <1>1 DEF Fresh, Noticed
<1>. QED
  BY <1>2, <1>3, <1>4, <1>5, <1>6, <1>7 DEF FwInv

\* The in-pod controller sees that policies have changed (debounce_and_rebuild).
LEMMA SeePoliciesKeeps ==
    ASSUME FwInv, SeePolicies
    PROVE  FwInv'
<1>1. /\ proxyMode = "inpod" /\ pc \in {"select", "debounce"} /\ polNote' = FALSE /\ pc' = "debounce"
      /\ UNCHANGED <<env, home, want, events, podStates, back, jobs, done, retrying, cur, kernel, missed>>
  BY DEF SeePolicies, Listening
<1>2. FwType' /\ Backends'
  <2>1. FwType'
    BY <1>1 DEF FwInv, FwType, env, kernel
  <2>2. Backends'
    BY <1>1, BackendsSame
  <2>. QED
    BY <2>1, <2>2
<1>3. Modes' /\ NetnsOwned' /\ Current' /\ Retries' /\ Applying'
  BY <1>1 DEF FwInv, Modes, NetnsOwned, Current, Retries, Applying, env, kernel
<1>4. Hooks' /\ Cleaned'
  BY <1>1 DEF FwInv, Hooks, Cleaned, env, kernel
<1>5. Believed'
  BY <1>1 DEF FwInv, Believed, InForce, env, kernel
<1>6. Fresh'
  BY <1>1 DEF Fresh, Noticed
<1>7. Reported'
  BY <1>1 DEF FwInv, Reported
<1>. QED
  BY <1>2, <1>3, <1>4, <1>5, <1>6, <1>7 DEF FwInv

\* A dedicated ztunnel cleans up when it is drained.
LEMMA DrainKeeps ==
    ASSUME FwInv, Drain
    PROVE  FwInv'
<1>1. /\ pc \in {"select", "debounce"} /\ pc' = "drained"
      /\ UNCHANGED <<env, home, want, polNote, events, podStates, back, jobs, done, retrying, cur, missed>>
  BY DEF Drain
<1>2. jobs = {} /\ done = {} /\ retrying = {}
  BY <1>1 DEF FwInv, Modes
<1>3. CASE proxyMode = "inpod"
  <2>1. UNCHANGED kernel
    BY <1>3 DEF Drain
  <2>2. FwType' /\ Backends'
    <3>1. FwType'
      BY <1>1, <2>1 DEF FwInv, FwType, env, kernel
    <3>2. Backends'
      BY <1>1, <2>1 DEF FwInv, Backends, env, kernel
    <3>. QED
      BY <3>1, <3>2
  <2>3. Modes' /\ NetnsOwned' /\ Current' /\ Retries' /\ Applying'
    BY <1>1, <1>2, <1>3 DEF FwInv, Modes, NetnsOwned, Current, Retries, Applying, env
  <2>4. Hooks' /\ Cleaned'
    BY <1>1, <1>3, <2>1 DEF FwInv, Hooks, Cleaned, env, kernel
  <2>5. Believed'
    BY <1>1, <1>3, <2>1 DEF FwInv, Believed, InForce, env, kernel
  <2>6. Fresh' /\ Reported'
    BY <1>1 DEF FwInv, Fresh, Noticed, Reported
  <2>. QED
    BY <2>2, <2>3, <2>4, <2>5, <2>6 DEF FwInv
<1>4. CASE proxyMode = "dedicated"
  <2>1. /\ Around(Own) /\ hooked' = hooked /\ late' = late /\ tainted' = tainted
        /\ table'[Own][kind] = Empty \/ Own \in leftover'
        /\ table[Own][kind] = Empty => table'[Own][kind] = Empty
    BY <1>4, OwnKnown, CleanupAround DEF FwInv, Drain
  <2>2. FwType'
    BY <1>1, <2>1 DEF FwInv, FwType, Around, env
  <2>3. Backends'
    <3>1. kind # "nft" /\ table'[Own][kind] # Empty => hooked'[Own][kind] # {}
      BY <2>1, OwnKnown DEF FwInv, Backends
    <3>. QED
      BY <1>1, <2>1, <3>1, OwnKnown, BackendsStay DEF FwInv, env
  <2>4. Modes' /\ NetnsOwned' /\ Current' /\ Retries' /\ Applying'
    BY <1>1, <1>2, <1>4 DEF FwInv, Modes, NetnsOwned, Current, Retries, Applying, env
  <2>5. Hooks'
    BY <1>1, <2>1 DEF FwInv, Hooks, env
  <2>6. Believed' /\ Cleaned'
    BY <1>1, <1>2, <1>4, <2>1 DEF Believed, Cleaned, env
  <2>7. Fresh' /\ Reported'
    BY <1>1 DEF FwInv, Fresh, Noticed, Reported
  <2>. QED
    BY <2>2, <2>3, <2>4, <2>5, <2>6, <2>7 DEF FwInv
<1>. QED
  BY <1>3, <1>4 DEF FwInv, FwType

\* A dedicated ztunnel applies the rules that it has resolved.
LEMMA ApplyOwnKeeps ==
    ASSUME FwInv, ApplyOwn
    PROVE  FwInv'
<1>1. pc = "own" /\ pc' = "select" /\ UNCHANGED <<env, home, want, polNote, events, back, jobs, done, retrying>>
  BY DEF ApplyOwn
<1>2. /\ proxyMode = "dedicated" /\ cur.rules \in RuleSets /\ jobs = {} /\ done = {} /\ retrying = {} /\ FwType
      /\ kind # "nft" => hooked[Own][kind] = Directions
  BY <1>1 DEF FwInv, Modes, Hooks, FwType
<1>3. \A p \in Pods : podStates[p] # NoPod => p = Self /\ podStates[p].ns = Own /\ podStates[p].state = "Enrolled"
  BY <1>2 DEF FwInv, Modes
<1>4. ~polNote => cur.rules = want[Self]
  BY <1>1, <1>2 DEF FwInv, Fresh, Noticed
<1>5. \A p \in Pods : home[p] = NoJob
  BY <1>2 DEF FwInv, Modes
<1>6. CASE /\ Applied(Own, cur.rules) /\ missed' = missed \ {Self}
           /\ podStates' = [podStates EXCEPT ![Self] = [ns |-> Own, hash |-> cur.rules, state |-> "Enrolled", retries |-> 0]]
  <2>1. /\ Around(Own) /\ table'[Own][kind] = Full(cur.rules)
        /\ hooked'[Own][kind] = (IF kind = "nft" THEN Directions ELSE hooked[Own][kind])
        /\ late' = late /\ leftover' = leftover /\ tainted' = tainted \ {Own}
    BY <1>2, <1>6, OwnKnown, AppliedAround
  <2>2. hooked'[Own][kind] = Directions
    BY <1>2, <2>1
  <2>3. Forced(Own, cur.rules)
    BY <1>2, <2>1, <2>2, FullTyped DEF Forced
  <2>4. PICK e : e = [ns |-> Own, hash |-> cur.rules, state |-> "Enrolled", retries |-> 0]
    OBVIOUS
  <2>5. e \in Entries /\ e # NoPod /\ e.ns = Own /\ e.hash = cur.rules /\ e.state = "Enrolled" /\ e.retries = 0
    BY <1>2, <2>4, OwnKnown, EntriesKnown DEF Entries, Hashes
  <2>6. /\ podStates' \in [Pods -> Entries \cup {NoPod}] /\ podStates'[Self] = e
        /\ \A q \in Pods : q # Self => podStates'[q] = podStates[q]
    BY <1>2, <1>6, <2>4, <2>5, OwnKnown, PodSet
  <2>7. \A q \in Pods : q # Self => podStates'[q] = NoPod
    BY <1>3, <2>6
  <2>8. FwType'
    BY <1>1, <2>1, <2>6 DEF FwInv, FwType, Around, env
  <2>9. Backends'
    <3>1. hooked'[Own][kind] # {}
      BY <2>2 DEF Directions
    <3>. QED
      BY <1>1, <2>1, <3>1, OwnKnown, BackendsStay DEF FwInv, env
  <2>10. Modes'
    BY <1>1, <1>2, <2>5, <2>6, <2>7 DEF FwInv, Modes, env
  <2>11. NetnsOwned' /\ Current' /\ Applying'
    BY <1>1, <1>2, <2>5, <2>6, <2>7, OwnKnown DEF FwInv, NetnsOwned, Current, Applying, env
  <2>12. Retries'
    BY <1>1, <1>2, <2>5, <2>6, <2>7, FirewallAssumption DEF Retries
  <2>13. Hooks'
    BY <1>1, <2>2, <2>5, <2>6, <2>7 DEF Hooks, env
  <2>14. Believed'
    BY <1>1, <1>2, <2>3, <2>5, <2>6, <2>7 DEF Believed, InForce, Forced, env
  <2>15. Fresh'
    BY <1>1, <1>2, <1>4, <2>5, <2>6 DEF Fresh, Noticed, env
  <2>16. Reported' /\ Cleaned'
    BY <1>1, <1>2, <1>5 DEF FwInv, Reported, Cleaned, Modes, env
  <2>. QED
    BY <2>8, <2>9, <2>10, <2>11, <2>12, <2>13, <2>14, <2>15, <2>16 DEF FwInv
<1>7. CASE ApplyFails(Own, cur.rules) /\ podStates' = podStates /\ missed' = missed \cup {Self}
  <2>1. /\ Around(Own) /\ table' = table /\ hooked' = hooked /\ tainted' = tainted /\ leftover' = leftover
        /\ late' \in SUBSET [ns : PodNetns, kind : Kinds, rules : RuleSets]
        /\ \A l \in late' : l \in late \/ (l.ns = Own /\ l.kind = kind)
    BY <1>2, <1>7, OwnKnown, ApplyFailsAround
  <2>2. FwType'
    BY <1>1, <1>7, <2>1 DEF FwInv, FwType, env
  <2>3. Backends'
    <3>1. kind # "nft" => hooked'[Own][kind] # {}
      BY <1>2, <2>1 DEF Directions
    <3>. QED
      BY <1>1, <2>1, <3>1, OwnKnown, BackendsStay DEF FwInv, env
  <2>4. Modes' /\ NetnsOwned' /\ Current' /\ Retries' /\ Applying'
    BY <1>1, <1>2, <1>7 DEF FwInv, Modes, NetnsOwned, Current, Retries, Applying, env
  <2>5. Hooks' /\ Cleaned'
    BY <1>1, <1>2, <1>7, <2>1 DEF FwInv, Hooks, Cleaned, env
  <2>6. Believed'
    BY <1>1, <1>2, <1>7, <2>1 DEF FwInv, Believed, InForce, env
  <2>7. Fresh' /\ Reported'
    BY <1>1, <1>2, <1>5, <1>7 DEF FwInv, Fresh, Reported, Modes, env
  <2>. QED
    BY <2>2, <2>3, <2>4, <2>5, <2>6, <2>7 DEF FwInv
<1>. QED
  BY <1>6, <1>7 DEF ApplyOwn

\* Jumps of iptables are found again by the next start, and with none the choice is
\* that of a host without rules (detect_backend).
LEMMA DetectAgain ==
    ASSUME NEW h \in Hosts, NEW exists \in [Kinds -> BOOLEAN], NEW a \in BOOLEAN, NEW k \in DetectBackend(h, exists, a, TRUE),
           NEW old \in Kinds, old = "nft" => h.nft,
           old # "nft" => \E v \in ChooseIptablesVariant(h, [x \in Kinds |-> FALSE]) : v.table = old,
           \A x \in Kinds : x # "nft" /\ exists[x] => x = old
    PROVE  /\ k \in Kinds
           /\ k = "nft" => h.nft
           /\ k # "nft" => \E v \in ChooseIptablesVariant(h, [x \in Kinds |-> FALSE]) : v.table = k
           /\ old # "nft" /\ exists[old] => k = old
<1>. DEFINE no == [x \in Kinds |-> FALSE]
<1>1. /\ h.nft \in BOOLEAN /\ h.legacy \in BOOLEAN /\ h.compat \in BOOLEAN /\ h.plain \in {"none", "legacy", "compat"}
      /\ h["legacy"] = h.legacy /\ h["compat"] = h.compat
  BY FirewallAssumption
<1>2. no["legacy"] = FALSE /\ no["compat"] = FALSE /\ exists["legacy"] \in BOOLEAN /\ exists["compat"] \in BOOLEAN
  BY DEF Kinds
<1>. HIDE DEF no
<1>3. ASSUME NEW ex
      PROVE  /\ Probe(h, "legacy", ex) = IF h.legacy THEN {[table |-> "legacy", exists |-> ex["legacy"]]} ELSE {}
             /\ Probe(h, "compat", ex) = IF h.compat THEN {[table |-> "compat", exists |-> ex["compat"]]} ELSE {}
             /\ Probe(h, "plain", ex) = IF h.plain = "none" THEN {} ELSE {[table |-> h.plain, exists |-> ex[h.plain]]}
  BY <1>1 DEF Probe
<1>4. ASSUME NEW ex
      PROVE  \A v \in ChooseIptablesVariant(h, ex) : v.table \in {"legacy", "compat"} /\ v.exists = ex[v.table]
  BY <1>1, <1>3 DEF ChooseIptablesVariant
<1>5. ASSUME NEW ex, ~(h.legacy /\ ex["legacy"])
      PROVE  /\ h.compat => ChooseIptablesVariant(h, ex) = {[table |-> "compat", exists |-> ex["compat"]]}
             /\ ~h.compat /\ h.plain # "none" => ChooseIptablesVariant(h, ex) = {[table |-> h.plain, exists |-> ex[h.plain]]}
             /\ ~h.compat /\ h.plain = "none" /\ h.legacy => ChooseIptablesVariant(h, ex) = {[table |-> "legacy", exists |-> ex["legacy"]]}
             /\ ~h.compat /\ h.plain = "none" /\ ~h.legacy => ChooseIptablesVariant(h, ex) = {}
  <2>1. ~ \E v \in Probe(h, "legacy", ex) : v.exists
    BY <1>3, <1>5
  <2>2. ChooseIptablesVariant(h, ex) = IF Probe(h, "compat", ex) # {} THEN Probe(h, "compat", ex)
                                       ELSE IF Probe(h, "plain", ex) # {} THEN Probe(h, "plain", ex) ELSE Probe(h, "legacy", ex)
    BY <2>1 DEF ChooseIptablesVariant
  <2>3. CASE h.compat
    BY <1>3, <2>2, <2>3
  <2>4. CASE ~h.compat /\ h.plain # "none"
    BY <1>3, <2>2, <2>4
  <2>5. CASE ~h.compat /\ h.plain = "none"
    BY <1>3, <2>2, <2>5
  <2>. QED
    BY <2>3, <2>4, <2>5
<1>6. old # "nft" => \/ old = "legacy" /\ ~h.compat /\ h.plain = "none" /\ h.legacy
                     \/ old = "compat" /\ h.compat
                     \/ old = h.plain /\ h.plain # "none" /\ ~h.compat
  <2>1. ASSUME NEW v \in ChooseIptablesVariant(h, no)
        PROVE  \/ v.table = "legacy" /\ ~h.compat /\ h.plain = "none" /\ h.legacy
               \/ v.table = "compat" /\ h.compat
               \/ v.table = h.plain /\ h.plain # "none" /\ ~h.compat
    <3>1. CASE h.compat
      BY <1>2, <1>5, <2>1, <3>1
    <3>2. CASE ~h.compat /\ h.plain # "none"
      BY <1>2, <1>5, <2>1, <3>2
    <3>3. CASE ~h.compat /\ h.plain = "none"
      BY <1>1, <1>2, <1>5, <2>1, <3>3
    <3>. QED
      BY <3>1, <3>2, <3>3
  <2>. QED
    BY <2>1 DEF no
<1>7. CASE ~exists["legacy"] /\ ~exists["compat"]
  <2>1. ASSUME NEW v \in ChooseIptablesVariant(h, exists)
        PROVE  \E u \in ChooseIptablesVariant(h, no) : u.table = v.table
    <3>1. CASE h.compat
      BY <1>2, <1>5, <1>7, <2>1, <3>1
    <3>2. CASE ~h.compat /\ h.plain # "none"
      <4>1. v.table = h.plain
        BY <1>5, <1>7, <2>1, <3>2
      <4>2. PICK u : u = [table |-> h.plain, exists |-> no[h.plain]]
        OBVIOUS
      <4>3. u.table = h.plain /\ u \in ChooseIptablesVariant(h, no)
        BY <1>2, <1>5, <3>2, <4>2
      <4>. QED
        BY <4>1, <4>3
    <3>3. CASE ~h.compat /\ h.plain = "none"
      BY <1>1, <1>2, <1>5, <1>7, <2>1, <3>3
    <3>. QED
      BY <3>1, <3>2, <3>3
  <2>2. ~ \E v \in ChooseIptablesVariant(h, exists) : v.exists
    BY <1>4, <1>7
  <2>3. k \in IF a /\ h.nft THEN {"nft"} ELSE {v.table : v \in ChooseIptablesVariant(h, exists)}
    BY <2>2 DEF DetectBackend
  <2>4. old # "nft" => ~exists[old]
    BY <1>7 DEF Kinds
  <2>5. CASE a /\ h.nft
    BY <2>3, <2>4, <2>5 DEF Kinds
  <2>6. CASE ~(a /\ h.nft)
    <3>1. PICK v \in ChooseIptablesVariant(h, exists) : k = v.table
      BY <2>3, <2>6
    <3>. QED
      BY <1>4, <2>1, <2>4, <2>6, <3>1 DEF Kinds, no
  <2>. QED
    BY <2>5, <2>6
<1>8. CASE exists["legacy"] \/ exists["compat"]
  <2>1. old \in {"legacy", "compat"} /\ exists[old] /\ \A x \in {"legacy", "compat"} : exists[x] => x = old
    BY <1>8 DEF Kinds
  <2>2. ChooseIptablesVariant(h, exists) = {[table |-> old, exists |-> exists[old]]}
    <3>1. CASE old = "legacy" /\ h.legacy
      <4>1. Probe(h, "legacy", exists) = {[table |-> old, exists |-> exists[old]]}
        BY <1>3, <3>1
      <4>2. \E v \in Probe(h, "legacy", exists) : v.exists
        <5>1. PICK v : v = [table |-> old, exists |-> exists[old]]
          OBVIOUS
        <5>2. v.exists = exists[old]
          BY <5>1
        <5>. QED
          BY <2>1, <4>1, <5>1, <5>2
      <4>. QED
        BY <4>1, <4>2 DEF ChooseIptablesVariant
    <3>2. CASE ~(old = "legacy" /\ h.legacy)
      <4>1. ~(h.legacy /\ exists["legacy"])
        BY <2>1, <3>2
      <4>. QED
        BY <1>5, <1>6, <2>1, <3>2, <4>1
    <3>. QED
      BY <3>1, <3>2
  <2>3. PICK v \in ChooseIptablesVariant(h, exists) : v.exists
    BY <2>1, <2>2
  <2>4. \A u \in ChooseIptablesVariant(h, exists) : u.table = old
    BY <2>2
  <2>5. k \in {u.table : u \in ChooseIptablesVariant(h, exists)}
    BY <2>3 DEF DetectBackend
  <2>6. k = old
    BY <2>4, <2>5
  <2>. QED
    BY <2>1, <2>6 DEF Kinds
<1>. QED
  BY <1>2, <1>7, <1>8

\* A dedicated ztunnel that starts again finds the backend that has rules.
LEMMA RestartKeeps ==
    ASSUME FwInv, Restart
    PROVE  FwInv'
<1>. DEFINE exists == [k \in Kinds |-> hooked[Own][k] # {}]
<1>0. PICK a \in BOOLEAN : kind' \in DetectBackend(host, exists, a, TRUE)
  BY DEF Restart
<1>1. /\ proxyMode = "dedicated" /\ kind' \in DetectBackend(host, exists, a, TRUE)
      /\ stranded' = stranded \cup {n \in {Own} : kind' # "nft" /\ (table[n]["nft"] # Empty \/ \E l \in late : l.kind = "nft")}
      /\ podStates' = [p \in Pods |-> NoPod] /\ pc' = "boot" /\ want' = [p \in Pods |-> NoWorkload] /\ polNote' = FALSE
      /\ UNCHANGED <<proxyMode, host, home, events, back, jobs, done, retrying, kernel>>
  BY <1>0 DEF Restart
<1>2. /\ host \in Hosts /\ kind \in Kinds /\ stranded \in SUBSET PodNetns /\ (kind = "nft" => host.nft)
      /\ kind # "nft" => \E v \in ChooseIptablesVariant(host, [x \in Kinds |-> FALSE]) : v.table = kind
  BY DEF FwInv, FwType, Backends
<1>3. exists \in [Kinds -> BOOLEAN] /\ \A k \in Kinds : exists[k] <=> hooked[Own][k] # {}
  OBVIOUS
<1>4. \A x \in Kinds : x # "nft" /\ exists[x] => x = kind
  BY <1>3, OwnKnown DEF FwInv, Backends
<1>. HIDE DEF exists
<1>5. /\ kind' \in Kinds
      /\ kind' = "nft" => host.nft
      /\ kind' # "nft" => \E v \in ChooseIptablesVariant(host, [x \in Kinds |-> FALSE]) : v.table = kind'
      /\ kind # "nft" /\ exists[kind] => kind' = kind
  BY <1>1, <1>2, <1>3, <1>4, DetectAgain
<1>6. jobs = {} /\ done = {} /\ retrying = {} /\ events = <<>> /\ \A p \in Pods : home[p] = NoJob
  BY <1>1 DEF FwInv, Modes
<1>7. /\ \A n \in PodNetns \ {Own} : (\A k \in Kinds : table[n][k] = Empty /\ hooked[n][k] = {}) /\ \A l \in late : l.ns # n
      /\ \A l \in late : l.ns \in PodNetns
  BY <1>1 DEF FwInv, Backends, FwType
<1>14. /\ stranded \subseteq stranded' /\ stranded' \in SUBSET PodNetns
       /\ kind' # "nft" /\ table[Own]["nft"] # Empty => Own \in stranded'
       /\ kind' # "nft" => \A l \in late : l.kind = "nft" => Own \in stranded'
  <2>1. PICK S \in SUBSET {Own} : /\ stranded' = stranded \cup S
                                  /\ kind' # "nft" /\ table[Own]["nft"] # Empty => Own \in S
                                  /\ kind' # "nft" => \A l \in late : l.kind = "nft" => Own \in S
    BY <1>1
  <2>. QED
    BY <1>2, <2>1, OwnKnown
<1>8. FwType'
  <2>1. kernel' = kernel
    BY <1>1
  <2>2. UNCHANGED <<hooked, table, late>>
    BY <2>1 DEF kernel
  <2>. QED
    BY <1>1, <1>5, <1>14, <2>2 DEF FwInv, FwType
<1>9. Backends'
  <2>1. /\ stranded \subseteq stranded'
        /\ \A l \in late : l.ns = Own
        /\ kind' # "nft" => \A l \in late : l.kind = "nft" => l.ns \in stranded'
    BY <1>7, <1>14
  <2>2. \A n \in PodNetns : kind' # "nft" /\ table[n]["nft"] # Empty => n \in stranded'
    BY <1>7, <1>14 DEF Kinds
  <2>3. CASE kind' = kind
    BY <1>1, <2>1, <2>2, <2>3 DEF FwInv, Backends, kernel
  <2>4. CASE kind' # kind
    <3>1. kind # "nft" => hooked[Own][kind] = {}
      BY <1>2, <1>3, <1>5, <2>4
    <3>2. kind # "nft" => \A n \in PodNetns : hooked[n][kind] = {} /\ table[n][kind] = Empty
      BY <1>2, <1>7, <3>1 DEF FwInv, Backends
    <3>3. \A n \in PodNetns, k \in Kinds : k # "nft" => table[n][k] = Empty /\ hooked[n][k] = {}
      BY <3>2 DEF FwInv, Backends
    <3>4. \A l \in late : l.kind = "nft"
      BY <1>2, <1>7, <3>2 DEF FwInv, Backends
    <3>5. UNCHANGED <<proxyMode, host, hooked, table, late>>
      BY <1>1 DEF kernel
    <3>6. \A n \in PodNetns : kind' # "nft" => table[n][kind'] = Empty
      BY <1>5, <3>3
    <3>7. \A l \in late : (l.kind = kind' /\ kind' = "nft")
                                \/ (l.kind = "nft" /\ kind' # "nft" /\ l.ns \in stranded')
      BY <2>1, <3>4
    <3>. QED
      BY ONLY <1>1, <1>5, <1>7, <2>2, <3>3, <3>5, <3>6, <3>7 DEF Backends
  <2>. QED
    BY <2>3, <2>4
<1>10. Modes'
  BY <1>1, <1>6 DEF Modes
<1>11. NetnsOwned' /\ Current' /\ Retries' /\ Applying' /\ Hooks'
  BY <1>1, <1>6 DEF NetnsOwned, Current, Retries, Applying, Hooks
<1>12. Believed' /\ Fresh' /\ Cleaned'
  BY <1>1, <1>6 DEF Believed, Fresh, Cleaned
<1>13. Reported'
  BY <1>1, <1>6 DEF Reported
<1>. QED
  BY <1>8, <1>9, <1>10, <1>11, <1>12, <1>13 DEF FwInv

\* The first state of either controller.
LEMMA FirewallInitial == FirewallInit => FwInv
<1>. SUFFICES ASSUME FirewallInit PROVE FwInv
  OBVIOUS
<1>. DEFINE no == [k \in Kinds |-> FALSE]
<1>0. PICK a \in BOOLEAN : kind \in DetectBackend(host, no, a, proxyMode = "dedicated")
  BY DEF FirewallInit
<1>1. /\ host \in Hosts /\ proxyMode \in {"inpod", "dedicated"} /\ stranded = {}
      /\ kind \in DetectBackend(host, no, a, proxyMode = "dedicated")
      /\ no["legacy"] = FALSE /\ no["compat"] = FALSE
  BY <1>0 DEF FirewallInit, Kinds
<1>. HIDE DEF no
<1>2. \A v \in ChooseIptablesVariant(host, no) : v.table \in {"legacy", "compat"} /\ ~v.exists
  <2>1. /\ host.nft \in BOOLEAN /\ host.legacy \in BOOLEAN /\ host.compat \in BOOLEAN /\ host.plain \in {"none", "legacy", "compat"}
        /\ host["legacy"] = host.legacy /\ host["compat"] = host.compat
    BY <1>1, FirewallAssumption
  <2>2. /\ Probe(host, "legacy", no) = IF host.legacy THEN {[table |-> "legacy", exists |-> no["legacy"]]} ELSE {}
        /\ Probe(host, "compat", no) = IF host.compat THEN {[table |-> "compat", exists |-> no["compat"]]} ELSE {}
        /\ Probe(host, "plain", no) = IF host.plain = "none" THEN {} ELSE {[table |-> host.plain, exists |-> no[host.plain]]}
    BY <2>1 DEF Probe
  <2>. QED
    BY <1>1, <2>1, <2>2 DEF ChooseIptablesVariant
<1>3. /\ kind \in Kinds /\ (kind = "nft" => host.nft)
      /\ kind # "nft" => \E v \in ChooseIptablesVariant(host, no) : v.table = kind
  BY <1>1, <1>2 DEF DetectBackend, Kinds
<1>4. /\ hooked \in [PodNetns -> [Kinds -> Jumps]] /\ table \in [PodNetns -> [Kinds -> Chains]] /\ late = {}
      /\ \A n \in PodNetns, k \in Kinds : hooked[n][k] = {} /\ table[n][k] = Empty
  BY EmptyTyped DEF FirewallInit, Jumps
<1>5. /\ \A p \in Pods : podStates[p] = NoPod /\ home[p] = NoJob
      /\ events = <<>> /\ jobs = {} /\ done = {} /\ retrying = {} /\ back = "select"
      /\ pc = (IF proxyMode = "inpod" THEN "select" ELSE "boot")
  BY DEF FirewallInit
<1>6. FwType
  <2>1. want \in [Pods -> RuleSets \cup {NoWorkload}]
    <3>1. PICK w \in {NoWorkload, CHOOSE r \in RuleSets : TRUE} : want = [p \in Pods |-> w]
      BY DEF FirewallInit
    <3>2. w \in RuleSets \cup {NoWorkload}
      BY FirewallAssumption
    <3>. QED
      BY <3>1, <3>2
  <2>2. /\ home \in [Pods -> PodNetns \cup {NoJob}] /\ podStates \in [Pods -> Entries \cup {NoPod}]
        /\ events \in Seq([pod : Pods, ns : PodNetns \cup {NoJob}])
    BY DEF FirewallInit
  <2>3. polNote \in BOOLEAN
    BY DEF FirewallInit
  <2>. QED
    BY <1>1, <1>3, <1>4, <1>5, <2>1, <2>2, <2>3 DEF FwType
<1>7. Backends
  <2>1. /\ \A n \in PodNetns, k \in Kinds : table[n][k] = Empty /\ hooked[n][k] = {}
        /\ "nft" \in Kinds /\ kind \in Kinds /\ late = {}
    BY <1>3, <1>4 DEF Kinds
  <2>2. kind # "nft" => \E v \in ChooseIptablesVariant(host, [k \in Kinds |-> FALSE]) : v.table = kind
    BY <1>3 DEF no
  <2>. QED
    BY <1>3, <2>1, <2>2 DEF Backends
<1>8. Modes
  BY <1>1, <1>5 DEF Modes
<1>9. NetnsOwned /\ Current /\ Retries /\ Applying /\ Hooks
  BY <1>5 DEF NetnsOwned, Current, Retries, Applying, Hooks
<1>10. Believed /\ Fresh /\ Reported /\ Cleaned
  BY <1>4, <1>5, <1>3, OwnKnown DEF Believed, Fresh, Reported, Cleaned
<1>. QED
  BY <1>6, <1>7, <1>8, <1>9, <1>10 DEF FwInv

\* Every step of the controllers and their surroundings keeps the invariant.
LEMMA FirewallPreserved == FwInv /\ [FirewallNext]_firewallVars => FwInv'
<1>. SUFFICES ASSUME FwInv, [FirewallNext]_firewallVars PROVE FwInv'
  OBVIOUS
<1>1. CASE Controller
  <2>1. CASE HandleAddPod \/ HandleRemovePod
    BY <2>1, HandleAddPodKeeps, HandleRemovePodKeeps
  <2>2. CASE InitFails \/ InitWithoutWorkload \/ InitResolves \/ ApplyInit
    BY <2>2, InitFailsKeeps, InitWithoutWorkloadKeeps, InitResolvesKeeps, ApplyInitKeeps
  <2>3. CASE SeePolicies \/ RebuildAllPods \/ RebuildCommit \/ RebuildPending \/ RetryTick
    BY <2>3, SeePoliciesKeeps, RebuildAllPodsKeeps, RebuildCommitKeeps, RebuildPendingKeeps, RetryTickKeeps
  <2>4. CASE \E j \in jobs : RebuildApply(j) \/ PendingApply(j)
    BY <2>4, RebuildApplyKeeps, PendingApplyKeeps
  <2>5. CASE \E p \in retrying : RetryPod(p)
    BY <2>5, RetryPodKeeps
  <2>6. CASE Boot \/ Resolve \/ SeeOwnPolicies \/ RebuildOwn \/ ApplyOwn
    BY <2>6, BootKeeps, ResolveKeeps, SeeOwnPoliciesKeeps, RebuildOwnKeeps, ApplyOwnKeeps
  <2>. QED
    BY <1>1, <2>1, <2>2, <2>3, <2>4, <2>5, <2>6 DEF Controller
<1>2. CASE \E ps \in (SUBSET Pods) \ {{}}, r \in RuleSets \cup {NoWorkload} : StateChanges(ps, r)
  BY <1>2, StateChangesKeeps
<1>3. CASE \E p \in Pods : \E n \in ({p} \X Gens) \cup {NoJob} : PodEvent([pod |-> p, ns |-> n])
  BY <1>3, PodEventKeeps
<1>4. CASE LateApply \/ Drain \/ Restart
  BY <1>4, LateApplyKeeps, DrainKeeps, RestartKeeps
<1>5. CASE UNCHANGED firewallVars
  <2>1. FwType' /\ Backends'
    <3>1. FwType'
      BY <1>5 DEF FwInv, FwType, firewallVars, env, kernel, control
    <3>2. Backends'
      BY <1>5 DEF FwInv, Backends, firewallVars, env, kernel, control
    <3>. QED
      BY <3>1, <3>2
  <2>2. Modes' /\ NetnsOwned' /\ Retries' /\ Applying'
    BY <1>5 DEF FwInv, Modes, NetnsOwned, Retries, Applying, firewallVars, env, kernel, control
  <2>3. Current' /\ Hooks' /\ Cleaned'
    BY <1>5 DEF FwInv, Current, Hooks, Cleaned, firewallVars, env, kernel, control
  <2>4. Believed'
    BY <1>5 DEF FwInv, Believed, InForce, firewallVars, env, kernel, control
  <2>5. Fresh' /\ Reported'
    BY <1>5 DEF FwInv, Fresh, Noticed, Reported, firewallVars, env, kernel, control
  <2>. QED
    BY <2>1, <2>2, <2>3, <2>4, <2>5 DEF FwInv
<1>. QED
  BY <1>1, <1>2, <1>3, <1>4, <1>5 DEF FirewallNext

\* The inductive invariant of both firewall controllers, for any set of pods,
\* netns, rule sets and installed tools.
THEOREM FirewallInvariant == FirewallSpec => []FwInv
<1>. QED
  BY FirewallInitial, FirewallPreserved, PTL DEF FirewallSpec

\* At rest every pod has the current rules of its workload in force, unless an
\* apply failed, the setup was given up or a late process came after it.
LEMMA CurrentFollows == FwInv => CurrentAtRest
<1>. SUFFICES ASSUME FwInv, Quiet PROVE CurrentAtRest
  BY DEF CurrentAtRest
<1>1. pc = "select" /\ events = <<>> /\ ~polNote /\ Retryable = {} /\ ~Noticed
  BY DEF Quiet, Noticed
<1>2. jobs = {} /\ done = {}
  BY <1>1 DEF FwInv, Modes
<1>3. ASSUME NEW p \in Pods, home[p] # NoJob
      PROVE  podStates[p] # NoPod /\ podStates[p].ns = home[p]
  BY <1>1, <1>3 DEF FwInv, Reported
<1>4. ASSUME NEW p \in Pods, home[p] # NoJob, p \notin missed, podStates[p].ns \notin tainted, want[p] # NoWorkload,
             ~(podStates[p].state = "InitFailed" /\ podStates[p].retries = MaxInitRetries)
      PROVE  podStates[p].state = "Enrolled" /\ InForce(podStates[p].ns, want[p])
  <2>1. proxyMode = "inpod"
    BY <1>4 DEF FwInv, Modes, FwType
  <2>2. podStates[p] # NoPod /\ podStates[p] \in Entries
    BY <1>3, <1>4, PodKnown
  <2>3. podStates[p].state # "InitFailed"
    <3>1. PICK m \in Nat : m = podStates[p].retries
      BY <2>2 DEF Entries
    <3>2. m <= MaxInitRetries /\ MaxInitRetries \in Nat
      BY <2>2, <3>1, FirewallAssumption DEF FwInv, Retries
    <3>3. podStates[p].state = "InitFailed" => ~(m < MaxInitRetries)
      BY <1>1, <2>2, <3>1 DEF Retryable
    <3>. QED
      BY <1>4, <3>1, <3>2, <3>3
  <2>4. podStates[p].state = "Enrolled" /\ podStates[p].hash = want[p]
    BY <1>1, <1>2, <1>4, <2>1, <2>2, <2>3 DEF FwInv, Fresh
  <2>. QED
    BY <1>2, <1>4, <2>1, <2>2, <2>4 DEF FwInv, Believed
<1>5. ASSUME proxyMode = "dedicated", want[Self] # NoWorkload, Self \notin missed, Own \notin tainted
      PROVE  InForce(Own, want[Self])
  <2>1. podStates[Self] # NoPod /\ podStates[Self].hash = want[Self]
    BY <1>1, <1>5 DEF FwInv, Fresh
  <2>2. podStates[Self].ns = Own /\ podStates[Self].state = "Enrolled"
    BY <1>5, <2>1, OwnKnown DEF FwInv, Modes
  <2>. QED
    BY <1>1, <1>2, <1>5, <2>1, <2>2, OwnKnown DEF FwInv, Believed
<1>. QED
  BY <1>3, <1>4, <1>5 DEF CurrentAtRest

\* A controller at rest has the current rules in force wherever nothing failed,
\* rules are left only where a flush failed or a late process came, and the rules of
\* two backends are never there together but for nftables rules left by a start with
\* the iptables mode: InPodFirewallController::run,
\* DedicatedFirewallController::run and detect_backend.
THEOREM RulesAreCurrent == FirewallSpec => []RulesCurrent
<1>1. FwInv => NothingLeftBehind
  BY DEF FwInv, Cleaned, NothingLeftBehind
<1>2. FwInv => OneBackend
  <2>. SUFFICES ASSUME FwInv, NEW n \in PodNetns
               PROVE  /\ Cardinality({k \in Kinds \ {"nft"} : table[n][k] # Empty}) <= 1
                      /\ n \notin stranded => Cardinality({k \in Kinds : table[n][k] # Empty}) <= 1
    BY DEF OneBackend
  <2>1. \A S : S \in SUBSET {kind} => Cardinality(S) <= 1
    <3>1. Cardinality({}) = 0 /\ IsFiniteSet({kind}) /\ Cardinality({kind}) = 1
      BY FS_EmptySet, FS_Singleton
    <3>2. ASSUME NEW S, S \in SUBSET {kind} PROVE S = {} \/ S = {kind}
      BY <3>2
    <3>. QED
      BY <3>1, <3>2
  <2>2. {k \in Kinds \ {"nft"} : table[n][k] # Empty} \in SUBSET {kind}
    BY DEF FwInv, Backends
  <2>3. n \notin stranded => {k \in Kinds : table[n][k] # Empty} \in SUBSET {kind}
    BY DEF FwInv, Backends, Kinds
  <2>. QED
    BY <2>1, <2>2, <2>3
<1>. QED
  BY <1>1, <1>2, CurrentFollows, FirewallInvariant, PTL DEF RulesCurrent
=============================================================================
