------------------------------ MODULE StateProofs ------------------------------
(***************************************************************************)
(* TLAPS proofs about the state of the proxy and the connections made      *)
(* under it.  About ConnectionManager: the map of drains always reaches    *)
(* every live connection, and the PolicyWatcher leaves none behind that    *)
(* the policy denies.  About PolicyState: the index of bindings is exact,  *)
(* a change of policies is notified, and the rules decide what the         *)
(* policies say.  About AddressState: every index over workloads and       *)
(* services is current, and the endpoints of a service are exact.  About   *)
(* Dns: a name is answered with a service that it can mean, from what the  *)
(* stores held.                                                            *)
(*                                                                         *)
(* The last three walk lists, so their proofs rest on                      *)
(* induction over the positions of a list, which is derived here from the  *)
(* well-foundedness of the naturals.                                       *)
(***************************************************************************)
EXTENDS ConnectionManager, PolicyState, AddressState, Dns, FiniteSetTheorems, SequenceTheorems, WellFoundedInduction, TLAPS

-----------------------------------------------------------------------------
(* Connections and the watcher of policies                                 *)

IInv == TypeOK /\ EnforcementInv

\* release() leaves a map of the same type behind, whether or not the context
\* it is called with is in the map.
LEMMA ReleasedType ==
    ASSUME TypeOK, NEW k
    PROVE  Released(k) \in [Ctxs -> [chan : Chans \cup {NoChan}, count : Nat]]
  <1>1. CASE k \in Ctxs
    <2>1. drains[k].count > 1 => drains[k].count - 1 \in Nat
      BY <1>1 DEF TypeOK
    <2> QED
      BY <1>1, <2>1 DEF TypeOK, Released, NoDrain
  <1>2. CASE k \notin Ctxs
    BY <1>2 DEF TypeOK, Released
  <1> QED
    BY <1>1, <1>2

\* The initial state of the manager, the tasks and the watcher.
LEMMA InitEstablishes == Init => IInv
  <1> SUFFICES ASSUME Init PROVE IInv
    OBVIOUS
  <1> USE DEF Init, NoDrain, ConnPc, WatcherPc
  <1>1. drains \in [Ctxs -> [chan : Chans \cup {NoChan}, count : Nat]]
    OBVIOUS
  <1>2. changed \in BOOLEAN /\ draining \in BOOLEAN
    OBVIOUS
  <1>3. /\ pc \in [Conns -> ConnPc] /\ ctx \in [Conns -> Ctxs \cup {NoCtx}]
        /\ watch \in [Conns -> Chans \cup {NoChan}]
    OBVIOUS
  <1>4. TypeOK
    BY <1>1, <1>2, <1>3 DEF TypeOK
  <1>5. EnforcementInv
    BY DEF EnforcementInv, PcConsistent, LiveIsTracked, SweepCovers, Live
  <1> QED
    BY <1>4, <1>5 DEF IInv

\* Every step keeps the types of ConnectionManager; a watcher that calls
\* close() has a context to close.
LEMMA TypeStep == IInv /\ [Next]_vars => TypeOK'
  <1> SUFFICES ASSUME IInv, [Next]_vars PROVE TypeOK'
    OBVIOUS
  <1> USE DEF IInv, TypeOK, ConnPc, WatcherPc, policyVars, watcherVars, connVars
  <1>1. ASSUME NEW c \in Conns, NEW k \in Ctxs, Register(c, k) PROVE TypeOK'
    BY <1>1 DEF Register, Join, Create
  <1>2. ASSUME NEW c \in Conns, ConnStep(c) \/ Finish(c) \/ Cancel(c) PROVE TypeOK'
    <2>1. CASE AssertRbac(c)
      BY <2>1 DEF AssertRbac
    <2>2. CASE TakeWatcher(c) \/ Finish(c)
      BY <2>2 DEF TakeWatcher, Finish
    <2>3. CASE LateRejection(c) \/ Cancel(c)
      BY <2>3 DEF LateRejection, Cancel, EndWithoutRelease, Ended
    <2>4. CASE Reject(c) \/ GuardDrop(c) \/ GuardRelease(c)
      <3>1. drains' \in [Ctxs -> [chan : Chans \cup {NoChan}, count : Nat]]
        BY <2>4, ReleasedType DEF Reject, GuardDrop, GuardRelease, ReleaseAndEnd
      <3>2. told' \subseteq Conns
        BY <2>4 DEF Reject, GuardDrop, GuardRelease, ReleaseAndEnd, CutByRelease, Watchers
      <3> QED
        BY <2>4, <3>1, <3>2 DEF Reject, GuardDrop, GuardRelease, ReleaseAndEnd, Ended
    <2> QED
      BY <1>2, <2>1, <2>2, <2>3, <2>4 DEF ConnStep
  <1>3. ASSUME WatcherStep PROVE TypeOK'
    <2>1. CASE Close
      <3>1. target \in Ctxs
        BY <2>1 DEF Close, EnforcementInv, PcConsistent
      <3> QED
        BY <2>1, <3>1 DEF Close, Watchers, NoDrain
    <2>2. CASE WakeUp \/ \E k \in Ctxs : Evaluate(k)
      BY <2>2 DEF WakeUp, Evaluate
    <2>3. CASE Subscribe \/ CloseNothing \/ CloseWait \/ SweepDone \/ Stop
      BY <2>3 DEF Subscribe, CloseNothing, CloseWait, SweepDone, Stop
    <2> QED
      BY <1>3, <2>1, <2>2, <2>3 DEF WatcherStep
  <1>4. ASSUME UpdatePolicy \/ StartDrain PROVE TypeOK'
    BY <1>4 DEF UpdatePolicy, StartDrain
  <1>5. ASSUME UNCHANGED vars PROVE TypeOK'
    BY <1>5 DEF vars
  <1> QED
    BY <1>1, <1>2, <1>3, <1>4, <1>5 DEF Next

\* The part of EnforcementInv about one entry: after a release of context k,
\* every connection still listening on k is tracked by the entry of k.
LEMMA ReleaseKeepsTracked ==
    ASSUME IInv, NEW c \in Conns, pc[c] \notin {"idle", "gone"}, ReleaseAndEnd(c)
    PROVE  LiveIsTracked'
  <1> SUFFICES ASSUME NEW d \in Conns,
                      pc'[d] \notin {"idle", "releasing", "gone"}, d \notin told'
               PROVE  drains'[ctx'[d]].chan = watch'[d]
    BY DEF LiveIsTracked
  <1> USE DEF IInv, TypeOK, EnforcementInv, PcConsistent
  <1>1. d # c
    BY DEF ReleaseAndEnd, Ended
  <1>2. pc'[d] = pc[d] /\ ctx'[d] = ctx[d] /\ watch'[d] = watch[d]
    BY <1>1 DEF ReleaseAndEnd, Ended
  <1>3. d \notin told /\ d \notin CutByRelease(ctx[c])
    BY <1>1 DEF ReleaseAndEnd
  <1>4. drains[ctx[d]].chan = watch[d] /\ watch[d] \in Chans /\ ctx[d] \in Ctxs
    BY <1>2, <1>3 DEF LiveIsTracked
  <1>5. ctx[c] \in Ctxs
    OBVIOUS
  <1>6. CASE ctx[d] # ctx[c]
    BY <1>2, <1>4, <1>5, <1>6 DEF ReleaseAndEnd, Released
  <1>7. CASE ctx[d] = ctx[c]
    <2>1. Tracked(ctx[c])
      BY <1>4, <1>7, NoneAssumption DEF Tracked
    <2>2. drains[ctx[c]].count > 1
      BY <1>3, <1>4, <1>5, <1>7, <2>1 DEF CutByRelease, Watchers
    <2> QED
      BY <1>2, <1>4, <1>5, <1>7, <2>2 DEF ReleaseAndEnd, Released
  <1> QED
    BY <1>6, <1>7

\* assert_rbac registers the task under its context before anything else.
LEMMA RegisterStep ==
    ASSUME IInv, NEW c \in Conns, NEW k \in Ctxs, Register(c, k)
    PROVE  EnforcementInv'
  <1> USE DEF IInv, TypeOK, Register, policyVars, watcherVars
  <1>1. PcConsistent'
    BY NoneAssumption DEF EnforcementInv, PcConsistent, Join, Create, Tracked
  <1>2. LiveIsTracked'
    <2> SUFFICES ASSUME NEW d \in Conns,
                        pc'[d] \notin {"idle", "releasing", "gone"}, d \notin told'
                 PROVE  drains'[ctx'[d]].chan = watch'[d]
      BY DEF LiveIsTracked
    <2>1. CASE d = c
      BY <2>1 DEF Join, Create
    <2>2. CASE d # c
      <3>1. drains[ctx[d]].chan = watch[d] /\ watch[d] \in Chans /\ ctx[d] \in Ctxs
        BY <2>2 DEF EnforcementInv, LiveIsTracked, PcConsistent
      <3>2. CASE Join(c, k)
        BY <2>2, <3>1, <3>2 DEF Join
      <3>3. CASE Create(c, k)
        <4>1. ctx[d] # k
          BY <3>1, <3>3, NoneAssumption DEF Create, Tracked
        <4> QED
          BY <2>2, <3>1, <3>3, <4>1 DEF Create
      <3> QED
        BY <3>2, <3>3
    <2> QED
      BY <2>1, <2>2
  <1>3. SweepCovers'
    BY DEF EnforcementInv, SweepCovers, Live
  <1> QED
    BY <1>1, <1>2, <1>3 DEF EnforcementInv

\* Every step of a connection task keeps the enforcement invariant.
LEMMA ConnectionStep ==
    ASSUME IInv, NEW c \in Conns, ConnStep(c) \/ Finish(c) \/ Cancel(c)
    PROVE  EnforcementInv'
  <1> USE DEF IInv, TypeOK, policyVars, watcherVars
  <1>1. CASE AssertRbac(c)
    <2>1. PcConsistent' /\ LiveIsTracked'
      BY <1>1 DEF AssertRbac, EnforcementInv, PcConsistent, LiveIsTracked
    <2>2. SweepCovers'
      BY <1>1 DEF AssertRbac, EnforcementInv, SweepCovers, Live
    <2> QED
      BY <2>1, <2>2 DEF EnforcementInv
  <1>2. CASE TakeWatcher(c) \/ Finish(c)
    <2>1. PcConsistent' /\ LiveIsTracked'
      BY <1>2 DEF TakeWatcher, Finish, EnforcementInv, PcConsistent, LiveIsTracked
    <2>2. SweepCovers'
      BY <1>2 DEF TakeWatcher, Finish, EnforcementInv, SweepCovers, Live
    <2> QED
      BY <2>1, <2>2 DEF EnforcementInv
  <1>3. CASE LateRejection(c) \/ Cancel(c)
    <2>1. PcConsistent' /\ LiveIsTracked'
      BY <1>3 DEF LateRejection, Cancel, EndWithoutRelease, Ended, EnforcementInv,
         PcConsistent, LiveIsTracked
    <2>2. SweepCovers'
      BY <1>3 DEF LateRejection, Cancel, EndWithoutRelease, Ended, EnforcementInv,
         SweepCovers, Live
    <2> QED
      BY <2>1, <2>2 DEF EnforcementInv
  <1>4. CASE Reject(c) \/ GuardDrop(c) \/ GuardRelease(c)
    <2>1. LiveIsTracked'
      BY <1>4, ReleaseKeepsTracked DEF Reject, GuardDrop, GuardRelease
    <2>2. PcConsistent'
      BY <1>4 DEF Reject, GuardDrop, GuardRelease, ReleaseAndEnd, Ended,
         EnforcementInv, PcConsistent
    <2>3. SweepCovers'
      BY <1>4 DEF Reject, GuardDrop, GuardRelease, ReleaseAndEnd, Ended,
         EnforcementInv, SweepCovers, Live
    <2> QED
      BY <2>1, <2>2, <2>3 DEF EnforcementInv
  <1> QED
    BY <1>1, <1>2, <1>3, <1>4 DEF ConnStep

\* Every step of the PolicyWatcher keeps the enforcement invariant: the snapshot
\* holds every live context, and a closed one has no live connection left.
LEMMA PolicyWatcherStep ==
    ASSUME IInv, WatcherStep
    PROVE  EnforcementInv'
  <1> USE DEF IInv, TypeOK, EnforcementInv, policyVars, watcherVars, connVars
  <1>1. CASE WakeUp
    <2>1. \A c \in Conns : Live(c) => ctx[c] \in todo'
      BY <1>1, NoneAssumption DEF WakeUp, Live, LiveIsTracked, PcConsistent, Tracked
    <2> QED
      BY <1>1, <2>1 DEF WakeUp, PcConsistent, LiveIsTracked, SweepCovers, Live
  <1>2. ASSUME NEW k \in Ctxs, Evaluate(k) PROVE EnforcementInv'
    BY <1>2 DEF Evaluate, PcConsistent, LiveIsTracked, SweepCovers, Live
  <1>3. CASE Close
    <2>1. target \in Ctxs
      BY <1>3 DEF Close, PcConsistent
    <2>2. \A c \in Conns : (pc[c] \notin {"idle", "releasing", "gone"} /\ c \notin told')
                             => ctx[c] # target
      BY <1>3 DEF Close, LiveIsTracked, Watchers
    <2>3. LiveIsTracked'
      BY <1>3, <2>1, <2>2 DEF Close, LiveIsTracked, PcConsistent
    <2> QED
      BY <1>3, <2>2, <2>3 DEF Close, PcConsistent, SweepCovers, Live
  <1>4. CASE CloseNothing
    <2>1. \A c \in Conns : Live(c) => ctx[c] # target
      BY <1>4, NoneAssumption DEF CloseNothing, Live, LiveIsTracked, PcConsistent, Tracked
    <2> QED
      BY <1>4, <2>1 DEF CloseNothing, PcConsistent, LiveIsTracked, SweepCovers, Live
  <1>5. CASE Subscribe \/ CloseWait \/ SweepDone \/ Stop
    BY <1>5 DEF Subscribe, CloseWait, SweepDone, Stop, PcConsistent, LiveIsTracked,
       SweepCovers, Live
  <1> QED
    BY <1>1, <1>2, <1>3, <1>4, <1>5 DEF WatcherStep

\* The invariant holds for ever: Init establishes it and every step keeps it.
THEOREM EnforcementInvariant == Spec => []IInv
  <1>1. IInv /\ [Next]_vars => IInv'
    <2> SUFFICES ASSUME IInv, [Next]_vars PROVE IInv'
      OBVIOUS
    <2>1. TypeOK'
      BY TypeStep
    <2>2. CASE UpdatePolicy \/ StartDrain
      BY <2>1, <2>2 DEF IInv, TypeOK, UpdatePolicy, StartDrain, EnforcementInv,
         PcConsistent, LiveIsTracked, SweepCovers, Live, connVars, policyVars, watcherVars
    <2>3. CASE UNCHANGED vars
      BY <2>1, <2>3 DEF IInv, vars, EnforcementInv, PcConsistent, LiveIsTracked,
         SweepCovers, Live
    <2> QED
      BY <2>1, <2>2, <2>3, RegisterStep, ConnectionStep, PolicyWatcherStep
         DEF Next, IInv
  <1> QED
    BY <1>1, InitEstablishes, PTL DEF Spec

\* ConnectionManager keeps its type: register, release, close and the tasks
\* around them never leave the declared domains (the counter stays natural).
THEOREM TypeCorrect == Spec => []TypeOK
  BY EnforcementInvariant, PTL DEF IInv

\* Registrations, releases, evaluations and closes keep the enforcement
\* invariant in every interleaving.
THEOREM SweepInvariant == Spec => []EnforcementInv
  BY EnforcementInvariant, PTL DEF IInv

\* close() can reach every connection that still listens for its drain.
THEOREM AlwaysTracked == Spec => []LiveIsTracked
  BY EnforcementInvariant, PTL DEF IInv, EnforcementInv

\* When the PolicyWatcher is back waiting with nothing unseen, no connection
\* that the current policy denies is still being proxied.
THEOREM PolicyEnforced == Spec => []NoStaleAllow
  <1>1. IInv => NoStaleAllow
    BY DEF IInv, TypeOK, EnforcementInv, PcConsistent, SweepCovers, NoStaleAllow
  <1> QED
    BY <1>1, EnforcementInvariant, PTL

-----------------------------------------------------------------------------
(* The counter of an entry                                                 *)

\* The tasks that listen to a channel.
Listeners(w, ch) == {c \in Conns : w[c] = ch}

\* A task without a connection listens to nothing.  A task that was told has
\* left the map behind: no entry holds its channel.
ToldIsCut ==
    /\ \A c \in Conns : pc[c] \in {"idle", "gone"} => watch[c] = NoChan
    /\ \A c \in told : watch[c] \in Chans /\ \A k \in Ctxs : drains[k].chan # watch[c]

\* A channel belongs to one entry, and only tasks of its context listen to it.
ChanOwned ==
    \A k \in Ctxs : Tracked(k) =>
        /\ \A j \in Ctxs : drains[j].chan = drains[k].chan => j = k
        /\ \A c \in Conns : watch[c] = drains[k].chan => ctx[c] = k

\* The counter of an entry lies between one and its listeners.
CountCovered ==
    ~draining => \A k \in Ctxs : Tracked(k) =>
        /\ drains[k].count >= 1
        /\ drains[k].count <= Cardinality(Listeners(watch, drains[k].chan))

\* The inductive invariant behind NoLeakedEntry.
LeakInv == IInv /\ ToldIsCut /\ ChanOwned /\ CountCovered

\* What one task does to the number of listeners of a channel: leaving takes
\* at most one away, and nothing when it listened to another channel; a new
\* listener adds one.
LEMMA OneListener ==
    ASSUME NEW f, NEW g, NEW ch, NEW c \in Conns,
           \A d \in Conns : d # c => f[d] = g[d]
    PROVE  /\ Cardinality(Listeners(f, ch)) \in Nat
           /\ Cardinality(Listeners(g, ch)) \in Nat
           /\ Cardinality(Listeners(g, ch)) >= Cardinality(Listeners(f, ch)) - 1
           /\ f[c] # ch => Cardinality(Listeners(g, ch)) >= Cardinality(Listeners(f, ch))
           /\ f[c] # ch /\ g[c] = ch =>
                Cardinality(Listeners(g, ch)) = Cardinality(Listeners(f, ch)) + 1
  <1> DEFINE S == Listeners(f, ch)
             T == Listeners(g, ch)
  <1>1. IsFiniteSet(S) /\ IsFiniteSet(T)
    BY ConnsAssumption, FS_Subset DEF Listeners
  <1>2. Cardinality(S) \in Nat /\ Cardinality(T) \in Nat
    BY <1>1, FS_CardinalityType
  <1>3. IsFiniteSet(S \ {c}) /\ Cardinality(S \ {c}) >= Cardinality(S) - 1
    BY <1>1, <1>2, FS_RemoveElement
  <1>4. S \ {c} \subseteq T
    BY DEF Listeners
  <1>5. Cardinality(S \ {c}) <= Cardinality(T) /\ Cardinality(S \ {c}) \in Nat
    BY <1>1, <1>3, <1>4, FS_Subset, FS_CardinalityType
  <1>6. f[c] # ch => S \ {c} = S
    BY DEF Listeners
  <1>7. f[c] # ch /\ g[c] = ch => T = S \cup {c} /\ c \notin S
    BY DEF Listeners
  <1>8. f[c] # ch /\ g[c] = ch => Cardinality(T) = Cardinality(S) + 1
    BY <1>1, <1>7, FS_AddElement
  <1> HIDE DEF S, T
  <1>9. Cardinality(T) >= Cardinality(S) - 1
    BY <1>2, <1>3, <1>5
  <1>10. f[c] # ch => Cardinality(T) >= Cardinality(S)
    BY <1>5, <1>6
  <1> QED
    BY <1>2, <1>8, <1>9, <1>10 DEF S, T

\* A new connection is counted: register() either adds one to the entry whose
\* channel it joins or makes an entry for itself alone.
LEMMA RegisterCounts ==
    ASSUME LeakInv, NEW c \in Conns, NEW k \in Ctxs, Register(c, k)
    PROVE  ToldIsCut' /\ ChanOwned' /\ CountCovered'
  <1> USE DEF LeakInv, IInv, TypeOK, Register, policyVars, watcherVars
  <1>0. watch[c] = NoChan /\ c \notin told
    BY NoneAssumption DEF ToldIsCut
  <1>1. CASE Join(c, k)
    <2>1. watch'[c] = drains[k].chan /\ drains[k].chan \in Chans /\ ctx'[c] = k
      BY <1>1 DEF Join, Tracked
    <2>2. /\ \A d \in Conns : d # c => watch[d] = watch'[d] /\ ctx[d] = ctx'[d]
          /\ \A j \in Ctxs : drains'[j].chan = drains[j].chan
          /\ \A j \in Ctxs : j # k => drains'[j].count = drains[j].count
          /\ drains'[k].count = drains[k].count + 1
      BY <1>1 DEF Join
    <2>3. ToldIsCut'
      BY <1>0, <2>1, <2>2 DEF ToldIsCut
    <2>4. ChanOwned'
      BY <2>1, <2>2, <1>1 DEF ChanOwned, Tracked, Join
    <2>5. CountCovered'
      <3> SUFFICES ASSUME ~draining, NEW j \in Ctxs, drains'[j].chan # NoChan
                   PROVE  /\ drains'[j].count >= 1
                          /\ drains'[j].count <= Cardinality(Listeners(watch', drains'[j].chan))
        BY DEF CountCovered, Tracked, Listeners
      <3>1. PICK ch : ch = drains[j].chan
        OBVIOUS
      <3>2. drains'[j].chan = ch /\ ch # NoChan
        BY <3>1, <2>2
      <3>3. /\ drains[j].count >= 1 /\ drains[j].count \in Nat
            /\ drains[j].count <= Cardinality(Listeners(watch, ch))
        BY <3>1, <3>2 DEF CountCovered, Tracked
      <3>4. /\ Cardinality(Listeners(watch, ch)) \in Nat
            /\ Cardinality(Listeners(watch', ch)) \in Nat
            /\ Cardinality(Listeners(watch', ch)) >= Cardinality(Listeners(watch, ch))
            /\ watch'[c] = ch =>
                 Cardinality(Listeners(watch', ch)) = Cardinality(Listeners(watch, ch)) + 1
        BY OneListener, <2>2, <1>0, <3>2
      <3>5. CASE j = k
        BY <3>1, <3>2, <3>3, <3>4, <3>5, <2>1, <2>2
      <3>6. CASE j # k
        BY <3>2, <3>3, <3>4, <3>6, <2>2
      <3> QED
        BY <3>5, <3>6
    <2> QED
      BY <2>3, <2>4, <2>5
  <1>2. CASE Create(c, k)
    <2>1. PICK ch \in Chans :
            /\ Free(ch)
            /\ drains' = [drains EXCEPT ![k] = [chan |-> ch, count |-> 1]]
            /\ watch' = [watch EXCEPT ![c] = ch]
      BY <1>2 DEF Create
    <2>2. /\ \A d \in Conns : d # c => watch[d] = watch'[d] /\ ctx[d] = ctx'[d]
          /\ \A j \in Ctxs : j # k => drains'[j] = drains[j]
          /\ drains'[k].chan = ch /\ drains'[k].count = 1
          /\ watch'[c] = ch /\ ctx'[c] = k
      BY <2>1
    <2>3. /\ \A j \in Ctxs : drains[j].chan # ch
          /\ \A d \in Conns : watch[d] # ch
      BY <2>1 DEF Free
    <2>4. ToldIsCut'
      BY <1>0, <2>1, <2>2, <2>3 DEF ToldIsCut
    <2>5. ChanOwned'
      BY <1>0, <2>2, <2>3 DEF ChanOwned, Tracked
    <2>6. CountCovered'
      <3> SUFFICES ASSUME ~draining, NEW j \in Ctxs, drains'[j].chan # NoChan
                   PROVE  /\ drains'[j].count >= 1
                          /\ drains'[j].count <= Cardinality(Listeners(watch', drains'[j].chan))
        BY DEF CountCovered, Tracked, Listeners
      <3>1. CASE j = k
        <4>0. \A d \in Conns : d # c => watch[d] = watch'[d]
          BY <2>2
        <4>1. /\ Cardinality(Listeners(watch, ch)) \in Nat
              /\ watch[c] # ch /\ watch'[c] = ch =>
                   Cardinality(Listeners(watch', ch)) = Cardinality(Listeners(watch, ch)) + 1
          BY ONLY <4>0, OneListener, c \in Conns
        <4>2. watch[c] # ch /\ watch'[c] = ch
          BY <2>2, <2>3
        <4> QED
          BY <4>1, <4>2, <3>1, <2>2
      <3>2. CASE j # k
        <4>1. PICK dh : dh = drains[j].chan
          OBVIOUS
        <4>2. /\ Cardinality(Listeners(watch, dh)) \in Nat
              /\ Cardinality(Listeners(watch', dh)) \in Nat
              /\ Cardinality(Listeners(watch', dh)) >= Cardinality(Listeners(watch, dh))
          BY OneListener, <2>2, <1>0, <3>2, <4>1, SMTT(30)
        <4>3. drains[j].count >= 1 /\ drains[j].count <= Cardinality(Listeners(watch, dh))
          BY <3>2, <4>1, <2>2 DEF CountCovered, Tracked
        <4> QED
          BY <3>2, <4>1, <4>2, <4>3, <2>2
      <3> QED
        BY <3>1, <3>2
    <2> QED
      BY <2>4, <2>5, <2>6
  <1> QED
    BY <1>1, <1>2

\* release() takes at least as much from the counter as the task takes from the
\* listeners, even when the entry it meets is a later one of the same context.
LEMMA ReleaseCounts ==
    ASSUME LeakInv, NEW c \in Conns, pc[c] \notin {"idle", "gone"}, ReleaseAndEnd(c),
           draining' = draining
    PROVE  ToldIsCut' /\ ChanOwned' /\ CountCovered'
  <1> USE DEF LeakInv, IInv, TypeOK
  <1>1. PICK k \in Ctxs : k = ctx[c]
    BY DEF EnforcementInv, PcConsistent
  <1>2. /\ \A d \in Conns : d # c => watch'[d] = watch[d] /\ ctx'[d] = ctx[d] /\ pc'[d] = pc[d]
        /\ watch'[c] = NoChan /\ ctx'[c] = NoCtx
        /\ drains' = Released(k)
        /\ told' = (told \cup CutByRelease(k)) \ {c}
    BY <1>1 DEF ReleaseAndEnd, Ended
  <1>3. \A j \in Ctxs : j # k => drains'[j] = drains[j]
    BY <1>1, <1>2 DEF Released
  <1>4. \/ drains'[k] = NoDrain /\ ~(drains[k].count > 1)
        \/ /\ drains[k].count > 1 /\ drains'[k].chan = drains[k].chan
           /\ drains'[k].count = drains[k].count - 1
    BY <1>2 DEF Released
  <1>5. \A j \in Ctxs : drains'[j].chan = drains[j].chan \/ (j = k /\ drains'[j].chan = NoChan)
    BY <1>3, <1>4 DEF NoDrain
  <1>6. ToldIsCut'
    <2>1. \A d \in Conns : pc'[d] \in {"idle", "gone"} => watch'[d] = NoChan
      BY <1>2 DEF ToldIsCut
    <2>2. ASSUME NEW d \in told' PROVE watch'[d] \in Chans /\ \A j \in Ctxs : drains'[j].chan # watch'[d]
      <3>0. d # c /\ d \in Conns /\ watch'[d] = watch[d]
        BY <2>2, <1>2 DEF CutByRelease, Watchers
      <3>1. CASE d \in told
        BY <3>0, <3>1, <1>5, NoneAssumption DEF ToldIsCut
      <3>2. CASE d \in CutByRelease(k)
        <4>1. Tracked(k) /\ drains[k].count <= 1 /\ watch[d] = drains[k].chan
          BY <3>2 DEF CutByRelease, Watchers
        <4>2. drains'[k].chan = NoChan
          BY <4>1, <1>4 DEF NoDrain
        <4> QED
          BY <4>1, <4>2, <3>0, <1>3, NoneAssumption DEF ChanOwned, Tracked
      <3> QED
        BY <1>2, <2>2, <3>1, <3>2
    <2> QED
      BY <2>1, <2>2 DEF ToldIsCut
  <1>7. ChanOwned'
    BY <1>2, <1>5 DEF ChanOwned, Tracked
  <1>8. CountCovered'
    <2> SUFFICES ASSUME ~draining, NEW j \in Ctxs, drains'[j].chan # NoChan
                 PROVE  /\ drains'[j].count >= 1
                        /\ drains'[j].count <= Cardinality(Listeners(watch', drains'[j].chan))
      BY DEF CountCovered, Tracked, Listeners
    <2>1. PICK ch : ch = drains[j].chan
      OBVIOUS
    <2>2. drains'[j].chan = ch /\ ch # NoChan
      BY <2>1, <1>5
    <2>3. /\ drains[j].count >= 1 /\ drains[j].count \in Nat
          /\ drains[j].count <= Cardinality(Listeners(watch, ch))
      BY <2>1, <2>2 DEF CountCovered, Tracked
    <2>4. /\ Cardinality(Listeners(watch, ch)) \in Nat
          /\ Cardinality(Listeners(watch', ch)) \in Nat
          /\ Cardinality(Listeners(watch', ch)) >= Cardinality(Listeners(watch, ch)) - 1
          /\ watch[c] # ch => Cardinality(Listeners(watch', ch)) >= Cardinality(Listeners(watch, ch))
      BY OneListener, <1>2
    <2>5. CASE j = k
      <3>1. drains[j].count > 1 /\ drains'[j].count = drains[j].count - 1
        BY <2>5, <2>2, <1>4 DEF NoDrain
      <3> QED
        BY <3>1, <2>2, <2>3, <2>4
    <2>6. CASE j # k
      <3>1. watch[c] # ch
        BY <2>6, <2>1, <2>2, <1>1 DEF ChanOwned, Tracked
      <3> QED
        BY <3>1, <2>2, <2>3, <2>4, <2>6, <1>3
    <2> QED
      BY <2>5, <2>6
  <1> QED
    BY <1>6, <1>7, <1>8

\* A task that was told leaves without a release: its channel has no entry.
LEMMA LateRejectionCounts ==
    ASSUME LeakInv, NEW c \in Conns, EndWithoutRelease(c), c \in told \/ draining,
           draining' = draining
    PROVE  ToldIsCut' /\ ChanOwned' /\ CountCovered'
  <1> USE DEF LeakInv, IInv, TypeOK
  <1>1. /\ \A d \in Conns : d # c => watch'[d] = watch[d] /\ ctx'[d] = ctx[d] /\ pc'[d] = pc[d]
        /\ watch'[c] = NoChan /\ drains' = drains /\ told' = told \ {c}
    BY DEF EndWithoutRelease, Ended
  <1>2. ToldIsCut'
    BY <1>1 DEF ToldIsCut
  <1>3. ChanOwned'
    BY <1>1 DEF ChanOwned, Tracked
  <1>4. CountCovered'
    <2> SUFFICES ASSUME ~draining, NEW j \in Ctxs, drains[j].chan # NoChan
                 PROVE  /\ drains[j].count >= 1
                        /\ drains[j].count <= Cardinality(Listeners(watch', drains[j].chan))
      BY <1>1 DEF CountCovered, Tracked, Listeners
    <2>1. PICK ch : ch = drains[j].chan
      OBVIOUS
    <2>2. watch[c] # ch
      BY <2>1 DEF ToldIsCut
    <2>3. drains[j].count >= 1 /\ drains[j].count <= Cardinality(Listeners(watch, ch))
      BY <2>1 DEF CountCovered, Tracked
    <2>4. /\ Cardinality(Listeners(watch, ch)) \in Nat
          /\ Cardinality(Listeners(watch', ch)) \in Nat
          /\ Cardinality(Listeners(watch', ch)) >= Cardinality(Listeners(watch, ch))
      BY OneListener, <1>1, <2>2
    <2> QED
      BY <2>1, <2>3, <2>4
  <1> QED
    BY <1>2, <1>3, <1>4

\* close() removes the entry and tells its listeners; nothing else in the
\* PolicyWatcher, the policy or the drain touches the map.
LEMMA CloseCounts ==
    ASSUME LeakInv, Close
    PROVE  ToldIsCut' /\ ChanOwned' /\ CountCovered'
  <1> USE DEF LeakInv, IInv, TypeOK, Close
  <1>1. target \in Ctxs /\ Tracked(target)
    BY DEF EnforcementInv, PcConsistent
  <1>2. /\ \A j \in Ctxs : j # target => drains'[j] = drains[j]
        /\ drains'[target].chan = NoChan
    BY <1>1 DEF NoDrain
  <1>3. ToldIsCut'
    BY <1>1, <1>2, NoneAssumption DEF ToldIsCut, ChanOwned, Tracked, Watchers
  <1>4. ChanOwned'
    BY <1>1, <1>2 DEF ChanOwned, Tracked
  <1>5. CountCovered'
    <2> SUFFICES ASSUME ~draining', NEW j \in Ctxs, drains'[j].chan # NoChan
                 PROVE  /\ drains'[j].count >= 1
                        /\ drains'[j].count <= Cardinality(Listeners(watch, drains'[j].chan))
      BY DEF CountCovered, Tracked, Listeners
    <2> QED
      BY <1>2 DEF CountCovered, Tracked, policyVars
  <1> QED
    BY <1>3, <1>4, <1>5

\* The counting invariant holds for ever.
THEOREM LeakInvariant == Spec => []LeakInv
  <1>1. Init => LeakInv
    BY InitEstablishes, NoneAssumption
       DEF LeakInv, Init, ToldIsCut, ChanOwned, CountCovered, Tracked, NoDrain
  <1>2. LeakInv /\ IInv' /\ [Next]_vars => LeakInv'
    <2> SUFFICES ASSUME LeakInv, IInv', [Next]_vars PROVE LeakInv'
      OBVIOUS
    <2>1. CASE \E c \in Conns, k \in Ctxs : Register(c, k)
      BY <2>1, RegisterCounts DEF LeakInv
    <2>2. ASSUME NEW c \in Conns, ConnStep(c) \/ Finish(c) \/ Cancel(c) PROVE LeakInv'
      <3>1. CASE Reject(c) \/ GuardDrop(c) \/ GuardRelease(c)
        BY <3>1, ReleaseCounts DEF Reject, GuardDrop, GuardRelease, LeakInv
      <3>2. CASE LateRejection(c) \/ Cancel(c)
        BY <3>2, LateRejectionCounts DEF LateRejection, Cancel, LeakInv
      <3>3. CASE AssertRbac(c) \/ TakeWatcher(c) \/ Finish(c)
        <4>1. /\ UNCHANGED <<drains, ctx, watch, told, draining>>
              /\ \A d \in Conns : pc'[d] \in {"idle", "gone"} => pc[d] \in {"idle", "gone"}
          BY <3>3 DEF AssertRbac, TakeWatcher, Finish, LeakInv, IInv, TypeOK
        <4> QED
          BY <4>1 DEF LeakInv, ToldIsCut, ChanOwned, CountCovered, Tracked, Listeners
      <3> QED
        BY <2>2, <3>1, <3>2, <3>3 DEF ConnStep
    <2>3. CASE Close
      BY <2>3, CloseCounts DEF LeakInv
    <2>4. CASE \/ Subscribe \/ WakeUp \/ (\E k \in Ctxs : Evaluate(k)) \/ CloseNothing
               \/ CloseWait \/ SweepDone \/ Stop \/ UpdatePolicy \/ StartDrain
               \/ UNCHANGED vars
      <3>1. UNCHANGED <<drains, pc, ctx, watch, told>> /\ (draining => draining')
        BY <2>4 DEF Subscribe, WakeUp, Evaluate, CloseNothing, CloseWait, SweepDone, Stop,
           UpdatePolicy, StartDrain, connVars, vars
      <3> QED
        BY <3>1 DEF LeakInv, ToldIsCut, ChanOwned, CountCovered, Tracked, Listeners
    <2> QED
      BY <2>1, <2>2, <2>3, <2>4 DEF Next, WatcherStep
  <1> QED
    BY <1>1, <1>2, EnforcementInvariant, PTL DEF Spec

\* Until the proxy drains no entry of the map counts more than the connections
\* that listen to it, whatever the order of register, release and close.
THEOREM EntriesDoNotLeak == Spec => []NoLeakedEntry
  <1>1. LeakInv => NoLeakedEntry
    BY DEF LeakInv, CountCovered, NoLeakedEntry, Listeners
  <1> QED
    BY <1>1, LeakInvariant, PTL

-----------------------------------------------------------------------------
(* Induction over the positions of a list                                  *)

\* What holds of 0 and is passed on from each position to the next holds of all.
LEMMA IntervalInduction ==
    ASSUME NEW n \in Nat, NEW T, 0 \in T, \A i \in 1..n : i - 1 \in T => i \in T
    PROVE  \A i \in 0..n : i \in T
<1>. SUFFICES ASSUME {i \in 0..n : i \notin T} # {} PROVE FALSE
  OBVIOUS
<1>. DEFINE R == {ss \in Nat \X Nat : ss[1] < ss[2]}
            B == {i \in 0..n : i \notin T}
<1>1. IsWellFoundedOn(R, Nat)
  BY NatLessThanWellFounded DEF OpToRel
<1>2. B \subseteq Nat /\ B # {}
  OBVIOUS
<1>3. \A i, j \in Nat : i < j => <<i, j>> \in R
  OBVIOUS
<1>. HIDE DEF R
<1>4. PICK m \in B : \A y \in B : ~(<<y, m>> \in R)
  <2>. HIDE DEF B
  <2>. QED
    BY <1>1, <1>2, WFMin
<1>5. m \in 1..n /\ m - 1 \in 0..n /\ m \notin T
  BY <1>4
<1>6. m - 1 \in Nat /\ m \in Nat /\ m - 1 < m
  BY <1>5
<1>7. m - 1 \notin B
  BY ONLY <1>3, <1>4, <1>6, Zenon
<1>. QED
  BY <1>5, <1>7

\* The steps from each position to the next, and what they make of a start.
StepsOn(n, S) == [(1..n) \X S -> S]
Runs(n, S, s0, step) == {run \in [0..n -> S] : run[0] = s0 /\ \A i \in 1..n : run[i] = step[<<i, run[i - 1]>>]}

\* A recursion over the positions of a list has a solution: a step from each
\* position to the next can be taken n times.
LEMMA RecursionExists ==
    ASSUME NEW S, NEW n \in Nat, NEW s0 \in S, NEW step \in StepsOn(n, S)
    PROVE  \E run : run \in Runs(n, S, s0, step)
<1>. DEFINE Run(k, run) == run \in [0..k -> S] /\ run[0] = s0 /\ \A i \in 1..k : run[i] = step[<<i, run[i - 1]>>]
            T == {k \in 0..n : \E run : Run(k, run)}
<1>1. 0 \in T
  <2>1. Run(0, [i \in 0..0 |-> s0]) /\ 0 \in 0..n
    OBVIOUS
  <2>. HIDE DEF Run
  <2>. QED
    BY <2>1
<1>2. ASSUME NEW k \in 1..n, k - 1 \in T
      PROVE  k \in T
  <2>1. PICK run : Run(k - 1, run)
    <3>. HIDE DEF Run
    <3>. QED
      BY <1>2
  <2>. DEFINE more == [i \in 0..k |-> IF i = k THEN step[<<k, run[k - 1]>>] ELSE run[i]]
  <2>2. run[k - 1] \in S /\ step[<<k, run[k - 1]>>] \in S
    BY <2>1 DEF StepsOn
  <2>3. more \in [0..k -> S] /\ more[0] = s0
    BY <2>1, <2>2
  <2>4. \A i \in 1..k : more[i] = step[<<i, more[i - 1]>>]
    <3>. TAKE i \in 1..k
    <3>1. i \in 0..k /\ i - 1 \in 0..k /\ i - 1 # k
      OBVIOUS
    <3>2. more[i - 1] = run[i - 1]
      BY <3>1
    <3>3. CASE i = k
      BY <3>1, <3>2, <3>3
    <3>4. CASE i # k
      <4>1. i \in 1..(k - 1) /\ more[i] = run[i]
        BY <3>1, <3>4
      <4>. QED
        BY <2>1, <3>2, <4>1
    <3>. QED
      BY <3>3, <3>4
  <2>5. k \in 0..n
    OBVIOUS
  <2>. HIDE DEF more
  <2>6. Run(k, more)
    BY <2>3, <2>4
  <2>. HIDE DEF Run
  <2>. QED
    BY <2>5, <2>6
<1>3. \A i \in 0..n : i \in T
  <2>. HIDE DEF T
  <2>. QED
    BY <1>1, <1>2, IntervalInduction
<1>4. n \in 0..n
  OBVIOUS
<1>5. \E run : Run(n, run)
  <2>. HIDE DEF Run
  <2>. QED
    BY <1>3, <1>4
<1>. QED
  BY <1>5 DEF Runs

\* A function that satisfies the equation of a recursion stays in the set that the
\* steps stay in.
LEMMA RecursionTyped ==
    ASSUME NEW S, NEW n \in Nat, NEW f, DOMAIN f = 0..n, f = [i \in 0..n |-> f[i]],
           f[0] \in S, \A i \in 1..n : f[i - 1] \in S => f[i] \in S
    PROVE  f \in [0..n -> S]
<1>. DEFINE T == {i \in 0..n : f[i] \in S}
<1>1. 0 \in T /\ \A i \in 1..n : i - 1 \in T => i \in T
  OBVIOUS
<1>2. \A i \in 0..n : i \in T
  <2>. HIDE DEF T
  <2>. QED
    BY <1>1, IntervalInduction
<1>. QED
  BY <1>2

\* What is left of a list that had each member once: the others, each once
\* (Vec::retain).
LEMMA WithoutKeeps ==
    ASSUME NEW E, NEW q \in Seq(E), NEW D
    PROVE  /\ Without(q, D) \in Seq(E)
           /\ \A x : (\E i \in DOMAIN Without(q, D) : Without(q, D)[i] = x) <=> x \notin D /\ \E i \in DOMAIN q : q[i] = x
           /\ (\A i, j \in DOMAIN q : q[i] = q[j] => i = j) =>
                 \A i, j \in DOMAIN Without(q, D) : Without(q, D)[i] = Without(q, D)[j] => i = j
<1>. DEFINE n == Len(q)
            S == Seq(E)
            Step(i, s) == IF q[i] \in D THEN s ELSE Append(s, q[i])
            step == [x \in (1..n) \X S |-> Step(x[1], x[2])]
            Solves(f) == f = [i \in 0..n |-> IF i = 0 THEN <<>> ELSE Step(i, f[i - 1])]
<1>1. n \in Nat /\ DOMAIN q = 1..n /\ \A i \in 1..n : q[i] \in E
  OBVIOUS
<1>2. <<>> \in S /\ \A i \in 1..n, s \in S : Step(i, s) \in S
  BY <1>1
<1>3. Without(q, D) = (CHOOSE f : Solves(f))[n]
  BY DEF Without
<1>. HIDE DEF n, S, Step
<1>4. step \in StepsOn(n, S)
  BY <1>2 DEF StepsOn
<1>5. PICK run : run \in Runs(n, S, <<>>, step)
  <2>. HIDE DEF step
  <2>. QED
    BY <1>1, <1>2, <1>4, RecursionExists
<1>6. \A i \in 1..n : run[i] = Step(i, run[i - 1])
  <2>. TAKE i \in 1..n
  <2>1. i - 1 \in 0..n
    BY <1>1
  <2>2. run[i - 1] \in S /\ run[i] = step[<<i, run[i - 1]>>]
    BY <1>5, <2>1 DEF Runs
  <2>. QED
    BY <2>2
<1>7. Solves(run)
  BY <1>1, <1>5, <1>6 DEF Runs
<1>. DEFINE f == CHOOSE f : Solves(f)
<1>8. Solves(f)
  <2>. HIDE DEF Solves
  <2>. QED
    BY <1>7
<1>. HIDE DEF f
<1>9. f[0] = <<>> /\ \A i \in 1..n : f[i] = Step(i, f[i - 1])
  BY <1>1, <1>8
<1>. DEFINE Distinct(s) == \A k, l \in DOMAIN s : s[k] = s[l] => k = l
            Good(i, s) == /\ s \in Seq(E)
                          /\ \A x : (\E k \in DOMAIN s : s[k] = x) <=> x \notin D /\ \E k \in 1..i : q[k] = x
                          /\ Distinct(q) => Distinct(s)
            T == {i \in 0..n : Good(i, f[i])}
<1>10. Good(0, <<>>)
  <2>1. <<>> \in Seq(E) /\ DOMAIN <<>> = {} /\ 1..0 = {}
    OBVIOUS
  <2>. QED
    BY ONLY <2>1
<1>11. ASSUME NEW i \in 1..n, NEW s, Good(i - 1, s)
       PROVE  Good(i, Step(i, s))
  <2>1. q[i] \in E /\ i \in Nat /\ \A k \in 1..i : k = i \/ k \in 1..(i - 1)
    BY <1>1
  <2>2. i \in 1..i /\ \A k \in 1..(i - 1) : k \in 1..i /\ k \in 1..n /\ k # i
    BY <1>1
  <2>3. CASE q[i] \in D
    <3>1. Step(i, s) = s
      BY <2>3 DEF Step
    <3>. QED
      BY <1>11, <2>1, <2>2, <2>3, <3>1
  <2>4. CASE q[i] \notin D
    <3>. DEFINE t == Append(s, q[i])
    <3>1. Step(i, s) = t
      BY <2>4 DEF Step
    <3>2. s \in Seq(E)
      BY <1>11
    <3>3. t \in Seq(E) /\ DOMAIN t = 1..(Len(s) + 1) /\ DOMAIN s = 1..Len(s) /\ Len(s) \in Nat
      BY <2>1, <3>2
    <3>4. t[Len(s) + 1] = q[i] /\ \A k \in 1..Len(s) : t[k] = s[k]
      BY <2>1, <3>2
    <3>. HIDE DEF t
    <3>5. Len(s) + 1 \in DOMAIN t /\ (\A k \in DOMAIN t : k = Len(s) + 1 \/ k \in DOMAIN s) /\ \A k \in DOMAIN s : k \in DOMAIN t /\ k # Len(s) + 1
      BY <3>3
    <3>6. \A k \in DOMAIN s : t[k] = s[k]
      BY <3>3, <3>4
    <3>7. ASSUME NEW x
          PROVE  (\E k \in DOMAIN t : t[k] = x) <=> x \notin D /\ \E k \in 1..i : q[k] = x
      <4>1. (\E k \in DOMAIN t : t[k] = x) <=> (\E k \in DOMAIN s : s[k] = x) \/ q[i] = x
        BY ONLY <3>4, <3>5, <3>6, Zenon
      <4>2. (\E k \in 1..i : q[k] = x) <=> (\E k \in 1..(i - 1) : q[k] = x) \/ q[i] = x
        BY <2>1, <2>2
      <4>3. (\E k \in DOMAIN s : s[k] = x) <=> x \notin D /\ \E k \in 1..(i - 1) : q[k] = x
        BY <1>11
      <4>. QED
        BY <2>4, <4>1, <4>2, <4>3
    <3>8. ASSUME Distinct(q)
          PROVE  Distinct(t)
      <4>1. \A m \in DOMAIN s : s[m] # q[i]
        <5>1. \A m \in 1..(i - 1) : q[m] # q[i]
          BY <1>1, <2>2, <3>8
        <5>. QED
          BY <1>11, <5>1
      <4>2. Distinct(s)
        BY <1>11, <3>8
      <4>. QED
        BY ONLY <3>4, <3>5, <3>6, <4>1, <4>2, Zenon
    <3>. QED
      BY <3>1, <3>3, <3>7, <3>8
  <2>. QED
    BY <2>3, <2>4
<1>. HIDE DEF Good
<1>12. 0 \in T /\ \A i \in 1..n : i - 1 \in T => i \in T
  BY <1>1, <1>9, <1>10, <1>11
<1>13. \A i \in 0..n : i \in T
  <2>. HIDE DEF T
  <2>. QED
    BY <1>1, <1>12, IntervalInduction
<1>14. Good(n, f[n])
  BY <1>1, <1>13
<1>. QED
  BY <1>1, <1>3, <1>14 DEF Good, f

-----------------------------------------------------------------------------
(* Bindings of sandboxes                                                   *)

\* The index lists the sandboxes bound to each workload, each once.
IndexExact(sb, b) ==
    \A u \in Uids :
        /\ \A i, j \in DOMAIN b[u] : b[u][i] = b[u][j] => i = j
        /\ \A s \in SandboxIds : (\E i \in DOMAIN b[u] : b[u][i] = s) <=> sb[s] # NoResource /\ sb[s].wl = u

StoredSandboxes == [SandboxIds -> Sandboxes \cup {NoResource}]
Indices == [Uids -> Seq(SandboxIds)]

\* The store within a batch: the index is exact, and unless something is to be
\* notified nothing has changed since the batch began.
WithinBatch(sb, b) ==
    {st \in [sandbox : StoredSandboxes, bound : Indices, changed : BOOLEAN] :
        IndexExact(st.sandbox, st.bound) /\ (~st.changed => st.sandbox = sb /\ st.bound = b)}

\* Taking a sandbox out of the line of its workload.
LEMMA UnbindExact ==
    ASSUME NEW b \in Indices, NEW u \in Uids \cup {NoUid}, NEW s \in SandboxIds
    PROVE  /\ Unbind(b, u, s) \in Indices
           /\ \A v \in Uids : v # u => Unbind(b, u, s)[v] = b[v]
           /\ u \in Uids =>
                /\ \A x : (\E i \in DOMAIN Unbind(b, u, s)[u] : Unbind(b, u, s)[u][i] = x) <=> x # s /\ \E i \in DOMAIN b[u] : b[u][i] = x
                /\ (\A i, j \in DOMAIN b[u] : b[u][i] = b[u][j] => i = j) =>
                      \A i, j \in DOMAIN Unbind(b, u, s)[u] : Unbind(b, u, s)[u][i] = Unbind(b, u, s)[u][j] => i = j
<1>1. CASE u = NoUid
  BY <1>1, PolicyStateAssumption DEF Unbind
<1>2. CASE u # NoUid
  <2>. DEFINE q == Without(b[u], {s})
  <2>1. u \in Uids /\ b[u] \in Seq(SandboxIds) /\ Unbind(b, u, s) = [b EXCEPT ![u] = q]
    BY <1>2 DEF Unbind, Indices
  <2>2. /\ q \in Seq(SandboxIds)
        /\ \A x : (\E i \in DOMAIN q : q[i] = x) <=> x \notin {s} /\ \E i \in DOMAIN b[u] : b[u][i] = x
        /\ (\A i, j \in DOMAIN b[u] : b[u][i] = b[u][j] => i = j) => \A i, j \in DOMAIN q : q[i] = q[j] => i = j
    BY <2>1, WithoutKeeps
  <2>. HIDE DEF q
  <2>3. Unbind(b, u, s) \in Indices /\ Unbind(b, u, s)[u] = q /\ \A v \in Uids : v # u => Unbind(b, u, s)[v] = b[v]
    BY <2>1, <2>2 DEF Indices
  <2>. QED
    BY <2>2, <2>3
<1>. QED
  BY <1>1, <1>2

\* Putting it at the end of the line of another one, in which it is not.
LEMMA BindExact ==
    ASSUME NEW b \in Indices, NEW u \in Uids \cup {NoUid}, NEW s \in SandboxIds
    PROVE  /\ Bind(b, u, s) \in Indices
           /\ \A v \in Uids : v # u => Bind(b, u, s)[v] = b[v]
           /\ u \in Uids =>
                /\ \A x : (\E i \in DOMAIN Bind(b, u, s)[u] : Bind(b, u, s)[u][i] = x) <=> x = s \/ \E i \in DOMAIN b[u] : b[u][i] = x
                /\ (\A i, j \in DOMAIN b[u] : b[u][i] = b[u][j] => i = j) /\ (\A i \in DOMAIN b[u] : b[u][i] # s) =>
                      \A i, j \in DOMAIN Bind(b, u, s)[u] : Bind(b, u, s)[u][i] = Bind(b, u, s)[u][j] => i = j
<1>1. CASE u = NoUid
  BY <1>1, PolicyStateAssumption DEF Bind
<1>2. CASE u # NoUid
  <2>. DEFINE q == b[u]
              t == Append(q, s)
  <2>1. u \in Uids /\ q \in Seq(SandboxIds) /\ Bind(b, u, s) = [b EXCEPT ![u] = t]
    BY <1>2 DEF Bind, Indices
  <2>2. t \in Seq(SandboxIds) /\ DOMAIN t = 1..(Len(q) + 1) /\ DOMAIN q = 1..Len(q) /\ Len(q) \in Nat
    BY <2>1
  <2>3. t[Len(q) + 1] = s /\ \A k \in 1..Len(q) : t[k] = q[k]
    BY <2>1
  <2>4. Bind(b, u, s) \in Indices /\ Bind(b, u, s)[u] = t /\ \A v \in Uids : v # u => Bind(b, u, s)[v] = b[v]
    BY <2>1, <2>2 DEF Indices
  <2>. HIDE DEF t, q
  <2>5. /\ Len(q) + 1 \in DOMAIN t /\ (\A k \in DOMAIN t : k = Len(q) + 1 \/ k \in DOMAIN q)
        /\ \A k \in DOMAIN q : k \in DOMAIN t /\ k # Len(q) + 1 /\ t[k] = q[k]
    BY <2>2, <2>3
  <2>6. \A x : (\E i \in DOMAIN t : t[i] = x) <=> x = s \/ \E i \in DOMAIN q : q[i] = x
    BY ONLY <2>3, <2>5, Zenon
  <2>7. (\A i, j \in DOMAIN q : q[i] = q[j] => i = j) /\ (\A i \in DOMAIN q : q[i] # s) => \A i, j \in DOMAIN t : t[i] = t[j] => i = j
    BY ONLY <2>3, <2>5, Zenon
  <2>. QED
    BY <2>4, <2>6, <2>7 DEF q
<1>. QED
  BY <1>1, <1>2

\* Removing a sandbox keeps the index exact (SandboxStore::remove).
LEMMA SandboxRemoveSound ==
    ASSUME NEW sb, NEW b, NEW st \in WithinBatch(sb, b), NEW s \in SandboxIds
    PROVE  SandboxRemove(st, s) \in WithinBatch(sb, b)
<1>. DEFINE old == BoundTo(st, s)
            sb2 == [st.sandbox EXCEPT ![s] = NoResource]
            b2  == Unbind(st.bound, old, s)
            ch  == st.changed \/ st.sandbox[s] # NoResource
<1>1. /\ st.sandbox \in StoredSandboxes /\ st.bound \in Indices /\ st.changed \in BOOLEAN
      /\ IndexExact(st.sandbox, st.bound) /\ (~st.changed => st.sandbox = sb /\ st.bound = b)
  BY DEF WithinBatch
<1>2. old \in Uids \cup {NoUid} /\ (st.sandbox[s] # NoResource => old = st.sandbox[s].wl) /\ (st.sandbox[s] = NoResource => old = NoUid)
  BY <1>1 DEF BoundTo, StoredSandboxes, Sandboxes
<1>3. SandboxRemove(st, s) = [sandbox |-> sb2, bound |-> b2, changed |-> ch]
  BY DEF SandboxRemove
<1>4. sb2 \in StoredSandboxes /\ sb2[s] = NoResource /\ \A x \in SandboxIds : x # s => sb2[x] = st.sandbox[x]
  BY <1>1 DEF StoredSandboxes
<1>5. /\ b2 \in Indices
      /\ \A v \in Uids : v # old => b2[v] = st.bound[v]
      /\ old \in Uids =>
           /\ \A x : (\E i \in DOMAIN b2[old] : b2[old][i] = x) <=> x # s /\ \E i \in DOMAIN st.bound[old] : st.bound[old][i] = x
           /\ (\A i, j \in DOMAIN st.bound[old] : st.bound[old][i] = st.bound[old][j] => i = j) =>
                 \A i, j \in DOMAIN b2[old] : b2[old][i] = b2[old][j] => i = j
  <2>. HIDE DEF old
  <2>. QED
    BY <1>1, <1>2, UnbindExact
<1>6. ~ch => sb2 = sb /\ b2 = b
  <2>. SUFFICES ASSUME ~ch PROVE sb2 = sb /\ b2 = b
    OBVIOUS
  <2>1. st.sandbox[s] = NoResource /\ ~st.changed /\ st.sandbox = sb /\ st.bound = b
    BY <1>1
  <2>2. sb2 = st.sandbox
    BY <1>1, <2>1 DEF StoredSandboxes
  <2>3. b2 = st.bound
    BY <1>2, <2>1 DEF Unbind
  <2>. QED
    BY <2>1, <2>2, <2>3
<1>7. ch \in BOOLEAN
  BY <1>1
<1>. HIDE DEF old, sb2, b2, ch
<1>8. ASSUME NEW u \in Uids
      PROVE  /\ \A i, j \in DOMAIN b2[u] : b2[u][i] = b2[u][j] => i = j
             /\ \A x \in SandboxIds : (\E i \in DOMAIN b2[u] : b2[u][i] = x) <=> sb2[x] # NoResource /\ sb2[x].wl = u
  <2>1. /\ \A i, j \in DOMAIN st.bound[u] : st.bound[u][i] = st.bound[u][j] => i = j
        /\ \A x \in SandboxIds : (\E i \in DOMAIN st.bound[u] : st.bound[u][i] = x) <=> st.sandbox[x] # NoResource /\ st.sandbox[x].wl = u
    BY <1>1 DEF IndexExact
  <2>2. CASE u = old
    BY <1>2, <1>4, <1>5, <2>1, <2>2
  <2>3. CASE u # old
    BY <1>2, <1>4, <1>5, <2>1, <2>3, PolicyStateAssumption
  <2>. QED
    BY <2>2, <2>3
<1>9. IndexExact(sb2, b2)
  BY <1>8 DEF IndexExact
<1>. QED
  BY <1>3, <1>4, <1>5, <1>6, <1>7, <1>9 DEF WithinBatch

\* So does inserting one, which keeps its place in the line if it is bound to the
\* same workload (SandboxStore::insert).
LEMMA SandboxInsertSound ==
    ASSUME NEW sb, NEW b, NEW st \in WithinBatch(sb, b), NEW s \in SandboxIds, NEW v \in Sandboxes
    PROVE  SandboxInsert(st, s, v) \in WithinBatch(sb, b)
<1>. DEFINE old == BoundTo(st, s)
            sb2 == [st.sandbox EXCEPT ![s] = v]
            b1  == Unbind(st.bound, old, s)
            b2  == IF old = v.wl THEN st.bound ELSE Bind(b1, v.wl, s)
            ch  == st.changed \/ st.sandbox[s] # v
<1>1. /\ st.sandbox \in StoredSandboxes /\ st.bound \in Indices /\ st.changed \in BOOLEAN
      /\ IndexExact(st.sandbox, st.bound) /\ (~st.changed => st.sandbox = sb /\ st.bound = b)
  BY DEF WithinBatch
<1>2. /\ old \in Uids \cup {NoUid} /\ (st.sandbox[s] # NoResource => old = st.sandbox[s].wl) /\ (st.sandbox[s] = NoResource => old = NoUid)
      /\ v.wl \in Uids \cup {NoUid} /\ v # NoResource
  BY <1>1, PolicyStateAssumption DEF BoundTo, StoredSandboxes, Sandboxes
<1>3. SandboxInsert(st, s, v) = [sandbox |-> sb2, bound |-> b2, changed |-> ch]
  BY DEF SandboxInsert
<1>4. sb2 \in StoredSandboxes /\ sb2[s] = v /\ \A x \in SandboxIds : x # s => sb2[x] = st.sandbox[x]
  BY <1>1 DEF StoredSandboxes
<1>5. /\ b1 \in Indices
      /\ \A u \in Uids : u # old => b1[u] = st.bound[u]
      /\ old \in Uids =>
           /\ \A x : (\E i \in DOMAIN b1[old] : b1[old][i] = x) <=> x # s /\ \E i \in DOMAIN st.bound[old] : st.bound[old][i] = x
           /\ (\A i, j \in DOMAIN st.bound[old] : st.bound[old][i] = st.bound[old][j] => i = j) =>
                 \A i, j \in DOMAIN b1[old] : b1[old][i] = b1[old][j] => i = j
  <2>. HIDE DEF old
  <2>. QED
    BY <1>1, <1>2, UnbindExact
<1>6. ~ch => sb2 = sb /\ b2 = b
  <2>. SUFFICES ASSUME ~ch PROVE sb2 = sb /\ b2 = b
    OBVIOUS
  <2>1. st.sandbox[s] = v /\ ~st.changed /\ st.sandbox = sb /\ st.bound = b
    BY <1>1
  <2>2. sb2 = st.sandbox
    BY <1>1, <2>1 DEF StoredSandboxes
  <2>3. b2 = st.bound
    BY <1>2, <2>1
  <2>. QED
    BY <2>1, <2>2, <2>3
<1>7. ch \in BOOLEAN
  BY <1>1
<1>8. \A u \in Uids : /\ \A i, j \in DOMAIN st.bound[u] : st.bound[u][i] = st.bound[u][j] => i = j
                      /\ \A x \in SandboxIds : (\E i \in DOMAIN st.bound[u] : st.bound[u][i] = x) <=> st.sandbox[x] # NoResource /\ st.sandbox[x].wl = u
  BY <1>1 DEF IndexExact
<1>. HIDE DEF old, sb2, b1, ch
<1>9. CASE old = v.wl
  <2>1. b2 = st.bound
    BY <1>9
  <2>2. IndexExact(sb2, st.bound)
    BY <1>2, <1>4, <1>8, <1>9, PolicyStateAssumption DEF IndexExact
  <2>. QED
    BY <1>1, <1>3, <1>4, <1>6, <1>7, <2>1, <2>2 DEF WithinBatch
<1>10. CASE old # v.wl
  <2>. DEFINE w == v.wl
              c == Bind(b1, w, s)
  <2>1. b2 = c
    BY <1>10
  <2>2. /\ c \in Indices
        /\ \A u \in Uids : u # w => c[u] = b1[u]
        /\ w \in Uids =>
             /\ \A x : (\E i \in DOMAIN c[w] : c[w][i] = x) <=> x = s \/ \E i \in DOMAIN b1[w] : b1[w][i] = x
             /\ (\A i, j \in DOMAIN b1[w] : b1[w][i] = b1[w][j] => i = j) /\ (\A i \in DOMAIN b1[w] : b1[w][i] # s) =>
                   \A i, j \in DOMAIN c[w] : c[w][i] = c[w][j] => i = j
    <3>. HIDE DEF w
    <3>1. w \in Uids \cup {NoUid}
      BY <1>2 DEF w
    <3>. QED
      BY <1>5, <3>1, BindExact
  <2>. HIDE DEF b2, c
  <2>3. ASSUME NEW u \in Uids
        PROVE  /\ \A i, j \in DOMAIN c[u] : c[u][i] = c[u][j] => i = j
               /\ \A x \in SandboxIds : (\E i \in DOMAIN c[u] : c[u][i] = x) <=> sb2[x] # NoResource /\ sb2[x].wl = u
    <3>1. CASE u = w
      <4>1. u # old /\ b1[u] = st.bound[u]
        BY <1>5, <1>10, <3>1
      <4>2. \A i \in DOMAIN b1[u] : b1[u][i] # s
        BY <1>2, <1>8, <4>1
      <4>3. \A i, j \in DOMAIN c[u] : c[u][i] = c[u][j] => i = j
        BY <1>8, <2>2, <3>1, <4>1, <4>2
      <4>4. \A x \in SandboxIds : (\E i \in DOMAIN c[u] : c[u][i] = x) <=> x = s \/ \E i \in DOMAIN st.bound[u] : st.bound[u][i] = x
        BY <2>2, <3>1, <4>1
      <4>5. ASSUME NEW x \in SandboxIds
            PROVE  (\E i \in DOMAIN c[u] : c[u][i] = x) <=> sb2[x] # NoResource /\ sb2[x].wl = u
        <5>1. CASE x = s
          BY <1>2, <1>4, <3>1, <4>4, <5>1
        <5>2. CASE x # s
          BY <1>4, <1>8, <4>4, <5>2
        <5>. QED
          BY <5>1, <5>2
      <4>. QED
        BY <4>3, <4>5
    <3>2. CASE u # w /\ u = old
      BY <1>2, <1>4, <1>5, <1>8, <2>2, <3>2
    <3>3. CASE u # w /\ u # old
      BY <1>2, <1>4, <1>5, <1>8, <2>2, <3>3, PolicyStateAssumption
    <3>. QED
      BY <3>1, <3>2, <3>3
  <2>4. IndexExact(sb2, c)
    BY <2>3 DEF IndexExact
  <2>. QED
    BY <1>3, <1>4, <1>6, <1>7, <2>1, <2>2, <2>4 DEF WithinBatch
<1>. QED
  BY <1>9, <1>10

\* And so does whatever one update of a batch is.
LEMMA SandboxUpdateSound ==
    ASSUME NEW sb, NEW b, NEW st \in WithinBatch(sb, b), NEW x \in SandboxUpdates
    PROVE  SandboxUpdate(st, x) \in WithinBatch(sb, b)
<1>1. x.name \in SandboxIds /\ x.val \in Sandboxes \cup {NoResource, Invalid}
  BY DEF SandboxUpdates
<1>. QED
  BY <1>1, SandboxRemoveSound, SandboxInsertSound DEF SandboxUpdate

\* The updates of a batch one after the other leave the index exact, and a batch that
\* notifies nobody has changed nothing (HandleSandboxes, LoadConfig).
LEMMA SandboxFoldSound ==
    ASSUME NEW sb, NEW b, NEW start \in WithinBatch(sb, b), NEW batch \in Seq(SandboxUpdates)
    PROVE  SandboxFold(start, batch) \in WithinBatch(sb, b)
<1>. DEFINE n == Len(batch)
            S == WithinBatch(sb, b)
            Next1(i, st) == SandboxUpdate(st, batch[i])
            step == [x \in (1..n) \X S |-> Next1(x[1], x[2])]
            Solves(f) == f = [i \in 0..n |-> IF i = 0 THEN start ELSE Next1(i, f[i - 1])]
<1>1. n \in Nat /\ \A i \in 1..n : batch[i] \in SandboxUpdates
  OBVIOUS
<1>2. start \in S /\ \A i \in 1..n, st \in S : Next1(i, st) \in S
  BY <1>1, SandboxUpdateSound
<1>3. SandboxFold(start, batch) = (CHOOSE f : Solves(f))[n]
  BY DEF SandboxFold
<1>. HIDE DEF n, S, Next1
<1>4. step \in StepsOn(n, S)
  BY <1>2 DEF StepsOn
<1>5. PICK run : run \in Runs(n, S, start, step)
  <2>. HIDE DEF step
  <2>. QED
    BY <1>1, <1>2, <1>4, RecursionExists
<1>6. \A i \in 1..n : run[i] = Next1(i, run[i - 1])
  <2>. TAKE i \in 1..n
  <2>1. i - 1 \in 0..n
    BY <1>1
  <2>2. run[i - 1] \in S /\ run[i] = step[<<i, run[i - 1]>>]
    BY <1>5, <2>1 DEF Runs
  <2>. QED
    BY <2>2
<1>7. Solves(run)
  BY <1>1, <1>5, <1>6 DEF Runs
<1>. DEFINE f == CHOOSE f : Solves(f)
<1>8. Solves(f)
  <2>. HIDE DEF Solves
  <2>. QED
    BY <1>7
<1>. HIDE DEF f
<1>9. DOMAIN f = 0..n /\ f = [i \in 0..n |-> f[i]] /\ f[0] = start /\ \A i \in 1..n : f[i] = Next1(i, f[i - 1])
  BY <1>1, <1>8
<1>10. f \in [0..n -> S]
  BY <1>1, <1>2, <1>9, RecursionTyped
<1>11. f[n] \in S
  BY <1>1, <1>10
<1>. QED
  BY <1>3, <1>11 DEF f, S

\* The bodies within a batch of policies, likewise.
StoredPolicies == [PolicyNames -> Bodies \cup {NoBody}]
WithinPolicies(pol) == {st \in [policy : StoredPolicies, changed : BOOLEAN] : ~st.changed => st.policy = pol}

\* One update of a batch of policies (TrafficPolicyStore::update and remove).
LEMMA PolicyUpdateSound ==
    ASSUME NEW pol, NEW st \in WithinPolicies(pol), NEW x \in PolicyUpdates
    PROVE  PolicyUpdate(st, x) \in WithinPolicies(pol)
<1>1. st.policy \in StoredPolicies /\ st.changed \in BOOLEAN /\ (~st.changed => st.policy = pol)
  BY DEF WithinPolicies
<1>. x.name \in PolicyNames /\ x.val \in Bodies \cup {NoBody, Invalid}
  BY DEF PolicyUpdates
<1>2. CASE x.val = Invalid
  BY <1>2 DEF PolicyUpdate
<1>3. CASE x.val # Invalid
  <2>. DEFINE p2 == [st.policy EXCEPT ![x.name] = x.val]
              ch == st.changed \/ st.policy[x.name] # x.val
  <2>1. PolicyUpdate(st, x) = [policy |-> p2, changed |-> ch]
    BY <1>3 DEF PolicyUpdate
  <2>2. p2 \in StoredPolicies /\ ch \in BOOLEAN
    BY <1>1, <1>3 DEF StoredPolicies
  <2>3. ~ch => p2 = pol
    BY <1>1 DEF StoredPolicies
  <2>. HIDE DEF p2, ch
  <2>. QED
    BY <2>1, <2>2, <2>3 DEF WithinPolicies
<1>. QED
  BY <1>2, <1>3

\* A batch of policies leaves rules within their types, whatever of it fails to parse.
LEMMA PolicyFoldSound ==
    ASSUME NEW pol, NEW start \in WithinPolicies(pol), NEW batch \in Seq(PolicyUpdates)
    PROVE  PolicyFold(start, batch) \in WithinPolicies(pol)
<1>. DEFINE n == Len(batch)
            S == WithinPolicies(pol)
            Next1(i, st) == PolicyUpdate(st, batch[i])
            step == [x \in (1..n) \X S |-> Next1(x[1], x[2])]
            Solves(f) == f = [i \in 0..n |-> IF i = 0 THEN start ELSE Next1(i, f[i - 1])]
<1>1. n \in Nat /\ \A i \in 1..n : batch[i] \in PolicyUpdates
  OBVIOUS
<1>2. start \in S /\ \A i \in 1..n, st \in S : Next1(i, st) \in S
  BY <1>1, PolicyUpdateSound
<1>3. PolicyFold(start, batch) = (CHOOSE f : Solves(f))[n]
  BY DEF PolicyFold
<1>. HIDE DEF n, S, Next1
<1>4. step \in StepsOn(n, S)
  BY <1>2 DEF StepsOn
<1>5. PICK run : run \in Runs(n, S, start, step)
  <2>. HIDE DEF step
  <2>. QED
    BY <1>1, <1>2, <1>4, RecursionExists
<1>6. \A i \in 1..n : run[i] = Next1(i, run[i - 1])
  <2>. TAKE i \in 1..n
  <2>1. i - 1 \in 0..n
    BY <1>1
  <2>2. run[i - 1] \in S /\ run[i] = step[<<i, run[i - 1]>>]
    BY <1>5, <2>1 DEF Runs
  <2>. QED
    BY <2>2
<1>7. Solves(run)
  BY <1>1, <1>5, <1>6 DEF Runs
<1>. DEFINE f == CHOOSE f : Solves(f)
<1>8. Solves(f)
  <2>. HIDE DEF Solves
  <2>. QED
    BY <1>7
<1>. HIDE DEF f
<1>9. DOMAIN f = 0..n /\ f = [i \in 0..n |-> f[i]] /\ f[0] = start /\ \A i \in 1..n : f[i] = Next1(i, f[i - 1])
  BY <1>1, <1>8
<1>10. f \in [0..n -> S]
  BY <1>1, <1>2, <1>9, RecursionTyped
<1>11. f[n] \in S
  BY <1>1, <1>10
<1>. QED
  BY <1>3, <1>11 DEF f, S

-----------------------------------------------------------------------------
(* The policies and bindings as a whole                                    *)

\* What every handler keeps: the types, and the exact index.
PolicyInv == PolicyTypeOK /\ IndexExact(sandbox, bound)

\* A step that notifies nobody changes nothing.
NoSilentChange == notices' = notices => rbacVars' = rbacVars

\* Before the first response the stores are empty.
LEMMA PolicyInitSound ==
    PolicyInit => PolicyInv
<1>. SUFFICES ASSUME PolicyInit PROVE PolicyInv
  OBVIOUS
<1>1. PolicyTypeOK
  <2>1. workload \in [Uids -> RefLists \cup {NoResource}] /\ sandbox \in [SandboxIds -> Sandboxes \cup {NoResource}]
    BY DEF PolicyInit
  <2>2. <<>> \in Seq(SandboxIds)
    OBVIOUS
  <2>3. bound \in [Uids -> Seq(SandboxIds)]
    BY <2>2 DEF PolicyInit
  <2>4. policy \in [PolicyNames -> Bodies \cup {NoBody}] /\ notices \in BOOLEAN
    BY DEF PolicyInit
  <2>. QED
    BY <2>1, <2>3, <2>4 DEF PolicyTypeOK
<1>2. \A u \in Uids : DOMAIN bound[u] = {}
  BY DEF PolicyInit
<1>3. \A s \in SandboxIds : sandbox[s] = NoResource
  BY DEF PolicyInit
<1>4. IndexExact(sandbox, bound)
  BY <1>2, <1>3 DEF IndexExact
<1>. QED
  BY <1>1, <1>4 DEF PolicyInv

\* Every handler keeps the invariant, and is silent only if it changes nothing.
LEMMA PolicyStepSound ==
    PolicyInv /\ [PolicyNext]_rbacVars => PolicyInv' /\ NoSilentChange
<1>. SUFFICES ASSUME PolicyInv, [PolicyNext]_rbacVars PROVE PolicyInv' /\ NoSilentChange
  OBVIOUS
<1>1. /\ workload \in [Uids -> RefLists \cup {NoResource}] /\ sandbox \in StoredSandboxes /\ bound \in Indices
      /\ policy \in StoredPolicies /\ notices \in BOOLEAN /\ IndexExact(sandbox, bound)
  BY DEF PolicyInv, PolicyTypeOK, StoredSandboxes, Indices, StoredPolicies
<1>2. ASSUME NEW c \in BOOLEAN, Notify(c)
      PROVE  notices' \in BOOLEAN /\ (notices' = notices <=> ~c)
  BY <1>1, <1>2 DEF Notify
<1>. DEFINE Good == /\ workload' \in [Uids -> RefLists \cup {NoResource}] /\ sandbox' \in StoredSandboxes /\ bound' \in Indices
                    /\ policy' \in StoredPolicies /\ notices' \in BOOLEAN /\ IndexExact(sandbox', bound')
<1>3. ASSUME NEW u \in Uids, NEW refs \in RefLists, InsertWorkload(u, refs)
      PROVE  Good /\ NoSilentChange
  <2>1. Notify(workload[u] # refs) /\ workload' = [workload EXCEPT ![u] = refs] /\ sandbox' = sandbox /\ bound' = bound /\ policy' = policy
    BY <1>3 DEF InsertWorkload
  <2>2. notices' \in BOOLEAN /\ (notices' = notices <=> workload[u] = refs)
    BY <1>2, <2>1
  <2>3. workload' \in [Uids -> RefLists \cup {NoResource}] /\ (workload[u] = refs => workload' = workload)
    BY <1>1, <2>1
  <2>. QED
    BY <1>1, <2>1, <2>2, <2>3 DEF NoSilentChange, rbacVars
<1>4. ASSUME NEW u \in Uids, RemoveWorkload(u)
      PROVE  Good /\ NoSilentChange
  <2>1. Notify(workload[u] # NoResource) /\ workload' = [workload EXCEPT ![u] = NoResource] /\ sandbox' = sandbox /\ bound' = bound /\ policy' = policy
    BY <1>4 DEF RemoveWorkload
  <2>2. notices' \in BOOLEAN /\ (notices' = notices <=> workload[u] = NoResource)
    BY <1>2, <2>1
  <2>3. workload' \in [Uids -> RefLists \cup {NoResource}] /\ (workload[u] = NoResource => workload' = workload)
    BY <1>1, <2>1
  <2>. QED
    BY <1>1, <2>1, <2>2, <2>3 DEF NoSilentChange, rbacVars
<1>5. ASSUME NEW batch \in SandboxBatches, HandleSandboxes(batch)
      PROVE  Good /\ NoSilentChange
  <2>. DEFINE start == [sandbox |-> sandbox, bound |-> bound, changed |-> FALSE]
              end == SandboxFold(start, batch)
  <2>1. batch \in Seq(SandboxUpdates)
    BY PolicyStateAssumption
  <2>2. start \in WithinBatch(sandbox, bound)
    BY <1>1 DEF WithinBatch
  <2>3. sandbox' = end.sandbox /\ bound' = end.bound /\ Notify(end.changed) /\ workload' = workload /\ policy' = policy
    BY <1>5 DEF HandleSandboxes
  <2>. HIDE DEF start
  <2>4. end \in WithinBatch(sandbox, bound)
    BY <2>1, <2>2, SandboxFoldSound
  <2>. HIDE DEF end
  <2>5. /\ end.sandbox \in StoredSandboxes /\ end.bound \in Indices /\ end.changed \in BOOLEAN
        /\ IndexExact(end.sandbox, end.bound) /\ (~end.changed => end.sandbox = sandbox /\ end.bound = bound)
    BY <2>4 DEF WithinBatch
  <2>6. notices' \in BOOLEAN /\ (notices' = notices <=> ~end.changed)
    BY <1>2, <2>3, <2>5
  <2>. QED
    BY <1>1, <2>3, <2>5, <2>6 DEF NoSilentChange, rbacVars
<1>6. ASSUME NEW batch \in PolicyBatches, HandlePolicies(batch)
      PROVE  Good /\ NoSilentChange
  <2>. DEFINE start == [policy |-> policy, changed |-> FALSE]
              end == PolicyFold(start, batch)
  <2>1. batch \in Seq(PolicyUpdates)
    BY PolicyStateAssumption
  <2>2. start \in WithinPolicies(policy)
    BY <1>1 DEF WithinPolicies
  <2>3. policy' = end.policy /\ Notify(end.changed) /\ workload' = workload /\ sandbox' = sandbox /\ bound' = bound
    BY <1>6 DEF HandlePolicies
  <2>. HIDE DEF start
  <2>4. end \in WithinPolicies(policy)
    BY <2>1, <2>2, PolicyFoldSound
  <2>. HIDE DEF end
  <2>5. end.policy \in StoredPolicies /\ end.changed \in BOOLEAN /\ (~end.changed => end.policy = policy)
    BY <2>4 DEF WithinPolicies
  <2>6. notices' \in BOOLEAN /\ (notices' = notices <=> ~end.changed)
    BY <1>2, <2>3, <2>5
  <2>. QED
    BY <1>1, <2>3, <2>5, <2>6 DEF NoSilentChange, rbacVars
<1>7. ASSUME NEW c \in LocalConfigs, LoadConfig(c)
      PROVE  Good /\ NoSilentChange
  <2>. DEFINE none == [s \in SandboxIds |-> NoResource]
              empty == [u \in Uids |-> <<>>]
              start == [sandbox |-> none, bound |-> empty, changed |-> FALSE]
              end == SandboxFold(start, c.sandboxes)
  <2>1. /\ c.workload \in [Uids -> RefLists \cup {NoResource}] /\ c.policy \in [PolicyNames -> Bodies \cup {NoBody, Invalid}]
        /\ c.sandboxes \in Seq(SandboxUpdates)
    BY PolicyStateAssumption
  <2>2. none \in StoredSandboxes /\ empty \in Indices
    BY DEF StoredSandboxes, Indices
  <2>3. IndexExact(none, empty)
    BY DEF IndexExact
  <2>4. /\ workload' = c.workload /\ policy' = c.policy /\ sandbox' = end.sandbox /\ bound' = end.bound /\ Notify(TRUE)
        /\ \A m \in PolicyNames : c.policy[m] # Invalid
    BY <1>7 DEF LoadConfig, Accepted
  <2>. HIDE DEF none, empty
  <2>5. start \in WithinBatch(none, empty)
    BY <2>2, <2>3 DEF WithinBatch
  <2>. HIDE DEF start
  <2>6. end \in WithinBatch(none, empty)
    BY <2>1, <2>5, SandboxFoldSound
  <2>. HIDE DEF end
  <2>7. end.sandbox \in StoredSandboxes /\ end.bound \in Indices /\ IndexExact(end.sandbox, end.bound)
    BY <2>6 DEF WithinBatch
  <2>8. notices' \in BOOLEAN /\ notices' # notices
    BY <1>2, <2>4
  <2>9. c.policy \in StoredPolicies
    BY <2>1, <2>4 DEF StoredPolicies
  <2>. QED
    BY <2>1, <2>4, <2>7, <2>8, <2>9 DEF NoSilentChange
<1>8. ASSUME UNCHANGED rbacVars
      PROVE  Good /\ NoSilentChange
  <2>1. workload' = workload /\ sandbox' = sandbox /\ bound' = bound /\ policy' = policy /\ notices' = notices
    BY <1>8 DEF rbacVars
  <2>. QED
    BY <1>1, <1>8, <2>1 DEF NoSilentChange
<1>9. Good /\ NoSilentChange
  <2>. HIDE DEF Good
  <2>1. CASE PolicyNext
    BY ONLY <1>3, <1>4, <1>5, <1>6, <1>7, <2>1, Zenon DEF PolicyNext
  <2>. QED
    BY ONLY <1>8, <2>1, [PolicyNext]_rbacVars, Zenon
<1>. QED
  BY <1>9 DEF Good, PolicyInv, PolicyTypeOK, StoredSandboxes, Indices, StoredPolicies

\* The types and the exact index hold of every state of the stores.
THEOREM PolicyInvariant == PolicySpec => []PolicyInv
<1>1. PolicyInv /\ [PolicyNext]_rbacVars => PolicyInv'
  BY PolicyStepSound
<1>. QED
  BY <1>1, PolicyInitSound, PTL DEF PolicySpec

\* A list whose members are distinct has as many positions as members.
LEMMA DistinctLength ==
    ASSUME NEW E, NEW q \in Seq(E), \A i, j \in DOMAIN q : q[i] = q[j] => i = j
    PROVE  Len(q) = Cardinality(Range(q))
<1>. DEFINE n == Len(q)
<1>1. n \in Nat /\ DOMAIN q = 1..n
  OBVIOUS
<1>2. q \in Bijection(1..n, Range(q))
  BY <1>1 DEF Bijection, Injection, Surjection, Range, IsInjective
<1>3. ExistsBijection(1..n, Range(q))
  BY <1>2 DEF ExistsBijection
<1>. QED
  BY <1>1, <1>3, FS_CountingElements, FS_NatBijection

\* The index by workload is exact in every state: BindingIndex.
THEOREM BindingIndexHolds == PolicySpec => []BindingIndex
<1>1. ASSUME PolicyInv PROVE BindingIndex
  <2>. SUFFICES ASSUME NEW u \in Uids
               PROVE  /\ Range(bound[u]) = {s \in SandboxIds : sandbox[s] # NoResource /\ sandbox[s].wl = u}
                      /\ Len(bound[u]) = Cardinality(Range(bound[u]))
    BY DEF BindingIndex
  <2>1. /\ bound[u] \in Seq(SandboxIds)
        /\ \A i, j \in DOMAIN bound[u] : bound[u][i] = bound[u][j] => i = j
        /\ \A s \in SandboxIds : (\E i \in DOMAIN bound[u] : bound[u][i] = s) <=> sandbox[s] # NoResource /\ sandbox[s].wl = u
    BY <1>1 DEF PolicyInv, PolicyTypeOK, IndexExact
  <2>2. Len(bound[u]) = Cardinality(Range(bound[u]))
    BY <2>1, DistinctLength
  <2>3. Range(bound[u]) = {s \in SandboxIds : sandbox[s] # NoResource /\ sandbox[s].wl = u}
    BY <2>1 DEF Range
  <2>. QED
    BY <2>2, <2>3
<1>. QED
  BY <1>1, PolicyInvariant, PTL

\* No decision changes without a notice: NotifyOnChange.
THEOREM NotifyOnChangeHolds == PolicySpec => NotifyOnChange
<1>. DEFINE Silent == rbacVars' # rbacVars /\ notices' = notices =>
                        /\ \A k \in Contexts : RbacAllows(k)' = RbacAllows(k)
                        /\ \A u \in Uids, p \in Packets :
                              workload[u] # NoResource => FirewallAllows(u, p)' = FirewallAllows(u, p)
<1>1. PolicyInv /\ [PolicyNext]_rbacVars => [Silent]_rbacVars
  BY PolicyStepSound DEF NoSilentChange
<1>. QED
  BY <1>1, PolicyInvariant, PTL DEF PolicySpec, NotifyOnChange

-----------------------------------------------------------------------------
(* Rules in the order of their policies                                    *)

\* Every rule of every policy.
AllRules == UNION {Range(RulesOf(b, d)) : b \in Bodies, d \in Directions}

\* The rules of a policy are a list of rules, no longer than any policy is.
LEMMA RulesTyped ==
    ASSUME NEW b \in Bodies, NEW d \in Directions
    PROVE  RulesOf(b, d) \in Seq(AllRules) /\ Len(RulesOf(b, d)) \in 0..MaxRules
<1>. DEFINE q == RulesOf(b, d)
<1>1. q \in Seq(Range(q))
  <2>1. CASE b[d] = NoRules
    <3>1. q = <<>>
      BY <2>1 DEF RulesOf
    <3>. QED
      BY <3>1
  <2>2. CASE b[d] # NoRules
    <3>1. q = b[d]
      BY <2>2 DEF RulesOf
    <3>2. b[d] \in Seq(Range(b[d]))
      BY <2>2, PolicyStateAssumption
    <3>. QED
      BY ONLY <3>1, <3>2
  <2>. QED
    BY <2>1, <2>2
<1>2. Range(q) \subseteq AllRules
  BY DEF AllRules
<1>3. Len(q) <= MaxRules /\ MaxRules \in Nat
  BY PriorityAssumption
<1>. HIDE DEF q
<1>4. q \in Seq(AllRules) /\ Len(q) \in Nat
  BY <1>1, <1>2
<1>. QED
  BY <1>3, <1>4 DEF q

\* The lists that the concatenation of a list of lists goes through.
Concatenations(E, qs) ==
    {c \in [0..Len(qs) -> Seq(E)] : c[0] = <<>> /\ \A i \in 1..Len(qs) : c[i] = c[i - 1] \o qs[i]}

\* FlattenSeq is the last of them.
LEMMA FlattenIs ==
    ASSUME NEW E, NEW qs \in Seq(Seq(E))
    PROVE  \E c : c \in Concatenations(E, qs) /\ FlattenSeq(qs) = c[Len(qs)]
<1>. DEFINE n == Len(qs)
            S == Seq(E)
            Step(i, s) == s \o qs[i]
            step == [x \in (1..n) \X S |-> Step(x[1], x[2])]
            Solves(f) == f = [i \in 1..n |-> IF i = 1 THEN qs[i] ELSE Step(i, f[i - 1])]
<1>1. n \in Nat /\ DOMAIN qs = 1..n /\ \A i \in 1..n : qs[i] \in S
  OBVIOUS
<1>2. <<>> \in S /\ \A i \in 1..n, s \in S : Step(i, s) \in S
  BY <1>1
<1>3. n # 0 => FlattenSeq(qs) = (CHOOSE f : Solves(f))[n]
  BY DEF FlattenSeq
<1>4. n = 0 => FlattenSeq(qs) = <<>>
  BY DEF FlattenSeq
<1>5. \A i \in 1..n : Step(i, <<>>) = qs[i]
  BY <1>1
<1>6. \A c : c \in [0..n -> S] /\ c[0] = <<>> /\ (\A i \in 1..n : c[i] = Step(i, c[i - 1])) => c \in Concatenations(E, qs)
  BY DEF Concatenations
<1>. HIDE DEF n, S, Step
<1>7. step \in StepsOn(n, S)
  BY <1>2 DEF StepsOn
<1>8. PICK run : run \in Runs(n, S, <<>>, step)
  <2>. HIDE DEF step
  <2>. QED
    BY <1>1, <1>2, <1>7, RecursionExists
<1>9. \A i \in 1..n : run[i] = Step(i, run[i - 1])
  <2>. TAKE i \in 1..n
  <2>1. i - 1 \in 0..n
    BY <1>1
  <2>2. run[i - 1] \in S /\ run[i] = step[<<i, run[i - 1]>>]
    BY <1>8, <2>1 DEF Runs
  <2>. QED
    BY <2>2
<1>10. run \in [0..n -> S] /\ run[0] = <<>>
  BY <1>8 DEF Runs
<1>11. run \in Concatenations(E, qs)
  BY <1>6, <1>9, <1>10
<1>. DEFINE part == [i \in 1..n |-> run[i]]
<1>12. Solves(part)
  <2>1. \A i \in 1..n : run[i] = IF i = 1 THEN qs[i] ELSE Step(i, part[i - 1])
    BY <1>1, <1>5, <1>9, <1>10
  <2>. QED
    BY <2>1
<1>. DEFINE f == CHOOSE f : Solves(f)
<1>13. Solves(f)
  <2>. HIDE DEF Solves, part
  <2>. QED
    BY <1>12
<1>. HIDE DEF f
<1>14. \A i \in 1..n : f[i] = IF i = 1 THEN qs[i] ELSE Step(i, f[i - 1])
  BY <1>13
<1>. HIDE DEF Solves
<1>. DEFINE T == {i \in 0..n : i = 0 \/ f[i] = run[i]}
<1>15. 0 \in T
  BY <1>1
<1>16. ASSUME NEW i \in 1..n, i - 1 \in T
       PROVE  i \in T
  <2>1. CASE i = 1
    BY <1>5, <1>9, <1>10, <1>14, <2>1
  <2>2. CASE i # 1
    <3>1. f[i - 1] = run[i - 1]
      BY <1>1, <1>16, <2>2
    <3>. QED
      BY <1>1, <1>9, <1>14, <2>2, <3>1
  <2>. QED
    BY <2>1, <2>2
<1>17. \A i \in 0..n : i \in T
  <2>. HIDE DEF T
  <2>. QED
    BY <1>1, <1>15, <1>16, IntervalInduction
<1>18. n # 0 => f[n] = run[n]
  BY <1>1, <1>17
<1>19. FlattenSeq(qs) = run[n]
  BY <1>1, <1>3, <1>4, <1>10, <1>18 DEF f
<1>. QED
  BY <1>11, <1>19 DEF n

\* Where the members of the lists are in the concatenation.
Placed(E, qs, c) ==
    /\ c[Len(qs)] \in Seq(E)
    /\ \A i \in 1..Len(qs) : Len(c[i - 1]) \in Nat /\ Len(c[i]) \in Nat /\ Len(c[i]) = Len(c[i - 1]) + Len(qs[i])
    /\ \A i \in 1..Len(qs) : \A j \in DOMAIN qs[i] :
          /\ Len(c[i - 1]) + j \in DOMAIN c[Len(qs)] /\ c[Len(qs)][Len(c[i - 1]) + j] = qs[i][j]
          /\ \A m \in 1..Len(qs) : i < m => Len(c[i - 1]) + j <= Len(c[m - 1])
    /\ \A k \in DOMAIN c[Len(qs)] : \E i \in 1..Len(qs) : \E j \in DOMAIN qs[i] : k = Len(c[i - 1]) + j

\* Each list follows the ones before it, and every position is of one of them.
LEMMA ConcatenationPlaces ==
    ASSUME NEW E, NEW qs \in Seq(Seq(E)), NEW c \in Concatenations(E, qs)
    PROVE  Placed(E, qs, c)
<1>. DEFINE n == Len(qs)
<1>1. n \in Nat /\ c \in [0..n -> Seq(E)] /\ c[0] = <<>> /\ \A i \in 1..n : c[i] = c[i - 1] \o qs[i]
  <2>1. n \in Nat
    BY ONLY qs \in Seq(Seq(E))
  <2>2. c \in [0..n -> Seq(E)] /\ c[0] = <<>> /\ \A i \in 1..n : c[i] = c[i - 1] \o qs[i]
    BY ONLY c \in Concatenations(E, qs), Zenon DEF Concatenations
  <2>. QED
    BY <2>1, <2>2, Zenon
<1>2. \A i \in 1..n : qs[i] \in Seq(E) /\ Len(qs[i]) \in Nat /\ DOMAIN qs[i] = 1..Len(qs[i])
  OBVIOUS
<1>. DEFINE L(i) == Len(c[i])
<1>3. \A i \in 0..n : c[i] \in Seq(E) /\ L(i) \in Nat /\ DOMAIN c[i] = 1..L(i)
  BY <1>1
<1>4. ASSUME NEW i \in 1..n
      PROVE  /\ L(i) = L(i - 1) + Len(qs[i])
             /\ \A k \in 1..L(i - 1) : c[i][k] = c[i - 1][k]
             /\ \A j \in 1..Len(qs[i]) : c[i][L(i - 1) + j] = qs[i][j]
  <2>1. c[i - 1] \in Seq(E) /\ qs[i] \in Seq(E) /\ c[i] = c[i - 1] \o qs[i]
    <3>1. i - 1 \in 0..n
      BY <1>1
    <3>. QED
      BY <1>1, <1>2, <3>1
  <2>. DEFINE a == c[i - 1]
              b == qs[i]
  <2>. HIDE DEF a, b
  <2>2. a \in Seq(E) /\ b \in Seq(E) /\ c[i] = a \o b
    BY <2>1 DEF a, b
  <2>3. /\ Len(a \o b) = Len(a) + Len(b)
        /\ \A k \in 1..Len(a) : (a \o b)[k] = a[k]
        /\ \A j \in 1..Len(b) : (a \o b)[Len(a) + j] = b[j]
    BY ONLY <2>2
  <2>. QED
    BY <2>2, <2>3 DEF a, b
<1>. HIDE DEF L, n
<1>. DEFINE Extends(m) == \A i \in 0..m : L(i) <= L(m) /\ \A k \in 1..L(i) : c[m][k] = c[i][k]
            T == {m \in 0..n : Extends(m)}
<1>5. 0 \in T
  BY <1>1, <1>3
<1>6. ASSUME NEW m \in 1..n, m - 1 \in T
      PROVE  m \in T
  <2>1. m - 1 \in 0..n /\ m \in 0..n /\ \A i \in 0..m : i = m \/ i \in 0..(m - 1)
    BY <1>1
  <2>2. Extends(m - 1) /\ L(m - 1) <= L(m) /\ \A k \in 1..L(m - 1) : c[m][k] = c[m - 1][k]
    <3>1. Extends(m - 1)
      BY <1>6
    <3>2. L(m) = L(m - 1) + Len(qs[m]) /\ \A k \in 1..L(m - 1) : c[m][k] = c[m - 1][k]
      BY <1>4
    <3>3. L(m - 1) \in Nat /\ Len(qs[m]) \in Nat
      BY <1>2, <1>3, <2>1
    <3>. HIDE DEF Extends
    <3>. QED
      BY <3>1, <3>2, <3>3
  <2>3. ASSUME NEW i \in 0..(m - 1)
        PROVE  L(i) <= L(m) /\ \A k \in 1..L(i) : c[m][k] = c[i][k]
    <3>1. i \in 0..n /\ L(i) \in Nat /\ L(m - 1) \in Nat /\ L(m) \in Nat /\ L(i) <= L(m - 1)
      BY <1>1, <1>3, <2>1, <2>2
    <3>2. \A k \in 1..L(i) : k \in 1..L(m - 1) /\ c[m - 1][k] = c[i][k]
      BY <2>2, <3>1
    <3>. QED
      BY <2>2, <3>1, <3>2
  <2>4. L(m) <= L(m)
    BY <1>3, <2>1
  <2>5. Extends(m)
    BY <2>1, <2>3, <2>4
  <2>. HIDE DEF Extends
  <2>. QED
    BY <2>1, <2>5
<1>7. \A m \in 0..n : Extends(m)
  <2>1. \A m \in 0..n : m \in T
    <3>. HIDE DEF T
    <3>. QED
      BY <1>1, <1>5, <1>6, IntervalInduction
  <2>. QED
    BY <2>1
<1>. DEFINE Covered(m) == \A k \in 1..L(m) : \E i \in 1..m : \E j \in DOMAIN qs[i] : k = L(i - 1) + j
            U == {m \in 0..n : Covered(m)}
<1>8. 0 \in U
  <2>1. L(0) = 0
    BY <1>1 DEF L
  <2>. QED
    BY <1>1, <2>1
<1>9. ASSUME NEW m \in 1..n, m - 1 \in U
      PROVE  m \in U
  <2>1. m - 1 \in 0..n /\ m \in 0..n /\ m \in 1..m /\ \A i \in 1..(m - 1) : i \in 1..m
    BY <1>1
  <2>2. L(m - 1) \in Nat /\ L(m) = L(m - 1) + Len(qs[m]) /\ Len(qs[m]) \in Nat /\ DOMAIN qs[m] = 1..Len(qs[m])
    BY <1>2, <1>3, <1>4, <2>1
  <2>3. ASSUME NEW k \in 1..L(m)
        PROVE  \E i \in 1..m : \E j \in DOMAIN qs[i] : k = L(i - 1) + j
    <3>1. CASE k <= L(m - 1)
      <4>1. k \in 1..L(m - 1)
        BY <2>2, <3>1
      <4>2. PICK i \in 1..(m - 1) : \E j \in DOMAIN qs[i] : k = L(i - 1) + j
        BY <1>9, <4>1
      <4>. QED
        BY <2>1, <4>2
    <3>2. CASE k > L(m - 1)
      <4>1. k - L(m - 1) \in DOMAIN qs[m] /\ k = L(m - 1) + (k - L(m - 1))
        BY <2>2, <3>2
      <4>. QED
        BY <2>1, <4>1
    <3>. QED
      BY <2>2, <3>1, <3>2
  <2>. QED
    BY <2>1, <2>3
<1>10. \A m \in 0..n : Covered(m)
  <2>1. \A m \in 0..n : m \in U
    <3>. HIDE DEF U
    <3>. QED
      BY <1>1, <1>8, <1>9, IntervalInduction
  <2>. QED
    BY <2>1
<1>11. n \in 0..n /\ DOMAIN c[n] = 1..L(n) /\ c[n] \in Seq(E) /\ L(n) \in Nat
  BY <1>1, <1>3
<1>12. \A k \in DOMAIN c[n] : \E i \in 1..n : \E j \in DOMAIN qs[i] : k = L(i - 1) + j
  <2>1. Covered(n)
    BY <1>10, <1>11
  <2>. QED
    BY <1>11, <2>1
<1>13. ASSUME NEW i \in 1..n, NEW j \in DOMAIN qs[i]
       PROVE  /\ L(i - 1) + j \in DOMAIN c[n] /\ c[n][L(i - 1) + j] = qs[i][j]
              /\ \A m \in 1..n : i < m => L(i - 1) + j <= L(m - 1)
  <2>1. i - 1 \in 0..n /\ i \in 0..n /\ j \in 1..Len(qs[i]) /\ L(i - 1) \in Nat /\ L(i) = L(i - 1) + Len(qs[i]) /\ L(i) \in Nat
    <3>1. i - 1 \in 0..n /\ i \in 0..n
      BY <1>1
    <3>2. L(i - 1) \in Nat /\ L(i) \in Nat
      BY <1>3, <3>1
    <3>3. L(i) = L(i - 1) + Len(qs[i])
      BY <1>4
    <3>4. j \in 1..Len(qs[i])
      BY <1>2
    <3>. QED
      BY <3>1, <3>2, <3>3, <3>4
  <2>2. L(i - 1) + j \in 1..L(i) /\ c[i][L(i - 1) + j] = qs[i][j]
    BY <1>2, <1>4, <2>1
  <2>3. L(i) <= L(n) /\ \A k \in 1..L(i) : c[n][k] = c[i][k]
    BY <1>7, <1>11, <2>1
  <2>4. ASSUME NEW m \in 1..n, i < m
        PROVE  L(i) <= L(m - 1) /\ L(m - 1) \in Nat
    <3>1. m - 1 \in 0..n /\ i \in 0..(m - 1)
      BY <1>1, <2>1, <2>4
    <3>. QED
      BY <1>3, <1>7, <3>1
  <2>5. L(i - 1) + j <= L(i)
    BY <2>1, <2>2
  <2>6. \A m \in 1..n : i < m => L(i - 1) + j <= L(m - 1)
    <3>. TAKE m \in 1..n
    <3>. HAVE i < m
    <3>1. L(i) <= L(m - 1) /\ L(m - 1) \in Nat
      BY <2>4
    <3>. QED
      BY <2>1, <2>2, <2>5, <3>1
  <2>7. L(i - 1) + j \in DOMAIN c[n] /\ c[n][L(i - 1) + j] = qs[i][j]
    <3>. DEFINE k == L(i - 1) + j
    <3>1. k \in 1..L(i) /\ c[i][k] = qs[i][j]
      BY <2>2
    <3>. HIDE DEF k
    <3>2. k \in 1..L(n)
      BY <1>11, <2>1, <2>3, <3>1
    <3>. QED
      BY <1>11, <2>3, <3>1, <3>2 DEF k
  <2>. QED
    BY <2>6, <2>7
<1>14. \A i \in 1..n : L(i - 1) \in Nat /\ L(i) \in Nat /\ L(i) = L(i - 1) + Len(qs[i])
  <2>. TAKE i \in 1..n
  <2>1. i - 1 \in 0..n /\ i \in 0..n
    BY <1>1
  <2>. QED
    BY <1>3, <1>4, <2>1
<1>. QED
  BY <1>11, <1>12, <1>13, <1>14 DEF L, n, Placed

\* The rules of the policies of a list, in a direction.
RuleLists(list, d) == [i \in DOMAIN list |-> RulesOf(list[i], d)]

\* They are lists of rules, none longer than a policy may be.
LEMMA RuleListsTyped ==
    ASSUME NEW list \in Seq(Bodies), NEW d \in Directions
    PROVE  /\ RuleLists(list, d) \in Seq(Seq(AllRules)) /\ Len(RuleLists(list, d)) = Len(list)
           /\ Len(list) \in Nat /\ DOMAIN list = 1..Len(list)
           /\ \A k \in 1..Len(list) :
                 /\ RuleLists(list, d)[k] = RulesOf(list[k], d) /\ Len(RuleLists(list, d)[k]) \in 0..MaxRules
                 /\ DOMAIN RuleLists(list, d)[k] = 1..Len(RuleLists(list, d)[k])
<1>. DEFINE n == Len(list)
            S == Seq(AllRules)
            R(k) == RulesOf(list[k], d)
<1>1. n \in Nat /\ DOMAIN list = 1..n /\ \A k \in 1..n : list[k] \in Bodies
  OBVIOUS
<1>2. \A k \in 1..n : R(k) \in S /\ Len(R(k)) \in 0..MaxRules
  BY <1>1, RulesTyped
<1>3. \A k \in 1..n : DOMAIN R(k) = 1..Len(R(k))
  BY <1>2
<1>4. RuleLists(list, d) = [k \in 1..n |-> R(k)]
  BY <1>1 DEF RuleLists
<1>. HIDE DEF n, S, R
<1>5. [k \in 1..n |-> R(k)] \in Seq(S) /\ Len([k \in 1..n |-> R(k)]) = n
  BY <1>1, <1>2
<1>. QED
  BY <1>1, <1>2, <1>3, <1>4, <1>5 DEF n, S, R

\* The priority of the first rule of a policy is the number of rules before it.
LEMMA OffsetIs ==
    ASSUME NEW list \in Seq(Bodies), NEW d \in Directions, NEW c \in Concatenations(AllRules, RuleLists(list, d)),
           NEW i \in 1..Len(list)
    PROVE  Offset(list, d, i) = Len(c[i - 1])
<1>. DEFINE n == i - 1
            R(k) == Len(RulesOf(list[k], d))
            Solves(f) == f = [k \in 0..n |-> IF k = 0 THEN 0 ELSE f[k - 1] + R(k)]
            L(k) == Len(c[k])
            counts == [k \in 0..n |-> L(k)]
<1>1. n \in Nat /\ \A k \in 1..n : k \in 1..Len(list) /\ k - 1 \in 0..n
  OBVIOUS
<1>2. /\ RuleLists(list, d) \in Seq(Seq(AllRules)) /\ Len(RuleLists(list, d)) = Len(list)
      /\ \A k \in 1..Len(list) : RuleLists(list, d)[k] = RulesOf(list[k], d)
  BY RuleListsTyped
<1>3. L(0) = 0 /\ \A k \in 1..n : L(k) = L(k - 1) + R(k)
  <2>1. c[0] = <<>>
    BY DEF Concatenations
  <2>2. \A k \in 1..Len(list) : L(k) = L(k - 1) + R(k)
    <3>1. Placed(AllRules, RuleLists(list, d), c)
      BY <1>2, ConcatenationPlaces
    <3>. QED
      BY <1>2, <3>1 DEF Placed
  <2>. QED
    BY <1>1, <2>1, <2>2
<1>4. Offset(list, d, i) = (CHOOSE f : Solves(f))[n]
  BY DEF Offset
<1>. HIDE DEF n, R, L
<1>5. Solves(counts)
  BY <1>1, <1>3
<1>. DEFINE f == CHOOSE f : Solves(f)
<1>6. Solves(f)
  <2>. HIDE DEF Solves, counts
  <2>. QED
    BY <1>5
<1>. HIDE DEF f
<1>. DEFINE T == {k \in 0..n : f[k] = L(k)}
<1>7. 0 \in T
  BY <1>1, <1>3, <1>6
<1>8. ASSUME NEW k \in 1..n, k - 1 \in T
      PROVE  k \in T
  <2>1. k \in 0..n /\ k # 0 /\ f[k - 1] = L(k - 1)
    BY <1>1, <1>8
  <2>2. f[k] = f[k - 1] + R(k)
    BY <1>6, <2>1
  <2>. QED
    BY <1>3, <2>1, <2>2
<1>9. \A k \in 0..n : k \in T
  <2>. HIDE DEF T
  <2>. QED
    BY <1>1, <1>7, <1>8, IntervalInduction
<1>10. f[n] = L(n)
  BY <1>1, <1>9
<1>. QED
  BY <1>4, <1>10 DEF f, L, n

\* Where the rules of the policies are in the chain of all of them: at their
\* priorities, in the order of the policies, and below the default.
LEMMA ChainPlaces ==
    ASSUME NEW list \in Seq(Bodies), NEW d \in Directions
    PROVE  /\ Len(Chain(list, d)) \in Nat /\ DOMAIN Chain(list, d) = 1..Len(Chain(list, d))
           /\ \A i \in DOMAIN list : Offset(list, d, i) \in Nat
           /\ \A i \in DOMAIN list : \A j \in DOMAIN RulesOf(list[i], d) :
                 /\ j \in Nat /\ j > 0
                 /\ Offset(list, d, i) + j \in DOMAIN Chain(list, d)
                 /\ Chain(list, d)[Offset(list, d, i) + j] = RulesOf(list[i], d)[j]
                 /\ \A m \in DOMAIN list : i < m => Offset(list, d, i) + j <= Offset(list, d, m)
           /\ \A k \in DOMAIN Chain(list, d) : \E i \in DOMAIN list : \E j \in DOMAIN RulesOf(list[i], d) : k = Offset(list, d, i) + j
           /\ Len(list) <= MaxRefs => Len(Chain(list, d)) <= LastPriority
<1>. DEFINE qs == RuleLists(list, d)
            n == Len(list)
<1>1. /\ qs \in Seq(Seq(AllRules)) /\ Len(qs) = n /\ n \in Nat /\ DOMAIN list = 1..n
      /\ \A k \in 1..n : qs[k] = RulesOf(list[k], d) /\ Len(qs[k]) \in 0..MaxRules /\ DOMAIN qs[k] = 1..Len(qs[k])
  BY RuleListsTyped
<1>2. Chain(list, d) = FlattenSeq(qs)
  BY DEF Chain, RuleLists
<1>3. PICK c : c \in Concatenations(AllRules, qs) /\ FlattenSeq(qs) = c[Len(qs)]
  <2>. HIDE DEF qs
  <2>. QED
    BY <1>1, FlattenIs
<1>. DEFINE chain == c[n]
            o(i) == Len(c[i - 1])
<1>4. Chain(list, d) = chain
  BY <1>1, <1>2, <1>3
<1>5. \A i \in 1..n : Offset(list, d, i) = o(i)
  BY <1>3, OffsetIs
<1>. HIDE DEF qs
<1>6. /\ c[Len(qs)] \in Seq(AllRules)
      /\ \A i \in 1..Len(qs) : Len(c[i - 1]) \in Nat /\ Len(c[i]) \in Nat /\ Len(c[i]) = Len(c[i - 1]) + Len(qs[i])
      /\ \A i \in 1..Len(qs) : \A j \in DOMAIN qs[i] :
            /\ Len(c[i - 1]) + j \in DOMAIN c[Len(qs)] /\ c[Len(qs)][Len(c[i - 1]) + j] = qs[i][j]
            /\ \A m \in 1..Len(qs) : i < m => Len(c[i - 1]) + j <= Len(c[m - 1])
      /\ \A k \in DOMAIN c[Len(qs)] : \E i \in 1..Len(qs) : \E j \in DOMAIN qs[i] : k = Len(c[i - 1]) + j
  <2>1. Placed(AllRules, qs, c)
    BY <1>1, <1>3, ConcatenationPlaces
  <2>. QED
    BY <2>1 DEF Placed
<1>7. chain \in Seq(AllRules) /\ Len(chain) \in Nat /\ DOMAIN chain = 1..Len(chain)
  <2>1. chain \in Seq(AllRules)
    BY <1>1, <1>6
  <2>. HIDE DEF chain
  <2>. QED
    BY ONLY <2>1
<1>8. \A i \in 1..n : o(i) \in Nat
  BY <1>1, <1>6
<1>9. \A i \in 1..n : \A j \in DOMAIN qs[i] :
            /\ o(i) + j \in DOMAIN chain /\ chain[o(i) + j] = qs[i][j]
            /\ \A m \in 1..n : i < m => o(i) + j <= o(m)
  BY <1>1, <1>6
<1>10. \A k \in DOMAIN chain : \E i \in 1..n : \E j \in DOMAIN qs[i] : k = o(i) + j
  <2>1. Len(qs) = n
    BY <1>1
  <2>2. \A k \in DOMAIN c[Len(qs)] : \E i \in 1..Len(qs) : \E j \in DOMAIN qs[i] : k = Len(c[i - 1]) + j
    BY <1>6, Zenon
  <2>. QED
    BY ONLY <2>1, <2>2, Zenon
<1>11. n <= MaxRefs => Len(chain) <= LastPriority
  <2>. DEFINE M == MaxRules
              T == {m \in 0..n : Len(c[m]) \in Nat /\ Len(c[m]) <= m * M}
  <2>1. M \in Nat /\ MaxRefs \in Nat /\ LastPriority \in Nat /\ MaxRefs * M <= LastPriority
    BY PriorityAssumption
  <2>2. c[0] = <<>>
    BY <1>3 DEF Concatenations
  <2>. HIDE DEF M
  <2>3. 0 \in T
    BY <1>1, <2>1, <2>2
  <2>4. ASSUME NEW m \in 1..n, m - 1 \in T
        PROVE  m \in T
    <3>1. Len(c[m]) \in Nat /\ Len(c[m]) = Len(c[m - 1]) + Len(qs[m]) /\ Len(qs[m]) \in 0..M
      BY <1>1, <1>6 DEF M
    <3>2. Len(c[m - 1]) \in Nat /\ Len(c[m - 1]) <= (m - 1) * M
      BY <2>4
    <3>3. (m - 1) * M + M = m * M /\ (m - 1) * M \in Int
      BY <1>1, <2>1
    <3>. DEFINE a == (m - 1) * M
                z == m * M
                y == Len(c[m])
    <3>4. a \in Int /\ a + M = z /\ Len(c[m - 1]) <= a
      BY <3>2, <3>3
    <3>. HIDE DEF a, z
    <3>5. y \in Nat /\ y <= z
      <4>1. \A w, v, s \in Nat : w <= a /\ v <= M /\ s = w + v => s <= z
        BY <2>1, <3>4
      <4>2. Len(qs[m]) \in Nat /\ Len(qs[m]) <= M
        BY <2>1, <3>1
      <4>. HIDE DEF y
      <4>3. y \in Nat /\ y = Len(c[m - 1]) + Len(qs[m])
        BY ONLY <3>1 DEF y
      <4>. QED
        BY ONLY <3>2, <3>4, <4>1, <4>2, <4>3
    <3>. HIDE DEF y
    <3>6. y \in Nat /\ y <= m * M
      BY <3>5 DEF z
    <3>. QED
      BY <1>1, <3>6 DEF y
  <2>5. \A m \in 0..n : m \in T
    <3>. HIDE DEF T
    <3>. QED
      BY <1>1, <2>3, <2>4, IntervalInduction
  <2>6. Len(chain) <= n * M
    BY <1>1, <2>5
  <2>7. n <= MaxRefs => n * M <= MaxRefs * M
    <3>. SUFFICES ASSUME n <= MaxRefs PROVE n * M <= MaxRefs * M
      OBVIOUS
    <3>. DEFINE K == MaxRefs
                e == K - n
    <3>1. e \in Nat /\ K = e + n
      BY <1>1, <2>1
    <3>. HIDE DEF e, K, n
    <3>2. e * M \in Nat /\ (e + n) * M = e * M + n * M /\ n * M \in Nat
      BY <1>1, <2>1, <3>1
    <3>. DEFINE a == e * M
                z == n * M
    <3>. HIDE DEF a, z
    <3>3. a \in Nat /\ z \in Nat /\ K * M = a + z
      BY <3>1, <3>2 DEF a, z
    <3>4. z <= K * M
      BY <3>3
    <3>. QED
      BY <3>4 DEF z, K
  <2>8. n * M \in Nat /\ MaxRefs * M \in Nat
    BY <1>1, <2>1
  <2>. HIDE DEF chain
  <2>. QED
    BY <1>7, <2>1, <2>6, <2>7, <2>8
<1>12. \A i \in 1..n : DOMAIN qs[i] = DOMAIN RulesOf(list[i], d) /\ \A j \in DOMAIN qs[i] : j \in Nat /\ j > 0
  BY <1>1
<1>. HIDE DEF chain, o
<1>13. \A i \in DOMAIN list : Offset(list, d, i) = o(i) /\ RulesOf(list[i], d) = qs[i]
  BY <1>1, <1>5
<1>14. \A i \in DOMAIN list : \A j \in DOMAIN RulesOf(list[i], d) :
            /\ j \in Nat /\ j > 0 /\ Offset(list, d, i) + j \in DOMAIN chain
            /\ chain[Offset(list, d, i) + j] = RulesOf(list[i], d)[j]
            /\ \A m \in DOMAIN list : i < m => Offset(list, d, i) + j <= Offset(list, d, m)
  <2>. TAKE i \in DOMAIN list
  <2>. TAKE j \in DOMAIN RulesOf(list[i], d)
  <2>1. i \in 1..n /\ j \in DOMAIN qs[i] /\ Offset(list, d, i) = o(i) /\ RulesOf(list[i], d) = qs[i]
    BY <1>1, <1>13
  <2>2. j \in Nat /\ j > 0 /\ o(i) + j \in DOMAIN chain /\ chain[o(i) + j] = qs[i][j]
    BY <1>9, <1>12, <2>1
  <2>3. \A m \in DOMAIN list : i < m => o(i) + j <= o(m)
    BY <1>1, <1>9, <2>1
  <2>4. \A m \in DOMAIN list : i < m => Offset(list, d, i) + j <= Offset(list, d, m)
    BY <1>13, <2>1, <2>3
  <2>. QED
    BY <2>1, <2>2, <2>4
<1>15. \A k \in DOMAIN chain : \E i \in DOMAIN list : \E j \in DOMAIN RulesOf(list[i], d) : k = Offset(list, d, i) + j
  <2>. TAKE k \in DOMAIN chain
  <2>1. PICK i \in 1..n : \E j \in DOMAIN qs[i] : k = o(i) + j
    BY <1>10
  <2>2. i \in DOMAIN list /\ Offset(list, d, i) = o(i) /\ RulesOf(list[i], d) = qs[i]
    BY <1>1, <1>13
  <2>3. \E j \in DOMAIN RulesOf(list[i], d) : k = Offset(list, d, i) + j
    BY <2>1, <2>2
  <2>. QED
    BY <2>2, <2>3
<1>16. \A i \in DOMAIN list : Offset(list, d, i) \in Nat
  BY <1>1, <1>8, <1>13
<1>. QED
  BY <1>4, <1>7, <1>11, <1>14, <1>15, <1>16

\* The smallest of some numbers is one of them and none is smaller.
LEMMA SmallestIs ==
    ASSUME NEW S, S \subseteq Nat, S # {}
    PROVE  Min(S) \in S /\ \A x \in S : Min(S) <= x
<1>. DEFINE R == {ss \in Nat \X Nat : ss[1] < ss[2]}
<1>1. IsWellFoundedOn(R, Nat)
  BY NatLessThanWellFounded DEF OpToRel
<1>2. \A i, j \in Nat : ~(<<j, i>> \in R) => i <= j
  OBVIOUS
<1>. HIDE DEF R
<1>3. PICK m \in S : \A y \in S : ~(<<y, m>> \in R)
  BY <1>1, WFMin
<1>4. \A y \in S : m <= y
  BY <1>2, <1>3
<1>. QED
  BY <1>4 DEF Min

\* assert_policies decides over TCP as the first matching rule of the chain does.
LEMMA TcpDecided ==
    ASSUME NEW list \in Seq(Bodies \cup {NoBody}), NEW p, p.dir \in Directions, p.proto = "TCP"
    PROVE  AssertPolicies(list, p) <=> Decides(list, p)
<1>1. CASE \E i \in DOMAIN list : list[i] = NoBody
  BY <1>1 DEF AssertPolicies, Decides
<1>2. CASE \A i \in DOMAIN list : list[i] # NoBody
  <2>. DEFINE d == p.dir
              R(i) == RulesOf(list[i], d)
              o(i) == Offset(list, d, i)
              chain == Chain(list, d)
              hits == {k \in DOMAIN chain : RuleMatches(chain[k], p)}
              conf == {i \in DOMAIN list : list[i] # NoBody /\ list[i][d] # NoRules}
              match == {i \in conf : FirstMatch(list[i][d], p) # {}}
  <2>1. list \in Seq(Bodies)
    BY <1>2
  <2>2. /\ Len(chain) \in Nat /\ DOMAIN chain = 1..Len(chain)
        /\ \A i \in DOMAIN list : o(i) \in Nat
        /\ \A i \in DOMAIN list : \A j \in DOMAIN R(i) :
              /\ j \in Nat /\ j > 0 /\ o(i) + j \in DOMAIN chain /\ chain[o(i) + j] = R(i)[j]
              /\ \A m \in DOMAIN list : i < m => o(i) + j <= o(m)
        /\ \A k \in DOMAIN chain : \E i \in DOMAIN list : \E j \in DOMAIN R(i) : k = o(i) + j
    BY <2>1, ChainPlaces
  <2>3. \A r : MatchesTcp(r, p) <=> RuleMatches(r, p)
    BY DEF MatchesTcp, RuleMatches
  <2>4. \A i \in conf : R(i) = list[i][d]
    BY DEF RulesOf
  <2>5. \A i \in DOMAIN list : i \notin conf => DOMAIN R(i) = {}
    BY <1>2 DEF RulesOf
  <2>6. AssertPolicies(list, p) <=> IF match = {} THEN conf = {}
                                   ELSE list[Min(match)][d][Min(FirstMatch(list[Min(match)][d], p))].action = "Allow"
    BY <1>2 DEF AssertPolicies
  <2>7. Decides(list, p) <=> IF hits # {} THEN chain[Min(hits)].action = "Allow" ELSE \A i \in DOMAIN list : list[i][d] = NoRules
    BY <1>2 DEF Decides
  <2>8. \A i \in conf : FirstMatch(list[i][d], p) = {j \in DOMAIN R(i) : RuleMatches(R(i)[j], p)}
    BY <2>3, <2>4 DEF FirstMatch
  <2>9. DOMAIN list \subseteq Nat
    BY <2>1
  <2>10. (\A i \in DOMAIN list : list[i][d] = NoRules) <=> conf = {}
    BY <1>2
  <2>11. conf \subseteq DOMAIN list
    OBVIOUS
  <2>. HIDE DEF d, R, o, chain, conf
  <2>12. \A k \in hits : \E i \in match : \E j \in FirstMatch(list[i][d], p) : k = o(i) + j
    <3>. TAKE k \in hits
    <3>0. PICK i \in DOMAIN list : \E j \in DOMAIN R(i) : k = o(i) + j
      BY <2>2
    <3>1. PICK j \in DOMAIN R(i) : k = o(i) + j
      BY <3>0
    <3>2. i \in conf /\ chain[k] = R(i)[j] /\ RuleMatches(R(i)[j], p)
      BY <2>2, <2>5, <3>1
    <3>3. j \in FirstMatch(list[i][d], p)
      BY <2>8, <3>1, <3>2
    <3>. QED
      BY <3>1, <3>2, <3>3
  <2>13. CASE match = {}
    <3>1. hits = {}
      BY <2>12, <2>13
    <3>. QED
      BY <2>6, <2>7, <2>10, <2>13, <3>1
  <2>14. CASE match # {}
    <3>. DEFINE i == Min(match)
                F == FirstMatch(list[i][d], p)
                j == Min(F)
    <3>1. match \subseteq Nat
      BY <2>9, <2>11
    <3>2. i \in match /\ \A m \in match : i <= m
      <4>. HIDE DEF match
      <4>. QED
        BY <2>14, <3>1, SmallestIs
    <3>. HIDE DEF i
    <3>3. i \in conf /\ F # {} /\ i \in DOMAIN list /\ F = {m \in DOMAIN R(i) : RuleMatches(R(i)[m], p)}
      BY <2>8, <2>11, <3>2
    <3>4. F \subseteq Nat
      BY <2>2, <3>3
    <3>5. j \in F /\ \A m \in F : j <= m
      <4>. HIDE DEF F
      <4>. QED
        BY <3>3, <3>4, SmallestIs
    <3>. HIDE DEF j
    <3>6. j \in DOMAIN R(i) /\ RuleMatches(R(i)[j], p) /\ j \in Nat /\ o(i) \in Nat
      BY <2>2, <3>3, <3>5
    <3>. DEFINE k == o(i) + j
    <3>7. k \in hits /\ chain[k] = R(i)[j] /\ k \in Nat
      BY <2>2, <3>3, <3>6
    <3>8. \A m \in hits : k <= m
      <4>. TAKE m \in hits
      <4>0. PICK x \in match : \E y \in FirstMatch(list[x][d], p) : m = o(x) + y
        BY <2>12
      <4>1. PICK y \in FirstMatch(list[x][d], p) : m = o(x) + y
        BY <4>0
      <4>2. x \in DOMAIN list /\ x \in conf /\ y \in DOMAIN R(x) /\ y \in Nat /\ y > 0 /\ o(x) \in Nat
        BY <2>2, <2>8, <2>11, <4>1
      <4>3. i <= x /\ i \in Nat /\ x \in Nat
        BY <2>9, <3>2, <3>3, <4>2
      <4>4. CASE x = i
        <5>1. j <= y
          BY <3>5, <4>1, <4>4
        <5>. QED
          BY <3>6, <4>1, <4>2, <4>4, <5>1
      <4>5. CASE x # i
        <5>1. i < x
          BY <4>3, <4>5
        <5>2. k <= o(x)
          BY <2>2, <3>3, <3>6, <4>2, <5>1
        <5>. QED
          BY <3>7, <4>1, <4>2, <5>2
      <4>. QED
        BY <4>4, <4>5
    <3>9. hits \subseteq Nat /\ hits # {}
      BY <2>2, <3>7
    <3>10. Min(hits) \in hits /\ \A m \in hits : Min(hits) <= m
      <4>. HIDE DEF hits
      <4>. QED
        BY <3>9, SmallestIs
    <3>. DEFINE h == Min(hits)
    <3>. HIDE DEF h
    <3>11. h \in hits /\ h <= k /\ k <= h /\ h \in Nat
      BY <3>7, <3>8, <3>9, <3>10 DEF h
    <3>12. h = k
      BY <3>7, <3>11
    <3>13. chain[Min(hits)] = R(i)[j] /\ R(i) = list[i][d]
      BY <2>4, <3>3, <3>7, <3>12 DEF h
    <3>14. Decides(list, p) <=> R(i)[j].action = "Allow"
      BY <2>7, <3>9, <3>13
    <3>15. AssertPolicies(list, p) <=> list[i][d][j].action = "Allow"
      BY <2>6, <2>14 DEF i, j
    <3>. QED
      BY <3>13, <3>14, <3>15
  <2>. QED
    BY <2>13, <2>14
<1>. QED
  BY <1>1, <1>2

\* A rule that netfilter keeps matches what the policy's rule does, and one that is
\* left out matches TCP only.
LEMMA KeptRulesMatch ==
    ASSUME NEW r \in AllRules, NEW p, p.proto # "TCP", NEW prio
    PROVE  Kept(r) /\ FirewallMatches(FirewallRule(r, p.dir, prio), p) <=> RuleMatches(r, p)
<1>. DEFINE f == FirewallRule(r, p.dir, prio)
<1>1. f.dir = p.dir /\ f.any = FALSE /\ f.src = r.src /\ f.groups = Groups(r)
  BY DEF FirewallRule
<1>. HIDE DEF f
<1>2. FirewallMatches(f, p) <=> p.src \in r.src /\ (Groups(r) = {} \/ \E g \in Groups(r) : g.proto \in {"NonTcp", p.proto} /\ p.port \in g.ports)
  BY <1>1 DEF FirewallMatches
<1>3. \A g \in r.ports : g = [proto |-> g.proto, ports |-> g.ports] /\ g.proto # "NonTcp"
  <2>1. PICK b \in Bodies, d \in Directions : r \in Range(RulesOf(b, d))
    BY DEF AllRules
  <2>2. CASE b[d] = NoRules
    <3>1. RulesOf(b, d) = <<>>
      BY <2>2 DEF RulesOf
    <3>2. r \in {}
      BY <2>1, <3>1 DEF Range
    <3>. QED
      BY <3>2
  <2>3. CASE b[d] # NoRules
    <3>1. r \in Range(b[d])
      BY <2>1, <2>3 DEF RulesOf
    <3>. QED
      BY <2>3, <3>1, PolicyStateAssumption
  <2>. QED
    BY <2>2, <2>3
<1>. DEFINE conv(g) == [g EXCEPT !.proto = IF @ = "ALL" THEN "NonTcp" ELSE @]
<1>4. Groups(r) = {conv(g) : g \in {g \in r.ports : g.proto # "TCP"}}
  BY DEF Groups
<1>5. ASSUME NEW g \in r.ports
      PROVE  conv(g).ports = g.ports /\ conv(g).proto = IF g.proto = "ALL" THEN "NonTcp" ELSE g.proto
  <2>1. PICK a, b : g = [proto |-> a, ports |-> b]
    BY <1>3, <1>5
  <2>. QED
    BY <2>1
<1>. HIDE DEF conv
<1>6. \A g \in r.ports : (conv(g).proto \in {"NonTcp", p.proto} <=> g.proto \in {"ALL", p.proto}) \/ g.proto = "TCP"
  BY <1>3, <1>5
<1>7. (\E g \in Groups(r) : g.proto \in {"NonTcp", p.proto} /\ p.port \in g.ports)
        <=> \E g \in r.ports : g.proto # "TCP" /\ g.proto \in {"ALL", p.proto} /\ p.port \in g.ports
  BY <1>4, <1>5, <1>6
<1>8. (\E g \in r.ports : g.proto # "TCP" /\ g.proto \in {"ALL", p.proto} /\ p.port \in g.ports)
        <=> \E g \in r.ports : g.proto \in {"ALL", p.proto} /\ p.port \in g.ports
  OBVIOUS
<1>9. r.ports = {} => Groups(r) = {}
  BY <1>4
<1>10. Kept(r) /\ FirewallMatches(f, p) <=> RuleMatches(r, p)
  BY <1>2, <1>7, <1>8, <1>9 DEF Kept, RuleMatches
<1>. QED
  BY <1>10 DEF f

\* The rules of a direction: those that are kept, at their priorities, and the
\* default.
LEMMA DirectionRulesAre ==
    ASSUME NEW list, NEW d, \A i \in DOMAIN list : list[i] # NoBody, NEW f
    PROVE  f \in DirectionRules(list, d) <=>
             \/ \E i \in {i \in DOMAIN list : list[i][d] # NoRules} : \E j \in DOMAIN list[i][d] :
                   Kept(list[i][d][j]) /\ f = FirewallRule(list[i][d][j], d, Offset(list, d, i) + j - 1)
             \/ {i \in DOMAIN list : list[i][d] # NoRules} # {} /\ f = NonTcpDeny(d)
<1>. DEFINE conf == Configured(list, d)
            K(i) == KeptRules(list[i][d], d, Offset(list, d, i))
            U == UNION {K(i) : i \in conf}
<1>1. DirectionRules(list, d) = U \cup (IF conf = {} THEN {} ELSE {NonTcpDeny(d)})
  BY DEF DirectionRules
<1>2. f \in U <=> \E i \in conf : f \in K(i)
  <2>. HIDE DEF conf, K
  <2>. QED
    OBVIOUS
<1>3. \A i : f \in K(i) <=> \E j \in DOMAIN list[i][d] :
                 Kept(list[i][d][j]) /\ f = FirewallRule(list[i][d][j], d, Offset(list, d, i) + j - 1)
  BY DEF KeptRules
<1>4. f \in DirectionRules(list, d) <=> f \in U \/ (conf # {} /\ f = NonTcpDeny(d))
  <2>. HIDE DEF U, conf
  <2>. QED
    BY <1>1
<1>. HIDE DEF U, K
<1>. QED
  BY <1>2, <1>3, <1>4 DEF Configured

\* The rules derived from policies decide over all other traffic as the first matching
\* rule of the chain does (firewall_rulesets).
LEMMA NonTcpDecided ==
    ASSUME NEW list \in Seq(Bodies \cup {NoBody}), Len(list) <= MaxRefs, NEW p, p.dir \in Directions, p.proto # "TCP"
    PROVE  FirewallPasses(FirewallRulesets(list), p) <=> Decides(list, p)
<1>. DEFINE d == p.dir
            D == DirectionRules(list, d)
            deny == NonTcpDeny(d)
            hit == {f \in FirewallRulesets(list) : FirewallMatches(f, p)}
<1>1. /\ \A e \in Directions : NonTcpDeny(e).dir = e
      /\ \A e \in Directions : \A r, prio : FirewallRule(r, e, prio).dir = e
  BY DEF NonTcpDeny, FirewallRule
<1>2. \A e \in Directions : \A f \in DirectionRules(list, e) : f.dir = e
  <2>. TAKE e \in Directions
  <2>. TAKE f \in DirectionRules(list, e)
  <2>1. CASE \E i \in DOMAIN list : list[i] = NoBody
    BY <1>1, <2>1 DEF DirectionRules
  <2>2. CASE \A i \in DOMAIN list : list[i] # NoBody
    BY <1>1, <2>2, DirectionRulesAre
  <2>. QED
    BY <2>1, <2>2
<1>3. hit = {f \in D : FirewallMatches(f, p)}
  <2>1. \A f \in FirewallRulesets(list) : f.dir = d => f \in D
    BY <1>2 DEF FirewallRulesets
  <2>2. D \subseteq FirewallRulesets(list)
    BY DEF FirewallRulesets
  <2>3. \A f : FirewallMatches(f, p) => f.dir = d
    BY DEF FirewallMatches
  <2>. HIDE DEF D
  <2>. QED
    BY <2>1, <2>2, <2>3
<1>4. deny.action = "Deny" /\ deny.prio = LastPriority /\ FirewallMatches(deny, p)
  BY DEF NonTcpDeny, FirewallMatches
<1>5. FirewallPasses(FirewallRulesets(list), p) <=>
        (hit = {} \/ \A f \in hit : (\A g \in hit : f.prio <= g.prio) => f.action = "Allow")
  BY DEF FirewallPasses
<1>6. LastPriority \in Nat
  BY PriorityAssumption
<1>. HIDE DEF deny
<1>7. CASE \E i \in DOMAIN list : list[i] = NoBody
  <2>1. D = {deny}
    BY <1>7 DEF DirectionRules, deny
  <2>2. hit = {deny}
    BY <1>3, <1>4, <2>1
  <2>3. ~FirewallPasses(FirewallRulesets(list), p)
    <3>. HIDE DEF hit
    <3>. QED
      BY <1>4, <1>5, <1>6, <2>2
  <2>4. ~Decides(list, p)
    BY <1>7 DEF Decides
  <2>. QED
    BY <2>3, <2>4
<1>8. CASE \A i \in DOMAIN list : list[i] # NoBody
  <2>. DEFINE R(i) == RulesOf(list[i], d)
              o(i) == Offset(list, d, i)
              chain == Chain(list, d)
              hits == {k \in DOMAIN chain : RuleMatches(chain[k], p)}
              conf == {i \in DOMAIN list : list[i][d] # NoRules}
              F(i, j) == FirewallRule(R(i)[j], d, o(i) + j - 1)
  <2>1. list \in Seq(Bodies)
    BY <1>8
  <2>2. /\ Len(chain) \in Nat /\ DOMAIN chain = 1..Len(chain) /\ Len(chain) <= LastPriority
        /\ \A i \in DOMAIN list : o(i) \in Nat
        /\ \A i \in DOMAIN list : \A j \in DOMAIN R(i) :
              /\ j \in Nat /\ j > 0 /\ o(i) + j \in DOMAIN chain /\ chain[o(i) + j] = R(i)[j]
        /\ \A k \in DOMAIN chain : \E i \in DOMAIN list : \E j \in DOMAIN R(i) : k = o(i) + j
    BY <2>1, ChainPlaces
  <2>3. \A i \in DOMAIN list : \A j \in DOMAIN R(i) : R(i)[j] \in AllRules
    <3>. TAKE i \in DOMAIN list
    <3>1. list[i] \in Bodies
      BY <2>1
    <3>2. R(i) \in Seq(AllRules)
      BY <3>1, RulesTyped
    <3>. HIDE DEF R
    <3>. QED
      BY <3>2
  <2>4. \A i \in conf : R(i) = list[i][d]
    BY DEF RulesOf
  <2>5. \A i \in DOMAIN list : i \notin conf => DOMAIN R(i) = {}
    BY DEF RulesOf
  <2>6. Decides(list, p) <=> IF hits # {} THEN chain[Min(hits)].action = "Allow" ELSE conf = {}
    BY <1>8 DEF Decides
  <2>7. \A f : f \in D <=> \/ \E i \in conf : \E j \in DOMAIN list[i][d] : Kept(list[i][d][j]) /\ f = FirewallRule(list[i][d][j], d, o(i) + j - 1)
                           \/ conf # {} /\ f = deny
    BY <1>8, DirectionRulesAre DEF deny
  <2>8. conf \subseteq DOMAIN list
    OBVIOUS
  <2>9. \A r, prio : FirewallRule(r, d, prio).prio = prio /\ FirewallRule(r, d, prio).action = r.action
    BY DEF FirewallRule
  <2>10. \A r \in AllRules : \A prio : Kept(r) /\ FirewallMatches(FirewallRule(r, d, prio), p) <=> RuleMatches(r, p)
    BY KeptRulesMatch
  <2>. HIDE DEF d, D, R, o, chain, conf
  <2>11. \A f \in hit : \/ \E k \in hits : f.prio = k - 1 /\ f.action = chain[k].action
                        \/ conf # {} /\ f = deny
    <3>. TAKE f \in hit
    <3>1. CASE conf # {} /\ f = deny
      BY <3>1
    <3>2. CASE ~(conf # {} /\ f = deny)
      <4>1. f \in D /\ FirewallMatches(f, p)
        BY <1>3
      <4>2. PICK i \in conf : \E j \in DOMAIN list[i][d] : Kept(list[i][d][j]) /\ f = FirewallRule(list[i][d][j], d, o(i) + j - 1)
        BY <2>7, <3>2, <4>1
      <4>3. PICK j \in DOMAIN R(i) : Kept(R(i)[j]) /\ f = FirewallRule(R(i)[j], d, o(i) + j - 1)
        BY <2>4, <4>2
      <4>4. i \in DOMAIN list /\ R(i)[j] \in AllRules
        BY <2>3, <2>8, <4>3
      <4>5. RuleMatches(R(i)[j], p)
        BY <2>10, <4>1, <4>3, <4>4
      <4>6. o(i) + j \in hits /\ chain[o(i) + j] = R(i)[j]
        BY <2>2, <4>3, <4>4, <4>5
      <4>7. f.prio = o(i) + j - 1 /\ f.action = R(i)[j].action
        BY <2>9, <4>3
      <4>. DEFINE k == o(i) + j
      <4>8. k \in hits /\ chain[k] = R(i)[j] /\ f.prio = k - 1
        BY <2>2, <4>4, <4>6, <4>7
      <4>. HIDE DEF k, hits
      <4>. QED
        BY <4>7, <4>8
    <3>. QED
      BY <3>1, <3>2
  <2>12. \A k \in hits : \E f \in hit : f.prio = k - 1 /\ f.action = chain[k].action
    <3>. TAKE k \in hits
    <3>1. PICK i \in DOMAIN list : \E j \in DOMAIN R(i) : k = o(i) + j
      BY <2>2
    <3>2. PICK j \in DOMAIN R(i) : k = o(i) + j
      BY <3>1
    <3>3. chain[k] = R(i)[j] /\ RuleMatches(R(i)[j], p) /\ R(i)[j] \in AllRules /\ i \in conf
      BY <2>2, <2>3, <2>5, <3>2
    <3>. DEFINE f == FirewallRule(R(i)[j], d, o(i) + j - 1)
    <3>4. Kept(R(i)[j]) /\ FirewallMatches(f, p)
      BY <2>10, <3>3
    <3>5. f.prio = k - 1 /\ f.action = chain[k].action
      <4>1. f.prio = o(i) + j - 1 /\ f.action = R(i)[j].action
        BY <2>9
      <4>. HIDE DEF f
      <4>. QED
        BY <2>2, <3>2, <3>3, <4>1
    <3>6. f \in D
      BY <2>4, <2>7, <3>2, <3>3, <3>4
    <3>. HIDE DEF f
    <3>7. f \in hit
      BY <1>3, <3>4, <3>6
    <3>. QED
      BY <3>5, <3>7
  <2>13. CASE hits = {}
    <3>1. CASE conf = {}
      <4>1. hit = {}
        BY <2>11, <2>13, <3>1
      <4>. QED
        BY <1>5, <2>6, <2>13, <3>1, <4>1
    <3>2. CASE conf # {}
      <4>1. deny \in D
        BY <2>7, <3>2
      <4>2. deny \in hit
        BY <1>3, <1>4, <4>1
      <4>3. \A f \in hit : f = deny
        BY <2>11, <2>13
      <4>. HIDE DEF hit
      <4>4. ~FirewallPasses(FirewallRulesets(list), p)
        BY <1>4, <1>5, <1>6, <4>2, <4>3
      <4>. QED
        BY <2>6, <2>13, <3>2, <4>4
    <3>. QED
      BY <3>1, <3>2
  <2>14. CASE hits # {}
    <3>1. hits \subseteq Nat /\ \A k \in hits : k <= LastPriority /\ k > 0
      BY <1>6, <2>2
    <3>. DEFINE h == Min(hits)
    <3>2. h \in hits /\ \A k \in hits : h <= k
      <4>. HIDE DEF hits
      <4>. QED
        BY <2>14, <3>1, SmallestIs
    <3>. HIDE DEF h, hit
    <3>3. h \in Nat /\ h > 0 /\ h <= LastPriority
      BY <3>1, <3>2
    <3>4. PICK first \in hit : first.prio = h - 1 /\ first.action = chain[h].action
      BY <2>12, <3>2
    <3>5. \A f \in hit : first.prio <= f.prio
      <4>. TAKE f \in hit
      <4>1. CASE f = deny
        BY <1>4, <1>6, <3>3, <3>4, <4>1
      <4>2. CASE f # deny
        <5>1. PICK k \in hits : f.prio = k - 1
          BY <2>11, <4>2
        <5>2. h <= k /\ k \in Nat
          BY <3>1, <3>2
        <5>. QED
          BY <3>3, <3>4, <5>1, <5>2
      <4>. QED
        BY <4>1, <4>2
    <3>6. ASSUME NEW f \in hit, \A g \in hit : f.prio <= g.prio
          PROVE  f.action = chain[h].action
      <4>1. f.prio <= h - 1
        BY <3>4, <3>6
      <4>2. f # deny
        BY <1>4, <1>6, <3>3, <4>1
      <4>3. PICK k \in hits : f.prio = k - 1 /\ f.action = chain[k].action
        BY <2>11, <4>2
      <4>4. k \in Nat /\ h <= k
        BY <3>1, <3>2
      <4>5. k = h
        BY <3>3, <4>1, <4>3, <4>4
      <4>. QED
        BY <4>3, <4>5
    <3>7. FirewallPasses(FirewallRulesets(list), p) <=> chain[h].action = "Allow"
      BY <1>5, <3>4, <3>5, <3>6
    <3>. QED
      BY <2>6, <2>14, <3>7 DEF h
  <2>. QED
    BY <2>13, <2>14
<1>. QED
  BY <1>7, <1>8

\* Both evaluators decide as the reference does in every state (assert_policies,
\* firewall_rulesets).
THEOREM EvaluatorsAlwaysAgree == PolicySpec => []EvaluatorsAgree
<1>1. ASSUME PolicyInv PROVE EvaluatorsAgree
  <2>. SUFFICES ASSUME NEW u \in Uids, NEW p \in Packets, workload[u] # NoResource
               PROVE  IF p.proto = "TCP"
                        THEN AssertPolicies(TrafficPolicies(u), p) = Decides(TrafficPolicies(u), p)
                        ELSE FirewallAllows(u, p) =
                               /\ Inline(FirstBound(u)) # NoBody => Decides(<<Inline(FirstBound(u))>>, p)
                               /\ Decides(TrafficPolicies(u), p)
    BY DEF EvaluatorsAgree
  <2>. DEFINE list == TrafficPolicies(u)
              inline == Inline(FirstBound(u))
  <2>1. /\ workload[u] \in RefLists /\ bound[u] \in Seq(SandboxIds) /\ sandbox \in [SandboxIds -> Sandboxes \cup {NoResource}]
        /\ policy \in [PolicyNames -> Bodies \cup {NoBody}]
        /\ \A s \in SandboxIds : (\E i \in DOMAIN bound[u] : bound[u][i] = s) <=> sandbox[s] # NoResource /\ sandbox[s].wl = u
    BY <1>1 DEF PolicyInv, PolicyTypeOK, IndexExact
  <2>2. MaxRefs \in Nat /\ MaxRefs >= 1 /\ p.dir \in Directions
    BY PriorityAssumption
  <2>3. list \in Seq(Bodies \cup {NoBody}) /\ Len(list) <= MaxRefs
    <3>1. CASE workload[u] = NoRefs
      <4>1. list = <<NoBody>>
        BY <3>1 DEF TrafficPolicies
      <4>. HIDE DEF list
      <4>. QED
        BY <2>2, <4>1
    <3>2. CASE workload[u] # NoRefs
      <4>. DEFINE refs == workload[u]
      <4>1. refs \in Seq(PolicyNames) /\ Len(refs) <= MaxRefs
        BY <2>1, <3>2, PolicyStateAssumption, PriorityAssumption
      <4>2. list = [i \in DOMAIN refs |-> policy[refs[i]]]
        BY <3>2 DEF TrafficPolicies
      <4>. HIDE DEF refs, list
      <4>3. Len(refs) \in Nat /\ DOMAIN refs = 1..Len(refs) /\ \A i \in 1..Len(refs) : policy[refs[i]] \in Bodies \cup {NoBody}
        BY <2>1, <4>1
      <4>4. list \in Seq(Bodies \cup {NoBody}) /\ Len(list) = Len(refs)
        BY <4>2, <4>3
      <4>. QED
        BY <4>1, <4>4
    <3>. QED
      BY <3>1, <3>2
  <2>4. inline \in Bodies \cup {NoBody}
    <3>1. CASE bound[u] = <<>>
      BY <3>1 DEF Inline, FirstBound
    <3>2. CASE bound[u] # <<>>
      <4>. DEFINE s == bound[u][1]
      <4>1. FirstBound(u) = s /\ s \in SandboxIds /\ 1 \in DOMAIN bound[u]
        BY <2>1, <3>2 DEF FirstBound
      <4>. HIDE DEF s
      <4>2. sandbox[s] \in Sandboxes /\ s # NoSandbox
        BY <2>1, <4>1, PolicyStateAssumption DEF s
      <4>. QED
        BY <4>1, <4>2 DEF Inline, Sandboxes
    <3>. QED
      BY <3>1, <3>2
  <2>. HIDE DEF list, inline
  <2>5. CASE p.proto = "TCP"
    <3>1. AssertPolicies(list, p) <=> Decides(list, p)
      BY <2>2, <2>3, <2>5, TcpDecided
    <3>2. AssertPolicies(list, p) \in BOOLEAN /\ Decides(list, p) \in BOOLEAN
      BY DEF AssertPolicies, Decides
    <3>. QED
      BY <2>5, <3>1, <3>2 DEF list
  <2>6. CASE p.proto # "TCP"
    <3>1. FirewallPasses(FirewallRulesets(list), p) <=> Decides(list, p)
      BY <2>2, <2>3, <2>6, NonTcpDecided
    <3>2. inline # NoBody => (FirewallPasses(FirewallRulesets(<<inline>>), p) <=> Decides(<<inline>>, p))
      <4>. DEFINE one == <<inline>>
      <4>1. one \in Seq(Bodies \cup {NoBody}) /\ Len(one) <= MaxRefs
        BY <2>2, <2>4
      <4>. HIDE DEF one
      <4>2. FirewallPasses(FirewallRulesets(one), p) <=> Decides(one, p)
        BY <2>2, <2>6, <4>1, NonTcpDecided
      <4>. QED
        BY <4>2 DEF one
    <3>3. FirewallAllows(u, p) <=> (/\ inline # NoBody => FirewallPasses(FirewallRulesets(<<inline>>), p)
                                   /\ FirewallPasses(FirewallRulesets(list), p))
      BY DEF FirewallAllows, list, inline
    <3>4. FirewallAllows(u, p) <=> (inline # NoBody => Decides(<<inline>>, p)) /\ Decides(list, p)
      BY ONLY <3>1, <3>2, <3>3
    <3>5. FirewallAllows(u, p) \in BOOLEAN
      BY DEF FirewallAllows
    <3>. QED
      BY <2>6, <3>4, <3>5 DEF list, inline
  <2>. QED
    BY <2>5, <2>6
<1>. QED
  BY <1>1, PolicyInvariant, PTL

\* A workload is judged by its own sandboxes and policies, in every state, by both
\* evaluators: PoliciesDecide (SandboxStore, assert_policies, firewall_rulesets).
THEOREM PoliciesDecideHolds == PolicySpec => []PoliciesDecide
  BY BindingIndexHolds, EvaluatorsAlwaysAgree, PTL DEF PoliciesDecide

-----------------------------------------------------------------------------
(* Services, their endpoints and their VIPs                                *)

StoredServices == [Services -> Service \cup {NoEntry}]
StagedEndpoints == [Services -> EndpointMaps]
VipIndices == [Vips -> VipEntries \cup {NoEntry}]

Stores == [service : StoredServices, staged : StagedEndpoints, byVip : VipIndices]

\* A VIP leads to the current version of a service that has it, and to the service
\* that has it unless services ever shared it.
VipExact(st, sh) ==
    \A v \in Vips :
        /\ st.byVip[v] # NoEntry => st.byVip[v].svc = st.service[st.byVip[v].host] /\ v \in st.byVip[v].svc.vips
        /\ v \notin sh => \A h \in Services : HasVip(st, h, v) => st.byVip[v] # NoEntry /\ st.byVip[v].host = h

ExactStores(sh) == {st \in Stores : VipExact(st, sh)}

\* The health with which a workload is an endpoint of a service.
Endpoint(st, h, u) == IF st.service[h] = NoEntry THEN NoEntry ELSE st.service[h].eps[u]

Healths == BOOLEAN \cup {NoEntry}

\* t has the services of st, with the same endpoints but for a workload.
SameBut(st, t, u) ==
    \A g \in Services :
        /\ t.service[g] = NoEntry <=> st.service[g] = NoEntry
        /\ st.service[g] # NoEntry => t.service[g].vips = st.service[g].vips /\ t.service[g].allowAll = st.service[g].allowAll
        /\ \A x \in WorkloadIds : x # u => Endpoint(t, g, x) = Endpoint(st, g, x) /\ t.staged[g][x] = st.staged[g][x]

\* NoEntry stands for no value.
LEMMA NoEntryIsNone == NoEntry \notin BOOLEAN /\ NoEntry \notin Workload /\ NoEntry \notin Service /\ NoEntry \notin VipEntries
  BY AddressAssumption

\* A new version of a service with other endpoints keeps the indices exact
\* (insert_internal).
LEMMA PutEndpointsSound ==
    ASSUME NEW sh, NEW st \in ExactStores(sh), NEW h \in Services, st.service[h] # NoEntry, NEW eps \in EndpointMaps
    PROVE  /\ Put(st, h, WithEndpoints(st.service[h], eps)) \in ExactStores(sh)
           /\ Put(st, h, WithEndpoints(st.service[h], eps)).staged = st.staged
           /\ Put(st, h, WithEndpoints(st.service[h], eps)).service[h] = WithEndpoints(st.service[h], eps)
           /\ \A g \in Services : g # h => Put(st, h, WithEndpoints(st.service[h], eps)).service[g] = st.service[g]
<1>. DEFINE old == st.service[h]
            new == WithEndpoints(old, eps)
            svc2 == [st.service EXCEPT ![h] = new]
            vip2 == [v \in Vips |-> IF v \in new.vips THEN [svc |-> new, host |-> h] ELSE st.byVip[v]]
            t == Put(st, h, new)
<1>1. st.service \in StoredServices /\ st.staged \in StagedEndpoints /\ st.byVip \in VipIndices /\ VipExact(st, sh)
  BY DEF ExactStores, Stores
<1>2. old \in Service
  BY <1>1 DEF StoredServices
<1>3. new \in Service /\ new.vips = old.vips /\ new # NoEntry
  BY <1>2, NoEntryIsNone DEF WithEndpoints, Service
<1>4. t = [service |-> svc2, staged |-> st.staged, byVip |-> vip2]
  BY DEF Put
<1>. HIDE DEF new
<1>5. svc2 \in StoredServices /\ svc2[h] = new /\ \A g \in Services : g # h => svc2[g] = st.service[g]
  BY <1>1, <1>3 DEF StoredServices
<1>6. vip2 \in VipIndices
  BY <1>1, <1>3 DEF VipIndices, VipEntries
<1>7. \A v \in Vips : IF v \in new.vips THEN vip2[v].svc = new /\ vip2[v].host = h /\ vip2[v] # NoEntry ELSE vip2[v] = st.byVip[v]
  <2>. TAKE v \in Vips
  <2>1. CASE v \in new.vips
    <3>1. vip2[v] = [svc |-> new, host |-> h]
      BY <2>1
    <3>2. vip2[v] \in VipEntries
      BY <1>3, <3>1 DEF VipEntries
    <3>. HIDE DEF vip2
    <3>. QED
      BY <2>1, <3>1, <3>2, NoEntryIsNone
  <2>2. CASE v \notin new.vips
    BY <2>2
  <2>. QED
    BY <2>1, <2>2
<1>. HIDE DEF svc2, vip2, t, old
<1>8. t.service = svc2 /\ t.staged = st.staged /\ t.byVip = vip2 /\ t \in Stores
  BY <1>1, <1>4, <1>5, <1>6 DEF Stores
<1>9. \A g \in Services, v \in Vips : HasVip(t, g, v) <=> HasVip(st, g, v)
  BY <1>3, <1>5, <1>8 DEF HasVip, old
<1>10. ASSUME NEW v \in Vips
       PROVE  /\ t.byVip[v] # NoEntry => t.byVip[v].svc = t.service[t.byVip[v].host] /\ v \in t.byVip[v].svc.vips
              /\ v \notin sh => \A g \in Services : HasVip(t, g, v) => t.byVip[v] # NoEntry /\ t.byVip[v].host = g
  <2>1. /\ st.byVip[v] # NoEntry => st.byVip[v].svc = st.service[st.byVip[v].host] /\ v \in st.byVip[v].svc.vips
        /\ v \notin sh => \A g \in Services : HasVip(st, g, v) => st.byVip[v] # NoEntry /\ st.byVip[v].host = g
    BY <1>1 DEF VipExact
  <2>2. CASE v \in new.vips
    <3>1. t.byVip[v].svc = new /\ t.byVip[v].host = h /\ t.byVip[v] # NoEntry /\ t.service[h] = new
      BY <1>5, <1>7, <1>8, <2>2
    <3>2. HasVip(st, h, v)
      BY <1>3, <2>2 DEF HasVip, old
    <3>3. v \notin sh => \A g \in Services : HasVip(st, g, v) => g = h
      BY <2>1, <3>2
    <3>. QED
      BY <1>9, <2>2, <3>1, <3>3
  <2>3. CASE v \notin new.vips
    <3>1. t.byVip[v] = st.byVip[v]
      BY <1>7, <1>8, <2>3
    <3>2. st.byVip[v] # NoEntry => st.byVip[v].host \in Services /\ st.byVip[v].host # h
      <4>. HAVE st.byVip[v] # NoEntry
      <4>1. st.byVip[v].host \in Services
        BY <1>1 DEF VipIndices, VipEntries
      <4>2. st.byVip[v].host = h => v \in old.vips
        BY <2>1 DEF old
      <4>. QED
        BY <1>3, <2>3, <4>1, <4>2
    <3>3. st.byVip[v] # NoEntry => t.service[st.byVip[v].host] = st.service[st.byVip[v].host]
      BY <1>5, <1>8, <3>2
    <3>. QED
      BY <1>9, <2>1, <3>1, <3>3
  <2>. QED
    BY <2>2, <2>3
<1>11. t \in ExactStores(sh)
  BY <1>8, <1>10 DEF ExactStores, VipExact
<1>. QED
  BY <1>5, <1>8, <1>11 DEF t, new, old

\* Staging endpoints for a service touches nothing else.
LEMMA StageSound ==
    ASSUME NEW sh, NEW st \in ExactStores(sh), NEW h \in Services, NEW eps \in EndpointMaps
    PROVE  /\ Stage(st, h, eps) \in ExactStores(sh)
           /\ Stage(st, h, eps).service = st.service /\ Stage(st, h, eps).byVip = st.byVip
           /\ Stage(st, h, eps).staged[h] = eps
           /\ \A g \in Services : g # h => Stage(st, h, eps).staged[g] = st.staged[g]
<1>. DEFINE sta2 == [st.staged EXCEPT ![h] = eps]
            t == Stage(st, h, eps)
<1>1. st.service \in StoredServices /\ st.staged \in StagedEndpoints /\ st.byVip \in VipIndices /\ VipExact(st, sh)
  BY DEF ExactStores, Stores
<1>2. t = [service |-> st.service, staged |-> sta2, byVip |-> st.byVip]
  BY DEF Stage
<1>3. sta2 \in StagedEndpoints /\ sta2[h] = eps /\ \A g \in Services : g # h => sta2[g] = st.staged[g]
  BY <1>1 DEF StagedEndpoints
<1>. HIDE DEF sta2, t
<1>4. t.service = st.service /\ t.staged = sta2 /\ t.byVip = st.byVip /\ t \in Stores
  BY <1>1, <1>2, <1>3 DEF Stores
<1>5. VipExact(t, sh)
  BY <1>1, <1>4 DEF VipExact, HasVip
<1>6. t \in ExactStores(sh)
  BY <1>4, <1>5 DEF ExactStores
<1>. QED
  BY <1>3, <1>4, <1>6 DEF t

\* A workload as an endpoint of a service that is there.
LEMMA PutEndpointSound ==
    ASSUME NEW sh, NEW st \in ExactStores(sh), NEW h \in Services, st.service[h] # NoEntry, NEW u \in WorkloadIds, NEW val \in Healths
    PROVE  /\ PutEndpoint(st, h, u, val) \in ExactStores(sh)
           /\ SameBut(st, PutEndpoint(st, h, u, val), u)
           /\ PutEndpoint(st, h, u, val).staged = st.staged
           /\ Endpoint(PutEndpoint(st, h, u, val), h, u) = val
           /\ \A g \in Services : g # h => Endpoint(PutEndpoint(st, h, u, val), g, u) = Endpoint(st, g, u)
<1>. DEFINE old == st.service[h]
            eps == [old.eps EXCEPT ![u] = val]
            new == WithEndpoints(old, eps)
            t == PutEndpoint(st, h, u, val)
<1>1. old \in Service
  BY DEF ExactStores, Stores, StoredServices
<1>2. old.eps \in EndpointMaps /\ old.allowAll \in BOOLEAN
  BY <1>1 DEF Service
<1>3. eps \in EndpointMaps /\ eps[u] = val /\ \A x \in WorkloadIds : x # u => eps[x] = old.eps[x]
  BY <1>2 DEF EndpointMaps, Healths
<1>4. t = Put(st, h, WithEndpoints(st.service[h], eps))
  BY DEF PutEndpoint
<1>. HIDE DEF eps
<1>5. t \in ExactStores(sh) /\ t.staged = st.staged /\ t.service[h] = new /\ \A g \in Services : g # h => t.service[g] = st.service[g]
  BY <1>3, <1>4, PutEndpointsSound
<1>6. new.vips = old.vips /\ new.allowAll = old.allowAll /\ new.eps = eps
  BY DEF WithEndpoints
<1>7. new # NoEntry
  <2>1. new \in Service
    BY <1>1, <1>2, <1>3 DEF WithEndpoints, Service
  <2>. QED
    BY <2>1, NoEntryIsNone
<1>. HIDE DEF t, new
<1>8. Endpoint(t, h, u) = val /\ \A x \in WorkloadIds : x # u => Endpoint(t, h, x) = Endpoint(st, h, x)
  BY <1>3, <1>5, <1>6, <1>7 DEF Endpoint
<1>9. \A g \in Services : g # h => \A x \in WorkloadIds : Endpoint(t, g, x) = Endpoint(st, g, x)
  BY <1>5 DEF Endpoint
<1>10. SameBut(st, t, u)
  BY <1>5, <1>6, <1>7, <1>8, <1>9 DEF SameBut
<1>. QED
  BY <1>5, <1>8, <1>9, <1>10 DEF t

\* A workload staged for a service.
LEMMA StageEndpointSound ==
    ASSUME NEW sh, NEW st \in ExactStores(sh), NEW h \in Services, NEW u \in WorkloadIds, NEW val \in Healths
    PROVE  /\ StageEndpoint(st, h, u, val) \in ExactStores(sh)
           /\ SameBut(st, StageEndpoint(st, h, u, val), u)
           /\ StageEndpoint(st, h, u, val).service = st.service
           /\ StageEndpoint(st, h, u, val).staged[h][u] = val
           /\ \A g \in Services : g # h => StageEndpoint(st, h, u, val).staged[g] = st.staged[g]
<1>. DEFINE eps == [st.staged[h] EXCEPT ![u] = val]
            t == StageEndpoint(st, h, u, val)
<1>1. st.staged[h] \in EndpointMaps
  BY DEF ExactStores, Stores, StagedEndpoints
<1>2. eps \in EndpointMaps /\ eps[u] = val /\ \A x \in WorkloadIds : x # u => eps[x] = st.staged[h][x]
  BY <1>1 DEF EndpointMaps, Healths
<1>3. t = Stage(st, h, eps)
  BY DEF StageEndpoint
<1>. HIDE DEF eps
<1>4. t \in ExactStores(sh) /\ t.service = st.service /\ t.staged[h] = eps /\ \A g \in Services : g # h => t.staged[g] = st.staged[g]
  BY <1>2, <1>3, StageSound
<1>. HIDE DEF t
<1>5. \A g \in Services, x \in WorkloadIds : Endpoint(t, g, x) = Endpoint(st, g, x)
  BY <1>4 DEF Endpoint
<1>6. SameBut(st, t, u)
  BY <1>2, <1>4, <1>5 DEF SameBut
<1>. QED
  BY <1>2, <1>4, <1>6 DEF t

\* One change after another is a change of the same workload's endpoints.
LEMMA SameButTransitive ==
    ASSUME NEW r, NEW s, NEW t, NEW u, SameBut(r, s, u), SameBut(s, t, u)
    PROVE  SameBut(r, t, u)
  BY DEF SameBut

\* No change is a change of nothing.
LEMMA SameButReflexive ==
    ASSUME NEW s, NEW u
    PROVE  SameBut(s, s, u)
  BY DEF SameBut

\* Taking a workload out of a service takes it out of what is staged too
\* (remove_endpoint).
LEMMA RemoveEndpointSound ==
    ASSUME NEW sh, NEW st \in ExactStores(sh), NEW h \in Services, NEW u \in WorkloadIds
    PROVE  /\ RemoveEndpoint(st, h, u) \in ExactStores(sh)
           /\ SameBut(st, RemoveEndpoint(st, h, u), u)
           /\ Endpoint(RemoveEndpoint(st, h, u), h, u) = NoEntry /\ RemoveEndpoint(st, h, u).staged[h][u] = NoEntry
           /\ \A g \in Services : g # h => /\ Endpoint(RemoveEndpoint(st, h, u), g, u) = Endpoint(st, g, u)
                                           /\ RemoveEndpoint(st, h, u).staged[g][u] = st.staged[g][u]
<1>. DEFINE s == StageEndpoint(st, h, u, NoEntry)
            t == RemoveEndpoint(st, h, u)
<1>1. NoEntry \in Healths
  BY DEF Healths
<1>2. /\ s \in ExactStores(sh) /\ SameBut(st, s, u) /\ s.service = st.service /\ s.staged[h][u] = NoEntry
      /\ \A g \in Services : g # h => s.staged[g] = st.staged[g]
  BY <1>1, StageEndpointSound
<1>3. t = IF st.service[h] = NoEntry THEN s ELSE PutEndpoint(s, h, u, NoEntry)
  BY DEF RemoveEndpoint
<1>. HIDE DEF s, t
<1>4. \A g \in Services : Endpoint(s, g, u) = Endpoint(st, g, u)
  BY <1>2 DEF Endpoint
<1>5. CASE st.service[h] = NoEntry
  <2>1. t = s
    BY <1>3, <1>5
  <2>2. Endpoint(t, h, u) = NoEntry
    BY <1>2, <1>5, <2>1 DEF Endpoint
  <2>. QED
    BY <1>2, <1>4, <2>1, <2>2 DEF t
<1>6. CASE st.service[h] # NoEntry
  <2>1. t = PutEndpoint(s, h, u, NoEntry) /\ s.service[h] # NoEntry
    BY <1>2, <1>3, <1>6
  <2>2. /\ t \in ExactStores(sh) /\ SameBut(s, t, u) /\ t.staged = s.staged /\ Endpoint(t, h, u) = NoEntry
        /\ \A g \in Services : g # h => Endpoint(t, g, u) = Endpoint(s, g, u)
    BY <1>1, <1>2, <2>1, PutEndpointSound
  <2>3. SameBut(st, t, u)
    BY <1>2, <2>2, SameButTransitive
  <2>. QED
    BY <1>2, <1>4, <2>2, <2>3 DEF t
<1>. QED
  BY <1>5, <1>6

\* What becomes of a workload with a health at a service: staged while there is no
\* service, an endpoint if the service takes it, else what it was (insert_endpoint).
JoinedAt(st, t, h, u, healthy) ==
    IF st.service[h] = NoEntry THEN t.staged[h][u] = healthy
    ELSE /\ t.staged[h][u] = st.staged[h][u]
         /\ Endpoint(t, h, u) = IF Includes(st.service[h], healthy) THEN healthy ELSE Endpoint(st, h, u)

\* A workload joins a service as insert_endpoint says, and no other.
LEMMA InsertEndpointSound ==
    ASSUME NEW sh, NEW st \in ExactStores(sh), NEW h \in Services, NEW u \in WorkloadIds, NEW healthy \in BOOLEAN
    PROVE  /\ InsertEndpoint(st, h, u, healthy) \in ExactStores(sh)
           /\ SameBut(st, InsertEndpoint(st, h, u, healthy), u)
           /\ JoinedAt(st, InsertEndpoint(st, h, u, healthy), h, u, healthy)
           /\ \A g \in Services : g # h => /\ Endpoint(InsertEndpoint(st, h, u, healthy), g, u) = Endpoint(st, g, u)
                                           /\ InsertEndpoint(st, h, u, healthy).staged[g][u] = st.staged[g][u]
<1>. DEFINE t == InsertEndpoint(st, h, u, healthy)
<1>1. healthy \in Healths
  BY DEF Healths
<1>2. CASE st.service[h] = NoEntry
  <2>1. t = StageEndpoint(st, h, u, healthy)
    BY <1>2 DEF InsertEndpoint
  <2>. HIDE DEF t
  <2>2. /\ t \in ExactStores(sh) /\ SameBut(st, t, u) /\ t.service = st.service /\ t.staged[h][u] = healthy
        /\ \A g \in Services : g # h => t.staged[g] = st.staged[g]
    BY <1>1, <2>1, StageEndpointSound
  <2>3. \A g \in Services : Endpoint(t, g, u) = Endpoint(st, g, u)
    BY <2>2 DEF Endpoint
  <2>4. JoinedAt(st, t, h, u, healthy)
    BY <1>2, <2>2 DEF JoinedAt
  <2>. QED
    BY <2>2, <2>3, <2>4 DEF t
<1>3. CASE st.service[h] # NoEntry /\ ~Includes(st.service[h], healthy)
  <2>1. t = st
    BY <1>3 DEF InsertEndpoint
  <2>. HIDE DEF t
  <2>2. SameBut(st, t, u) /\ JoinedAt(st, t, h, u, healthy)
    BY <1>3, <2>1, SameButReflexive DEF JoinedAt
  <2>. QED
    BY <2>1, <2>2 DEF t
<1>4. CASE st.service[h] # NoEntry /\ Includes(st.service[h], healthy)
  <2>1. t = PutEndpoint(st, h, u, healthy)
    BY <1>4 DEF InsertEndpoint
  <2>. HIDE DEF t
  <2>2. /\ t \in ExactStores(sh) /\ SameBut(st, t, u) /\ t.staged = st.staged /\ Endpoint(t, h, u) = healthy
        /\ \A g \in Services : g # h => Endpoint(t, g, u) = Endpoint(st, g, u)
    BY <1>1, <1>4, <2>1, PutEndpointSound
  <2>3. JoinedAt(st, t, h, u, healthy)
    BY <1>4, <2>2 DEF JoinedAt
  <2>. QED
    BY <2>2, <2>3 DEF t
<1>. QED
  BY <1>2, <1>3, <1>4

\* The members of a set in some order are a list of all of them.
LEMMA OrdersCover ==
    ASSUME NEW S, IsFiniteSet(S), NEW q \in SetToSeqs(S)
    PROVE  /\ q \in Seq(S) /\ \A x : x \in S <=> \E i \in 1..Len(q) : q[i] = x
           /\ \A i, j \in 1..Len(q) : q[i] = q[j] => i = j
<1>. DEFINE n == Cardinality(S)
<1>1. n \in Nat
  BY FS_CardinalityType
<1>2. q \in [1..n -> S] /\ \A i, j \in 1..n : i # j => q[i] # q[j]
  BY DEF SetToSeqs
<1>. HIDE DEF n
<1>3. q \in Seq(S) /\ Len(q) = n
  BY <1>1, <1>2
<1>4. q \in Injection(1..n, S)
  BY <1>2 DEF Injection, IsInjective
<1>5. Cardinality(1..n) = n
  <2>1. 1 \in Int /\ n \in Int
    BY <1>1
  <2>2. Cardinality(1..n) = IF 1 > n THEN 0 ELSE n - 1 + 1
    BY <2>1, FS_Interval
  <2>. QED
    BY <1>1, <2>2
<1>6. q \in Surjection(1..n, S)
  BY <1>4, <1>5, FS_Injection DEF n
<1>7. \A x \in S : \E i \in 1..n : q[i] = x
  BY <1>6 DEF Surjection
<1>. QED
  BY <1>2, <1>3, <1>7

\* What removing a workload from the services of an order does (Cleaned).
LEMMA CleanedSound ==
    ASSUME NEW sh, NEW st \in ExactStores(sh), NEW u \in WorkloadIds, NEW order \in Seq(Services)
    PROVE  /\ Cleaned(st, u, order) \in ExactStores(sh)
           /\ SameBut(st, Cleaned(st, u, order), u)
           /\ \A g \in Services :
                 IF \E k \in 1..Len(order) : order[k] = g
                 THEN Endpoint(Cleaned(st, u, order), g, u) = NoEntry /\ Cleaned(st, u, order).staged[g][u] = NoEntry
                 ELSE /\ Endpoint(Cleaned(st, u, order), g, u) = Endpoint(st, g, u)
                      /\ Cleaned(st, u, order).staged[g][u] = st.staged[g][u]
<1>. DEFINE n == Len(order)
            S == ExactStores(sh)
            Step(i, x) == RemoveEndpoint(x, order[i], u)
            step == [x \in (1..n) \X S |-> Step(x[1], x[2])]
            Solves(f) == f = [i \in 0..n |-> IF i = 0 THEN st ELSE Step(i, f[i - 1])]
<1>1. n \in Nat /\ \A i \in 1..n : order[i] \in Services
  OBVIOUS
<1>2. st \in S /\ \A i \in 1..n, x \in S : Step(i, x) \in S
  BY <1>1, RemoveEndpointSound
<1>3. Cleaned(st, u, order) = (CHOOSE f : Solves(f))[n]
  BY DEF Cleaned
<1>. HIDE DEF n, S, Step
<1>4. step \in StepsOn(n, S)
  BY <1>2 DEF StepsOn
<1>5. PICK run : run \in Runs(n, S, st, step)
  <2>. HIDE DEF step
  <2>. QED
    BY <1>1, <1>2, <1>4, RecursionExists
<1>6. \A i \in 1..n : run[i] = Step(i, run[i - 1])
  <2>. TAKE i \in 1..n
  <2>1. i - 1 \in 0..n
    BY <1>1
  <2>2. run[i - 1] \in S /\ run[i] = step[<<i, run[i - 1]>>]
    BY <1>5, <2>1 DEF Runs
  <2>. QED
    BY <2>2
<1>7. Solves(run)
  BY <1>1, <1>5, <1>6 DEF Runs
<1>. DEFINE f == CHOOSE f : Solves(f)
<1>8. Solves(f)
  <2>. HIDE DEF Solves
  <2>. QED
    BY <1>7
<1>. HIDE DEF f
<1>9. DOMAIN f = 0..n /\ f = [i \in 0..n |-> f[i]] /\ f[0] = st /\ \A i \in 1..n : f[i] = Step(i, f[i - 1])
  <2>1. f = [i \in 0..n |-> IF i = 0 THEN st ELSE Step(i, f[i - 1])]
    BY <1>8
  <2>2. DOMAIN f = 0..n /\ \A i \in 0..n : f[i] = IF i = 0 THEN st ELSE Step(i, f[i - 1])
    BY <2>1
  <2>3. f = [i \in 0..n |-> f[i]]
    BY <2>1, <2>2
  <2>. QED
    BY <1>1, <2>2, <2>3
<1>. HIDE DEF Solves
<1>10. f \in [0..n -> S]
  BY <1>1, <1>2, <1>9, RecursionTyped
<1>. DEFINE Done(i, t) == /\ t \in ExactStores(sh) /\ SameBut(st, t, u)
                          /\ \A g \in Services :
                                IF \E k \in 1..i : order[k] = g THEN Endpoint(t, g, u) = NoEntry /\ t.staged[g][u] = NoEntry
                                ELSE Endpoint(t, g, u) = Endpoint(st, g, u) /\ t.staged[g][u] = st.staged[g][u]
            T == {i \in 0..n : Done(i, f[i])}
<1>11. Done(0, st)
  BY SameButReflexive
<1>12. ASSUME NEW i \in 1..n, NEW s, Done(i - 1, s)
       PROVE  Done(i, Step(i, s))
  <2>. DEFINE h == order[i]
              t == RemoveEndpoint(s, h, u)
  <2>1. h \in Services /\ Step(i, s) = t
    BY <1>1 DEF Step
  <2>2. /\ t \in ExactStores(sh) /\ SameBut(s, t, u) /\ Endpoint(t, h, u) = NoEntry /\ t.staged[h][u] = NoEntry
        /\ \A g \in Services : g # h => Endpoint(t, g, u) = Endpoint(s, g, u) /\ t.staged[g][u] = s.staged[g][u]
    BY <1>12, <2>1, RemoveEndpointSound
  <2>. HIDE DEF t
  <2>3. SameBut(st, t, u)
    BY <1>12, <2>2, SameButTransitive
  <2>4. \A g : (\E k \in 1..i : order[k] = g) <=> g = h \/ \E k \in 1..(i - 1) : order[k] = g
    <3>1. i \in 1..i /\ (\A k \in 1..i : k = i \/ k \in 1..(i - 1)) /\ \A k \in 1..(i - 1) : k \in 1..i
      BY <1>1
    <3>. QED
      BY <3>1
  <2>. HIDE DEF h
  <2>5. \A g \in Services :
            IF \E k \in 1..i : order[k] = g THEN Endpoint(t, g, u) = NoEntry /\ t.staged[g][u] = NoEntry
            ELSE Endpoint(t, g, u) = Endpoint(st, g, u) /\ t.staged[g][u] = st.staged[g][u]
    <3>. TAKE g \in Services
    <3>1. CASE g = h
      BY <2>2, <2>4, <3>1
    <3>2. CASE g # h
      BY <1>12, <2>2, <2>4, <3>2
    <3>. QED
      BY <3>1, <3>2
  <2>. QED
    BY <2>1, <2>2, <2>3, <2>5
<1>. HIDE DEF Done
<1>13. 0 \in T /\ \A i \in 1..n : i - 1 \in T => i \in T
  <2>1. 0 \in T
    BY <1>1, <1>9, <1>11
  <2>2. ASSUME NEW i \in 1..n, i - 1 \in T PROVE i \in T
    <3>1. Done(i, Step(i, f[i - 1]))
      BY <1>12, <2>2
    <3>. QED
      BY <1>1, <1>9, <3>1
  <2>. QED
    BY <2>1, <2>2
<1>14. \A i \in 0..n : i \in T
  <2>. HIDE DEF T
  <2>. QED
    BY <1>1, <1>13, IntervalInduction
<1>15. Done(n, f[n])
  BY <1>1, <1>14
<1>. QED
  BY <1>3, <1>15 DEF Done, f, n

\* What adding it to the services of an order does (Joined).
LEMMA JoinedSound ==
    ASSUME NEW sh, NEW st \in ExactStores(sh), NEW u \in WorkloadIds, NEW healthy \in BOOLEAN, NEW order \in Seq(Services)
    PROVE  /\ Joined(st, u, healthy, order) \in ExactStores(sh)
           /\ SameBut(st, Joined(st, u, healthy, order), u)
           /\ \A g \in Services :
                 IF \E k \in 1..Len(order) : order[k] = g
                 THEN JoinedAt(st, Joined(st, u, healthy, order), g, u, healthy)
                 ELSE /\ Endpoint(Joined(st, u, healthy, order), g, u) = Endpoint(st, g, u)
                      /\ Joined(st, u, healthy, order).staged[g][u] = st.staged[g][u]
<1>. DEFINE n == Len(order)
            S == ExactStores(sh)
            Step(i, x) == InsertEndpoint(x, order[i], u, healthy)
            step == [x \in (1..n) \X S |-> Step(x[1], x[2])]
            Solves(f) == f = [i \in 0..n |-> IF i = 0 THEN st ELSE Step(i, f[i - 1])]
<1>1. n \in Nat /\ \A i \in 1..n : order[i] \in Services
  OBVIOUS
<1>2. st \in S /\ \A i \in 1..n, x \in S : Step(i, x) \in S
  BY <1>1, InsertEndpointSound
<1>3. Joined(st, u, healthy, order) = (CHOOSE f : Solves(f))[n]
  BY DEF Joined
<1>. HIDE DEF n, S, Step
<1>4. step \in StepsOn(n, S)
  BY <1>2 DEF StepsOn
<1>5. PICK run : run \in Runs(n, S, st, step)
  <2>. HIDE DEF step
  <2>. QED
    BY <1>1, <1>2, <1>4, RecursionExists
<1>6. \A i \in 1..n : run[i] = Step(i, run[i - 1])
  <2>. TAKE i \in 1..n
  <2>1. i - 1 \in 0..n
    BY <1>1
  <2>2. run[i - 1] \in S /\ run[i] = step[<<i, run[i - 1]>>]
    BY <1>5, <2>1 DEF Runs
  <2>. QED
    BY <2>2
<1>7. Solves(run)
  BY <1>1, <1>5, <1>6 DEF Runs
<1>. DEFINE f == CHOOSE f : Solves(f)
<1>8. Solves(f)
  <2>. HIDE DEF Solves
  <2>. QED
    BY <1>7
<1>. HIDE DEF f
<1>9. DOMAIN f = 0..n /\ f = [i \in 0..n |-> f[i]] /\ f[0] = st /\ \A i \in 1..n : f[i] = Step(i, f[i - 1])
  <2>1. f = [i \in 0..n |-> IF i = 0 THEN st ELSE Step(i, f[i - 1])]
    BY <1>8
  <2>2. DOMAIN f = 0..n /\ \A i \in 0..n : f[i] = IF i = 0 THEN st ELSE Step(i, f[i - 1])
    BY <2>1
  <2>3. f = [i \in 0..n |-> f[i]]
    BY <2>1, <2>2
  <2>. QED
    BY <1>1, <2>2, <2>3
<1>. HIDE DEF Solves
<1>10. f \in [0..n -> S]
  BY <1>1, <1>2, <1>9, RecursionTyped
<1>. DEFINE Done(i, t) == /\ t \in ExactStores(sh) /\ SameBut(st, t, u)
                          /\ \A g \in Services :
                                IF \E k \in 1..i : order[k] = g THEN JoinedAt(st, t, g, u, healthy)
                                ELSE Endpoint(t, g, u) = Endpoint(st, g, u) /\ t.staged[g][u] = st.staged[g][u]
            T == {i \in 0..n : Done(i, f[i])}
<1>11. Done(0, st)
  BY SameButReflexive
<1>12. ASSUME NEW i \in 1..n, NEW s, Done(i - 1, s)
       PROVE  Done(i, Step(i, s))
  <2>. DEFINE h == order[i]
              t == InsertEndpoint(s, h, u, healthy)
  <2>1. h \in Services /\ Step(i, s) = t
    BY <1>1 DEF Step
  <2>2. /\ t \in ExactStores(sh) /\ SameBut(s, t, u) /\ JoinedAt(s, t, h, u, healthy)
        /\ \A g \in Services : g # h => Endpoint(t, g, u) = Endpoint(s, g, u) /\ t.staged[g][u] = s.staged[g][u]
    BY <1>12, <2>1, InsertEndpointSound
  <2>. HIDE DEF t
  <2>3. SameBut(st, t, u)
    BY <1>12, <2>2, SameButTransitive
  <2>4. \A g : (\E k \in 1..i : order[k] = g) <=> g = h \/ \E k \in 1..(i - 1) : order[k] = g
    <3>1. i \in 1..i /\ (\A k \in 1..i : k = i \/ k \in 1..(i - 1)) /\ \A k \in 1..(i - 1) : k \in 1..i
      BY <1>1
    <3>. QED
      BY <3>1
  <2>. HIDE DEF h
  <2>5. \A g \in Services : /\ s.service[g] = NoEntry <=> st.service[g] = NoEntry
                            /\ st.service[g] # NoEntry => (Includes(s.service[g], healthy) <=> Includes(st.service[g], healthy))
    BY <1>12 DEF SameBut, Includes
  <2>6. \A g \in Services :
            IF \E k \in 1..i : order[k] = g THEN JoinedAt(st, t, g, u, healthy)
            ELSE Endpoint(t, g, u) = Endpoint(st, g, u) /\ t.staged[g][u] = st.staged[g][u]
    <3>. TAKE g \in Services
    <3>1. CASE g = h
      <4>1. JoinedAt(s, t, g, u, healthy)
        BY <2>2, <3>1
      <4>2. CASE \E k \in 1..(i - 1) : order[k] = g
        <5>1. JoinedAt(st, s, g, u, healthy)
          BY <1>12, <4>2
        <5>. QED
          BY <2>4, <2>5, <3>1, <4>1, <5>1 DEF JoinedAt
      <4>3. CASE ~ \E k \in 1..(i - 1) : order[k] = g
        <5>1. Endpoint(s, g, u) = Endpoint(st, g, u) /\ s.staged[g][u] = st.staged[g][u]
          BY <1>12, <4>3
        <5>. QED
          BY <2>4, <2>5, <3>1, <4>1, <5>1 DEF JoinedAt
      <4>. QED
        BY <4>2, <4>3
    <3>2. CASE g # h
      <4>1. Endpoint(t, g, u) = Endpoint(s, g, u) /\ t.staged[g][u] = s.staged[g][u]
        BY <2>2, <3>2
      <4>2. CASE \E k \in 1..(i - 1) : order[k] = g
        <5>1. JoinedAt(st, s, g, u, healthy)
          BY <1>12, <4>2
        <5>. QED
          BY <2>4, <4>1, <4>2, <5>1 DEF JoinedAt
      <4>3. CASE ~ \E k \in 1..(i - 1) : order[k] = g
        BY <1>12, <2>4, <3>2, <4>1, <4>3
      <4>. QED
        BY <4>2, <4>3
    <3>. QED
      BY <3>1, <3>2
  <2>. QED
    BY <2>1, <2>2, <2>3, <2>6
<1>. HIDE DEF Done
<1>13. 0 \in T /\ \A i \in 1..n : i - 1 \in T => i \in T
  <2>1. 0 \in T
    BY <1>1, <1>9, <1>11
  <2>2. ASSUME NEW i \in 1..n, i - 1 \in T PROVE i \in T
    <3>1. Done(i, Step(i, f[i - 1]))
      BY <1>12, <2>2
    <3>. QED
      BY <1>1, <1>9, <3>1
  <2>. QED
    BY <2>1, <2>2
<1>14. \A i \in 0..n : i \in T
  <2>. HIDE DEF T
  <2>. QED
    BY <1>1, <1>13, IntervalInduction
<1>15. Done(n, f[n])
  BY <1>1, <1>14
<1>. QED
  BY <1>3, <1>15 DEF Done, f, n

\* Removing a service takes its VIPs and what is staged for it along (remove).
LEMMA RemoveServiceSound ==
    ASSUME NEW sh, NEW st \in ExactStores(sh), NEW h \in Services
    PROVE  /\ RemoveService(st, h) \in ExactStores(sh)
           /\ RemoveService(st, h).service[h] = NoEntry
           /\ RemoveService(st, h).staged[h] = IF st.service[h] = NoEntry THEN st.staged[h] ELSE NoEndpoints
           /\ \A g \in Services : g # h => /\ RemoveService(st, h).service[g] = st.service[g]
                                           /\ RemoveService(st, h).staged[g] = st.staged[g]
<1>. DEFINE old == st.service[h]
            t == RemoveService(st, h)
<1>1. st.service \in StoredServices /\ st.staged \in StagedEndpoints /\ st.byVip \in VipIndices /\ VipExact(st, sh)
  BY DEF ExactStores, Stores
<1>2. CASE old = NoEntry
  <2>1. t = st
    BY <1>2 DEF RemoveService
  <2>. QED
    BY <1>2, <2>1
<1>3. CASE old # NoEntry
  <2>. DEFINE svc2 == [st.service EXCEPT ![h] = NoEntry]
              sta2 == [st.staged EXCEPT ![h] = NoEndpoints]
              vip2 == [v \in Vips |-> IF v \in old.vips THEN NoEntry ELSE st.byVip[v]]
  <2>1. t = [service |-> svc2, staged |-> sta2, byVip |-> vip2]
    BY <1>3 DEF RemoveService
  <2>2. NoEndpoints \in EndpointMaps
    BY DEF NoEndpoints, EndpointMaps
  <2>3. svc2 \in StoredServices /\ svc2[h] = NoEntry /\ \A g \in Services : g # h => svc2[g] = st.service[g]
    BY <1>1 DEF StoredServices
  <2>4. sta2 \in StagedEndpoints /\ sta2[h] = NoEndpoints /\ \A g \in Services : g # h => sta2[g] = st.staged[g]
    BY <1>1, <2>2 DEF StagedEndpoints
  <2>5. vip2 \in VipIndices /\ \A v \in Vips : vip2[v] = IF v \in old.vips THEN NoEntry ELSE st.byVip[v]
    BY <1>1 DEF VipIndices
  <2>. HIDE DEF svc2, sta2, vip2, t
  <2>6. t.service = svc2 /\ t.staged = sta2 /\ t.byVip = vip2 /\ t \in Stores
    BY <2>1, <2>3, <2>4, <2>5 DEF Stores
  <2>7. ASSUME NEW v \in Vips
        PROVE  /\ t.byVip[v] # NoEntry => t.byVip[v].svc = t.service[t.byVip[v].host] /\ v \in t.byVip[v].svc.vips
               /\ v \notin sh => \A g \in Services : HasVip(t, g, v) => t.byVip[v] # NoEntry /\ t.byVip[v].host = g
    <3>1. /\ st.byVip[v] # NoEntry => st.byVip[v].svc = st.service[st.byVip[v].host] /\ v \in st.byVip[v].svc.vips
          /\ v \notin sh => \A g \in Services : HasVip(st, g, v) => st.byVip[v] # NoEntry /\ st.byVip[v].host = g
      BY <1>1 DEF VipExact
    <3>2. \A g \in Services : HasVip(t, g, v) => g # h /\ HasVip(st, g, v)
      BY <2>3, <2>6 DEF HasVip
    <3>3. CASE v \in old.vips
      <4>1. t.byVip[v] = NoEntry
        BY <2>5, <2>6, <3>3
      <4>2. HasVip(st, h, v)
        BY <1>3, <3>3 DEF HasVip
      <4>. QED
        BY <3>1, <3>2, <4>1, <4>2
    <3>4. CASE v \notin old.vips
      <4>1. t.byVip[v] = st.byVip[v]
        BY <2>5, <2>6, <3>4
      <4>2. st.byVip[v] # NoEntry => st.byVip[v].host \in Services /\ st.byVip[v].host # h
        <5>. HAVE st.byVip[v] # NoEntry
        <5>1. st.byVip[v].host \in Services
          BY <1>1 DEF VipIndices, VipEntries
        <5>2. st.byVip[v].host = h => v \in old.vips
          BY <3>1
        <5>. QED
          BY <3>4, <5>1, <5>2
      <4>3. st.byVip[v] # NoEntry => t.service[st.byVip[v].host] = st.service[st.byVip[v].host]
        BY <2>3, <2>6, <4>2
      <4>. QED
        BY <3>1, <3>2, <4>1, <4>3
    <3>. QED
      BY <3>3, <3>4
  <2>8. t \in ExactStores(sh)
    BY <2>6, <2>7 DEF ExactStores, VipExact
  <2>. QED
    BY <1>3, <2>3, <2>4, <2>6, <2>8 DEF t
<1>. QED
  BY <1>2, <1>3

\* A service that was not there gets all its VIPs.
LEMMA PutNewSound ==
    ASSUME NEW sh, NEW st \in ExactStores(sh), NEW h \in Services, st.service[h] = NoEntry, NEW svc \in Service,
           NEW more, sh \subseteq more,
           \A v \in svc.vips, g \in Services : v \notin more /\ HasVip(st, g, v) => g = h
    PROVE  /\ Put(st, h, svc) \in ExactStores(more)
           /\ Put(st, h, svc).staged = st.staged
           /\ Put(st, h, svc).service[h] = svc
           /\ \A g \in Services : g # h => Put(st, h, svc).service[g] = st.service[g]
<1>. DEFINE svc2 == [st.service EXCEPT ![h] = svc]
            vip2 == [v \in Vips |-> IF v \in svc.vips THEN [svc |-> svc, host |-> h] ELSE st.byVip[v]]
            t == Put(st, h, svc)
<1>1. st.service \in StoredServices /\ st.staged \in StagedEndpoints /\ st.byVip \in VipIndices /\ VipExact(st, sh)
  BY DEF ExactStores, Stores
<1>2. t = [service |-> svc2, staged |-> st.staged, byVip |-> vip2]
  BY DEF Put
<1>3. svc2 \in StoredServices /\ svc2[h] = svc /\ \A g \in Services : g # h => svc2[g] = st.service[g]
  BY <1>1 DEF StoredServices
<1>4. vip2 \in VipIndices
  BY <1>1 DEF VipIndices, VipEntries
<1>5. \A v \in Vips : IF v \in svc.vips THEN vip2[v].svc = svc /\ vip2[v].host = h /\ vip2[v] # NoEntry ELSE vip2[v] = st.byVip[v]
  <2>. TAKE v \in Vips
  <2>1. CASE v \in svc.vips
    <3>1. vip2[v] = [svc |-> svc, host |-> h]
      BY <2>1
    <3>2. vip2[v] \in VipEntries
      BY <3>1 DEF VipEntries
    <3>. HIDE DEF vip2
    <3>. QED
      BY <2>1, <3>1, <3>2, NoEntryIsNone
  <2>2. CASE v \notin svc.vips
    BY <2>2
  <2>. QED
    BY <2>1, <2>2
<1>. HIDE DEF svc2, vip2, t
<1>6. t.service = svc2 /\ t.staged = st.staged /\ t.byVip = vip2 /\ t \in Stores
  BY <1>1, <1>2, <1>3, <1>4 DEF Stores
<1>7. ASSUME NEW v \in Vips
      PROVE  /\ t.byVip[v] # NoEntry => t.byVip[v].svc = t.service[t.byVip[v].host] /\ v \in t.byVip[v].svc.vips
             /\ v \notin more => \A g \in Services : HasVip(t, g, v) => t.byVip[v] # NoEntry /\ t.byVip[v].host = g
  <2>1. /\ st.byVip[v] # NoEntry => st.byVip[v].svc = st.service[st.byVip[v].host] /\ v \in st.byVip[v].svc.vips
        /\ v \notin sh => \A g \in Services : HasVip(st, g, v) => st.byVip[v] # NoEntry /\ st.byVip[v].host = g
    BY <1>1 DEF VipExact
  <2>2. \A g \in Services : g # h => (HasVip(t, g, v) <=> HasVip(st, g, v))
    BY <1>3, <1>6 DEF HasVip
  <2>3. CASE v \in svc.vips
    <3>1. t.byVip[v].svc = svc /\ t.byVip[v].host = h /\ t.byVip[v] # NoEntry /\ t.service[h] = svc
      BY <1>3, <1>5, <1>6, <2>3
    <3>2. v \notin more => \A g \in Services : HasVip(t, g, v) => g = h
      BY <2>2, <2>3
    <3>. QED
      BY <2>3, <3>1, <3>2
  <2>4. CASE v \notin svc.vips
    <3>1. t.byVip[v] = st.byVip[v] /\ ~HasVip(t, h, v)
      BY <1>3, <1>5, <1>6, <2>4 DEF HasVip
    <3>2. st.byVip[v] # NoEntry => st.byVip[v].host \in Services /\ st.byVip[v].host # h
      <4>. HAVE st.byVip[v] # NoEntry
      <4>1. st.byVip[v] \in VipEntries
        BY <1>1 DEF VipIndices
      <4>2. st.byVip[v].host \in Services /\ st.byVip[v].svc \in Service
        BY <4>1 DEF VipEntries
      <4>3. st.byVip[v].svc # NoEntry
        BY <4>2, NoEntryIsNone
      <4>. QED
        BY <2>1, <4>2, <4>3
    <3>3. st.byVip[v] # NoEntry => t.service[st.byVip[v].host] = st.service[st.byVip[v].host]
      BY <1>3, <1>6, <3>2
    <3>4. v \notin more => v \notin sh
      OBVIOUS
    <3>. QED
      BY <2>1, <2>2, <3>1, <3>3, <3>4
  <2>. QED
    BY <2>3, <2>4
<1>8. t \in ExactStores(more)
  BY <1>6, <1>7 DEF ExactStores, VipExact
<1>. QED
  BY <1>3, <1>6, <1>8 DEF t

\* A service with its staged endpoints replaces the previous one (insert).
LEMMA InsertSound ==
    ASSUME NEW sh, NEW st \in ExactStores(sh), NEW h \in Services, NEW svc \in Service, NEW more, sh \subseteq more,
           \A v \in svc.vips, g \in Services : v \notin more /\ HasVip(st, g, v) => g = h
    PROVE  /\ Insert(st, h, svc) \in ExactStores(more)
           /\ Insert(st, h, svc).service[h] = TakeStaged(svc, st.staged[h])
           /\ Insert(st, h, svc).staged[h] = NoEndpoints
           /\ \A g \in Services : g # h => /\ Insert(st, h, svc).service[g] = st.service[g]
                                           /\ Insert(st, h, svc).staged[g] = st.staged[g]
<1>. DEFINE a == Stage(st, h, NoEndpoints)
            b == RemoveService(a, h)
            full == TakeStaged(svc, st.staged[h])
            t == Insert(st, h, svc)
<1>1. NoEndpoints \in EndpointMaps
  BY DEF NoEndpoints, EndpointMaps
<1>2. a \in ExactStores(sh) /\ a.service = st.service /\ a.staged[h] = NoEndpoints /\ \A g \in Services : g # h => a.staged[g] = st.staged[g]
  BY <1>1, StageSound
<1>. HIDE DEF a
<1>3. /\ b \in ExactStores(sh) /\ b.service[h] = NoEntry /\ b.staged[h] = NoEndpoints
      /\ \A g \in Services : g # h => b.service[g] = a.service[g] /\ b.staged[g] = a.staged[g]
  BY <1>2, RemoveServiceSound
<1>4. full \in Service /\ full.vips = svc.vips
  <2>1. st.staged[h] \in EndpointMaps
    BY DEF ExactStores, Stores, StagedEndpoints
  <2>2. svc.vips \in SUBSET Vips /\ svc.allowAll \in BOOLEAN /\ svc.eps \in EndpointMaps
    BY DEF Service
  <2>. DEFINE eps == [u \in WorkloadIds |-> IF Includes(svc, st.staged[h][u]) THEN st.staged[h][u] ELSE svc.eps[u]]
  <2>3. eps \in EndpointMaps
    BY <2>1, <2>2 DEF EndpointMaps
  <2>4. full = [vips |-> svc.vips, allowAll |-> svc.allowAll, eps |-> eps]
    BY DEF TakeStaged, WithEndpoints
  <2>. HIDE DEF eps, full
  <2>. QED
    BY <2>2, <2>3, <2>4 DEF Service
<1>5. t = Put(b, h, full)
  BY DEF Insert, a
<1>. HIDE DEF b, full, t
<1>6. \A v \in full.vips, g \in Services : v \notin more /\ HasVip(b, g, v) => g = h
  BY <1>2, <1>3, <1>4 DEF HasVip
<1>7. t \in ExactStores(more) /\ t.staged = b.staged /\ t.service[h] = full /\ \A g \in Services : g # h => t.service[g] = b.service[g]
  BY <1>3, <1>4, <1>5, <1>6, PutNewSound
<1>. QED
  BY <1>2, <1>3, <1>7 DEF t, full

\* VIPs that services of a file share.
SharedInFile(c) ==
    {v \in Vips : \E g, h \in Services : /\ g # h /\ c.service[g] # NoEntry /\ v \in c.service[g].vips
                                         /\ c.service[h] # NoEntry /\ v \in c.service[h].vips}

\* A service of a file with the endpoints staged for it.
FromFile(c, h) == TakeStaged(Carried(NoEntry, c.service[h]), Staging(c).staged[h])

\* The version of a service that carries endpoints over has what the new one says.
LEMMA CarriedTyped ==
    ASSUME NEW old \in Service \cup {NoEntry}, NEW v \in [vips : SUBSET Vips, allowAll : BOOLEAN]
    PROVE  Carried(old, v) \in Service /\ Carried(old, v).vips = v.vips /\ Carried(old, v).allowAll = v.allowAll
<1>. DEFINE eps == IF old = NoEntry THEN NoEndpoints ELSE Filtered(v, old.eps)
<1>1. NoEndpoints \in EndpointMaps
  BY DEF NoEndpoints, EndpointMaps
<1>2. old # NoEntry => Filtered(v, old.eps) \in EndpointMaps
  <2>. HAVE old # NoEntry
  <2>1. old.eps \in EndpointMaps
    BY DEF Service
  <2>. QED
    BY <2>1 DEF Filtered, EndpointMaps
<1>3. eps \in EndpointMaps
  BY <1>1, <1>2
<1>4. Carried(old, v) = [vips |-> v.vips, allowAll |-> v.allowAll, eps |-> eps]
  BY DEF Carried, WithEndpoints
<1>. HIDE DEF eps
<1>. QED
  BY <1>3, <1>4 DEF Service

\* The workloads of a file are staged for the services they list (load_config).
LEMMA StagingSound ==
    ASSUME NEW c \in AddressFiles, NEW sh
    PROVE  /\ Staging(c) \in ExactStores(sh)
           /\ \A h \in Services : Staging(c).service[h] = NoEntry
           /\ \A h \in Services, u \in WorkloadIds : Staging(c).staged[h][u] = IF u \in Listing(c, h) THEN c.workload[u].healthy ELSE NoEntry
<1>. DEFINE svc == [h \in Services |-> NoEntry]
            sta == [h \in Services |-> [u \in WorkloadIds |-> IF u \in Listing(c, h) THEN c.workload[u].healthy ELSE NoEntry]]
            vip == [v \in Vips |-> NoEntry]
            t == Staging(c)
<1>1. t = [service |-> svc, staged |-> sta, byVip |-> vip]
  BY DEF Staging, EmptyStore
<1>2. svc \in StoredServices /\ (\A h \in Services : svc[h] = NoEntry) /\ vip \in VipIndices /\ \A v \in Vips : vip[v] = NoEntry
  BY DEF StoredServices, VipIndices
<1>3. \A h \in Services : \A u \in Listing(c, h) : c.workload[u].healthy \in BOOLEAN
  <2>. TAKE h \in Services
  <2>. TAKE u \in Listing(c, h)
  <2>1. u \in WorkloadIds /\ c.workload[u] # NoEntry
    BY DEF Listing
  <2>2. c.workload[u] \in Workload
    BY <2>1, AddressAssumption
  <2>. QED
    BY <2>2 DEF Workload
<1>4. sta \in StagedEndpoints /\ \A h \in Services, u \in WorkloadIds : sta[h][u] = IF u \in Listing(c, h) THEN c.workload[u].healthy ELSE NoEntry
  BY <1>3 DEF StagedEndpoints, EndpointMaps
<1>. HIDE DEF svc, sta, vip, t
<1>5. t.service = svc /\ t.staged = sta /\ t.byVip = vip /\ t \in Stores
  BY <1>1, <1>2, <1>4 DEF Stores
<1>6. VipExact(t, sh)
  BY <1>2, <1>5 DEF VipExact, HasVip
<1>7. t \in ExactStores(sh)
  BY <1>5, <1>6 DEF ExactStores
<1>. QED
  BY <1>2, <1>4, <1>5, <1>7 DEF t

\* The store read from a file: each of its services once, with what was staged for it,
\* and what was staged for others (load_config).
LEMMA ReadServicesSound ==
    ASSUME NEW c \in AddressFiles, NEW order \in Seq({h \in Services : c.service[h] # NoEntry}),
           \A i, j \in 1..Len(order) : order[i] = order[j] => i = j
    PROVE  /\ ReadServices(c, order) \in ExactStores(SharedInFile(c))
           /\ \A g \in Services :
                 IF \E k \in 1..Len(order) : order[k] = g
                 THEN ReadServices(c, order).service[g] = FromFile(c, g) /\ ReadServices(c, order).staged[g] = NoEndpoints
                 ELSE ReadServices(c, order).service[g] = NoEntry /\ ReadServices(c, order).staged[g] = Staging(c).staged[g]
<1>. DEFINE n == Len(order)
            sh == SharedInFile(c)
            s0 == Staging(c)
            V(h) == c.service[h]
            Plain(h) == Carried(NoEntry, V(h))
            Done(i, t) == /\ t \in ExactStores(sh)
                          /\ \A g \in Services :
                                IF \E k \in 1..i : order[k] = g THEN t.service[g] = FromFile(c, g) /\ t.staged[g] = NoEndpoints
                                ELSE t.service[g] = NoEntry /\ t.staged[g] = s0.staged[g]
            Step(i, x) == Insert(x, order[i], Plain(order[i]))
            Solves(f) == f = [i \in 0..n |-> IF i = 0 THEN s0 ELSE Step(i, f[i - 1])]
<1>1. n \in Nat /\ \A i \in 1..n : order[i] \in Services /\ V(order[i]) # NoEntry
  OBVIOUS
<1>2. \A h \in Services : V(h) # NoEntry => V(h) \in [vips : SUBSET Vips, allowAll : BOOLEAN]
  BY AddressAssumption
<1>3. \A h \in Services : V(h) # NoEntry => Plain(h) \in Service /\ Plain(h).vips = V(h).vips
  BY <1>2, CarriedTyped
<1>4. \A h \in Services : FromFile(c, h) = TakeStaged(Plain(h), s0.staged[h]) /\ FromFile(c, h).vips = Plain(h).vips
  BY DEF FromFile, TakeStaged, WithEndpoints
<1>5. s0 \in ExactStores(sh) /\ \A h \in Services : s0.service[h] = NoEntry
  BY StagingSound
<1>6. ReadServices(c, order) = (CHOOSE f : Solves(f))[n]
  BY DEF ReadServices
<1>. HIDE DEF s0, Plain, V
<1>7. Done(0, s0)
  BY <1>5
<1>8. \A v \in Vips : v \notin sh => \A g, h \in Services : V(g) # NoEntry /\ v \in V(g).vips /\ V(h) # NoEntry /\ v \in V(h).vips => g = h
  BY DEF SharedInFile, V
<1>. HIDE DEF sh
<1>9. ASSUME NEW i \in 1..n, NEW s, Done(i - 1, s)
      PROVE  Done(i, Step(i, s))
  <2>. DEFINE h == order[i]
              svc == Plain(h)
              t == Insert(s, h, svc)
  <2>1. h \in Services /\ V(h) # NoEntry /\ svc \in Service /\ svc.vips = V(h).vips /\ svc.vips \subseteq Vips
    <3>1. h \in Services /\ V(h) # NoEntry
      BY <1>1
    <3>2. svc \in Service /\ svc.vips = V(h).vips
      BY <1>3, <3>1
    <3>. QED
      BY <3>1, <3>2 DEF Service
  <2>2. \A g : (\E k \in 1..i : order[k] = g) <=> g = h \/ \E k \in 1..(i - 1) : order[k] = g
    <3>1. i \in 1..i /\ (\A k \in 1..i : k = i \/ k \in 1..(i - 1)) /\ \A k \in 1..(i - 1) : k \in 1..i
      BY <1>1
    <3>. QED
      BY <3>1
  <2>3. ~ \E k \in 1..(i - 1) : order[k] = h
    <3>1. \A k \in 1..(i - 1) : k \in 1..n /\ k # i
      BY <1>1
    <3>. QED
      BY <3>1
  <2>4. s.service[h] = NoEntry /\ s.staged[h] = s0.staged[h]
    BY <1>9, <2>1, <2>3
  <2>5. \A g \in Services, v \in Vips : HasVip(s, g, v) => V(g) # NoEntry /\ v \in V(g).vips
    <3>. TAKE g \in Services, v \in Vips
    <3>. HAVE HasVip(s, g, v)
    <3>1. \E k \in 1..(i - 1) : order[k] = g
      BY <1>9 DEF HasVip
    <3>2. s.service[g] = FromFile(c, g) /\ V(g) # NoEntry
      <4>1. PICK k \in 1..(i - 1) : order[k] = g
        BY <3>1
      <4>2. k \in 1..n
        BY <1>1
      <4>. QED
        BY <1>1, <1>9, <3>1, <4>1, <4>2
    <3>. QED
      BY <1>3, <1>4, <3>2 DEF HasVip
  <2>6. \A v \in svc.vips, g \in Services : v \notin sh /\ HasVip(s, g, v) => g = h
    BY <1>8, <2>1, <2>5
  <2>. HIDE DEF svc
  <2>7. /\ t \in ExactStores(sh) /\ t.service[h] = TakeStaged(svc, s.staged[h]) /\ t.staged[h] = NoEndpoints
        /\ \A g \in Services : g # h => t.service[g] = s.service[g] /\ t.staged[g] = s.staged[g]
    BY <1>9, <2>1, <2>6, InsertSound
  <2>8. t.service[h] = FromFile(c, h)
    BY <1>4, <2>1, <2>4, <2>7 DEF svc
  <2>. HIDE DEF t, h
  <2>9. \A g \in Services :
            IF \E k \in 1..i : order[k] = g THEN t.service[g] = FromFile(c, g) /\ t.staged[g] = NoEndpoints
            ELSE t.service[g] = NoEntry /\ t.staged[g] = s0.staged[g]
    <3>. TAKE g \in Services
    <3>1. CASE g = h
      BY <2>2, <2>7, <2>8, <3>1
    <3>2. CASE g # h
      BY <1>9, <2>2, <2>7, <3>2
    <3>. QED
      BY <3>1, <3>2
  <2>10. Step(i, s) = t
    BY DEF t, h, svc
  <2>. QED
    BY <2>7, <2>9, <2>10
<1>. DEFINE AllSteps == [x \in (1..n) \X Stores |-> IF Step(x[1], x[2]) \in Stores THEN Step(x[1], x[2]) ELSE s0]
<1>10. s0 \in Stores /\ \A i \in 0..n : \A s : Done(i, s) => s \in Stores
  BY <1>5 DEF ExactStores
<1>. HIDE DEF n, Done, Step
<1>11. AllSteps \in StepsOn(n, Stores)
  BY <1>10 DEF StepsOn
<1>12. PICK run : run \in Runs(n, Stores, s0, AllSteps)
  <2>. HIDE DEF AllSteps
  <2>. QED
    BY <1>1, <1>10, <1>11, RecursionExists
<1>. DEFINE T == {i \in 0..n : Done(i, run[i])}
<1>13. run[0] = s0 /\ 0 \in T
  <2>1. run[0] = s0
    BY <1>12 DEF Runs
  <2>. QED
    BY <1>1, <1>7, <2>1
<1>14. ASSUME NEW i \in 1..n, i - 1 \in T
       PROVE  i \in T /\ run[i] = Step(i, run[i - 1])
  <2>1. Done(i, Step(i, run[i - 1])) /\ i - 1 \in 0..n /\ i \in 0..n
    BY <1>1, <1>9, <1>14
  <2>2. Step(i, run[i - 1]) \in Stores /\ run[i - 1] \in Stores /\ run[i] = AllSteps[<<i, run[i - 1]>>]
    BY <1>10, <1>12, <2>1 DEF Runs
  <2>3. run[i] = Step(i, run[i - 1])
    BY <2>2
  <2>. QED
    BY <2>1, <2>3
<1>15. \A i \in 0..n : i \in T
  <2>. HIDE DEF T
  <2>. QED
    BY <1>1, <1>13, <1>14, IntervalInduction
<1>16. \A i \in 1..n : run[i] = Step(i, run[i - 1])
  <2>. TAKE i \in 1..n
  <2>1. i - 1 \in 0..n
    BY <1>1
  <2>. QED
    BY <1>14, <1>15, <2>1
<1>17. Solves(run)
  BY <1>1, <1>12, <1>13, <1>16 DEF Runs
<1>. DEFINE f == CHOOSE f : Solves(f)
<1>18. Solves(f)
  <2>. HIDE DEF Solves
  <2>. QED
    BY <1>17
<1>. HIDE DEF f
<1>19. f[0] = s0 /\ \A i \in 1..n : f[i] = Step(i, f[i - 1])
  <2>1. f = [i \in 0..n |-> IF i = 0 THEN s0 ELSE Step(i, f[i - 1])]
    BY <1>18
  <2>2. \A i \in 0..n : f[i] = IF i = 0 THEN s0 ELSE Step(i, f[i - 1])
    BY <2>1
  <2>. QED
    BY <1>1, <2>2
<1>. DEFINE U == {i \in 0..n : Done(i, f[i])}
<1>20. 0 \in U
  BY <1>1, <1>7, <1>19
<1>21. ASSUME NEW i \in 1..n, i - 1 \in U
       PROVE  i \in U
  <2>1. Done(i, Step(i, f[i - 1])) /\ i \in 0..n
    BY <1>1, <1>9, <1>21
  <2>. QED
    BY <1>19, <2>1
<1>22. \A i \in 0..n : i \in U
  <2>. HIDE DEF U
  <2>. QED
    BY <1>1, <1>20, <1>21, IntervalInduction
<1>23. Done(n, f[n])
  BY <1>1, <1>22
<1>. QED
  BY <1>6, <1>23 DEF Done, f, n, s0, sh

-----------------------------------------------------------------------------
(* Workloads and the indices over them                                     *)

AddrEntries == [uid : WorkloadIds, wl : Workload]
AddrIndices == [Addrs -> Seq(AddrEntries)]
StoredWorkloads == [WorkloadIds -> Workload \cup {NoEntry}]

\* An address leads to the workloads that have it, in their current version.
AddrExact(index, wls) ==
    \A a \in Addrs : \A x :
        (\E i \in DOMAIN index[a] : index[a][i] = x) <=>
        \E u \in WorkloadIds : wls[u] # NoEntry /\ a \in Indexed(wls[u]) /\ x = [uid |-> u, wl |-> wls[u]]

\* Taking a workload out of the index (WorkloadStore::remove).
LEMMA WithoutAddrSound ==
    ASSUME NEW index \in AddrIndices, NEW wls \in StoredWorkloads, AddrExact(index, wls), NEW u \in WorkloadIds, wls[u] # NoEntry
    PROVE  WithoutAddr(index, u, wls[u]) \in AddrIndices /\ AddrExact(WithoutAddr(index, u, wls[u]), [wls EXCEPT ![u] = NoEntry])
<1>. DEFINE w == wls[u]
            t == WithoutAddr(index, u, w)
            D(a) == {x \in Range(index[a]) : x.uid = u}
            new == [wls EXCEPT ![u] = NoEntry]
<1>1. new[u] = NoEntry /\ \A x \in WorkloadIds : x # u => new[x] = wls[x]
  BY DEF StoredWorkloads
<1>2. \A a \in Addrs : index[a] \in Seq(AddrEntries)
  BY DEF AddrIndices
<1>3. t = [a \in Addrs |-> IF a \in Indexed(w) THEN Without(index[a], D(a)) ELSE index[a]]
  BY DEF WithoutAddr
<1>4. \A a \in Addrs : /\ Without(index[a], D(a)) \in Seq(AddrEntries)
                       /\ \A x : (\E i \in DOMAIN Without(index[a], D(a)) : Without(index[a], D(a))[i] = x) <=>
                                 x \notin D(a) /\ \E i \in DOMAIN index[a] : index[a][i] = x
  <2>. TAKE a \in Addrs
  <2>1. index[a] \in Seq(AddrEntries)
    BY ONLY <1>2, a \in Addrs
  <2>. HIDE DEF D
  <2>. QED
    BY ONLY <2>1, WithoutKeeps
<1>5. \A a \in Addrs : \A x : (\E i \in DOMAIN index[a] : index[a][i] = x) => (x \in D(a) <=> x.uid = u)
  BY DEF Range
<1>. HIDE DEF D, w, new
<1>6. t \in AddrIndices
  BY <1>2, <1>3, <1>4 DEF AddrIndices
<1>7. ASSUME NEW a \in Addrs, NEW x
      PROVE  (\E i \in DOMAIN t[a] : t[a][i] = x) <=>
             \E y \in WorkloadIds : new[y] # NoEntry /\ a \in Indexed(new[y]) /\ x = [uid |-> y, wl |-> new[y]]
  <2>1. (\E i \in DOMAIN index[a] : index[a][i] = x) <=>
        \E y \in WorkloadIds : wls[y] # NoEntry /\ a \in Indexed(wls[y]) /\ x = [uid |-> y, wl |-> wls[y]]
    BY DEF AddrExact
  <2>2. (\E y \in WorkloadIds : new[y] # NoEntry /\ a \in Indexed(new[y]) /\ x = [uid |-> y, wl |-> new[y]]) <=>
        \E y \in WorkloadIds : y # u /\ wls[y] # NoEntry /\ a \in Indexed(wls[y]) /\ x = [uid |-> y, wl |-> wls[y]]
    BY <1>1
  <2>3. \A y : x = [uid |-> y, wl |-> wls[y]] => x.uid = y
    OBVIOUS
  <2>4. CASE a \in Indexed(w)
    <3>1. t[a] = Without(index[a], D(a))
      BY <1>3, <2>4
    <3>2. (\E i \in DOMAIN t[a] : t[a][i] = x) <=> x \notin D(a) /\ \E i \in DOMAIN index[a] : index[a][i] = x
      <4>. DEFINE r == Without(index[a], D(a))
      <4>1. (\E i \in DOMAIN r : r[i] = x) <=> x \notin D(a) /\ \E i \in DOMAIN index[a] : index[a][i] = x
        BY <1>4
      <4>2. t[a] = r
        BY <3>1
      <4>. HIDE DEF t, r
      <4>. QED
        BY <4>1, <4>2
    <3>3. (\E i \in DOMAIN t[a] : t[a][i] = x) <=> x.uid # u /\ \E i \in DOMAIN index[a] : index[a][i] = x
      BY <1>5, <3>2
    <3>. QED
      BY <2>1, <2>2, <2>3, <3>3
  <2>5. CASE a \notin Indexed(w)
    <3>1. t[a] = index[a]
      BY <1>3, <2>5
    <3>2. \A y \in WorkloadIds : a \in Indexed(wls[y]) => y # u
      BY <2>5 DEF w
    <3>. QED
      BY <2>1, <2>2, <3>1, <3>2
  <2>. QED
    BY <2>4, <2>5
<1>8. AddrExact(t, new)
  BY <1>7 DEF AddrExact
<1>. QED
  BY <1>6, <1>8 DEF w, new

\* Adding one that is not in it (WorkloadStore::insert).
LEMMA WithAddrSound ==
    ASSUME NEW index \in AddrIndices, NEW wls \in StoredWorkloads, AddrExact(index, wls), NEW u \in WorkloadIds, wls[u] = NoEntry,
           NEW w \in Workload
    PROVE  WithAddr(index, u, w) \in AddrIndices /\ AddrExact(WithAddr(index, u, w), [wls EXCEPT ![u] = w])
<1>. DEFINE e == [uid |-> u, wl |-> w]
            t == WithAddr(index, u, w)
            new == [wls EXCEPT ![u] = w]
<1>1. new[u] = w /\ (\A x \in WorkloadIds : x # u => new[x] = wls[x]) /\ w # NoEntry
  BY NoEntryIsNone DEF StoredWorkloads
<1>2. \A a \in Addrs : index[a] \in Seq(AddrEntries)
  BY DEF AddrIndices
<1>3. t = [a \in Addrs |-> IF a \in Indexed(w) THEN Append(index[a], e) ELSE index[a]]
  BY DEF WithAddr
<1>4. e \in AddrEntries
  BY DEF AddrEntries
<1>. HIDE DEF e, new
<1>5. ASSUME NEW a \in Addrs
      PROVE  /\ Append(index[a], e) \in Seq(AddrEntries)
             /\ \A x : (\E i \in DOMAIN Append(index[a], e) : Append(index[a], e)[i] = x) <=> x = e \/ \E i \in DOMAIN index[a] : index[a][i] = x
  <2>. DEFINE q == index[a]
              r == Append(q, e)
  <2>1. q \in Seq(AddrEntries)
    BY <1>2
  <2>. HIDE DEF q
  <2>2. r \in Seq(AddrEntries) /\ DOMAIN r = 1..(Len(q) + 1) /\ DOMAIN q = 1..Len(q) /\ Len(q) \in Nat
    BY <1>4, <2>1
  <2>3. r[Len(q) + 1] = e /\ \A k \in 1..Len(q) : r[k] = q[k]
    BY <1>4, <2>1
  <2>. HIDE DEF r
  <2>4. /\ Len(q) + 1 \in DOMAIN r /\ (\A k \in DOMAIN r : k = Len(q) + 1 \/ k \in DOMAIN q)
        /\ \A k \in DOMAIN q : k \in DOMAIN r /\ r[k] = q[k]
    BY <2>2, <2>3
  <2>5. \A x : (\E i \in DOMAIN r : r[i] = x) <=> x = e \/ \E i \in DOMAIN q : q[i] = x
    BY ONLY <2>3, <2>4, Zenon
  <2>. QED
    BY <2>2, <2>5 DEF r, q
<1>6. t \in AddrIndices
  BY <1>2, <1>3, <1>5 DEF AddrIndices
<1>7. ASSUME NEW a \in Addrs, NEW x
      PROVE  (\E i \in DOMAIN t[a] : t[a][i] = x) <=>
             \E y \in WorkloadIds : new[y] # NoEntry /\ a \in Indexed(new[y]) /\ x = [uid |-> y, wl |-> new[y]]
  <2>1. (\E i \in DOMAIN index[a] : index[a][i] = x) <=>
        \E y \in WorkloadIds : wls[y] # NoEntry /\ a \in Indexed(wls[y]) /\ x = [uid |-> y, wl |-> wls[y]]
    BY DEF AddrExact
  <2>2. (\E y \in WorkloadIds : new[y] # NoEntry /\ a \in Indexed(new[y]) /\ x = [uid |-> y, wl |-> new[y]]) <=>
        (a \in Indexed(w) /\ x = e) \/ \E y \in WorkloadIds : wls[y] # NoEntry /\ a \in Indexed(wls[y]) /\ x = [uid |-> y, wl |-> wls[y]]
    BY <1>1 DEF e
  <2>3. CASE a \in Indexed(w)
    <3>1. t[a] = Append(index[a], e)
      BY <1>3, <2>3
    <3>. HIDE DEF t
    <3>2. (\E i \in DOMAIN t[a] : t[a][i] = x) <=> x = e \/ \E i \in DOMAIN index[a] : index[a][i] = x
      BY <1>5, <3>1
    <3>. QED
      BY <2>1, <2>2, <2>3, <3>2
  <2>4. CASE a \notin Indexed(w)
    BY <1>3, <2>1, <2>2, <2>4
  <2>. QED
    BY <2>3, <2>4
<1>8. AddrExact(t, new)
  BY <1>7 DEF AddrExact
<1>. QED
  BY <1>6, <1>8 DEF new

\* An identity leads to the local workloads that have it.
IdentityExact(index, wls) ==
    \A i \in Identities, u \in WorkloadIds : u \in index[i] <=> wls[u] # NoEntry /\ wls[u].local /\ wls[u].id = i

IdentityIndices == [Identities -> SUBSET WorkloadIds]

\* Taking a workload out of the index of local identities (WorkloadStore::remove).
LEMMA WithoutIdentitySound ==
    ASSUME NEW index \in IdentityIndices, NEW wls \in StoredWorkloads, IdentityExact(index, wls), NEW u \in WorkloadIds, wls[u] # NoEntry
    PROVE  /\ WithoutIdentity(index, u, wls[u]) \in IdentityIndices
           /\ IdentityExact(WithoutIdentity(index, u, wls[u]), [wls EXCEPT ![u] = NoEntry])
<1>. DEFINE d == wls[u].id
            t == WithoutIdentity(index, u, wls[u])
            new == [wls EXCEPT ![u] = NoEntry]
<1>1. wls[u] \in Workload
  BY DEF StoredWorkloads
<1>2. d \in Identities
  BY <1>1 DEF Workload
<1>3. new[u] = NoEntry /\ \A x \in WorkloadIds : x # u => new[x] = wls[x]
  BY DEF StoredWorkloads
<1>4. t \in IdentityIndices /\ t[d] = index[d] \ {u} /\ \A i \in Identities : i # d => t[i] = index[i]
  BY <1>2 DEF WithoutIdentity, IdentityIndices
<1>. HIDE DEF t, new
<1>5. IdentityExact(t, new)
  BY <1>2, <1>3, <1>4 DEF IdentityExact
<1>. QED
  BY <1>4, <1>5 DEF t, new

\* Adding one that is not in it (WorkloadStore::insert).
LEMMA WithIdentitySound ==
    ASSUME NEW index \in IdentityIndices, NEW wls \in StoredWorkloads, IdentityExact(index, wls), NEW u \in WorkloadIds, wls[u] = NoEntry,
           NEW w \in Workload
    PROVE  WithIdentity(index, u, w) \in IdentityIndices /\ IdentityExact(WithIdentity(index, u, w), [wls EXCEPT ![u] = w])
<1>. DEFINE d == w.id
            t == WithIdentity(index, u, w)
            new == [wls EXCEPT ![u] = w]
<1>1. d \in Identities /\ w # NoEntry
  BY NoEntryIsNone DEF Workload
<1>2. new[u] = w /\ \A x \in WorkloadIds : x # u => new[x] = wls[x]
  BY DEF StoredWorkloads
<1>3. CASE w.local
  <2>1. t \in IdentityIndices /\ t[d] = index[d] \cup {u} /\ \A i \in Identities : i # d => t[i] = index[i]
    BY <1>1, <1>3 DEF WithIdentity, IdentityIndices
  <2>. HIDE DEF t, new
  <2>2. IdentityExact(t, new)
    BY <1>1, <1>2, <1>3, <2>1 DEF IdentityExact
  <2>. QED
    BY <2>1, <2>2 DEF t, new
<1>4. CASE ~w.local
  <2>1. t = index
    BY <1>4 DEF WithIdentity
  <2>. HIDE DEF t, new
  <2>2. IdentityExact(t, new)
    BY <1>1, <1>2, <1>4, <2>1 DEF IdentityExact
  <2>. QED
    BY <2>1, <2>2 DEF t, new
<1>. QED
  BY <1>3, <1>4

\* The workloads of a file that have been read.
ReadSoFar(c, arrival, i) == [u \in WorkloadIds |-> IF \E k \in 1..i : arrival[k] = u THEN ReadWorkload(c, u) ELSE NoEntry]

\* A workload of a file is read without its services.
LEMMA ReadWorkloadTyped ==
    ASSUME NEW c \in AddressFiles, NEW u \in WorkloadIds, c.workload[u] # NoEntry
    PROVE  /\ c.workload[u] \in Workload /\ ReadWorkload(c, u) \in Workload /\ ReadWorkload(c, u) # NoEntry
           /\ ReadWorkload(c, u).services = {} /\ ReadWorkload(c, u).local = c.workload[u].local
           /\ ReadWorkload(c, u).hbone = c.workload[u].hbone /\ ReadWorkload(c, u).id = c.workload[u].id
<1>. DEFINE w == c.workload[u]
<1>1. w \in Workload
  BY AddressAssumption
<1>2. ReadWorkload(c, u) = [w EXCEPT !.services = {}]
  BY DEF ReadWorkload
<1>. HIDE DEF w
<1>3. [w EXCEPT !.services = {}] \in Workload
  BY <1>1 DEF Workload
<1>4. /\ [w EXCEPT !.services = {}].services = {} /\ [w EXCEPT !.services = {}].local = w.local
      /\ [w EXCEPT !.services = {}].hbone = w.hbone /\ [w EXCEPT !.services = {}].id = w.id
  BY <1>1 DEF Workload
<1>. QED
  BY <1>1, <1>2, <1>3, <1>4, NoEntryIsNone DEF w

\* The addresses read from a file lead to its workloads.
LEMMA ReadAddressesSound ==
    ASSUME NEW c \in AddressFiles, NEW arrival \in Seq({u \in WorkloadIds : c.workload[u] # NoEntry}),
           \A i, j \in 1..Len(arrival) : arrival[i] = arrival[j] => i = j
    PROVE  /\ ReadAddresses(c, arrival) \in AddrIndices
           /\ AddrExact(ReadAddresses(c, arrival), ReadSoFar(c, arrival, Len(arrival)))
<1>. DEFINE n == Len(arrival)
            R(u) == ReadWorkload(c, u)
            S == AddrIndices
            Step(i, x) == WithAddr(x, arrival[i], R(arrival[i]))
            start == [a \in Addrs |-> <<>>]
            step == [x \in (1..n) \X S |-> Step(x[1], x[2])]
            Solves(f) == f = [i \in 0..n |-> IF i = 0 THEN start ELSE Step(i, f[i - 1])]
<1>1. n \in Nat /\ \A i \in 1..n : arrival[i] \in WorkloadIds /\ c.workload[arrival[i]] # NoEntry
  OBVIOUS
<1>2. \A i \in 1..n : R(arrival[i]) \in Workload
  BY <1>1, ReadWorkloadTyped
<1>3. start \in S /\ \A a \in Addrs : DOMAIN start[a] = {}
  BY DEF AddrIndices
<1>4. ReadAddresses(c, arrival) = (CHOOSE f : Solves(f))[n]
  BY DEF ReadAddresses
<1>. DEFINE Done(i, x) == x \in S /\ AddrExact(x, ReadSoFar(c, arrival, i))
<1>. HIDE DEF start
<1>5. Done(0, start)
  <2>1. \A u \in WorkloadIds : ReadSoFar(c, arrival, 0)[u] = NoEntry
    BY DEF ReadSoFar
  <2>2. AddrExact(start, ReadSoFar(c, arrival, 0))
    BY <1>3, <2>1 DEF AddrExact
  <2>. QED
    BY <1>3, <2>2
<1>6. ASSUME NEW i \in 1..n, NEW s, Done(i - 1, s)
      PROVE  Done(i, Step(i, s))
  <2>. DEFINE u == arrival[i]
              w == R(u)
              old == ReadSoFar(c, arrival, i - 1)
              new == ReadSoFar(c, arrival, i)
  <2>1. u \in WorkloadIds /\ w \in Workload
    BY <1>1, <1>2
  <2>2. \A g : (\E k \in 1..i : arrival[k] = g) <=> g = u \/ \E k \in 1..(i - 1) : arrival[k] = g
    <3>1. i \in 1..i /\ (\A k \in 1..i : k = i \/ k \in 1..(i - 1)) /\ \A k \in 1..(i - 1) : k \in 1..i
      BY <1>1
    <3>. QED
      BY <3>1
  <2>3. ~ \E k \in 1..(i - 1) : arrival[k] = u
    <3>1. \A k \in 1..(i - 1) : k \in 1..n /\ k # i
      BY <1>1
    <3>. QED
      BY <3>1
  <2>4. old \in StoredWorkloads
    <3>1. \A k \in 1..(i - 1) : k \in 1..n
      BY <1>1
    <3>2. \A g \in WorkloadIds : (\E k \in 1..(i - 1) : arrival[k] = g) => ReadWorkload(c, g) \in Workload
      BY <1>2, <3>1
    <3>. QED
      BY <3>2 DEF ReadSoFar, StoredWorkloads
  <2>5. old[u] = NoEntry
    BY <2>1, <2>3 DEF ReadSoFar
  <2>6. new = [old EXCEPT ![u] = w]
    <3>. HIDE DEF u
    <3>. QED
      BY <2>1, <2>2 DEF ReadSoFar
  <2>. HIDE DEF old, new, u, w
  <2>7. s \in AddrIndices /\ AddrExact(s, old)
    BY <1>6 DEF old
  <2>8. WithAddr(s, u, w) \in AddrIndices /\ AddrExact(WithAddr(s, u, w), [old EXCEPT ![u] = w])
    BY <2>1, <2>4, <2>5, <2>7, WithAddrSound
  <2>9. Step(i, s) = WithAddr(s, u, w)
    BY DEF u, w
  <2>. QED
    BY <2>6, <2>8, <2>9 DEF new
<1>7. \A i \in 1..n, x \in S : Step(i, x) \in S
  <2>. TAKE i \in 1..n, x \in S
  <2>. DEFINE u == arrival[i]
              w == R(u)
              e == [uid |-> u, wl |-> w]
  <2>1. u \in WorkloadIds /\ w \in Workload
    BY <1>1, <1>2
  <2>2. e \in AddrEntries
    BY <2>1 DEF AddrEntries
  <2>3. Step(i, x) = [a \in Addrs |-> IF a \in Indexed(w) THEN Append(x[a], e) ELSE x[a]]
    BY DEF WithAddr
  <2>. HIDE DEF e, w, u
  <2>4. \A a \in Addrs : x[a] \in Seq(AddrEntries) /\ Append(x[a], e) \in Seq(AddrEntries)
    BY <2>2 DEF AddrIndices
  <2>5. [a \in Addrs |-> IF a \in Indexed(w) THEN Append(x[a], e) ELSE x[a]] \in S
    BY <2>4 DEF AddrIndices
  <2>. QED
    BY <2>3, <2>5
<1>. HIDE DEF n, S, Step, Done
<1>8. step \in StepsOn(n, S)
  BY <1>7 DEF StepsOn
<1>9. PICK run : run \in Runs(n, S, start, step)
  <2>. HIDE DEF step
  <2>. QED
    BY <1>1, <1>3, <1>8, RecursionExists
<1>10. \A i \in 1..n : run[i] = Step(i, run[i - 1])
  <2>. TAKE i \in 1..n
  <2>1. i - 1 \in 0..n
    BY <1>1
  <2>2. run[i - 1] \in S /\ run[i] = step[<<i, run[i - 1]>>]
    BY <1>9, <2>1 DEF Runs
  <2>. QED
    BY <2>2
<1>11. Solves(run)
  BY <1>1, <1>9, <1>10 DEF Runs
<1>. DEFINE f == CHOOSE f : Solves(f)
<1>12. Solves(f)
  <2>. HIDE DEF Solves
  <2>. QED
    BY <1>11
<1>. HIDE DEF f
<1>13. f[0] = start /\ \A i \in 1..n : f[i] = Step(i, f[i - 1])
  <2>1. f = [i \in 0..n |-> IF i = 0 THEN start ELSE Step(i, f[i - 1])]
    BY <1>12
  <2>2. \A i \in 0..n : f[i] = IF i = 0 THEN start ELSE Step(i, f[i - 1])
    BY <2>1
  <2>. QED
    BY <1>1, <2>2
<1>. DEFINE T == {i \in 0..n : Done(i, f[i])}
<1>14. 0 \in T
  BY <1>1, <1>5, <1>13
<1>15. ASSUME NEW i \in 1..n, i - 1 \in T
       PROVE  i \in T
  <2>1. Done(i, Step(i, f[i - 1])) /\ i \in 0..n
    BY <1>1, <1>6, <1>15
  <2>. QED
    BY <1>13, <2>1
<1>16. \A i \in 0..n : i \in T
  <2>. HIDE DEF T
  <2>. QED
    BY <1>1, <1>14, <1>15, IntervalInduction
<1>17. Done(n, f[n])
  BY <1>1, <1>16
<1>. QED
  BY <1>4, <1>17 DEF Done, f, n, S

-----------------------------------------------------------------------------
(* The invariant of the stores                                             *)

Lists(w, h) == w # NoEntry /\ h \in w.services

\* A workload at a service.  It is staged only while there is no service and an endpoint
\* only with a health that the service takes; unless a file put it there, it lists the
\* service and has the health under which it is kept; and if it lists the service it is
\* there with its health, unless it was lost.
EndpointRight(st, w, h, u, isLost, isFile) ==
    /\ st.staged[h][u] # NoEntry => st.service[h] = NoEntry
    /\ Endpoint(st, h, u) # NoEntry => Includes(st.service[h], Endpoint(st, h, u))
    /\ ~isFile => /\ Endpoint(st, h, u) # NoEntry => Lists(w, h) /\ Endpoint(st, h, u) = w.healthy
                  /\ st.staged[h][u] # NoEntry => Lists(w, h) /\ st.staged[h][u] = w.healthy
    /\ Lists(w, h) /\ ~isLost => IF st.service[h] = NoEntry THEN st.staged[h][u] = w.healthy ELSE Endpoint(st, h, u) = w.healthy

EndpointsRight(st, wls, gone, file) ==
    \A h \in Services, u \in WorkloadIds : EndpointRight(st, wls[u], h, u, u \in gone[h], u \in file[h])

CertsKept(wls, cs) == \A u \in WorkloadIds : wls[u] # NoEntry /\ Prefetches(wls[u]) => wls[u].id \in cs

Histories == [Services -> SUBSET WorkloadIds]

\* The inductive invariant: every index is exact, and so is every endpoint.
AddressInv ==
    /\ byUid \in StoredWorkloads /\ byAddr \in AddrIndices /\ byIdentity \in IdentityIndices
    /\ store \in ExactStores(shared)
    /\ certs \subseteq Identities /\ lost \in Histories /\ fromFile \in Histories /\ shared \subseteq Vips
    /\ AddrExact(byAddr, byUid) /\ IdentityExact(byIdentity, byUid)
    /\ CertsKept(byUid, certs)
    /\ EndpointsRight(store, byUid, lost, fromFile)

\* What a change leaves alone stays right.
LEMMA OthersRight ==
    ASSUME NEW st, NEW t, NEW u, SameBut(st, t, u), NEW h \in Services, NEW x \in WorkloadIds, x # u,
           NEW w, NEW l \in BOOLEAN, NEW f \in BOOLEAN, EndpointRight(st, w, h, x, l, f)
    PROVE  EndpointRight(t, w, h, x, l, f)
<1>1. /\ t.service[h] = NoEntry <=> st.service[h] = NoEntry
      /\ st.service[h] # NoEntry => t.service[h].allowAll = st.service[h].allowAll
      /\ Endpoint(t, h, x) = Endpoint(st, h, x) /\ t.staged[h][x] = st.staged[h][x]
  BY DEF SameBut
<1>2. st.service[h] = NoEntry => Endpoint(st, h, x) = NoEntry
  BY DEF Endpoint
<1>3. \A e : st.service[h] # NoEntry => (Includes(t.service[h], e) <=> Includes(st.service[h], e))
  BY <1>1 DEF Includes
<1>. QED
  BY <1>1, <1>2, <1>3 DEF EndpointRight

\* The endpoint of a workload whose previous version was taken out and whose new one
\* joined its services (insert_workload).
LEMMA UpsertRight ==
    ASSUME NEW st, NEW c, NEW t, NEW h \in Services, NEW u \in WorkloadIds, NEW old, NEW w \in Workload,
           NEW l \in BOOLEAN, NEW f \in BOOLEAN, EndpointRight(st, old, h, u, l, f),
           SameBut(st, c, u), SameBut(c, t, u),
           Lists(old, h) => Endpoint(c, h, u) = NoEntry /\ c.staged[h][u] = NoEntry,
           ~Lists(old, h) => Endpoint(c, h, u) = Endpoint(st, h, u) /\ c.staged[h][u] = st.staged[h][u],
           h \in w.services => JoinedAt(c, t, h, u, w.healthy),
           h \notin w.services => Endpoint(t, h, u) = Endpoint(c, h, u) /\ t.staged[h][u] = c.staged[h][u],
           NEW m \in BOOLEAN, m <=> h \in w.services /\ st.service[h] # NoEntry /\ ~Includes(st.service[h], w.healthy)
    PROVE  EndpointRight(t, w, h, u, m, f)
<1>1. w # NoEntry /\ w.healthy # NoEntry
  BY NoEntryIsNone DEF Workload
<1>2. /\ c.service[h] = NoEntry <=> st.service[h] = NoEntry
      /\ t.service[h] = NoEntry <=> st.service[h] = NoEntry
      /\ st.service[h] # NoEntry => c.service[h].allowAll = st.service[h].allowAll /\ t.service[h].allowAll = st.service[h].allowAll
  BY DEF SameBut
<1>3. \A e : st.service[h] # NoEntry => /\ Includes(t.service[h], e) <=> Includes(st.service[h], e)
                                        /\ Includes(c.service[h], e) <=> Includes(st.service[h], e)
  BY <1>2 DEF Includes
<1>4. st.service[h] = NoEntry => Endpoint(st, h, u) = NoEntry /\ Endpoint(c, h, u) = NoEntry /\ Endpoint(t, h, u) = NoEntry
  BY <1>2 DEF Endpoint
<1>5. /\ st.staged[h][u] # NoEntry => st.service[h] = NoEntry
      /\ Endpoint(st, h, u) # NoEntry => Includes(st.service[h], Endpoint(st, h, u))
      /\ ~f /\ ~Lists(old, h) => Endpoint(st, h, u) = NoEntry /\ st.staged[h][u] = NoEntry
  BY DEF EndpointRight
<1>6. /\ c.staged[h][u] # NoEntry => st.service[h] = NoEntry
      /\ Endpoint(c, h, u) # NoEntry => Includes(st.service[h], Endpoint(c, h, u))
      /\ ~f => Endpoint(c, h, u) = NoEntry /\ c.staged[h][u] = NoEntry
  BY <1>5
<1>7. CASE h \notin w.services
  BY <1>2, <1>3, <1>4, <1>6, <1>7 DEF EndpointRight, Lists
<1>8. CASE h \in w.services /\ st.service[h] = NoEntry
  <2>1. t.staged[h][u] = w.healthy
    BY <1>2, <1>8 DEF JoinedAt
  <2>. QED
    BY <1>1, <1>2, <1>4, <1>8, <2>1 DEF EndpointRight, Lists
<1>9. CASE h \in w.services /\ st.service[h] # NoEntry
  <2>1. /\ t.staged[h][u] = c.staged[h][u]
        /\ Endpoint(t, h, u) = IF Includes(st.service[h], w.healthy) THEN w.healthy ELSE Endpoint(c, h, u)
    BY <1>2, <1>3, <1>9 DEF JoinedAt
  <2>. QED
    BY <1>1, <1>2, <1>3, <1>6, <1>9, <2>1 DEF EndpointRight, Lists
<1>. QED
  BY <1>7, <1>8, <1>9

\* The endpoint of a workload that was taken out of its services.
LEMMA DeleteRight ==
    ASSUME NEW st, NEW c, NEW h \in Services, NEW u \in WorkloadIds, NEW old,
           NEW l \in BOOLEAN, NEW f \in BOOLEAN, EndpointRight(st, old, h, u, l, f),
           SameBut(st, c, u),
           Lists(old, h) => Endpoint(c, h, u) = NoEntry /\ c.staged[h][u] = NoEntry,
           ~Lists(old, h) => Endpoint(c, h, u) = Endpoint(st, h, u) /\ c.staged[h][u] = st.staged[h][u],
           NEW m \in BOOLEAN
    PROVE  EndpointRight(c, NoEntry, h, u, m, f)
<1>1. /\ c.service[h] = NoEntry <=> st.service[h] = NoEntry
      /\ st.service[h] # NoEntry => c.service[h].allowAll = st.service[h].allowAll
  BY DEF SameBut
<1>2. \A e : st.service[h] # NoEntry => (Includes(c.service[h], e) <=> Includes(st.service[h], e))
  BY <1>1 DEF Includes
<1>3. st.service[h] = NoEntry => Endpoint(c, h, u) = NoEntry
  BY <1>1 DEF Endpoint
<1>4. /\ st.staged[h][u] # NoEntry => st.service[h] = NoEntry
      /\ Endpoint(st, h, u) # NoEntry => Includes(st.service[h], Endpoint(st, h, u))
      /\ ~f /\ ~Lists(old, h) => Endpoint(st, h, u) = NoEntry /\ st.staged[h][u] = NoEntry
  BY DEF EndpointRight
<1>5. /\ c.staged[h][u] # NoEntry => st.service[h] = NoEntry
      /\ Endpoint(c, h, u) # NoEntry => Includes(st.service[h], Endpoint(c, h, u))
      /\ ~f => Endpoint(c, h, u) = NoEntry /\ c.staged[h][u] = NoEntry
  BY <1>4
<1>. QED
  BY <1>1, <1>2, <1>3, <1>5 DEF EndpointRight, Lists

\* The endpoints of a service that replaces one: those of the previous version and the
\* staged ones that it takes.
LEMMA InsertedEndpoint ==
    ASSUME NEW sh, NEW st \in ExactStores(sh), NEW h \in Services, NEW v \in [vips : SUBSET Vips, allowAll : BOOLEAN]
    PROVE  /\ TakeStaged(Carried(st.service[h], v), st.staged[h]) # NoEntry
           /\ TakeStaged(Carried(st.service[h], v), st.staged[h]).vips = v.vips
           /\ TakeStaged(Carried(st.service[h], v), st.staged[h]).allowAll = v.allowAll
           /\ \A u \in WorkloadIds :
                 TakeStaged(Carried(st.service[h], v), st.staged[h]).eps[u] =
                 IF Includes(v, st.staged[h][u]) THEN st.staged[h][u]
                 ELSE IF Includes(v, Endpoint(st, h, u)) THEN Endpoint(st, h, u) ELSE NoEntry
<1>. DEFINE old == st.service[h]
            stg == st.staged[h]
            k == Carried(old, v)
            eps == [x \in WorkloadIds |-> IF Includes(k, stg[x]) THEN stg[x] ELSE k.eps[x]]
            t == TakeStaged(k, stg)
<1>1. old \in Service \cup {NoEntry} /\ stg \in EndpointMaps
  BY DEF ExactStores, Stores, StoredServices, StagedEndpoints
<1>2. k \in Service /\ k.vips = v.vips /\ k.allowAll = v.allowAll
  <2>. HIDE DEF old
  <2>. QED
    BY <1>1, CarriedTyped
<1>3. ASSUME NEW u \in WorkloadIds
      PROVE  k.eps[u] = IF Includes(v, Endpoint(st, h, u)) THEN Endpoint(st, h, u) ELSE NoEntry
  <2>1. CASE old = NoEntry
    <3>1. Endpoint(st, h, u) = NoEntry
      BY <2>1 DEF Endpoint
    <3>2. k.eps = NoEndpoints
      BY <2>1 DEF Carried, WithEndpoints
    <3>. QED
      BY <3>1, <3>2 DEF NoEndpoints
  <2>2. CASE old # NoEntry
    <3>1. Endpoint(st, h, u) = old.eps[u]
      BY <2>2 DEF Endpoint
    <3>2. k.eps = Filtered(v, old.eps)
      BY <2>2 DEF Carried, WithEndpoints
    <3>. QED
      BY <3>1, <3>2 DEF Filtered
  <2>. QED
    BY <2>1, <2>2
<1>. HIDE DEF k
<1>4. eps \in EndpointMaps
  BY <1>1, <1>2 DEF EndpointMaps, Service
<1>5. \A u \in WorkloadIds : eps[u] = IF Includes(k, stg[u]) THEN stg[u] ELSE k.eps[u]
  OBVIOUS
<1>6. t = WithEndpoints(k, eps)
  BY DEF TakeStaged
<1>. HIDE DEF eps, t
<1>7. t \in Service /\ t.vips = k.vips /\ t.allowAll = k.allowAll /\ t.eps = eps
  BY <1>2, <1>4, <1>6 DEF WithEndpoints, Service
<1>8. \A u \in WorkloadIds : Includes(k, stg[u]) <=> Includes(v, stg[u])
  BY <1>2 DEF Includes
<1>. QED
  BY <1>2, <1>3, <1>5, <1>7, <1>8, NoEntryIsNone DEF t, k

\* The endpoints are right after a service was inserted (insert_service).
LEMMA InsertRight ==
    ASSUME NEW st, NEW t, NEW h \in Services, NEW u \in WorkloadIds, NEW v,
           t.service[h] # NoEntry, t.service[h].allowAll = v.allowAll, t.staged[h][u] = NoEntry,
           Endpoint(t, h, u) = IF Includes(v, st.staged[h][u]) THEN st.staged[h][u]
                               ELSE IF Includes(v, Endpoint(st, h, u)) THEN Endpoint(st, h, u) ELSE NoEntry,
           NEW w, NEW l \in BOOLEAN, NEW f \in BOOLEAN, EndpointRight(st, w, h, u, l, f),
           NEW m \in BOOLEAN, m <=> l \/ (Lists(w, h) /\ ~Includes(v, w.healthy))
    PROVE  EndpointRight(t, w, h, u, m, f)
<1>. DEFINE s == st.staged[h][u]
            e == Endpoint(st, h, u)
            n == t.service[h]
            new == Endpoint(t, h, u)
<1>1. new = IF Includes(v, s) THEN s ELSE IF Includes(v, e) THEN e ELSE NoEntry
  OBVIOUS
<1>2. \A x : Includes(n, x) <=> Includes(v, x)
  BY DEF Includes
<1>3. /\ s # NoEntry => e = NoEntry
      /\ ~f => (e # NoEntry => Lists(w, h) /\ e = w.healthy) /\ (s # NoEntry => Lists(w, h) /\ s = w.healthy)
      /\ Lists(w, h) /\ ~l => (s = w.healthy /\ e = NoEntry) \/ (e = w.healthy /\ s = NoEntry)
  <2>1. st.service[h] = NoEntry => e = NoEntry
    BY DEF Endpoint
  <2>. QED
    BY <2>1 DEF EndpointRight
<1>4. \A x : Includes(v, x) => x # NoEntry
  BY DEF Includes
<1>. HIDE DEF s, e, n, new
<1>5. new # NoEntry => Includes(n, new)
  BY <1>1, <1>2, <1>4
<1>6. ~f => (new # NoEntry => Lists(w, h) /\ new = w.healthy)
  BY <1>1, <1>3, <1>4
<1>7. Lists(w, h) /\ ~m => new = w.healthy
  BY <1>1, <1>3, <1>4
<1>. QED
  BY <1>5, <1>6, <1>7 DEF EndpointRight, new, n

\* The orders in which the services of a workload are walked name each of them.
LEMMA ServicesWalked ==
    ASSUME NEW S \in SUBSET Services, NEW order \in SetToSeqs(S)
    PROVE  order \in Seq(Services) /\ \A h : h \in S <=> \E i \in 1..Len(order) : order[i] = h
<1>1. IsFiniteSet(S)
  BY AddressAssumption, FS_Subset
<1>2. order \in Seq(S) /\ \A h : h \in S <=> \E i \in 1..Len(order) : order[i] = h
  BY <1>1, OrdersCover
<1>3. order \in Seq(Services)
  BY <1>2
<1>. QED
  BY <1>2, <1>3

\* Nothing is known of the stores at first, and all of it is right.
LEMMA AddressInvInit == AddressInit => AddressInv
<1>. SUFFICES ASSUME AddressInit
              PROVE  AddressInv
  OBVIOUS
<1>. USE DEF AddressInit
<1>1. byUid \in StoredWorkloads /\ \A u \in WorkloadIds : byUid[u] = NoEntry
  BY DEF StoredWorkloads, NoEndpoints
<1>2. byAddr \in AddrIndices /\ byIdentity \in IdentityIndices
  BY DEF AddrIndices, IdentityIndices
<1>3. NoEndpoints \in EndpointMaps
  BY DEF NoEndpoints, EndpointMaps
<1>. DEFINE a == [h \in Services |-> NoEntry]
            b == [h \in Services |-> NoEndpoints]
            d == [v \in Vips |-> NoEntry]
<1>4. store.service = a /\ store.staged = b /\ store.byVip = d /\ store = [service |-> a, staged |-> b, byVip |-> d]
  BY DEF EmptyStore
<1>5. a \in StoredServices /\ b \in StagedEndpoints /\ d \in VipIndices
  BY <1>3 DEF StoredServices, StagedEndpoints, VipIndices
<1>6. /\ \A h \in Services : store.service[h] = NoEntry
      /\ \A h \in Services, u \in WorkloadIds : store.staged[h][u] = NoEntry
      /\ \A v \in Vips : store.byVip[v] = NoEntry
  BY <1>4 DEF NoEndpoints
<1>7. store \in Stores
  <2>. HIDE DEF a, b, d, AddressInit
  <2>. QED
    BY <1>4, <1>5 DEF Stores
<1>8. store \in ExactStores(shared)
  BY <1>6, <1>7 DEF ExactStores, VipExact, HasVip
<1>9. certs \subseteq Identities /\ lost \in Histories /\ fromFile \in Histories /\ shared \subseteq Vips
  BY DEF Histories
<1>10. AddrExact(byAddr, byUid) /\ IdentityExact(byIdentity, byUid)
  BY <1>1 DEF AddrExact, IdentityExact
<1>11. CertsKept(byUid, certs)
  BY <1>1 DEF CertsKept
<1>12. EndpointsRight(store, byUid, lost, fromFile)
  BY <1>1, <1>6 DEF EndpointsRight, EndpointRight, Endpoint, Lists
<1>. QED
  BY <1>1, <1>2, <1>8, <1>9, <1>10, <1>11, <1>12 DEF AddressInv

\* insert_workload keeps the stores right.
LEMMA UpsertWorkloadKeeps ==
    ASSUME AddressInv, NEW u \in WorkloadIds, NEW w \in WorkloadValues, NEW before \in SetToSeqs(Listed(u)),
           NEW after \in SetToSeqs(w.services), UpsertWorkload(u, w, before, after)
    PROVE  AddressInv'
<1>. DEFINE old == byUid[u]
            mid == [byUid EXCEPT ![u] = NoEntry]
            c == Cleaned(store, u, before)
            ad == IF old = NoEntry THEN byAddr ELSE WithoutAddr(byAddr, u, old)
            id == IF old = NoEntry THEN byIdentity ELSE WithoutIdentity(byIdentity, u, old)
<1>1. /\ byUid \in StoredWorkloads /\ byAddr \in AddrIndices /\ byIdentity \in IdentityIndices
      /\ store \in ExactStores(shared)
      /\ certs \subseteq Identities /\ lost \in Histories /\ fromFile \in Histories /\ shared \subseteq Vips
      /\ AddrExact(byAddr, byUid) /\ IdentityExact(byIdentity, byUid)
      /\ CertsKept(byUid, certs)
      /\ EndpointsRight(store, byUid, lost, fromFile)
  BY DEF AddressInv
<1>2. /\ byUid' = [byUid EXCEPT ![u] = w] /\ byAddr' = WithAddr(ad, u, w) /\ byIdentity' = WithIdentity(id, u, w)
      /\ store' = Joined(c, u, w.healthy, after)
      /\ certs' = IF Prefetches(w) THEN certs \cup {w.id} ELSE certs
      /\ lost' = [h \in Services |->
                     IF h \in w.services /\ store.service[h] # NoEntry /\ ~Includes(store.service[h], w.healthy)
                     THEN lost[h] \cup {u} ELSE lost[h] \ {u}]
      /\ fromFile' = fromFile /\ shared' = shared
  BY DEF UpsertWorkload
<1>3. w \in Workload /\ w # NoEntry
  BY AddressAssumption, NoEntryIsNone
<1>4. w.healthy \in BOOLEAN /\ w.services \in SUBSET Services /\ w.id \in Identities
  BY <1>3 DEF Workload
<1>5. Listed(u) \in SUBSET Services /\ \A h : h \in Listed(u) <=> Lists(old, h)
  <2>1. old \in Workload \cup {NoEntry}
    BY <1>1 DEF StoredWorkloads
  <2>. QED
    BY <2>1 DEF Listed, Lists, Workload
<1>6. mid \in StoredWorkloads /\ mid[u] = NoEntry /\ [mid EXCEPT ![u] = w] = byUid' /\ byUid' \in StoredWorkloads
  BY <1>1, <1>2, <1>3 DEF StoredWorkloads
<1>7. byUid'[u] = w /\ \A x \in WorkloadIds : x # u => byUid'[x] = byUid[x]
  BY <1>1, <1>2 DEF StoredWorkloads
<1>8. ad \in AddrIndices /\ AddrExact(ad, mid) /\ id \in IdentityIndices /\ IdentityExact(id, mid)
  <2>1. CASE old = NoEntry
    <3>1. mid = byUid
      BY <1>1, <2>1 DEF StoredWorkloads
    <3>. QED
      BY <1>1, <2>1, <3>1
  <2>2. CASE old # NoEntry
    <3>1. /\ WithoutAddr(byAddr, u, byUid[u]) \in AddrIndices
          /\ AddrExact(WithoutAddr(byAddr, u, byUid[u]), [byUid EXCEPT ![u] = NoEntry])
      BY <1>1, <2>2, WithoutAddrSound
    <3>2. /\ WithoutIdentity(byIdentity, u, byUid[u]) \in IdentityIndices
          /\ IdentityExact(WithoutIdentity(byIdentity, u, byUid[u]), [byUid EXCEPT ![u] = NoEntry])
      BY <1>1, <2>2, WithoutIdentitySound
    <3>. QED
      BY <2>2, <3>1, <3>2
  <2>. QED
    BY <2>1, <2>2
<1>. HIDE DEF mid, ad, id
<1>9. byAddr' \in AddrIndices /\ AddrExact(byAddr', byUid')
  <2>1. WithAddr(ad, u, w) \in AddrIndices /\ AddrExact(WithAddr(ad, u, w), [mid EXCEPT ![u] = w])
    BY <1>3, <1>6, <1>8, WithAddrSound
  <2>. QED
    BY <1>2, <1>6, <2>1
<1>10. byIdentity' \in IdentityIndices /\ IdentityExact(byIdentity', byUid')
  <2>1. WithIdentity(id, u, w) \in IdentityIndices /\ IdentityExact(WithIdentity(id, u, w), [mid EXCEPT ![u] = w])
    BY <1>3, <1>6, <1>8, WithIdentitySound
  <2>. QED
    BY <1>2, <1>6, <2>1
<1>11. before \in Seq(Services) /\ \A h : Lists(old, h) <=> \E i \in 1..Len(before) : before[i] = h
  BY <1>5, ServicesWalked
<1>12. after \in Seq(Services) /\ \A h : h \in w.services <=> \E i \in 1..Len(after) : after[i] = h
  BY <1>4, ServicesWalked
<1>13. /\ c \in ExactStores(shared) /\ SameBut(store, c, u)
       /\ \A g \in Services :
             IF \E k \in 1..Len(before) : before[k] = g
             THEN Endpoint(c, g, u) = NoEntry /\ c.staged[g][u] = NoEntry
             ELSE Endpoint(c, g, u) = Endpoint(store, g, u) /\ c.staged[g][u] = store.staged[g][u]
  BY <1>1, <1>11, CleanedSound
<1>. HIDE DEF c
<1>14. /\ store' \in ExactStores(shared) /\ SameBut(c, store', u)
       /\ \A g \in Services :
             IF \E k \in 1..Len(after) : after[k] = g
             THEN JoinedAt(c, store', g, u, w.healthy)
             ELSE Endpoint(store', g, u) = Endpoint(c, g, u) /\ store'.staged[g][u] = c.staged[g][u]
  BY <1>2, <1>4, <1>12, <1>13, JoinedSound
<1>15. lost' \in Histories
  BY <1>1, <1>2 DEF Histories
<1>16. \A h \in Services :
          /\ u \in lost'[h] <=> h \in w.services /\ store.service[h] # NoEntry /\ ~Includes(store.service[h], w.healthy)
          /\ \A x \in WorkloadIds : x # u => (x \in lost'[h] <=> x \in lost[h])
  BY <1>2
<1>17. certs' \subseteq Identities
  BY <1>1, <1>2, <1>4
<1>18. CertsKept(byUid', certs')
  BY <1>1, <1>2, <1>7 DEF CertsKept
<1>19. SameBut(store, store', u)
  BY <1>13, <1>14, SameButTransitive
<1>20. ASSUME NEW h \in Services, NEW x \in WorkloadIds
       PROVE  EndpointRight(store', byUid'[x], h, x, x \in lost'[h], x \in fromFile'[h])
  <2>1. EndpointRight(store, byUid[x], h, x, x \in lost[h], x \in fromFile[h])
    BY <1>1 DEF EndpointsRight
  <2>2. CASE x = u
    <3>1. /\ Lists(old, h) => Endpoint(c, h, u) = NoEntry /\ c.staged[h][u] = NoEntry
          /\ ~Lists(old, h) => Endpoint(c, h, u) = Endpoint(store, h, u) /\ c.staged[h][u] = store.staged[h][u]
          /\ h \in w.services => JoinedAt(c, store', h, u, w.healthy)
          /\ h \notin w.services => Endpoint(store', h, u) = Endpoint(c, h, u) /\ store'.staged[h][u] = c.staged[h][u]
      BY <1>11, <1>12, <1>13, <1>14
    <3>2. EndpointRight(store', w, h, u, u \in lost'[h], u \in fromFile[h])
      <4>. DEFINE l == u \in lost[h]
                  f == u \in fromFile[h]
                  m == u \in lost'[h]
      <4>1. l \in BOOLEAN /\ f \in BOOLEAN /\ m \in BOOLEAN
        OBVIOUS
      <4>2. m <=> h \in w.services /\ store.service[h] # NoEntry /\ ~Includes(store.service[h], w.healthy)
        BY <1>16
      <4>3. EndpointRight(store, old, h, u, l, f)
        BY <2>1, <2>2
      <4>. HIDE DEF l, f, m, old
      <4>4. EndpointRight(store', w, h, u, m, f)
        <5>1. SameBut(store, c, u) /\ SameBut(c, store', u)
          BY <1>13, <1>14
        <5>. QED
          BY ONLY <1>3, <3>1, <4>1, <4>2, <4>3, <5>1, h \in Services, u \in WorkloadIds, UpsertRight
      <4>. QED
        BY <4>4 DEF m, f
    <3>. QED
      BY <1>2, <1>7, <2>2, <3>2
  <2>3. CASE x # u
    <3>1. EndpointRight(store', byUid[x], h, x, x \in lost[h], x \in fromFile[h])
      <4>. DEFINE l == x \in lost[h]
                  f == x \in fromFile[h]
      <4>1. l \in BOOLEAN /\ f \in BOOLEAN /\ EndpointRight(store, byUid[x], h, x, l, f)
        BY <2>1
      <4>. HIDE DEF l, f
      <4>2. EndpointRight(store', byUid[x], h, x, l, f)
        BY <1>19, <2>3, <4>1, OthersRight
      <4>. QED
        BY <4>2 DEF l, f
    <3>2. (x \in lost'[h]) = (x \in lost[h])
      BY <1>16, <2>3
    <3>. QED
      BY <1>2, <1>7, <2>3, <3>1, <3>2
  <2>. QED
    BY <2>2, <2>3
<1>21. EndpointsRight(store', byUid', lost', fromFile')
  BY <1>20 DEF EndpointsRight
<1>. QED
  BY <1>1, <1>2, <1>6, <1>9, <1>10, <1>14, <1>15, <1>17, <1>18, <1>21 DEF AddressInv

\* remove of a workload keeps the stores right: its certificate goes only when no other
\* local workload has its identity.
LEMMA DeleteWorkloadKeeps ==
    ASSUME AddressInv, NEW u \in WorkloadIds, NEW before \in SetToSeqs(Listed(u)), DeleteWorkload(u, before)
    PROVE  AddressInv'
<1>. DEFINE old == byUid[u]
<1>1. /\ byUid \in StoredWorkloads /\ byAddr \in AddrIndices /\ byIdentity \in IdentityIndices
      /\ store \in ExactStores(shared)
      /\ certs \subseteq Identities /\ lost \in Histories /\ fromFile \in Histories /\ shared \subseteq Vips
      /\ AddrExact(byAddr, byUid) /\ IdentityExact(byIdentity, byUid)
      /\ CertsKept(byUid, certs)
      /\ EndpointsRight(store, byUid, lost, fromFile)
  BY DEF AddressInv
<1>2. /\ byUid[u] # NoEntry
      /\ byUid' = [byUid EXCEPT ![u] = NoEntry] /\ byAddr' = WithoutAddr(byAddr, u, old)
      /\ byIdentity' = WithoutIdentity(byIdentity, u, old)
      /\ store' = Cleaned(store, u, before)
      /\ certs' = IF Clears(old, byIdentity') THEN certs \ {old.id} ELSE certs
      /\ lost' = [h \in Services |-> lost[h] \ {u}]
      /\ fromFile' = fromFile /\ shared' = shared
  BY DEF DeleteWorkload
<1>3. old \in Workload
  BY <1>1, <1>2 DEF StoredWorkloads
<1>4. Listed(u) \in SUBSET Services /\ \A h : h \in Listed(u) <=> Lists(old, h)
  BY <1>2, <1>3 DEF Listed, Lists, Workload
<1>5. byUid' \in StoredWorkloads /\ byUid'[u] = NoEntry /\ \A x \in WorkloadIds : x # u => byUid'[x] = byUid[x]
  BY <1>1, <1>2 DEF StoredWorkloads
<1>6. byAddr' \in AddrIndices /\ AddrExact(byAddr', byUid')
  <2>1. /\ WithoutAddr(byAddr, u, byUid[u]) \in AddrIndices
        /\ AddrExact(WithoutAddr(byAddr, u, byUid[u]), [byUid EXCEPT ![u] = NoEntry])
    BY <1>1, <1>2, WithoutAddrSound
  <2>. QED
    BY <1>2, <2>1
<1>7. byIdentity' \in IdentityIndices /\ IdentityExact(byIdentity', byUid')
  <2>1. /\ WithoutIdentity(byIdentity, u, byUid[u]) \in IdentityIndices
        /\ IdentityExact(WithoutIdentity(byIdentity, u, byUid[u]), [byUid EXCEPT ![u] = NoEntry])
    BY <1>1, <1>2, WithoutIdentitySound
  <2>. QED
    BY <1>2, <2>1
<1>8. before \in Seq(Services) /\ \A h : Lists(old, h) <=> \E i \in 1..Len(before) : before[i] = h
  BY <1>4, ServicesWalked
<1>9. /\ store' \in ExactStores(shared) /\ SameBut(store, store', u)
      /\ \A g \in Services :
            IF \E k \in 1..Len(before) : before[k] = g
            THEN Endpoint(store', g, u) = NoEntry /\ store'.staged[g][u] = NoEntry
            ELSE Endpoint(store', g, u) = Endpoint(store, g, u) /\ store'.staged[g][u] = store.staged[g][u]
  BY <1>1, <1>2, <1>8, CleanedSound
<1>10. lost' \in Histories /\ \A h \in Services, x \in WorkloadIds : x # u => (x \in lost'[h]) = (x \in lost[h])
  BY <1>1, <1>2 DEF Histories
<1>11. certs' \subseteq Identities
  BY <1>1, <1>2
<1>12. CertsKept(byUid', certs')
  <2>. SUFFICES ASSUME NEW x \in WorkloadIds, byUid'[x] # NoEntry, Prefetches(byUid'[x])
                PROVE  byUid'[x].id \in certs'
    BY DEF CertsKept
  <2>1. x # u /\ byUid'[x] = byUid[x] /\ byUid[x].local /\ byUid[x].id \in certs
    BY <1>1, <1>5 DEF CertsKept, Prefetches
  <2>2. byUid[x].id \in Identities
    BY <1>1, <2>1
  <2>3. x \in byIdentity'[byUid[x].id]
    BY <1>7, <2>1, <2>2 DEF IdentityExact
  <2>4. ~(Clears(old, byIdentity') /\ old.id = byUid[x].id)
    BY <2>3 DEF Clears
  <2>. HIDE DEF old
  <2>. QED
    BY <1>2, <2>1, <2>4
<1>13. ASSUME NEW h \in Services, NEW x \in WorkloadIds
       PROVE  EndpointRight(store', byUid'[x], h, x, x \in lost'[h], x \in fromFile'[h])
  <2>1. EndpointRight(store, byUid[x], h, x, x \in lost[h], x \in fromFile[h])
    BY <1>1 DEF EndpointsRight
  <2>2. CASE x = u
    <3>1. /\ Lists(old, h) => Endpoint(store', h, u) = NoEntry /\ store'.staged[h][u] = NoEntry
          /\ ~Lists(old, h) => Endpoint(store', h, u) = Endpoint(store, h, u) /\ store'.staged[h][u] = store.staged[h][u]
      BY <1>8, <1>9
    <3>2. EndpointRight(store', NoEntry, h, u, u \in lost'[h], u \in fromFile[h])
      <4>. DEFINE l == u \in lost[h]
                  f == u \in fromFile[h]
                  m == u \in lost'[h]
      <4>1. l \in BOOLEAN /\ f \in BOOLEAN /\ m \in BOOLEAN /\ EndpointRight(store, old, h, u, l, f)
        BY <2>1, <2>2
      <4>. HIDE DEF l, f, m, old
      <4>2. EndpointRight(store', NoEntry, h, u, m, f)
        <5>1. SameBut(store, store', u)
          BY <1>9
        <5>. QED
          BY ONLY <3>1, <4>1, <5>1, h \in Services, u \in WorkloadIds, DeleteRight
      <4>. QED
        BY <4>2 DEF m, f
    <3>. QED
      BY <1>2, <1>5, <2>2, <3>2
  <2>3. CASE x # u
    <3>1. EndpointRight(store', byUid[x], h, x, x \in lost[h], x \in fromFile[h])
      <4>. DEFINE l == x \in lost[h]
                  f == x \in fromFile[h]
      <4>1. l \in BOOLEAN /\ f \in BOOLEAN /\ EndpointRight(store, byUid[x], h, x, l, f)
        BY <2>1
      <4>. HIDE DEF l, f
      <4>2. EndpointRight(store', byUid[x], h, x, l, f)
        BY <1>9, <2>3, <4>1, OthersRight
      <4>. QED
        BY <4>2 DEF l, f
    <3>. QED
      BY <1>2, <1>5, <1>10, <2>3, <3>1
  <2>. QED
    BY <2>2, <2>3
<1>14. EndpointsRight(store', byUid', lost', fromFile')
  BY <1>13 DEF EndpointsRight
<1>. QED
  BY <1>1, <1>2, <1>5, <1>6, <1>7, <1>9, <1>10, <1>11, <1>12, <1>14 DEF AddressInv

\* insert_service keeps the stores right.
LEMMA InsertServiceKeeps ==
    ASSUME AddressInv, NEW h \in Services, NEW v \in ServiceValues, InsertService(h, v)
    PROVE  AddressInv'
<1>. DEFINE svc == Carried(store.service[h], v)
            full == TakeStaged(svc, store.staged[h])
            V == [vips : SUBSET Vips, allowAll : BOOLEAN]
<1>1. /\ byUid \in StoredWorkloads /\ byAddr \in AddrIndices /\ byIdentity \in IdentityIndices
      /\ store \in ExactStores(shared)
      /\ certs \subseteq Identities /\ lost \in Histories /\ fromFile \in Histories /\ shared \subseteq Vips
      /\ AddrExact(byAddr, byUid) /\ IdentityExact(byIdentity, byUid)
      /\ CertsKept(byUid, certs)
      /\ EndpointsRight(store, byUid, lost, fromFile)
  BY DEF AddressInv
<1>2. /\ store' = Insert(store, h, svc)
      /\ lost' = [lost EXCEPT ![h] = lost[h] \cup {u \in Members(h) : ~Includes(v, byUid[u].healthy)}]
      /\ shared' = shared \cup SharedVips(store')
      /\ byUid' = byUid /\ byAddr' = byAddr /\ byIdentity' = byIdentity /\ certs' = certs /\ fromFile' = fromFile
  BY DEF InsertService
<1>3. v \in V
  BY AddressAssumption
<1>4. store.service[h] \in Service \cup {NoEntry}
  BY <1>1 DEF ExactStores, Stores, StoredServices
<1>5. svc \in Service /\ svc.vips = v.vips /\ v.vips \subseteq Vips
  <2>1. Carried(store.service[h], v) \in Service /\ Carried(store.service[h], v).vips = v.vips
    BY <1>3, <1>4, CarriedTyped
  <2>. QED
    BY <1>3, <2>1
<1>6. /\ full # NoEntry /\ full.vips = v.vips /\ full.allowAll = v.allowAll
      /\ \A u \in WorkloadIds :
            full.eps[u] = IF Includes(v, store.staged[h][u]) THEN store.staged[h][u]
                          ELSE IF Includes(v, Endpoint(store, h, u)) THEN Endpoint(store, h, u) ELSE NoEntry
  BY <1>1, <1>3, InsertedEndpoint
<1>. HIDE DEF svc, full
<1>7. /\ store'.service[h] = full /\ store'.staged[h] = NoEndpoints
      /\ \A g \in Services : g # h => store'.service[g] = store.service[g] /\ store'.staged[g] = store.staged[g]
  <2>. DEFINE all == Vips
  <2>1. /\ \A x \in svc.vips, g \in Services : x \notin all /\ HasVip(store, g, x) => g = h
        /\ store \in ExactStores(shared) /\ shared \subseteq all /\ svc \in Service
    BY <1>1, <1>5
  <2>. HIDE DEF all
  <2>2. Insert(store, h, svc) \in ExactStores(all)
    BY <2>1, InsertSound
  <2>3. Insert(store, h, svc).service[h] = TakeStaged(svc, store.staged[h])
    BY <2>1, <2>2, InsertSound
  <2>4. Insert(store, h, svc).staged[h] = NoEndpoints
    BY <2>1, <2>2, InsertSound
  <2>5. \A g \in Services : g # h => /\ Insert(store, h, svc).service[g] = store.service[g]
                                    /\ Insert(store, h, svc).staged[g] = store.staged[g]
    BY <2>1, <2>2, InsertSound
  <2>. QED
    BY <1>2, <2>3, <2>4, <2>5 DEF full
<1>8. shared' \subseteq Vips /\ shared \subseteq shared'
  BY <1>1, <1>2 DEF SharedVips
<1>9. \A x \in svc.vips, g \in Services : x \notin shared' /\ HasVip(store, g, x) => g = h
  <2>. SUFFICES ASSUME NEW x \in svc.vips, NEW g \in Services, HasVip(store, g, x), g # h
                PROVE  x \in shared'
    OBVIOUS
  <2>1. HasVip(store', g, x) /\ HasVip(store', h, x)
    BY <1>5, <1>6, <1>7 DEF HasVip
  <2>2. x \in SharedVips(store')
    BY <1>5, <2>1 DEF SharedVips
  <2>. QED
    BY <1>2, <2>2
<1>10. store' \in ExactStores(shared')
  <2>1. Insert(store, h, svc) \in ExactStores(shared')
    BY <1>1, <1>5, <1>8, <1>9, InsertSound
  <2>. QED
    BY <1>2, <2>1
<1>11. lost' \in Histories
  BY <1>1, <1>2 DEF Histories, Members
<1>12. /\ \A x \in WorkloadIds : x \in lost'[h] <=> x \in lost[h] \/ (Lists(byUid[x], h) /\ ~Includes(v, byUid[x].healthy))
       /\ \A g \in Services : g # h => lost'[g] = lost[g]
  <2>1. \A x \in WorkloadIds : x \in Members(h) <=> Lists(byUid[x], h)
    BY DEF Members, Lists, Listed
  <2>. QED
    BY <1>1, <1>2, <2>1 DEF Histories
<1>13. ASSUME NEW g \in Services, NEW x \in WorkloadIds
       PROVE  EndpointRight(store', byUid'[x], g, x, x \in lost'[g], x \in fromFile'[g])
  <2>1. EndpointRight(store, byUid[x], g, x, x \in lost[g], x \in fromFile[g])
    BY <1>1 DEF EndpointsRight
  <2>2. CASE g = h
    <3>. DEFINE l == x \in lost[h]
                f == x \in fromFile[h]
                m == x \in lost'[h]
                w == byUid[x]
    <3>1. l \in BOOLEAN /\ f \in BOOLEAN /\ m \in BOOLEAN
      OBVIOUS
    <3>2. m <=> l \/ (Lists(w, h) /\ ~Includes(v, w.healthy))
      BY <1>12
    <3>3. EndpointRight(store, w, h, x, l, f)
      BY <2>1, <2>2
    <3>4. store'.service[h] # NoEntry /\ store'.service[h].allowAll = v.allowAll /\ store'.staged[h][x] = NoEntry
      BY <1>6, <1>7 DEF NoEndpoints
    <3>5. Endpoint(store', h, x) = IF Includes(v, store.staged[h][x]) THEN store.staged[h][x]
                                   ELSE IF Includes(v, Endpoint(store, h, x)) THEN Endpoint(store, h, x) ELSE NoEntry
      <4>1. Endpoint(store', h, x) = full.eps[x]
        BY <1>6, <1>7 DEF Endpoint
      <4>. QED
        BY <1>6, <4>1
    <3>. HIDE DEF l, f, m, w
    <3>6. EndpointRight(store', w, h, x, m, f)
      BY ONLY <3>1, <3>2, <3>3, <3>4, <3>5, h \in Services, x \in WorkloadIds, InsertRight
    <3>. QED
      BY <1>2, <2>2, <3>6 DEF w, m, f
  <2>3. CASE g # h
    <3>1. store'.service[g] = store.service[g] /\ store'.staged[g] = store.staged[g] /\ lost'[g] = lost[g]
      BY <1>7, <1>12, <2>3
    <3>2. Endpoint(store', g, x) = Endpoint(store, g, x)
      BY <3>1 DEF Endpoint
    <3>. QED
      BY <1>2, <2>1, <3>1, <3>2 DEF EndpointRight
  <2>. QED
    BY <2>2, <2>3
<1>14. EndpointsRight(store', byUid', lost', fromFile')
  BY <1>13 DEF EndpointsRight
<1>. QED
  BY <1>1, <1>2, <1>8, <1>10, <1>11, <1>14 DEF AddressInv

\* remove of a service keeps the stores right: its endpoints are lost to it.
LEMMA RemoveServiceKeeps ==
    ASSUME AddressInv, NEW h \in Services, RemoveServiceByName(h)
    PROVE  AddressInv'
<1>1. /\ byUid \in StoredWorkloads /\ byAddr \in AddrIndices /\ byIdentity \in IdentityIndices
      /\ store \in ExactStores(shared)
      /\ certs \subseteq Identities /\ lost \in Histories /\ fromFile \in Histories /\ shared \subseteq Vips
      /\ AddrExact(byAddr, byUid) /\ IdentityExact(byIdentity, byUid)
      /\ CertsKept(byUid, certs)
      /\ EndpointsRight(store, byUid, lost, fromFile)
  BY DEF AddressInv
<1>2. /\ store.service[h] # NoEntry /\ store' = RemoveService(store, h)
      /\ lost' = [lost EXCEPT ![h] = Members(h)] /\ fromFile' = [fromFile EXCEPT ![h] = {}]
      /\ byUid' = byUid /\ byAddr' = byAddr /\ byIdentity' = byIdentity /\ certs' = certs /\ shared' = shared
  BY DEF RemoveServiceByName
<1>3. /\ store' \in ExactStores(shared) /\ store'.service[h] = NoEntry /\ store'.staged[h] = NoEndpoints
      /\ \A g \in Services : g # h => store'.service[g] = store.service[g] /\ store'.staged[g] = store.staged[g]
  BY <1>1, <1>2, RemoveServiceSound
<1>4. lost' \in Histories /\ fromFile' \in Histories
  BY <1>1, <1>2 DEF Histories, Members
<1>5. /\ lost'[h] = Members(h) /\ \A g \in Services : g # h => lost'[g] = lost[g] /\ fromFile'[g] = fromFile[g]
  BY <1>1, <1>2 DEF Histories
<1>6. \A x \in WorkloadIds : x \in Members(h) <=> Lists(byUid[x], h)
  BY DEF Members, Lists, Listed
<1>7. ASSUME NEW g \in Services, NEW x \in WorkloadIds
      PROVE  EndpointRight(store', byUid'[x], g, x, x \in lost'[g], x \in fromFile'[g])
  <2>1. EndpointRight(store, byUid[x], g, x, x \in lost[g], x \in fromFile[g])
    BY <1>1 DEF EndpointsRight
  <2>2. CASE g = h
    <3>1. Endpoint(store', h, x) = NoEntry /\ store'.staged[h][x] = NoEntry
      BY <1>3 DEF Endpoint, NoEndpoints
    <3>2. Lists(byUid[x], h) => x \in lost'[h]
      BY <1>5, <1>6
    <3>. QED
      BY <1>2, <2>2, <3>1, <3>2 DEF EndpointRight
  <2>3. CASE g # h
    <3>1. store'.service[g] = store.service[g] /\ store'.staged[g] = store.staged[g] /\ lost'[g] = lost[g] /\ fromFile'[g] = fromFile[g]
      BY <1>3, <1>5, <2>3
    <3>2. Endpoint(store', g, x) = Endpoint(store, g, x)
      BY <3>1 DEF Endpoint
    <3>. QED
      BY <1>2, <2>1, <3>1, <3>2 DEF EndpointRight
  <2>. QED
    BY <2>2, <2>3
<1>8. EndpointsRight(store', byUid', lost', fromFile')
  BY <1>7 DEF EndpointsRight
<1>. QED
  BY <1>1, <1>2, <1>3, <1>4, <1>8 DEF AddressInv

\* What is exact but for some VIPs is exact but for more of them.
LEMMA ExactBut ==
    ASSUME NEW sh, NEW more, sh \subseteq more, NEW st \in ExactStores(sh)
    PROVE  st \in ExactStores(more)
  BY DEF ExactStores, VipExact

\* load_config brings stores that are right, and forgets no certificate.
LEMMA LoadAddressesKeeps ==
    ASSUME AddressInv, NEW c \in AddressFiles, LoadAddresses(c)
    PROVE  AddressInv'
<1>. DEFINE us == {u \in WorkloadIds : c.workload[u] # NoEntry}
            hs == {h \in Services : c.service[h] # NoEntry}
            V == [vips : SUBSET Vips, allowAll : BOOLEAN]
            s0 == Staging(c)
<1>1. certs \subseteq Identities /\ shared \subseteq Vips
  BY DEF AddressInv
<1>2. PICK order \in SetToSeqs(hs), arrival \in SetToSeqs(us) :
        /\ byUid' = [u \in WorkloadIds |-> ReadWorkload(c, u)]
        /\ byAddr' = ReadAddresses(c, arrival)
        /\ byIdentity' = [i \in Identities |-> {u \in us : c.workload[u].local /\ c.workload[u].id = i}]
        /\ store' = ReadServices(c, order)
        /\ certs' = certs \cup {c.workload[u].id : u \in {x \in us : Prefetches(c.workload[x])}}
        /\ lost' = [h \in Services |-> {}]
        /\ fromFile' = [h \in Services |-> Listing(c, h)]
        /\ shared' = shared \cup SharedVips(store')
  BY DEF LoadAddresses
<1>3. IsFiniteSet(us) /\ IsFiniteSet(hs)
  <2>1. us \subseteq WorkloadIds /\ hs \subseteq Services
    OBVIOUS
  <2>. HIDE DEF us, hs
  <2>. QED
    BY <2>1, AddressAssumption, FS_Subset
<1>4. /\ order \in Seq(hs) /\ (\A x : x \in hs <=> \E i \in 1..Len(order) : order[i] = x)
      /\ \A i, j \in 1..Len(order) : order[i] = order[j] => i = j
  <2>. HIDE DEF us, hs
  <2>. QED
    BY <1>3, OrdersCover
<1>5. /\ arrival \in Seq(us) /\ (\A x : x \in us <=> \E i \in 1..Len(arrival) : arrival[i] = x)
      /\ \A i, j \in 1..Len(arrival) : arrival[i] = arrival[j] => i = j
  <2>. HIDE DEF us, hs
  <2>. QED
    BY <1>3, OrdersCover
<1>6. \A u \in us : /\ c.workload[u] \in Workload /\ ReadWorkload(c, u) \in Workload /\ ReadWorkload(c, u) # NoEntry
                    /\ ReadWorkload(c, u).services = {} /\ ReadWorkload(c, u).local = c.workload[u].local
                    /\ ReadWorkload(c, u).hbone = c.workload[u].hbone /\ ReadWorkload(c, u).id = c.workload[u].id
  BY ReadWorkloadTyped
<1>7. \A u \in WorkloadIds : u \notin us => ReadWorkload(c, u) = NoEntry
  BY DEF ReadWorkload
<1>8. \A u \in WorkloadIds : byUid'[u] = ReadWorkload(c, u)
  BY <1>2
<1>9. byUid' \in StoredWorkloads
  <2>1. \A u \in WorkloadIds : ReadWorkload(c, u) \in Workload \cup {NoEntry}
    BY <1>6, <1>7
  <2>. QED
    BY <1>2, <2>1 DEF StoredWorkloads
<1>10. byAddr' \in AddrIndices /\ AddrExact(byAddr', byUid')
  <2>1. /\ ReadAddresses(c, arrival) \in AddrIndices
        /\ AddrExact(ReadAddresses(c, arrival), ReadSoFar(c, arrival, Len(arrival)))
    BY <1>5, ReadAddressesSound
  <2>2. ReadSoFar(c, arrival, Len(arrival)) = byUid'
    <3>1. \A u \in WorkloadIds : (IF \E k \in 1..Len(arrival) : arrival[k] = u THEN ReadWorkload(c, u) ELSE NoEntry) = ReadWorkload(c, u)
      BY <1>5, <1>7
    <3>. QED
      BY <1>2, <3>1 DEF ReadSoFar
  <2>. QED
    BY <1>2, <2>1, <2>2
<1>11. byIdentity' \in IdentityIndices /\ IdentityExact(byIdentity', byUid')
  <2>1. byIdentity' \in IdentityIndices
    BY <1>2 DEF IdentityIndices
  <2>2. \A i \in Identities, u \in WorkloadIds : u \in byIdentity'[i] <=> u \in us /\ c.workload[u].local /\ c.workload[u].id = i
    BY <1>2
  <2>. HIDE DEF us
  <2>3. IdentityExact(byIdentity', byUid')
    BY <1>6, <1>7, <1>8, <2>2 DEF IdentityExact
  <2>. QED
    BY <2>1, <2>3
<1>12. certs' \subseteq Identities
  <2>1. \A u \in us : c.workload[u].id \in Identities
    BY <1>6 DEF Workload
  <2>. QED
    BY <1>1, <1>2, <2>1
<1>13. CertsKept(byUid', certs')
  <2>. SUFFICES ASSUME NEW u \in WorkloadIds, byUid'[u] # NoEntry, Prefetches(byUid'[u])
                PROVE  byUid'[u].id \in certs'
    BY DEF CertsKept
  <2>1. u \in us /\ byUid'[u].id = c.workload[u].id /\ Prefetches(c.workload[u])
    BY <1>6, <1>7, <1>8 DEF Prefetches
  <2>. QED
    BY <1>2, <2>1
<1>14. /\ store' \in ExactStores(SharedInFile(c))
       /\ \A g \in Services : g \in hs => store'.service[g] = FromFile(c, g) /\ store'.staged[g] = NoEndpoints
       /\ \A g \in Services : g \notin hs => store'.service[g] = NoEntry /\ store'.staged[g] = s0.staged[g]
  BY <1>2, <1>4, ReadServicesSound
<1>15. /\ s0 \in ExactStores({})
       /\ \A h \in Services : s0.service[h] = NoEntry
       /\ \A h \in Services, u \in WorkloadIds : s0.staged[h][u] = IF u \in Listing(c, h) THEN c.workload[u].healthy ELSE NoEntry
  BY StagingSound
<1>16. \A h \in hs : h \in Services /\ c.service[h] \in V
  BY AddressAssumption
<1>17. ASSUME NEW h \in hs
       PROVE  /\ FromFile(c, h) # NoEntry /\ FromFile(c, h).vips = c.service[h].vips /\ FromFile(c, h).allowAll = c.service[h].allowAll
              /\ \A u \in WorkloadIds :
                    FromFile(c, h).eps[u] = IF Includes(c.service[h], s0.staged[h][u]) THEN s0.staged[h][u] ELSE NoEntry
  <2>. DEFINE v == c.service[h]
  <2>1. h \in Services /\ v \in V /\ s0.service[h] = NoEntry
    BY <1>15, <1>16
  <2>2. FromFile(c, h) = TakeStaged(Carried(s0.service[h], v), s0.staged[h])
    BY <2>1 DEF FromFile
  <2>. HIDE DEF v, s0, hs
  <2>3. /\ TakeStaged(Carried(s0.service[h], v), s0.staged[h]) # NoEntry
        /\ TakeStaged(Carried(s0.service[h], v), s0.staged[h]).vips = v.vips
        /\ TakeStaged(Carried(s0.service[h], v), s0.staged[h]).allowAll = v.allowAll
        /\ \A u \in WorkloadIds :
              TakeStaged(Carried(s0.service[h], v), s0.staged[h]).eps[u] =
              IF Includes(v, s0.staged[h][u]) THEN s0.staged[h][u]
              ELSE IF Includes(v, Endpoint(s0, h, u)) THEN Endpoint(s0, h, u) ELSE NoEntry
    BY <1>15, <2>1, InsertedEndpoint
  <2>4. \A u \in WorkloadIds : Endpoint(s0, h, u) = NoEntry
    BY <2>1 DEF Endpoint
  <2>. QED
    BY <2>2, <2>3, <2>4 DEF v
<1>18. SharedInFile(c) \subseteq SharedVips(store')
  <2>1. \A g \in hs : store'.service[g] # NoEntry /\ store'.service[g].vips = c.service[g].vips
    BY <1>14, <1>16, <1>17
  <2>2. \A g \in Services, x \in Vips : c.service[g] # NoEntry /\ x \in c.service[g].vips => HasVip(store', g, x)
    BY <2>1 DEF HasVip
  <2>. QED
    BY <2>2 DEF SharedInFile, SharedVips
<1>19. store' \in ExactStores(shared') /\ shared' \subseteq Vips
  <2>1. SharedInFile(c) \subseteq shared'
    BY <1>2, <1>18
  <2>2. shared' \subseteq Vips
    BY <1>1, <1>2 DEF SharedVips
  <2>. QED
    BY <1>14, <2>1, <2>2, ExactBut
<1>20. lost' \in Histories /\ fromFile' \in Histories /\ \A h \in Services : fromFile'[h] = Listing(c, h)
  BY <1>2 DEF Histories, Listing
<1>21. ASSUME NEW h \in Services, NEW u \in WorkloadIds
       PROVE  EndpointRight(store', byUid'[u], h, u, u \in lost'[h], u \in fromFile'[h])
  <2>1. ~Lists(byUid'[u], h)
    BY <1>6, <1>7, <1>8 DEF Lists
  <2>2. u \notin fromFile'[h] => s0.staged[h][u] = NoEntry
    BY <1>15, <1>20
  <2>3. CASE h \in hs
    <3>1. Endpoint(store', h, u) = IF Includes(c.service[h], s0.staged[h][u]) THEN s0.staged[h][u] ELSE NoEntry
      BY <1>14, <1>17, <2>3 DEF Endpoint
    <3>2. \A e : Includes(store'.service[h], e) <=> Includes(c.service[h], e)
      BY <1>14, <1>17, <2>3 DEF Includes
    <3>3. store'.staged[h][u] = NoEntry
      BY <1>14, <2>3 DEF NoEndpoints
    <3>. HIDE DEF hs, us, s0
    <3>. QED
      BY <2>1, <2>2, <3>1, <3>2, <3>3 DEF EndpointRight
  <2>4. CASE h \notin hs
    <3>1. Endpoint(store', h, u) = NoEntry /\ store'.service[h] = NoEntry /\ store'.staged[h][u] = s0.staged[h][u]
      BY <1>14, <2>4 DEF Endpoint
    <3>. HIDE DEF hs, us, s0
    <3>. QED
      BY <2>1, <2>2, <3>1 DEF EndpointRight
  <2>. QED
    BY <2>3, <2>4
<1>22. EndpointsRight(store', byUid', lost', fromFile')
  BY <1>21 DEF EndpointsRight
<1>. QED
  BY <1>9, <1>10, <1>11, <1>12, <1>13, <1>19, <1>20, <1>22 DEF AddressInv

\* What is not touched stays right.
LEMMA AddressStutter == AddressInv /\ UNCHANGED addressVars => AddressInv'
<1>. SUFFICES ASSUME AddressInv, UNCHANGED addressVars
              PROVE  AddressInv'
  OBVIOUS
<1>1. /\ byUid' = byUid /\ byAddr' = byAddr /\ byIdentity' = byIdentity /\ store' = store
      /\ certs' = certs /\ lost' = lost /\ fromFile' = fromFile /\ shared' = shared
  BY DEF addressVars
<1>. QED
  BY <1>1 DEF AddressInv

\* The stores of workloads and services are right after any sequence of updates, removals
\* and local files (src/state/workload.rs, src/state/service.rs, src/xds.rs).
THEOREM AddressInvariant == AddressSpec => []AddressInv
<1>1. AddressInit => AddressInv
  BY AddressInvInit
<1>2. AddressInv /\ [AddressNext]_addressVars => AddressInv'
  <2>. SUFFICES ASSUME AddressInv, AddressNext
                PROVE  AddressInv'
    BY AddressStutter
  <2>1. CASE \E u \in WorkloadIds, w \in WorkloadValues : \E before \in SetToSeqs(Listed(u)), after \in SetToSeqs(w.services) :
                UpsertWorkload(u, w, before, after)
    BY <2>1, UpsertWorkloadKeeps
  <2>2. CASE \E u \in WorkloadIds : \E before \in SetToSeqs(Listed(u)) : DeleteWorkload(u, before)
    BY <2>2, DeleteWorkloadKeeps
  <2>3. CASE \E h \in Services, v \in ServiceValues : InsertService(h, v)
    BY <2>3, InsertServiceKeeps
  <2>4. CASE \E h \in Services : RemoveServiceByName(h)
    BY <2>4, RemoveServiceKeeps
  <2>5. CASE \E c \in AddressFiles : LoadAddresses(c)
    BY <2>5, LoadAddressesKeeps
  <2>. QED
    BY <2>1, <2>2, <2>3, <2>4, <2>5 DEF AddressNext
<1>. QED
  BY <1>1, <1>2, PTL DEF AddressSpec

\* AddressTypeOK always holds.
THEOREM AddressTypes == AddressSpec => []AddressTypeOK
<1>1. AddressInv => AddressTypeOK
  <2>. SUFFICES ASSUME AddressInv
                PROVE  AddressTypeOK
    OBVIOUS
  <2>1. store \in Stores
    BY DEF AddressInv, ExactStores
  <2>. QED
    BY <2>1 DEF AddressInv, AddressTypeOK, StoredWorkloads, AddrIndices, AddrEntries, IdentityIndices, Histories,
               Stores, StoredServices, StagedEndpoints, VipIndices
<1>. QED
  BY <1>1, AddressInvariant, PTL

\* Every address, local identity and VIP leads to the current version of what has it, and
\* no certificate of a local workload is cleared (WorkloadStore, ServiceStore,
\* was_last_identity_on_node).
THEOREM IndicesCurrentHolds == AddressSpec => []IndicesCurrent
<1>1. AddressInv => IndicesCurrent
  <2>. SUFFICES ASSUME AddressInv
                PROVE  IndicesCurrent
    OBVIOUS
  <2>1. ASSUME NEW a \in Addrs
        PROVE  {byAddr[a][i] : i \in DOMAIN byAddr[a]} =
               {[uid |-> u, wl |-> byUid[u]] : u \in {x \in WorkloadIds : byUid[x] # NoEntry /\ a \in Indexed(byUid[x])}}
    <3>. DEFINE L == {byAddr[a][i] : i \in DOMAIN byAddr[a]}
                E(u) == [uid |-> u, wl |-> byUid[u]]
                has == {x \in WorkloadIds : byUid[x] # NoEntry /\ a \in Indexed(byUid[x])}
                R == {E(u) : u \in has}
    <3>1. \A x : (\E i \in DOMAIN byAddr[a] : byAddr[a][i] = x) <=>
                 \E u \in WorkloadIds : byUid[u] # NoEntry /\ a \in Indexed(byUid[u]) /\ x = E(u)
      BY DEF AddressInv, AddrExact
    <3>. HIDE DEF E
    <3>2. \A x : x \in L <=> \E i \in DOMAIN byAddr[a] : byAddr[a][i] = x
      BY Zenon
    <3>3. \A x : x \in R <=> \E u \in WorkloadIds : byUid[u] # NoEntry /\ a \in Indexed(byUid[u]) /\ x = E(u)
      BY Zenon
    <3>. HIDE DEF L, R
    <3>4. L = R
      BY <3>1, <3>2, <3>3
    <3>. QED
      BY <3>4 DEF L, R, E
  <2>2. ASSUME NEW i \in Identities
        PROVE  byIdentity[i] = {u \in WorkloadIds : byUid[u] # NoEntry /\ byUid[u].local /\ byUid[u].id = i}
    <3>1. byIdentity[i] \subseteq WorkloadIds
      BY DEF AddressInv, IdentityIndices
    <3>2. \A u \in WorkloadIds : u \in byIdentity[i] <=> byUid[u] # NoEntry /\ byUid[u].local /\ byUid[u].id = i
      BY DEF AddressInv, IdentityExact
    <3>. QED
      BY <3>1, <3>2
  <2>3. VipCurrent
    BY DEF AddressInv, ExactStores, VipExact, VipCurrent, HasVip
  <2>4. CertKept
    BY DEF AddressInv, CertsKept, CertKept
  <2>. QED
    BY <2>1, <2>2, <2>3, <2>4 DEF IndicesCurrent, WorkloadIndices
<1>. QED
  BY <1>1, AddressInvariant, PTL

\* The endpoints of a service are the workloads that list it, with their health, whatever
\* the order of the updates (insert_workload, insert_service).
THEOREM EndpointsExactHolds == AddressSpec => []EndpointsExact
<1>1. AddressInv => EndpointsExact
  <2>. SUFFICES ASSUME AddressInv
                PROVE  EndpointsExact
    OBVIOUS
  <2>1. \A h \in Services, u \in WorkloadIds : h \in Listed(u) <=> Lists(byUid[u], h)
    BY DEF Listed, Lists
  <2>2. \A h \in Services, u \in WorkloadIds : EndpointRight(store, byUid[u], h, u, u \in lost[h], u \in fromFile[h])
    BY DEF AddressInv, EndpointsRight
  <2>3. \A u \in WorkloadIds : NoEndpoints[u] = NoEntry
    BY DEF NoEndpoints
  <2>4. EndpointsLive
    <3>. SUFFICES ASSUME NEW h \in Services, NEW u \in WorkloadIds
                  PROVE  LET eps == IF store.service[h] = NoEntry THEN NoEndpoints ELSE store.service[h].eps
                         IN /\ eps[u] # NoEntry => Includes(store.service[h], eps[u]) /\ store.staged[h][u] = NoEntry
                            /\ eps[u] # NoEntry /\ u \notin fromFile[h] => h \in Listed(u) /\ eps[u] = byUid[u].healthy
                            /\ store.staged[h][u] # NoEntry /\ u \notin fromFile[h] =>
                                 store.service[h] = NoEntry /\ h \in Listed(u) /\ store.staged[h][u] = byUid[u].healthy
      BY DEF EndpointsLive
    <3>. DEFINE e == (IF store.service[h] = NoEntry THEN NoEndpoints ELSE store.service[h].eps)[u]
    <3>1. e = Endpoint(store, h, u)
      BY <2>3 DEF Endpoint
    <3>2. store.service[h] = NoEntry => e = NoEntry
      BY <2>3
    <3>3. EndpointRight(store, byUid[u], h, u, u \in lost[h], u \in fromFile[h])
      BY <2>2
    <3>. HIDE DEF e
    <3>4. /\ e # NoEntry => Includes(store.service[h], e) /\ store.staged[h][u] = NoEntry
          /\ e # NoEntry /\ u \notin fromFile[h] => h \in Listed(u) /\ e = byUid[u].healthy
          /\ store.staged[h][u] # NoEntry /\ u \notin fromFile[h] =>
               store.service[h] = NoEntry /\ h \in Listed(u) /\ store.staged[h][u] = byUid[u].healthy
      BY <2>1, <3>1, <3>2, <3>3 DEF EndpointRight
    <3>. QED
      BY <3>4 DEF e
  <2>5. EndpointsComplete
    <3>. SUFFICES ASSUME NEW h \in Services, NEW u \in Members(h) \ lost[h]
                  PROVE  IF store.service[h] = NoEntry THEN store.staged[h][u] # NoEntry ELSE store.service[h].eps[u] # NoEntry
      BY DEF EndpointsComplete
    <3>1. u \in WorkloadIds /\ Lists(byUid[u], h) /\ u \notin lost[h]
      BY <2>1 DEF Members
    <3>2. byUid[u].healthy # NoEntry
      <4>1. byUid[u] \in Workload
        BY <3>1 DEF AddressInv, StoredWorkloads, Lists
      <4>. QED
        BY <4>1, NoEntryIsNone DEF Workload
    <3>3. EndpointRight(store, byUid[u], h, u, u \in lost[h], u \in fromFile[h])
      BY <2>2, <3>1
    <3>. QED
      BY <3>1, <3>2, <3>3 DEF EndpointRight, Endpoint
  <2>. QED
    BY <2>4, <2>5 DEF EndpointsExact
<1>. QED
  BY <1>1, AddressInvariant, PTL

-----------------------------------------------------------------------------
(* Looking a name up                                                       *)

Kinds == {"None", "Namespace", "Canonical", "Preferred", "First"}

\* What find_best_match has found among the first i services.
FoundAmong(q, ns, i, found) ==
    /\ found.kind = "None" => i = 0 /\ found.svc = Absent
    /\ found.kind # "None" => \E k \in 1..i : q[k] = found.svc
    /\ found.kind = "Namespace" => found.svc.ns = ns
    /\ (\E k \in 1..i : q[k].ns = ns) => found.kind = "Namespace"

\* One more service.
LEMMA BestMatchStepSound ==
    ASSUME NEW E, NEW q \in Seq(E), NEW ns, NEW preferred, NEW i \in 1..Len(q),
           NEW found \in [kind : Kinds, svc : E \cup {Absent}], FoundAmong(q, ns, i - 1, found)
    PROVE  /\ BestMatchStep(ns, preferred, found, q[i]) \in [kind : Kinds, svc : E \cup {Absent}]
           /\ FoundAmong(q, ns, i, BestMatchStep(ns, preferred, found, q[i]))
<1>. DEFINE next == BestMatchStep(ns, preferred, found, q[i])
            is(kind) == next = [kind |-> kind, svc |-> q[i]]
<1>1. q[i] \in E /\ i \in 1..i /\ i # 0 /\ (\A k \in 1..i : k = i \/ k \in 1..(i - 1)) /\ \A k \in 1..(i - 1) : k \in 1..i
  OBVIOUS
<1>2. \/ next = found /\ (found.kind = "Namespace" \/ (found.kind # "None" /\ q[i].ns # ns))
      \/ is("Namespace") /\ q[i].ns = ns /\ found.kind # "Namespace"
      \/ (is("Canonical") \/ is("Preferred") \/ is("First")) /\ q[i].ns # ns /\ found.kind # "Namespace"
  BY DEF BestMatchStep
<1>. HIDE DEF next
<1>3. CASE next = found /\ (found.kind = "Namespace" \/ (found.kind # "None" /\ q[i].ns # ns))
  BY <1>1, <1>3 DEF FoundAmong, next
<1>4. CASE is("Namespace") /\ q[i].ns = ns
  <2>1. next \in [kind : Kinds, svc : E \cup {Absent}] /\ next.kind = "Namespace" /\ next.svc = q[i]
    BY <1>1, <1>4 DEF Kinds
  <2>. QED
    BY <1>1, <1>4, <2>1 DEF FoundAmong, next
<1>5. CASE (is("Canonical") \/ is("Preferred") \/ is("First")) /\ q[i].ns # ns /\ found.kind # "Namespace"
  <2>1. next \in [kind : Kinds, svc : E \cup {Absent}] /\ next.kind \notin {"None", "Namespace"} /\ next.svc = q[i]
    BY <1>1, <1>5 DEF Kinds
  <2>. QED
    BY <1>1, <1>5, <2>1 DEF FoundAmong, next
<1>. QED
  BY <1>2, <1>3, <1>4, <1>5

\* ServiceMatch::find_best_match returns one of the services, one of the client's
\* namespace if there is any.
LEMMA BestMatchSound ==
    ASSUME NEW E, Absent \notin E, NEW q \in Seq(E), NEW ns, NEW preferred
    PROVE  /\ FindBestMatch(q, ns, preferred) = Absent => DOMAIN q = {}
           /\ FindBestMatch(q, ns, preferred) # Absent => \E k \in DOMAIN q : q[k] = FindBestMatch(q, ns, preferred)
           /\ (\E k \in DOMAIN q : q[k].ns = ns) => FindBestMatch(q, ns, preferred).ns = ns
<1>. DEFINE n == Len(q)
            S == [kind : Kinds, svc : E \cup {Absent}]
            none == [kind |-> "None", svc |-> Absent]
            G(i) == {s \in S : FoundAmong(q, ns, i, s)}
            Step(i, s) == BestMatchStep(ns, preferred, s, q[i])
            \* a step from what cannot be there may lead anywhere
            step == [x \in (1..n) \X S |-> IF Step(x[1], x[2]) \in S THEN Step(x[1], x[2]) ELSE none]
            Solves(f) == f = [i \in 0..n |-> IF i = 0 THEN none ELSE Step(i, f[i - 1])]
<1>1. n \in Nat /\ DOMAIN q = 1..n
  OBVIOUS
<1>2. none \in G(0) /\ none \in S
  BY DEF FoundAmong, Kinds
<1>3. FindBestMatch(q, ns, preferred) = (CHOOSE f : Solves(f))[n].svc
  BY DEF FindBestMatch
<1>4. \A i \in 1..n, s \in S : s \in G(i - 1) => Step(i, s) \in G(i) /\ Step(i, s) \in S
  BY BestMatchStepSound
<1>5. \A i \in 0..n : \A s \in G(i) : s \in S /\ FoundAmong(q, ns, i, s)
  OBVIOUS
<1>. HIDE DEF n, S, Step, none, G
<1>6. step \in StepsOn(n, S)
  BY <1>2 DEF StepsOn
<1>7. PICK run : run \in Runs(n, S, none, step)
  <2>. HIDE DEF step
  <2>. QED
    BY <1>1, <1>2, <1>6, RecursionExists
<1>8. run \in [0..n -> S] /\ run[0] = none /\ \A i \in 1..n : run[i] = step[<<i, run[i - 1]>>]
  BY <1>7 DEF Runs
<1>. DEFINE T == {i \in 0..n : run[i] \in G(i)}
<1>9. ASSUME NEW i \in 1..n, run[i - 1] \in G(i - 1)
      PROVE  run[i] = Step(i, run[i - 1]) /\ run[i] \in G(i)
  <2>1. i - 1 \in 0..n
    BY <1>1
  <2>2. run[i - 1] \in S
    BY <1>8, <2>1
  <2>3. Step(i, run[i - 1]) \in S /\ Step(i, run[i - 1]) \in G(i)
    BY <1>4, <1>9, <2>2
  <2>4. step[<<i, run[i - 1]>>] = Step(i, run[i - 1])
    BY <2>2, <2>3
  <2>. QED
    BY <1>8, <2>3, <2>4
<1>10. \A i \in 0..n : i \in T
  <2>1. 0 \in T /\ \A i \in 1..n : i - 1 \in T => i \in T
    BY <1>1, <1>2, <1>8, <1>9
  <2>. HIDE DEF T
  <2>. QED
    BY <1>1, <2>1, IntervalInduction
<1>11. \A i \in 1..n : i - 1 \in 0..n
  BY <1>1
<1>12. \A i \in 1..n : run[i] = Step(i, run[i - 1])
  BY <1>9, <1>10, <1>11
<1>13. Solves(run)
  BY <1>1, <1>8, <1>12
<1>. DEFINE f == CHOOSE f : Solves(f)
<1>14. Solves(f)
  <2>. HIDE DEF Solves
  <2>. QED
    BY <1>13
<1>. HIDE DEF f
<1>15. f[0] = none /\ \A i \in 1..n : f[i] = Step(i, f[i - 1])
  BY <1>1, <1>14
<1>. HIDE DEF Solves
<1>. DEFINE U == {i \in 0..n : f[i] = run[i]}
<1>16. \A i \in 0..n : i \in U
  <2>1. 0 \in U /\ \A i \in 1..n : i - 1 \in U => i \in U
    BY <1>1, <1>8, <1>12, <1>15
  <2>. HIDE DEF U
  <2>. QED
    BY <1>1, <2>1, IntervalInduction
<1>17. n \in 0..n /\ f[n] = run[n] /\ run[n] \in G(n)
  BY <1>1, <1>10, <1>16
<1>18. FindBestMatch(q, ns, preferred) = run[n].svc /\ FoundAmong(q, ns, n, run[n])
  BY <1>3, <1>5, <1>17 DEF f
<1>19. \A k \in 1..n : q[k] # Absent
  BY DEF n
<1>. QED
  BY <1>1, <1>18, <1>19 DEF FoundAmong

\* A service of that name that find_server considers.
Considered(st, host, s) == s \in Range(st.services) /\ s.host = host /\ Served(s)

\* The inner loop of find_server: a service of the name, of the client's namespace
\* if one is considered.
LEMMA ServiceForSound ==
    ASSUME NEW st \in DnsStores, NEW client, NEW host
    PROVE  /\ ServiceFor(st, client, host) # Absent =>
                Considered(st, host, ServiceFor(st, client, host)) /\ ServiceFor(st, client, host) \in DnsServices
           /\ \A s : Considered(st, host, s) =>
                /\ ServiceFor(st, client, host) # Absent
                /\ s.ns = client.ns => ServiceFor(st, client, host).ns = client.ns
<1>. DEFINE E == Range(st.services)
            other == {s \in E : s.host # host}
            named == GetByHost(st, host)
            idle == {s \in Range(named) : ~Served(s)}
            q == Without(named, idle)
            r == FindBestMatch(q, client.ns, dnsCfg.preferred)
<1>1. st.services \in Seq(E) /\ Absent \notin E /\ \A s \in E : s \in DnsServices
  BY DnsAssumption DEF DnsServices
<1>2. named = Without(st.services, other) /\ ServiceFor(st, client, host) = r
  BY DEF GetByHost, ServiceFor
<1>3. \A x : x \in E <=> \E i \in DOMAIN st.services : st.services[i] = x
  BY DEF Range
<1>. HIDE DEF E
<1>. HIDE DEF named
<1>4. named \in Seq(E) /\ \A x : (\E i \in DOMAIN named : named[i] = x) <=> x \notin other /\ x \in E
  <2>. HIDE DEF other, q, r
  <2>1. /\ Without(st.services, other) \in Seq(E)
        /\ \A x : (\E i \in DOMAIN Without(st.services, other) : Without(st.services, other)[i] = x) <=>
                   x \notin other /\ \E i \in DOMAIN st.services : st.services[i] = x
    BY ONLY <1>1, WithoutKeeps
  <2>. QED
    BY ONLY <1>2, <1>3, <2>1
<1>5. \A x : x \in idle <=> (\E i \in DOMAIN named : named[i] = x) /\ ~Served(x)
  BY DEF Range
<1>. HIDE DEF idle
<1>6. q \in Seq(E) /\ \A x : (\E i \in DOMAIN q : q[i] = x) <=> x \notin idle /\ \E i \in DOMAIN named : named[i] = x
  BY <1>4, WithoutKeeps
<1>. HIDE DEF q
<1>7. \A x : (\E i \in DOMAIN q : q[i] = x) <=> Considered(st, host, x)
  BY <1>4, <1>5, <1>6 DEF Considered, E
<1>8. /\ r = Absent => DOMAIN q = {}
      /\ r # Absent => \E k \in DOMAIN q : q[k] = r
      /\ (\E k \in DOMAIN q : q[k].ns = client.ns) => r.ns = client.ns
  BY <1>1, <1>6, BestMatchSound
<1>. HIDE DEF r
<1>9. r # Absent => Considered(st, host, r) /\ r \in DnsServices
  BY <1>1, <1>7, <1>8 DEF Considered, E
<1>10. ASSUME NEW s, Considered(st, host, s)
       PROVE  r # Absent /\ (s.ns = client.ns => r.ns = client.ns)
  <2>1. PICK k \in DOMAIN q : q[k] = s
    BY <1>7, <1>10
  <2>. QED
    BY <1>8, <2>1
<1>. QED
  BY <1>2, <1>9, <1>10

\* Where the lists of a list are in its concatenation: each behind the ones before it.
StartsAt(qs, at) ==
    /\ at \in [DOMAIN qs -> Nat]
    /\ \A i \in DOMAIN qs : \A j \in DOMAIN qs[i] : at[i] + j \in DOMAIN FlattenSeq(qs) /\ FlattenSeq(qs)[at[i] + j] = qs[i][j]
    /\ \A i, m \in DOMAIN qs : \A j \in DOMAIN qs[i], l \in DOMAIN qs[m] : i < m => at[i] + j < at[m] + l
    /\ \A k \in DOMAIN FlattenSeq(qs) : \E i \in DOMAIN qs : \E j \in DOMAIN qs[i] : k = at[i] + j
    /\ 1 \in DOMAIN qs => at[1] = 0

\* FlattenSeq keeps every member and the order.
LEMMA Flattened ==
    ASSUME NEW E, NEW qs \in Seq(Seq(E))
    PROVE  FlattenSeq(qs) \in Seq(E) /\ \E at : StartsAt(qs, at)
<1>1. PICK c : c \in Concatenations(E, qs) /\ FlattenSeq(qs) = c[Len(qs)]
  BY FlattenIs
<1>2. Placed(E, qs, c)
  BY <1>1, ConcatenationPlaces
<1>. DEFINE n == Len(qs)
            at == [i \in 1..n |-> Len(c[i - 1])]
<1>3. n \in Nat /\ DOMAIN qs = 1..n /\ \A i \in 1..n : qs[i] \in Seq(E) /\ DOMAIN qs[i] = 1..Len(qs[i]) /\ Len(qs[i]) \in Nat
  OBVIOUS
<1>4. FlattenSeq(qs) \in Seq(E) /\ FlattenSeq(qs) = c[n]
  BY <1>1, <1>2 DEF Placed
<1>5. /\ \A i \in 1..n : Len(c[i - 1]) \in Nat
      /\ \A i \in 1..n : \A j \in DOMAIN qs[i] :
            /\ Len(c[i - 1]) + j \in DOMAIN c[n] /\ c[n][Len(c[i - 1]) + j] = qs[i][j]
            /\ \A m \in 1..n : i < m => Len(c[i - 1]) + j <= Len(c[m - 1])
      /\ \A k \in DOMAIN c[n] : \E i \in 1..n : \E j \in DOMAIN qs[i] : k = Len(c[i - 1]) + j
  BY <1>2 DEF Placed
<1>6. c[0] = <<>> /\ Len(<<>>) = 0
  BY <1>1 DEF Concatenations
<1>. HIDE DEF n
<1>7. at \in [DOMAIN qs -> Nat] /\ (1 \in DOMAIN qs => at[1] = 0) /\ \A i \in 1..n : at[i] = Len(c[i - 1]) /\ at[i] \in Nat
  BY <1>3, <1>5, <1>6
<1>. HIDE DEF at
<1>8. \A i \in DOMAIN qs : \A j \in DOMAIN qs[i] : at[i] + j \in DOMAIN FlattenSeq(qs) /\ FlattenSeq(qs)[at[i] + j] = qs[i][j]
  BY <1>3, <1>4, <1>5, <1>7
<1>9. ASSUME NEW i \in DOMAIN qs, NEW m \in DOMAIN qs, NEW j \in DOMAIN qs[i], NEW l \in DOMAIN qs[m], i < m
      PROVE  at[i] + j < at[m] + l
  <2>1. i \in 1..n /\ m \in 1..n
    BY <1>3
  <2>2. at[i] = Len(c[i - 1]) /\ at[m] = Len(c[m - 1]) /\ at[i] \in Nat /\ at[m] \in Nat
    BY <1>7, <2>1
  <2>3. j \in Nat /\ l \in Nat /\ l # 0
    <3>1. j \in 1..Len(qs[i]) /\ l \in 1..Len(qs[m]) /\ Len(qs[i]) \in Nat /\ Len(qs[m]) \in Nat
      BY ONLY <1>3, <2>1, j \in DOMAIN qs[i], l \in DOMAIN qs[m]
    <3>. QED
      BY ONLY <3>1
  <2>4. Len(c[i - 1]) + j <= Len(c[m - 1])
    BY ONLY <1>5, <1>9, <2>1, j \in DOMAIN qs[i]
  <2>5. at[i] + j <= at[m]
    BY ONLY <2>2, <2>4
  <2>6. ASSUME NEW a \in Nat, NEW b \in Nat, NEW x \in Nat, NEW y \in Nat, y # 0, a + x <= b
        PROVE  a + x < b + y
    BY ONLY <2>6
  <2>. QED
    BY ONLY <2>2, <2>3, <2>5, <2>6
<1>10. \A k \in DOMAIN FlattenSeq(qs) : \E i \in DOMAIN qs : \E j \in DOMAIN qs[i] : k = at[i] + j
  <2>. TAKE k \in DOMAIN FlattenSeq(qs)
  <2>1. k \in DOMAIN c[n]
    BY <1>4
  <2>2. PICK i \in 1..n : \E j \in DOMAIN qs[i] : k = Len(c[i - 1]) + j
    BY ONLY <1>5, <2>1
  <2>. QED
    BY ONLY <1>3, <1>7, <2>2
<1>11. StartsAt(qs, at)
  BY <1>7, <1>8, <1>9, <1>10 DEF StartsAt
<1>. QED
  BY <1>4, <1>11

\* A name that is looked for, and the name without the search domain, if it was cut off.
AliasRecords == [name : Names, stripped : Names \cup {Absent}]

ClusterSuffixes(ns) == {<<>>, ClusterDomain, SvcDomain, NamespacedDomain(ns)}

\* One name behind another.
LEMMA NameConcat ==
    ASSUME NEW a \in Names, NEW b \in Names
    PROVE  a \o b \in Names
  BY ConcatProperties DEF Names

\* The domains are names.
LEMMA DomainsTyped ==
    ASSUME NEW ns \in Labels
    PROVE  /\ ClusterDomain \in Names /\ SvcDomain \in Names /\ NamespacedDomain(ns) \in Names
           /\ SearchDomains(ns) \in Seq(Names)
<1>1. ClusterDomain \in Names /\ ResolvConf \in Seq(Names)
  BY DnsAssumption
<1>2. <<"svc">> \in Names /\ <<ns>> \in Names
  <2>1. ASSUME NEW S, NEW a \in S
        PROVE  <<a>> \in Seq(S)
    OBVIOUS
  <2>2. "svc" \in Labels
    BY DnsAssumption
  <2>. QED
    BY ONLY <2>1, <2>2, ns \in Labels DEF Names
<1>3. SvcDomain \in Names
  BY <1>1, <1>2, NameConcat DEF SvcDomain
<1>4. NamespacedDomain(ns) \in Names
  BY <1>2, <1>3, NameConcat DEF NamespacedDomain
<1>5. ASSUME NEW S, NEW a \in S, NEW b \in S, NEW c \in S
      PROVE  <<a, b, c>> \in Seq(S)
  OBVIOUS
<1>6. << NamespacedDomain(ns), SvcDomain, ClusterDomain >> \in Seq(Names)
  BY <1>1, <1>3, <1>4, <1>5
<1>. QED
  BY <1>1, <1>3, <1>4, <1>6 DEF SearchDomains

\* to_kube_fqdns appends a domain of the cluster.
LEMMA FqdnsSound ==
    ASSUME NEW ns \in Labels, NEW name \in Names
    PROVE  /\ ToKubeFqdns(name, ns) \in Seq(Names)
           /\ \A i \in DOMAIN ToKubeFqdns(name, ns) : \E d \in ClusterSuffixes(ns) : ToKubeFqdns(name, ns)[i] = name \o d
<1>. DEFINE a == name \o NamespacedDomain(ns)
            b == name \o SvcDomain
            c == name \o ClusterDomain
            X == {a, b, c}
<1>1. a \in Names /\ b \in Names /\ c \in Names
  BY DomainsTyped, NameConcat
<1>2. \A x \in X : x \in Names /\ \E d \in ClusterSuffixes(ns) : x = name \o d
  BY <1>1 DEF ClusterSuffixes
<1>. DEFINE l == Len(name) \in {3, 4} /\ HasDomain(name, <<"svc">>)
            m == Len(name) \in {2, 3}
            r == Len(name) \in {1, 2}
            f == ToKubeFqdns(name, ns)
<1>3. f = ((IF l THEN <<c>> ELSE <<>>) \o (IF m THEN <<b>> ELSE <<>>)) \o (IF r THEN <<a>> ELSE <<>>)
  BY DEF ToKubeFqdns
<1>. HIDE DEF a, b, c, l, m, r, f
<1>4. a \in X /\ b \in X /\ c \in X /\ X \subseteq Names
  BY <1>2
<1>. HIDE DEF X
<1>. DEFINE part(on, x) == IF on THEN <<x>> ELSE <<>>
<1>a. ASSUME NEW on, NEW x \in X
      PROVE  part(on, x) \in Seq(X)
  OBVIOUS
<1>b. part(l, c) \in Seq(X) /\ part(m, b) \in Seq(X) /\ part(r, a) \in Seq(X)
  <2>. HIDE DEF part
  <2>. QED
    BY <1>4, <1>a
<1>c. f = (part(l, c) \o part(m, b)) \o part(r, a)
  BY <1>3
<1>. HIDE DEF part
<1>5. f \in Seq(X)
  BY <1>b, <1>c, ConcatProperties
<1>6. DOMAIN f = 1..Len(f) /\ Len(f) \in Nat /\ f = [i \in 1..Len(f) |-> f[i]] /\ \A i \in DOMAIN f : f[i] \in X
  BY <1>5
<1>7. \A i \in 1..Len(f) : f[i] \in Names
  BY <1>4, <1>6
<1>8. f \in Seq(Names)
  BY <1>6, <1>7
<1>. QED
  BY <1>2, <1>6, <1>8 DEF f

\* The aliases of a base: the base and its names in the cluster, the same as if no
\* search domain was cut off.
AliasesOf(ns, base, stripped, u, plain) ==
    /\ u \in Seq(AliasRecords)
    /\ 1 \in DOMAIN u /\ u[1].name = base
    /\ \A i \in DOMAIN u :
          /\ u[i] = [name |-> u[i].name, stripped |-> stripped] /\ \E d \in ClusterSuffixes(ns) : u[i].name = base \o d
          /\ i \in DOMAIN plain /\ plain[i] = [name |-> u[i].name, stripped |-> Absent]

\* The two loops of get_aliases over to_kube_fqdns add the same names.
LEMMA UnderSound ==
    ASSUME NEW ns \in Labels, NEW base \in Names, NEW stripped \in Names \cup {Absent}
    PROVE  AliasesOf(ns, base, stripped, AliasesUnder(ns, base, stripped), AliasesUnder(ns, base, Absent))
<1>. DEFINE f == ToKubeFqdns(base, ns)
            names == <<base>> \o f
            u == AliasesUnder(ns, base, stripped)
<1>1. f \in Seq(Names) /\ \A i \in DOMAIN f : \E d \in ClusterSuffixes(ns) : f[i] = base \o d
  BY FqdnsSound
<1>2. base \o <<>> = base /\ <<>> \in ClusterSuffixes(ns)
  BY DEF ClusterSuffixes, Names
<1>. HIDE DEF f
<1>3. names \in Seq(Names) /\ 1 \in DOMAIN names /\ names[1] = base
  BY <1>1
<1>4. \A i \in DOMAIN names : i = 1 \/ (i - 1 \in DOMAIN f /\ names[i] = f[i - 1])
  BY <1>1
<1>5. \A i \in DOMAIN names : names[i] \in Names /\ \E d \in ClusterSuffixes(ns) : names[i] = base \o d
  <2>. TAKE i \in DOMAIN names
  <2>1. names[i] \in Names
    BY <1>3
  <2>. HIDE DEF names
  <2>2. CASE i = 1
    BY <1>2, <1>3, <2>1, <2>2
  <2>3. CASE i # 1
    BY <1>1, <1>4, <2>1, <2>3
  <2>. QED
    BY <2>2, <2>3
<1>6. \A s : AliasesUnder(ns, base, s) = [i \in DOMAIN names |-> [name |-> names[i], stripped |-> s]]
  BY DEF AliasesUnder, f
<1>. HIDE DEF names
<1>7. /\ u = [i \in DOMAIN names |-> [name |-> names[i], stripped |-> stripped]]
      /\ AliasesUnder(ns, base, Absent) = [i \in DOMAIN names |-> [name |-> names[i], stripped |-> Absent]]
  BY <1>6
<1>8. \A i \in DOMAIN names : [name |-> names[i], stripped |-> stripped] \in AliasRecords
  BY <1>5 DEF AliasRecords
<1>. HIDE DEF u
<1>9. DOMAIN names = 1..Len(names) /\ Len(names) \in Nat
  BY <1>3
<1>10. u \in Seq(AliasRecords)
  BY <1>7, <1>8, <1>9
<1>11. DOMAIN u = DOMAIN names /\ \A i \in DOMAIN names : u[i] = [name |-> names[i], stripped |-> stripped]
  BY <1>7
<1>12. ASSUME NEW i \in DOMAIN u
       PROVE  /\ u[i] = [name |-> u[i].name, stripped |-> stripped]
              /\ \E d \in ClusterSuffixes(ns) : u[i].name = base \o d
              /\ i \in DOMAIN AliasesUnder(ns, base, Absent)
              /\ AliasesUnder(ns, base, Absent)[i] = [name |-> u[i].name, stripped |-> Absent]
  <2>1. i \in DOMAIN names /\ u[i] = [name |-> names[i], stripped |-> stripped]
    BY <1>11
  <2>2. u[i].name = names[i] /\ u[i] = [name |-> u[i].name, stripped |-> stripped]
    BY <2>1
  <2>. QED
    BY <1>5, <1>7, <2>1, <2>2
<1>13. 1 \in DOMAIN u /\ u[1].name = base
  BY <1>3, <1>11
<1>14. AliasesOf(ns, base, stripped, u, AliasesUnder(ns, base, Absent))
  BY <1>10, <1>12, <1>13 DEF AliasesOf
<1>. QED
  BY <1>14 DEF u

\* get_wildcards: the name first, then wildcards that cover it.
LEMMA WildcardsSound ==
    ASSUME NEW name \in Names
    PROVE  /\ GetWildcards(name) \in Seq(Names)
           /\ 1 \in DOMAIN GetWildcards(name) /\ GetWildcards(name)[1] = name
           /\ \A i \in DOMAIN GetWildcards(name) : Covers(GetWildcards(name)[i], name)
<1>. DEFINE n == Len(name)
            rest(i) == SubSeq(name, i + 1, n)
            star == <<"*">>
            wild(i) == star \o rest(i)
            tail == [i \in 1..(n - 1) |-> wild(i)]
            g == GetWildcards(name)
<1>1. n \in Nat /\ name \in [1..n -> Labels] /\ name \in Seq(Labels)
  BY DEF Names
<1>2. star \in Seq(Labels) /\ Len(star) = 1 /\ star[1] = "*"
  <2>1. "*" \in Labels
    BY DnsAssumption
  <2>2. ASSUME NEW S, NEW a \in S
        PROVE  <<a>> \in Seq(S) /\ Len(<<a>>) = 1 /\ <<a>>[1] = a
    OBVIOUS
  <2>. QED
    BY ONLY <2>1, <2>2
<1>3. g = <<name>> \o tail
  BY DEF GetWildcards
<1>. HIDE DEF star, g, n
<1>4. ASSUME NEW i \in 1..(n - 1)
      PROVE  wild(i) \in Names /\ Covers(wild(i), name)
  <2>. DEFINE t == rest(i)
              w == wild(i)
  <2>1. i + 1 \in Int /\ n \in Int /\ i + 1 <= n /\ n - (i + 1) + 1 = n - i
    BY <1>1
  <2>2. \A k \in (i + 1)..n : name[k] \in Labels
    BY <1>1
  <2>3. t \in Seq(Labels) /\ Len(t) = n - i
    BY ONLY <2>1, <2>2, SubSeqProperties
  <2>. HIDE DEF t
  <2>4. w = star \o t
    BY DEF t
  <2>. HIDE DEF w
  <2>5. /\ w \in Seq(Labels) /\ Len(w) = 1 + Len(t)
        /\ \A k \in 1..(1 + Len(t)) : w[k] = IF k <= 1 THEN star[k] ELSE t[k - 1]
    <3>1. /\ star \o t \in Seq(Labels) /\ Len(star \o t) = Len(star) + Len(t)
          /\ \A k \in 1..(Len(star) + Len(t)) : (star \o t)[k] = IF k <= Len(star) THEN star[k] ELSE t[k - Len(star)]
      BY ONLY <1>2, <2>3, ConcatProperties
    <3>. QED
      BY ONLY <1>2, <2>4, <3>1
  <2>6. n - i \in Nat /\ 1 <= n - i /\ n > Len(t) /\ n - Len(t) + 1 = i + 1 /\ Len(w) = 1 + (n - i)
    BY <1>1, <2>1, <2>3, <2>5
  <2>7. w # <<>> /\ w[1] = "*"
    BY <1>2, <2>5, <2>6
  <2>8. /\ Tail(w) \in Seq(Labels) /\ Len(Tail(w)) = Len(w) - 1
        /\ \A k \in 1..Len(Tail(w)) : Tail(w)[k] = w[k + 1]
    BY <2>5, <2>7, HeadTailProperties
  <2>9. Len(Tail(w)) = Len(t) /\ \A k \in 1..Len(t) : Tail(w)[k] = t[k]
    <3>1. Len(Tail(w)) = Len(t)
      BY <2>3, <2>6, <2>8
    <3>2. \A k \in 1..Len(t) : k + 1 \in 1..(1 + Len(t)) /\ ~(k + 1 <= 1) /\ (k + 1) - 1 = k
      BY <2>3, <2>6
    <3>. QED
      BY <2>5, <2>8, <3>1, <3>2
  <2>10. Tail(w) = t
    BY <2>3, <2>8, <2>9, SeqEqual
  <2>11. HasDomain(name, Tail(w))
    BY <2>6, <2>10 DEF HasDomain, n, t
  <2>. QED
    BY <2>5, <2>7, <2>11 DEF Covers, w, Names
<1>. HIDE DEF wild
<1>5. tail \in Seq(Names) /\ Len(tail) \in Nat /\ DOMAIN tail = 1..(n - 1) /\ DOMAIN tail = 1..Len(tail)
      /\ \A i \in 1..Len(tail) : Covers(tail[i], name)
  <2>1. CASE n = 0
    <3>1. 1..(n - 1) = {}
      BY <2>1
    <3>2. tail = <<>>
      BY <3>1
    <3>3. <<>> \in Seq(Names) /\ Len(<<>>) = 0 /\ DOMAIN <<>> = {} /\ 1..0 = {}
      OBVIOUS
    <3>. HIDE DEF tail
    <3>. QED
      BY ONLY <3>1, <3>2, <3>3
  <2>2. CASE n # 0
    <3>1. n - 1 \in Nat
      BY <1>1, <2>2
    <3>2. tail \in Seq(Names) /\ Len(tail) = n - 1
      BY <1>4, <3>1
    <3>. QED
      BY <1>4, <3>1, <3>2
  <2>. QED
    BY <2>1, <2>2
<1>. HIDE DEF tail
<1>6. <<name>> \in Seq(Names) /\ Len(<<name>>) = 1 /\ <<name>>[1] = name
  OBVIOUS
<1>7. /\ g \in Seq(Names) /\ Len(g) = 1 + Len(tail)
      /\ \A i \in 1..(1 + Len(tail)) : g[i] = IF i <= 1 THEN <<name>>[i] ELSE tail[i - 1]
  BY <1>3, <1>5, <1>6, ConcatProperties
<1>8. DOMAIN g = 1..(1 + Len(tail)) /\ 1 \in DOMAIN g /\ g[1] = name
  BY <1>5, <1>6, <1>7
<1>9. ASSUME NEW i \in DOMAIN g
      PROVE  Covers(g[i], name)
  <2>1. CASE i = 1
    BY <1>8, <2>1 DEF Covers
  <2>2. CASE i # 1
    <3>1. i \in 1..(1 + Len(tail)) /\ ~(i <= 1) /\ i - 1 \in 1..Len(tail)
      BY <1>5, <1>8, <2>2
    <3>. QED
      BY <1>5, <1>7, <3>1
  <2>. QED
    BY <2>1, <2>2
<1>. QED
  BY <1>7, <1>8, <1>9 DEF g

\* The lists of aliases: those of the name, then those of the name without each
\* search domain that it has.
LEMMA AliasListsAre ==
    ASSUME NEW ns \in Labels, NEW name \in Names
    PROVE  /\ AliasLists(ns, name) \in Seq(Seq(AliasRecords))
           /\ 1 \in DOMAIN AliasLists(ns, name) /\ AliasLists(ns, name)[1] = AliasesUnder(ns, name, Absent)
           /\ \A i \in DOMAIN AliasLists(ns, name) : i # 1 =>
                \/ AliasLists(ns, name)[i] = <<>>
                \/ \E d \in Range(SearchDomains(ns)) :
                      /\ HasDomain(name, d) /\ TrimDomain(name, d) \in Names
                      /\ AliasLists(ns, name)[i] = AliasesUnder(ns, TrimDomain(name, d), TrimDomain(name, d))
<1>. DEFINE domains == SearchDomains(ns)
            trim(i) == TrimDomain(name, domains[i])
            own == AliasesUnder(ns, name, Absent)
            more(i) == IF HasDomain(name, domains[i]) THEN AliasesUnder(ns, trim(i), trim(i)) ELSE <<>>
            rest == [i \in DOMAIN domains |-> more(i)]
            S == Seq(AliasRecords)
            al == AliasLists(ns, name)
<1>1. domains \in Seq(Names)
  BY DomainsTyped
<1>2. al = <<own>> \o rest
  BY DEF AliasLists
<1>. HIDE DEF domains, al
<1>3. DOMAIN domains = 1..Len(domains) /\ Len(domains) \in Nat /\ \A i \in DOMAIN domains : domains[i] \in Names /\ domains[i] \in Range(domains)
  BY <1>1 DEF Range
<1>4. own \in S
  BY UnderSound DEF AliasesOf
<1>5. ASSUME NEW i \in DOMAIN domains, HasDomain(name, domains[i])
      PROVE  trim(i) \in Names
  <2>. DEFINE n == Len(name)
              m == Len(domains[i])
  <2>1. n \in Nat /\ m \in Nat /\ n > m /\ name \in [1..n -> Labels]
    BY <1>3, <1>5 DEF Names, HasDomain
  <2>2. 1 \in Int /\ n - m \in Int /\ \A k \in 1..(n - m) : name[k] \in Labels
    <3>. HIDE DEF n, m
    <3>. QED
      BY <2>1
  <2>3. SubSeq(name, 1, n - m) \in Seq(Labels)
    <3>. HIDE DEF n, m
    <3>. QED
      BY ONLY <2>2, SubSeqProperties
  <2>. QED
    BY <2>3 DEF TrimDomain, Names
<1>6. ASSUME NEW i \in DOMAIN domains
      PROVE  more(i) \in S
  <2>1. CASE HasDomain(name, domains[i])
    <3>1. trim(i) \in Names
      BY <1>5, <2>1
    <3>. HIDE DEF trim
    <3>. QED
      BY <2>1, <3>1, UnderSound DEF AliasesOf
  <2>2. CASE ~HasDomain(name, domains[i])
    BY <2>2
  <2>. QED
    BY <2>1, <2>2
<1>7. \A i \in DOMAIN domains : more(i) = <<>> \/ (HasDomain(name, domains[i]) /\ more(i) = AliasesUnder(ns, trim(i), trim(i)))
  OBVIOUS
<1>. HIDE DEF own, more, S
<1>8. rest \in Seq(S) /\ Len(rest) = Len(domains) /\ DOMAIN rest = DOMAIN domains /\ \A i \in DOMAIN domains : rest[i] = more(i)
  BY <1>3, <1>6
<1>. HIDE DEF rest
<1>9. <<own>> \in Seq(S) /\ Len(<<own>>) = 1 /\ <<own>>[1] = own
  BY <1>4
<1>10. /\ al \in Seq(S) /\ Len(al) = 1 + Len(rest)
       /\ \A i \in 1..(1 + Len(rest)) : al[i] = IF i <= 1 THEN <<own>>[i] ELSE rest[i - 1]
  <2>1. /\ <<own>> \o rest \in Seq(S) /\ Len(<<own>> \o rest) = Len(<<own>>) + Len(rest)
        /\ \A i \in 1..(Len(<<own>>) + Len(rest)) :
             (<<own>> \o rest)[i] = IF i <= Len(<<own>>) THEN <<own>>[i] ELSE rest[i - Len(<<own>>)]
    BY ONLY <1>8, <1>9, ConcatProperties
  <2>. QED
    BY ONLY <1>2, <1>9, <2>1
<1>11. Len(rest) \in Nat /\ DOMAIN al = 1..(1 + Len(rest)) /\ 1 \in DOMAIN al /\ al[1] = own
  BY <1>3, <1>8, <1>9, <1>10
<1>12. ASSUME NEW i \in DOMAIN al, i # 1
       PROVE  \/ al[i] = <<>>
              \/ \E d \in Range(domains) :
                    /\ HasDomain(name, d) /\ TrimDomain(name, d) \in Names
                    /\ al[i] = AliasesUnder(ns, TrimDomain(name, d), TrimDomain(name, d))
  <2>1. i \in 1..(1 + Len(rest)) /\ ~(i <= 1) /\ i - 1 \in 1..Len(rest)
    BY <1>11, <1>12
  <2>2. i - 1 \in DOMAIN domains /\ al[i] = more(i - 1)
    BY <1>3, <1>8, <1>10, <2>1
  <2>. QED
    BY <1>3, <1>5, <1>7, <2>2
<1>. QED
  BY <1>10, <1>11, <1>12 DEF al, own, S, domains

\* get_aliases: what is looked for first is the name as it is, everything looked for is
\* something that the client can mean, and a name of which the root domain was cut off
\* comes after itself.
LEMMA AliasesSound ==
    ASSUME NEW ns \in Labels, NEW name \in Names
    PROVE  /\ Aliases(ns, name) \in Seq(AliasRecords)
           /\ 1 \in DOMAIN Aliases(ns, name) /\ Aliases(ns, name)[1] = [name |-> name, stripped |-> Absent]
           /\ \A k \in DOMAIN Aliases(ns, name) :
                 /\ Aliases(ns, name)[k].name \in Meanings(ns, name)
                 /\ Aliases(ns, name)[k].stripped = name /\ Aliases(ns, name)[k].stripped # Absent =>
                      \E j \in DOMAIN Aliases(ns, name) :
                         j < k /\ Aliases(ns, name)[j] = [name |-> Aliases(ns, name)[k].name, stripped |-> Absent]
<1>. DEFINE al == AliasLists(ns, name)
            as == Aliases(ns, name)
            bases == {name} \cup {TrimDomain(name, d) : d \in {x \in Range(SearchDomains(ns)) : HasDomain(name, x)}}
            own == AliasesUnder(ns, name, Absent)
<1>1. /\ al \in Seq(Seq(AliasRecords)) /\ 1 \in DOMAIN al /\ al[1] = own
      /\ \A i \in DOMAIN al : i # 1 =>
           \/ al[i] = <<>>
           \/ \E d \in Range(SearchDomains(ns)) :
                 /\ HasDomain(name, d) /\ TrimDomain(name, d) \in Names
                 /\ al[i] = AliasesUnder(ns, TrimDomain(name, d), TrimDomain(name, d))
  BY AliasListsAre
<1>2. as = FlattenSeq(al)
  BY DEF Aliases
<1>3. ASSUME NEW base \in bases, NEW d \in ClusterSuffixes(ns)
      PROVE  base \o d \in Meanings(ns, name)
  <2>1. Meanings(ns, name) = {b \o e : b \in bases, e \in ClusterSuffixes(ns)}
    BY DEF Meanings, ClusterSuffixes
  <2>. HIDE DEF bases
  <2>. QED
    BY <2>1
<1>4. name \in bases /\ \A d \in Range(SearchDomains(ns)) : HasDomain(name, d) => TrimDomain(name, d) \in bases
  OBVIOUS
<1>. HIDE DEF al, as, bases
<1>5. as \in Seq(AliasRecords)
  BY <1>1, <1>2, Flattened
<1>6. PICK at : StartsAt(al, at)
  BY <1>1, Flattened
<1>7. /\ at \in [DOMAIN al -> Nat]
      /\ \A i \in DOMAIN al : \A j \in DOMAIN al[i] : at[i] + j \in DOMAIN as /\ as[at[i] + j] = al[i][j]
      /\ \A i, m \in DOMAIN al : \A j \in DOMAIN al[i], l \in DOMAIN al[m] : i < m => at[i] + j < at[m] + l
      /\ \A k \in DOMAIN as : \E i \in DOMAIN al : \E j \in DOMAIN al[i] : k = at[i] + j
      /\ at[1] = 0
  BY <1>1, <1>2, <1>6 DEF StartsAt
<1>a. AliasesOf(ns, name, Absent, own, own)
  BY UnderSound
<1>. HIDE DEF own
<1>8. /\ 1 \in DOMAIN own /\ own[1].name = name
      /\ \A i \in DOMAIN own : /\ \E d \in ClusterSuffixes(ns) : own[i].name = name \o d
                               /\ own[i] = [name |-> own[i].name, stripped |-> Absent]
  BY <1>a DEF AliasesOf
<1>9. own[1] = [name |-> name, stripped |-> Absent]
  BY <1>8
<1>10. 1 \in DOMAIN as /\ as[1] = [name |-> name, stripped |-> Absent]
  <2>1. at[1] + 1 = 1
    BY <1>7
  <2>2. 1 \in DOMAIN al /\ al[1] = own
    BY <1>1
  <2>3. at[1] + 1 \in DOMAIN as /\ as[at[1] + 1] = al[1][1]
    BY ONLY <1>7, <1>8, <2>2
  <2>. QED
    BY ONLY <1>9, <2>1, <2>2, <2>3
<1>11. ASSUME NEW k \in DOMAIN as
       PROVE  /\ as[k].name \in Meanings(ns, name)
              /\ as[k].stripped = name /\ as[k].stripped # Absent =>
                   \E j \in DOMAIN as : j < k /\ as[j] = [name |-> as[k].name, stripped |-> Absent]
  <2>a. PICK i \in DOMAIN al : \E j \in DOMAIN al[i] : k = at[i] + j
    BY <1>7
  <2>1. PICK j \in DOMAIN al[i] : k = at[i] + j
    BY <2>a
  <2>2. as[k] = al[i][j]
    BY <1>7, <2>1
  <2>3. CASE i = 1
    <3>1. j \in DOMAIN own /\ as[k] = own[j]
      BY <1>1, <2>1, <2>2, <2>3
    <3>2. own[j] = [name |-> own[j].name, stripped |-> Absent] /\ \E d \in ClusterSuffixes(ns) : own[j].name = name \o d
      BY <1>8, <3>1
    <3>3. as[k].name \in Meanings(ns, name)
      BY <1>3, <1>4, <3>1, <3>2
    <3>4. as[k].stripped = Absent
      BY <3>1, <3>2
    <3>. QED
      BY <3>3, <3>4
  <2>4. CASE i # 1
    <3>1. al[i] # <<>>
      BY <2>1
    <3>2. PICK d \in Range(SearchDomains(ns)) :
                /\ HasDomain(name, d) /\ TrimDomain(name, d) \in Names
                /\ al[i] = AliasesUnder(ns, TrimDomain(name, d), TrimDomain(name, d))
      BY <1>1, <2>4, <3>1
    <3>. DEFINE base == TrimDomain(name, d)
                u == AliasesUnder(ns, base, base)
    <3>3. base \in bases /\ base \in Names /\ u = al[i]
      BY <1>4, <3>2
    <3>. HIDE DEF base
    <3>a. AliasesOf(ns, base, base, u, AliasesUnder(ns, base, Absent))
      BY <3>3, UnderSound
    <3>. HIDE DEF u
    <3>4. /\ u[j] = [name |-> u[j].name, stripped |-> base]
          /\ \E e \in ClusterSuffixes(ns) : u[j].name = base \o e
          /\ j \in DOMAIN AliasesUnder(ns, base, Absent)
          /\ AliasesUnder(ns, base, Absent)[j] = [name |-> u[j].name, stripped |-> Absent]
      BY <2>1, <3>3, <3>a DEF AliasesOf
    <3>5. as[k] = u[j]
      BY <2>2, <3>3
    <3>6. as[k].name \in Meanings(ns, name)
      BY <1>3, <3>3, <3>4, <3>5
    <3>7. ASSUME as[k].stripped = name
          PROVE  \E l \in DOMAIN as : l < k /\ as[l] = [name |-> as[k].name, stripped |-> Absent]
      <4>1. base = name
        BY <3>4, <3>5, <3>7
      <4>2. j \in DOMAIN own /\ own[j] = [name |-> as[k].name, stripped |-> Absent]
        BY <3>4, <3>5, <4>1 DEF own
      <4>3. j \in DOMAIN al[1] /\ al[1][j] = own[j]
        BY <1>1, <4>2
      <4>4. at[1] + j \in DOMAIN as /\ as[at[1] + j] = own[j]
        BY <1>1, <1>7, <4>3
      <4>5. 1 < i
        <5>1. DOMAIN al = 1..Len(al) /\ Len(al) \in Nat
          BY <1>1
        <5>. QED
          BY <2>1, <2>4, <5>1
      <4>6. at[1] + j < k
        BY <1>1, <1>7, <2>1, <4>3, <4>5
      <4>. QED
        BY <4>2, <4>4, <4>6
    <3>. QED
      BY <3>6, <3>7
  <2>. QED
    BY <2>3, <2>4
<1>. QED
  BY <1>5, <1>10, <1>11 DEF as

\* A name that find_server looks for names a service that the client can mean.
Meant(ns, name, host) == \E n \in Meanings(ns, name) : Covers(host, n)

\* What find_server looks for, in order: first the name as it is, then names that can be
\* meant; a name of which the root domain was cut off comes after itself.
LEMMA SearchesSound ==
    ASSUME NEW ns \in Labels, NEW name \in Names
    PROVE  /\ Searches(ns, name) \in Seq(AliasRecords)
           /\ 1 \in DOMAIN Searches(ns, name) /\ Searches(ns, name)[1] = [name |-> name, stripped |-> Absent]
           /\ \A k \in DOMAIN Searches(ns, name) :
                 /\ Meant(ns, name, Searches(ns, name)[k].name)
                 /\ Searches(ns, name)[k].stripped = name /\ Searches(ns, name)[k].stripped # Absent =>
                      \E j \in DOMAIN Searches(ns, name) : j < k /\ Searches(ns, name)[j].name = Searches(ns, name)[k].name
<1>. DEFINE known == Aliases(ns, name)
            qs == [i \in DOMAIN known |-> SearchesOf(known[i])]
            se == Searches(ns, name)
            W(i) == GetWildcards(known[i].name)
<1>1. /\ known \in Seq(AliasRecords)
      /\ 1 \in DOMAIN known /\ known[1] = [name |-> name, stripped |-> Absent]
      /\ \A k \in DOMAIN known :
           /\ known[k].name \in Meanings(ns, name)
           /\ known[k].stripped = name /\ known[k].stripped # Absent =>
                \E j \in DOMAIN known : j < k /\ known[j] = [name |-> known[k].name, stripped |-> Absent]
  BY AliasesSound
<1>2. se = FlattenSeq(qs)
  BY DEF Searches
<1>. HIDE DEF known, se
<1>3. DOMAIN known = 1..Len(known) /\ Len(known) \in Nat /\ \A i \in DOMAIN known : known[i] \in AliasRecords /\ known[i].name \in Names /\ known[i].stripped \in Names \cup {Absent}
  <2>a. known \in Seq(AliasRecords)
    BY ONLY <1>1
  <2>1. DOMAIN known = 1..Len(known) /\ Len(known) \in Nat /\ \A i \in DOMAIN known : known[i] \in AliasRecords
    BY ONLY <2>a, LenProperties, ElementOfSeq
  <2>2. \A x \in AliasRecords : x.name \in Names /\ x.stripped \in Names \cup {Absent}
    BY DEF AliasRecords
  <2>. QED
    BY ONLY <2>1, <2>2
<1>4. ASSUME NEW i \in DOMAIN known
      PROVE  /\ W(i) \in Seq(Names) /\ 1 \in DOMAIN W(i) /\ W(i)[1] = known[i].name
             /\ \A j \in DOMAIN W(i) : Covers(W(i)[j], known[i].name)
  BY <1>3, WildcardsSound
<1>5. \A i \in DOMAIN known : SearchesOf(known[i]) = [j \in DOMAIN W(i) |-> [name |-> W(i)[j], stripped |-> known[i].stripped]]
  BY DEF SearchesOf
<1>. HIDE DEF W
<1>6. ASSUME NEW i \in DOMAIN known
      PROVE  /\ SearchesOf(known[i]) \in Seq(AliasRecords) /\ DOMAIN SearchesOf(known[i]) = DOMAIN W(i)
             /\ \A j \in DOMAIN W(i) : SearchesOf(known[i])[j] = [name |-> W(i)[j], stripped |-> known[i].stripped]
  <2>. DEFINE w == W(i)
              s == known[i].stripped
              r(j) == [name |-> w[j], stripped |-> s]
  <2>1. w \in Seq(Names) /\ s \in Names \cup {Absent}
    BY <1>3, <1>4
  <2>2. SearchesOf(known[i]) = [j \in DOMAIN w |-> r(j)]
    BY <1>5
  <2>. HIDE DEF w, s
  <2>3. Len(w) \in Nat /\ DOMAIN w = 1..Len(w) /\ \A j \in DOMAIN w : r(j) \in AliasRecords
    BY <2>1 DEF AliasRecords
  <2>. HIDE DEF r
  <2>4. SearchesOf(known[i]) \in Seq(AliasRecords) /\ DOMAIN SearchesOf(known[i]) = DOMAIN w /\ \A j \in DOMAIN w : SearchesOf(known[i])[j] = r(j)
    BY <2>2, <2>3
  <2>. QED
    BY <2>4 DEF w, r, s
<1>7. qs \in Seq(Seq(AliasRecords)) /\ DOMAIN qs = DOMAIN known /\ \A i \in DOMAIN known : qs[i] = SearchesOf(known[i])
  <2>. DEFINE S == Seq(AliasRecords)
              e(i) == SearchesOf(known[i])
              n == Len(known)
  <2>1. n \in Nat /\ DOMAIN known = 1..n /\ \A i \in 1..n : e(i) \in S
    BY <1>3, <1>6
  <2>2. qs = [i \in 1..n |-> e(i)]
    BY <2>1
  <2>. HIDE DEF S, e, n, qs
  <2>3. qs \in Seq(S) /\ DOMAIN qs = 1..n /\ \A i \in 1..n : qs[i] = e(i)
    BY ONLY <2>1, <2>2
  <2>. QED
    BY <2>1, <2>3 DEF S, e
<1>. HIDE DEF qs
<1>8. se \in Seq(AliasRecords)
  BY <1>2, <1>7, Flattened
<1>9. PICK at : StartsAt(qs, at)
  BY <1>7, Flattened
<1>10. /\ at \in [DOMAIN known -> Nat] /\ at[1] = 0
       /\ \A i \in DOMAIN known : \A j \in DOMAIN W(i) :
             at[i] + j \in DOMAIN se /\ se[at[i] + j] = [name |-> W(i)[j], stripped |-> known[i].stripped]
       /\ \A i, m \in DOMAIN known : \A j \in DOMAIN W(i), l \in DOMAIN W(m) : i < m => at[i] + j < at[m] + l
       /\ \A k \in DOMAIN se : \E i \in DOMAIN known : \E j \in DOMAIN W(i) : k = at[i] + j
  <2>1. \A i \in DOMAIN known : DOMAIN qs[i] = DOMAIN W(i) /\ \A j \in DOMAIN W(i) : qs[i][j] = [name |-> W(i)[j], stripped |-> known[i].stripped]
    BY <1>6, <1>7
  <2>2. /\ at \in [DOMAIN known -> Nat] /\ at[1] = 0
        /\ \A i \in DOMAIN known : \A j \in DOMAIN qs[i] : at[i] + j \in DOMAIN se /\ se[at[i] + j] = qs[i][j]
        /\ \A i, m \in DOMAIN known : \A j \in DOMAIN qs[i], l \in DOMAIN qs[m] : i < m => at[i] + j < at[m] + l
        /\ \A k \in DOMAIN se : \E i \in DOMAIN known : \E j \in DOMAIN qs[i] : k = at[i] + j
    <3>1. DOMAIN qs = DOMAIN known /\ 1 \in DOMAIN known
      BY ONLY <1>1, <1>7
    <3>2. /\ at \in [DOMAIN qs -> Nat] /\ (1 \in DOMAIN qs => at[1] = 0)
          /\ \A i \in DOMAIN qs : \A j \in DOMAIN qs[i] : at[i] + j \in DOMAIN se /\ se[at[i] + j] = qs[i][j]
          /\ \A i, m \in DOMAIN qs : \A j \in DOMAIN qs[i], l \in DOMAIN qs[m] : i < m => at[i] + j < at[m] + l
          /\ \A k \in DOMAIN se : \E i \in DOMAIN qs : \E j \in DOMAIN qs[i] : k = at[i] + j
      BY ONLY <1>2, <1>9 DEF StartsAt
    <3>. QED
      BY ONLY <3>1, <3>2
  <2>3. ASSUME NEW i \in DOMAIN known, NEW j \in DOMAIN W(i)
        PROVE  at[i] + j \in DOMAIN se /\ se[at[i] + j] = [name |-> W(i)[j], stripped |-> known[i].stripped]
    <3>1. j \in DOMAIN qs[i] /\ qs[i][j] = [name |-> W(i)[j], stripped |-> known[i].stripped]
      BY ONLY <2>1, i \in DOMAIN known, j \in DOMAIN W(i)
    <3>. QED
      BY ONLY <2>2, <3>1, i \in DOMAIN known
  <2>4. \A i, m \in DOMAIN known : \A j \in DOMAIN W(i), l \in DOMAIN W(m) : i < m => at[i] + j < at[m] + l
    BY ONLY <2>1, <2>2
  <2>5. \A k \in DOMAIN se : \E i \in DOMAIN known : \E j \in DOMAIN W(i) : k = at[i] + j
    <3>. TAKE k \in DOMAIN se
    <3>1. PICK i \in DOMAIN known : \E j \in DOMAIN qs[i] : k = at[i] + j
      BY ONLY <2>2, k \in DOMAIN se
    <3>. QED
      BY ONLY <2>1, <3>1
  <2>. QED
    BY ONLY <2>2, <2>3, <2>4, <2>5
<1>11. 1 \in DOMAIN se /\ se[1] = [name |-> name, stripped |-> Absent]
  <2>1. at[1] + 1 = 1
    BY <1>10
  <2>2. known[1].name = name /\ known[1].stripped = Absent
    BY <1>1
  <2>. QED
    BY <1>1, <1>4, <1>10, <2>1, <2>2
<1>12. ASSUME NEW k \in DOMAIN se
       PROVE  /\ Meant(ns, name, se[k].name)
              /\ se[k].stripped = name /\ se[k].stripped # Absent => \E j \in DOMAIN se : j < k /\ se[j].name = se[k].name
  <2>1. PICK i \in DOMAIN known : \E j \in DOMAIN W(i) : k = at[i] + j
    BY <1>10
  <2>2. PICK j \in DOMAIN W(i) : k = at[i] + j
    BY <2>1
  <2>3. se[k] = [name |-> W(i)[j], stripped |-> known[i].stripped]
    BY <1>10, <2>2
  <2>4. se[k].name = W(i)[j] /\ se[k].stripped = known[i].stripped
    BY <2>3
  <2>5. Meant(ns, name, se[k].name)
    BY <1>1, <1>4, <2>4 DEF Meant
  <2>6. ASSUME se[k].stripped = name, se[k].stripped # Absent
        PROVE  \E l \in DOMAIN se : l < k /\ se[l].name = se[k].name
    <3>1. PICK h \in DOMAIN known : h < i /\ known[h] = [name |-> known[i].name, stripped |-> Absent]
      BY <1>1, <2>4, <2>6
    <3>2. W(h) = W(i)
      BY <3>1 DEF W
    <3>3. at[h] + j \in DOMAIN se /\ se[at[h] + j] = [name |-> W(h)[j], stripped |-> known[h].stripped]
      BY <1>10, <2>2, <3>1, <3>2
    <3>4. at[h] + j < k
      BY <1>10, <2>2, <3>1, <3>2
    <3>5. se[at[h] + j].name = se[k].name
      BY <2>4, <3>2, <3>3
    <3>. QED
      BY <3>3, <3>4, <3>5
  <2>. QED
    BY <2>5, <2>6
<1>. QED
  BY <1>8, <1>11, <1>12 DEF se

\* A service of exactly that name, with a VIP, in the client's namespace.
OwnService(st, ns, name) == \E s \in Range(st.services) : s.host = name /\ s.ns = ns /\ s.vips # {}

\* A match of a name.
MatchFor(ns, name, m) ==
    /\ m.svc \in DnsServices /\ Meant(ns, name, m.svc.host)
    /\ m.stripped # Absent => m.stripped # name

\* find_server: what is found can be meant, and a service of the client's own namespace
\* under exactly the name is found before any other.
LEMMA FindServerSound ==
    ASSUME NEW st \in DnsStores, NEW client, client.ns \in Labels, NEW name \in Names
    PROVE  /\ FindServer(st, client, name) # Absent => MatchFor(client.ns, name, FindServer(st, client, name))
           /\ OwnService(st, client.ns, name) =>
                FindServer(st, client, name) # Absent /\ FindServer(st, client, name).svc.ns = client.ns
<1>. DEFINE ns == client.ns
            se == Searches(ns, name)
            For(i) == ServiceFor(st, client, se[i].name)
            hits == {i \in DOMAIN se : For(i) # Absent}
            first == Min(hits)
            m == FindServer(st, client, name)
            found == [svc |-> For(first), name |-> se[first].name, stripped |-> se[first].stripped]
<1>1. /\ se \in Seq(AliasRecords)
      /\ 1 \in DOMAIN se /\ se[1] = [name |-> name, stripped |-> Absent]
      /\ \A k \in DOMAIN se :
           /\ Meant(ns, name, se[k].name)
           /\ se[k].stripped = name /\ se[k].stripped # Absent => \E j \in DOMAIN se : j < k /\ se[j].name = se[k].name
  BY SearchesSound
<1>2. m = IF hits = {} THEN Absent ELSE found
  BY DEF FindServer
<1>. HIDE DEF se, m
<1>3. DOMAIN se = 1..Len(se) /\ Len(se) \in Nat /\ \A i \in DOMAIN se : se[i].name \in Names /\ se[i].stripped \in Names \cup {Absent}
  <2>1. DOMAIN se = 1..Len(se) /\ Len(se) \in Nat /\ \A i \in DOMAIN se : se[i] \in AliasRecords
    BY ONLY <1>1
  <2>2. \A x \in AliasRecords : x.name \in Names /\ x.stripped \in Names \cup {Absent}
    BY DEF AliasRecords
  <2>. QED
    BY ONLY <2>1, <2>2
<1>4. \A i \in DOMAIN se : /\ For(i) # Absent => For(i) \in DnsServices /\ For(i).host = se[i].name
                          /\ \A s : Considered(st, se[i].name, s) => For(i) # Absent /\ (s.ns = ns => For(i).ns = ns)
  BY ServiceForSound DEF Considered
<1>5. \A i, j \in DOMAIN se : se[i].name = se[j].name => For(i) = For(j)
  OBVIOUS
<1>. HIDE DEF For
<1>6. hits \subseteq Nat /\ \A i \in hits : i \in DOMAIN se /\ For(i) # Absent
  BY <1>3
<1>7. \A i \in DOMAIN se : For(i) # Absent => i \in hits
  OBVIOUS
<1>. HIDE DEF hits
<1>8. hits # {} => first \in hits /\ \A i \in hits : first <= i
  BY <1>6, SmallestIs
<1>. HIDE DEF first
<1>9. ASSUME hits # {}
      PROVE  m = found /\ m # Absent /\ MatchFor(ns, name, m) /\ m.svc = For(first)
  <2>1. first \in DOMAIN se /\ For(first) # Absent /\ first \in Nat /\ \A i \in hits : first <= i
    BY <1>6, <1>8, <1>9
  <2>2. For(first) \in DnsServices /\ For(first).host = se[first].name /\ se[first].name \in Names /\ se[first].stripped \in Names \cup {Absent}
    BY <1>3, <1>4, <2>1
  <2>3. m = found
    BY <1>2, <1>9
  <2>4. found \in [svc : DnsServices, name : Names, stripped : Names \cup {Absent}]
    BY <2>2
  <2>5. found # Absent
    BY <2>4, DnsAssumption
  <2>6. found.svc = For(first) /\ found.stripped = se[first].stripped
    OBVIOUS
  <2>. HIDE DEF found
  <2>7. ASSUME se[first].stripped = name, se[first].stripped # Absent
        PROVE  FALSE
    <3>1. PICK j \in DOMAIN se : j < first /\ se[j].name = se[first].name
      BY <1>1, <2>1, <2>7
    <3>2. For(j) = For(first)
      BY <1>5, <2>1, <3>1
    <3>3. j \in hits /\ j \in Nat
      BY <1>6, <1>7, <2>1, <3>1, <3>2
    <3>. QED
      BY <2>1, <3>1, <3>3
  <2>8. Meant(ns, name, For(first).host)
    BY <1>1, <2>1, <2>2
  <2>. QED
    BY <2>2, <2>3, <2>5, <2>6, <2>7, <2>8 DEF MatchFor
<1>10. ASSUME OwnService(st, ns, name)
       PROVE  m # Absent /\ m.svc.ns = ns
  <2>1. PICK s \in Range(st.services) : s.host = name /\ s.ns = ns /\ s.vips # {}
    BY <1>10 DEF OwnService
  <2>2. se[1].name = name
    BY <1>1
  <2>3. Considered(st, se[1].name, s)
    BY <2>1, <2>2 DEF Considered, Served
  <2>4. For(1) # Absent /\ For(1).ns = ns
    BY <1>1, <1>4, <2>1, <2>3
  <2>5. 1 \in hits
    BY <1>1, <1>7, <2>4
  <2>6. first = 1
    <3>1. first \in DOMAIN se /\ first <= 1
      BY <1>6, <1>8, <2>5
    <3>. QED
      BY <1>3, <3>1
  <2>. QED
    BY <1>9, <2>4, <2>5, <2>6
<1>11. m # Absent => MatchFor(ns, name, m)
  BY <1>2, <1>9
<1>. QED
  BY <1>10, <1>11 DEF m

-----------------------------------------------------------------------------
(* Answers                                                                 *)

\* An address that may be given for a service, from one of the states of the store.
AddressOf(client, svc, type, seen, ip) ==
    /\ (type = "AAAA") = (ip \in IPv6)
    /\ \/ [ip |-> ip, net |-> client.net] \in svc.vips
       \/ svc.vips = {} /\ \E st \in seen : \E w \in st.workloads : w.uid \in DOMAIN svc.eps /\ ip \in Range(w.ips)

\* get_addresses gives VIPs of the service in the client's network, or addresses of its
\* endpoints, of the type that was asked for.
LEMMA AddressesSound ==
    ASSUME NEW st \in DnsStores, NEW client, NEW svc \in DnsServices, NEW type \in {"A", "AAAA"}, NEW seen, st \in seen,
           NEW ip \in GetAddresses(st, client, svc, type)
    PROVE  AddressOf(client, svc, type, seen, ip)
<1>. DEFINE usable(x) == IsRecordType(x, type) /\ RecordTypeEnabled(x)
            fit(w) == {i \in DOMAIN w.ips : usable(w.ips[i])}
            first(w) == IF fit(w) = {} THEN {} ELSE {w.ips[Min(fit(w))]}
            ends == {x \in st.workloads : x.uid \in DOMAIN svc.eps}
            near == {x \in svc.vips : x.net = client.net /\ usable(x.ip)}
<1>1. ip \in IF svc.vips = {} THEN UNION {first(w) : w \in ends} ELSE {v.ip : v \in near}
  BY DEF GetAddresses
<1>2. \A x : usable(x) => (type = "AAAA") = (x \in IPv6)
  BY DEF IsRecordType
<1>. HIDE DEF usable
<1>3. CASE svc.vips = {}
  <2>1. PICK w \in ends : ip \in first(w)
    <3>1. ip \in UNION {first(w) : w \in ends}
      BY <1>1, <1>3
    <3>. HIDE DEF first, ends
    <3>. QED
      BY <3>1
  <2>2. w \in st.workloads /\ w.uid \in DOMAIN svc.eps
    BY <2>1
  <2>3. w.ips \in Seq(Range(w.ips))
    BY <2>2, DnsAssumption DEF DnsWorkloads
  <2>4. fit(w) # {} /\ ip = w.ips[Min(fit(w))]
    <3>. HIDE DEF fit
    <3>. QED
      BY <2>1
  <2>5. fit(w) \subseteq Nat
    BY <2>3
  <2>6. Min(fit(w)) \in fit(w)
    <3>. HIDE DEF fit
    <3>. QED
      BY <2>4, <2>5, SmallestIs
  <2>7. PICK i \in DOMAIN w.ips : i = Min(fit(w)) /\ usable(w.ips[i])
    BY <2>6
  <2>8. ip = w.ips[i] /\ usable(ip) /\ ip \in Range(w.ips)
    BY <2>4, <2>7 DEF Range
  <2>. QED
    BY <1>2, <1>3, <2>2, <2>8 DEF AddressOf
<1>4. CASE svc.vips # {}
  <2>1. PICK v \in near : ip = v.ip
    <3>. HIDE DEF near
    <3>. QED
      BY <1>1, <1>4
  <2>2. v \in svc.vips /\ v.net = client.net /\ usable(v.ip)
    BY <2>1
  <2>3. v = [ip |-> v.ip, net |-> v.net]
    BY <2>2, DnsAssumption
  <2>4. [ip |-> ip, net |-> client.net] \in svc.vips
    BY <2>1, <2>2, <2>3
  <2>. QED
    BY <1>2, <2>1, <2>2, <2>4 DEF AddressOf
<1>. QED
  BY <1>3, <1>4

\* Records that a resolver can follow from the name that was asked for.
Followable(records, name) ==
    LET cnames == {r \in records : "cname" \in DOMAIN r}
    IN /\ Cardinality(cnames) <= 1
       /\ \A r \in records : IF r \in cnames THEN r.name = name ELSE r.name \in {name} \cup {c.cname : c \in cnames}
       /\ cnames # {} => \A r \in records \ cnames : r.name # name

\* No records can be followed.
LEMMA NothingToFollow == \A name : Followable({}, name)
<1>1. Cardinality({}) = 0
  BY FS_EmptySet
<1>. QED
  BY <1>1 DEF Followable

\* The records of lookup can be followed, and their addresses are those that were found.
LEMMA RecordsSound ==
    ASSUME NEW name, NEW m, m.stripped # Absent => m.stripped # name, NEW ips
    PROVE  /\ Followable(Records(name, m, ips), name)
           /\ \A r \in Records(name, m, ips) : "ip" \in DOMAIN r => r.ip \in ips
<1>. DEFINE renamed == m.stripped # Absent /\ m.name[1] # "*"
            alias == [name |-> name, cname |-> m.stripped]
            under == IF renamed THEN m.stripped ELSE name
            addr(ip) == [name |-> under, ip |-> ip]
            addrs == {addr(ip) : ip \in ips}
            R == Records(name, m, ips)
            cnames == {r \in R : "cname" \in DOMAIN r}
<1>1. R = (IF renamed THEN {alias} ELSE {}) \cup addrs
  BY DEF Records
<1>2. "cname" \in DOMAIN alias /\ alias.name = name /\ alias.cname = m.stripped /\ "ip" \notin DOMAIN alias
  OBVIOUS
<1>3. \A ip : "cname" \notin DOMAIN addr(ip) /\ addr(ip).name = under /\ addr(ip).ip = ip
  OBVIOUS
<1>4. (renamed => under = m.stripped /\ under # name) /\ (~renamed => under = name)
  OBVIOUS
<1>. HIDE DEF R, renamed, alias, under
<1>5. \A r \in addrs : \E ip \in ips : r = addr(ip)
  OBVIOUS
<1>. HIDE DEF addrs
<1>6. \A r \in addrs : "cname" \notin DOMAIN r /\ r.name = under /\ r.ip \in ips
  <2>. HIDE DEF addr
  <2>. QED
    BY <1>3, <1>5
<1>7. cnames = IF renamed THEN {alias} ELSE {}
  BY <1>1, <1>2, <1>6
<1>8. Cardinality(cnames) <= 1
  <2>1. Cardinality({}) = 0 /\ Cardinality({alias}) = 1
    BY FS_EmptySet, FS_Singleton
  <2>. QED
    BY <1>7, <2>1
<1>9. \A r \in R : r \in cnames \/ r \in addrs
  BY <1>1, <1>7
<1>10. \A r \in R : IF r \in cnames THEN r.name = name ELSE r.name \in {name} \cup {c.cname : c \in cnames}
  <2>. TAKE r \in R
  <2>1. CASE r \in cnames
    BY <1>2, <1>7, <2>1
  <2>2. CASE r \notin cnames
    <3>1. r.name = under
      BY <1>6, <1>9, <2>2
    <3>2. CASE renamed
      <4>1. alias \in cnames /\ alias.cname = under
        BY <1>2, <1>4, <1>7, <3>2
      <4>. HIDE DEF cnames
      <4>. QED
        BY <2>2, <3>1, <4>1
    <3>3. CASE ~renamed
      BY <1>4, <2>2, <3>1, <3>3
    <3>. QED
      BY <3>2, <3>3
  <2>. QED
    BY <2>1, <2>2
<1>11. cnames # {} => \A r \in R \ cnames : r.name # name
  BY <1>4, <1>6, <1>7, <1>9
<1>12. Followable(R, name)
  BY <1>8, <1>10, <1>11 DEF Followable
<1>13. \A r \in R : "ip" \in DOMAIN r => r.ip \in ips
  BY <1>1, <1>2, <1>6
<1>. QED
  BY <1>12, <1>13 DEF R

-----------------------------------------------------------------------------
(* Queries and their counters                                              *)

\* Lookups that are known to be one, that went upstream, that came back from there.
Begun(qs) == {q \in Queries : qs[q].stage \notin {"idle", "client"}}
Upstreamed(qs) == {q \in Queries : qs[q].upstream}
Returned(qs) == {q \in Queries : qs[q].upstream /\ qs[q].stage \in {"send", "done"}}

\* The counters fit the queries.
CountsFit(c, qs) ==
    /\ c \in [requests : Nat, forwarded : Nat, failures : Nat]
    /\ c.requests <= Cardinality(Begun(qs))
    /\ c.forwarded = Cardinality(Upstreamed(qs))
    /\ c.failures <= Cardinality(Returned(qs))
    /\ c.forwarded <= c.requests

\* A query goes on without being counted.
Later(x, y) ==
    /\ x.stage \notin {"idle", "client"} => y.stage \notin {"idle", "client"}
    /\ x.stage \in {"send", "done"} => y.stage \in {"send", "done"}
    /\ x.upstream <=> y.upstream

\* Sets of queries are finite, and one that has more of them has more elements.
LEMMA QueriesCounted ==
    ASSUME NEW A \in SUBSET Queries, NEW B \in SUBSET Queries, A \subseteq B
    PROVE  /\ Cardinality(A) \in Nat /\ Cardinality(B) \in Nat /\ Cardinality(A) <= Cardinality(B)
           /\ \A q \in B \ A : Cardinality(A) + 1 <= Cardinality(B) /\ (B = A \cup {q} => Cardinality(B) = Cardinality(A) + 1)
<1>1. IsFiniteSet(A) /\ IsFiniteSet(B)
  BY DnsAssumption, FS_Subset
<1>2. Cardinality(A) \in Nat /\ Cardinality(B) \in Nat /\ Cardinality(A) <= Cardinality(B)
  BY <1>1, FS_CardinalityType, FS_Subset
<1>3. ASSUME NEW q \in B \ A
      PROVE  Cardinality(A) + 1 <= Cardinality(B) /\ (B = A \cup {q} => Cardinality(B) = Cardinality(A) + 1)
  <2>1. IsFiniteSet(A \cup {q}) /\ Cardinality(A \cup {q}) = Cardinality(A) + 1
    BY <1>1, <1>3, FS_AddElement
  <2>2. A \cup {q} \subseteq B
    BY <1>3
  <2>3. Cardinality(A \cup {q}) <= Cardinality(B)
    BY <1>1, <2>2, FS_Subset
  <2>. QED
    BY <2>1, <2>3
<1>. QED
  BY <1>2, <1>3

\* Queries that go on leave the counters right.
LEMMA CountsKept ==
    ASSUME NEW c, NEW qs, NEW qt, CountsFit(c, qs), \A p \in Queries : Later(qs[p], qt[p])
    PROVE  CountsFit(c, qt)
<1>1. Begun(qs) \subseteq Begun(qt) /\ Begun(qt) \in SUBSET Queries /\ Begun(qs) \in SUBSET Queries
  BY DEF Begun, Later
<1>2. Upstreamed(qs) = Upstreamed(qt)
  BY Zenon DEF Upstreamed, Later
<1>3. Returned(qs) \subseteq Returned(qt) /\ Returned(qt) \in SUBSET Queries /\ Returned(qs) \in SUBSET Queries
  BY Zenon DEF Returned, Later
<1>4. Cardinality(Begun(qs)) \in Nat /\ Cardinality(Begun(qt)) \in Nat /\ Cardinality(Begun(qs)) <= Cardinality(Begun(qt))
  BY ONLY <1>1, QueriesCounted
<1>5. Cardinality(Returned(qs)) \in Nat /\ Cardinality(Returned(qt)) \in Nat /\ Cardinality(Returned(qs)) <= Cardinality(Returned(qt))
  BY ONLY <1>3, QueriesCounted
<1>. QED
  BY <1>2, <1>4, <1>5 DEF CountsFit

\* lookup counts a query, also as forwarded when it goes upstream.
LEMMA CountsLookup ==
    ASSUME NEW c, NEW qs, NEW qt, CountsFit(c, qs), NEW q \in Queries, \A p \in Queries \ {q} : qt[p] = qs[p],
           qs[q].stage = "client", ~qs[q].upstream, qt[q].stage \in {"send", "forward", "addresses"}
    PROVE  /\ ~qt[q].upstream => CountsFit([c EXCEPT !.requests = @ + 1], qt)
           /\ qt[q].upstream /\ qt[q].stage = "forward" => CountsFit([c EXCEPT !.requests = @ + 1, !.forwarded = @ + 1], qt)
<1>1. /\ Begun(qs) \subseteq Begun(qt) /\ Begun(qt) \in SUBSET Queries /\ Begun(qs) \in SUBSET Queries
      /\ q \in Begun(qt) \ Begun(qs)
  BY DEF Begun
<1>2. Cardinality(Begun(qs)) \in Nat /\ Cardinality(Begun(qt)) \in Nat /\ Cardinality(Begun(qs)) + 1 <= Cardinality(Begun(qt))
  BY ONLY <1>1, QueriesCounted
<1>3. c \in [requests : Nat, forwarded : Nat, failures : Nat]
  BY DEF CountsFit
<1>4. ASSUME ~qt[q].upstream
      PROVE  CountsFit([c EXCEPT !.requests = @ + 1], qt)
  <2>1. Upstreamed(qt) = Upstreamed(qs)
    BY <1>4, Zenon DEF Upstreamed
  <2>2. Returned(qt) = Returned(qs)
    BY <1>4, Zenon DEF Returned
  <2>. QED
    BY <1>2, <1>3, <2>1, <2>2 DEF CountsFit
<1>5. ASSUME qt[q].upstream, qt[q].stage = "forward"
      PROVE  CountsFit([c EXCEPT !.requests = @ + 1, !.forwarded = @ + 1], qt)
  <2>1. /\ Upstreamed(qs) \subseteq Upstreamed(qt) /\ Upstreamed(qt) \in SUBSET Queries /\ Upstreamed(qs) \in SUBSET Queries
        /\ q \in Upstreamed(qt) \ Upstreamed(qs) /\ Upstreamed(qt) = Upstreamed(qs) \cup {q}
    BY <1>5 DEF Upstreamed
  <2>2. Cardinality(Upstreamed(qs)) \in Nat /\ Cardinality(Upstreamed(qt)) = Cardinality(Upstreamed(qs)) + 1
    BY ONLY <2>1, QueriesCounted
  <2>3. Returned(qt) = Returned(qs)
    <3>1. q \notin Returned(qt) /\ q \notin Returned(qs)
      BY <1>5 DEF Returned
    <3>2. \A p \in Queries \ {q} : p \in Returned(qt) <=> p \in Returned(qs)
      BY DEF Returned
    <3>3. Returned(qt) \subseteq Queries /\ Returned(qs) \subseteq Queries
      BY DEF Returned
    <3>. QED
      BY <3>1, <3>2, <3>3
  <2>. DEFINE d == [c EXCEPT !.requests = @ + 1, !.forwarded = @ + 1]
  <2>4. /\ d \in [requests : Nat, forwarded : Nat, failures : Nat]
        /\ d.requests = c.requests + 1 /\ d.forwarded = c.forwarded + 1 /\ d.failures = c.failures
    <3>1. PICK a \in Nat, b \in Nat, f \in Nat : c = [requests |-> a, forwarded |-> b, failures |-> f]
      BY <1>3
    <3>2. DOMAIN c = {"requests", "forwarded", "failures"} /\ c.requests = a /\ c.forwarded = b /\ c.failures = f
      BY ONLY <3>1
    <3>3. DOMAIN d = DOMAIN c /\ d.requests = c.requests + 1 /\ d.forwarded = c.forwarded + 1 /\ d.failures = c.failures
      BY ONLY <3>2
    <3>4. d = [k \in DOMAIN d |-> d[k]]
      OBVIOUS
    <3>. HIDE DEF d
    <3>. QED
      BY <3>2, <3>3, <3>4
  <2>. HIDE DEF d
  <2>5. CountsFit(d, qt)
    BY <1>2, <1>3, <2>2, <2>3, <2>4 DEF CountsFit
  <2>. QED
    BY <2>5 DEF d
<1>. QED
  BY <1>4, <1>5

\* A failure of the resolver upstream is counted when the query comes back.
LEMMA CountsFailure ==
    ASSUME NEW c, NEW qs, NEW qt, CountsFit(c, qs), NEW q \in Queries, \A p \in Queries \ {q} : qt[p] = qs[p],
           qs[q].stage = "forward", qs[q].upstream, qt[q].stage = "send", qt[q].upstream
    PROVE  CountsFit([c EXCEPT !.failures = @ + 1], qt)
<1>1. Begun(qt) = Begun(qs)
  <2>1. q \in Begun(qt) /\ q \in Begun(qs)
    BY DEF Begun
  <2>2. \A p \in Queries \ {q} : p \in Begun(qt) <=> p \in Begun(qs)
    BY DEF Begun
  <2>3. Begun(qt) \subseteq Queries /\ Begun(qs) \subseteq Queries
    BY DEF Begun
  <2>. QED
    BY <2>1, <2>2, <2>3
<1>2. Upstreamed(qt) = Upstreamed(qs)
  BY Zenon DEF Upstreamed
<1>3. /\ Returned(qs) \subseteq Returned(qt) /\ Returned(qt) \in SUBSET Queries /\ Returned(qs) \in SUBSET Queries
      /\ q \in Returned(qt) \ Returned(qs)
  BY DEF Returned
<1>4. Cardinality(Returned(qs)) \in Nat /\ Cardinality(Returned(qt)) \in Nat /\ Cardinality(Returned(qs)) + 1 <= Cardinality(Returned(qt))
  BY ONLY <1>3, QueriesCounted
<1>5. c \in [requests : Nat, forwarded : Nat, failures : Nat]
  BY DEF CountsFit
<1>. QED
  BY <1>1, <1>2, <1>4, <1>5 DEF CountsFit

-----------------------------------------------------------------------------
(* The DNS proxy                                                           *)

Stages == {"idle", "client", "addresses", "forward", "send", "done"}
QueryFields == {"stage", "ask", "client", "match", "reply", "upstream", "seen"}

\* Every state of the store since the query began has the client's own service of that name.
AlwaysOwn(x) == \A st \in x.seen : OwnService(st, x.client.ns, x.ask.name)

\* lookup has found a service: one that can be meant, and the client's own if that was always there.
Matched(x) ==
    /\ x.ask.type \in {"A", "AAAA"}
    /\ MatchFor(x.client.ns, x.ask.name, x.match)
    /\ AlwaysOwn(x) => x.match.svc.ns = x.client.ns

\* An answer to a lookup: what AnswersAuthoritative says of it.
AnswerSound(x) ==
    /\ x.reply.aa =>
         /\ Meant(x.client.ns, x.ask.name, x.match.svc.host)
         /\ \A r \in x.reply.records : "ip" \in DOMAIN r => AddressOf(x.client, x.match.svc, x.ask.type, x.seen, r.ip)
    /\ x.ask.type \in {"A", "AAAA"} /\ AlwaysOwn(x) => x.reply.aa /\ x.match.svc.ns = x.client.ns

\* A query, when the store is st.
QuerySound(x, st) ==
    /\ DOMAIN x = QueryFields /\ x.stage \in Stages /\ x.upstream \in BOOLEAN
    /\ x.stage # "idle" => x.ask \in Asked
    /\ x.stage \in {"idle", "client"} => x.client = Absent
    /\ x.stage \in {"idle", "client", "addresses"} => ~x.upstream
    /\ x.stage \in {"client", "addresses"} => st \in x.seen
    /\ x.stage = "addresses" => Matched(x)
    /\ x.stage = "forward" => x.upstream /\ (x.ask.type \in {"A", "AAAA"} => ~AlwaysOwn(x))
    /\ x.stage = "send" => Followable(x.reply.records, x.ask.name) /\ (x.client # Absent => AnswerSound(x))
    /\ x.stage \notin {"send", "done"} => x.reply = Absent
    /\ x.stage = "done" /\ x.reply # Absent => Followable(x.reply.records, x.ask.name)

\* What holds in every state of the DNS proxy.
DnsInv ==
    /\ dnsStore \in DnsStores
    /\ DOMAIN query = Queries
    /\ \A q \in Queries : QuerySound(query[q], dnsStore)
    /\ CountsFit(dnsCounts, query)

\* The configuration does not change, and with it what a query can mean.
LEMMA MeaningsKept ==
    ASSUME dnsCfg' = dnsCfg, NEW x, NEW st, QuerySound(x, st)
    PROVE  QuerySound(x, st)'
<1>1. ASSUME NEW ns, NEW name, NEW host
      PROVE  Meant(ns, name, host)' <=> Meant(ns, name, host)
  BY DEF Meant, Meanings, SearchDomains
<1>2. Matched(x) => Matched(x)'
  BY <1>1 DEF Matched, MatchFor
<1>3. AnswerSound(x) => AnswerSound(x)'
  BY <1>1 DEF AnswerSound
<1>. QED
  BY <1>2, <1>3 DEF QuerySound

\* A query that is not in flight does not depend on the store; one in flight has seen the new one.
LEMMA StoreChanges ==
    ASSUME NEW x, NEW st, QuerySound(x, st), NEW new, NEW y,
           y = IF x.stage \notin {"idle", "done"} THEN [x EXCEPT !.seen = @ \cup {new}] ELSE x
    PROVE  QuerySound(y, new) /\ Later(x, y)
<1>1. CASE x.stage \in {"idle", "done"}
  BY <1>1 DEF QuerySound, Later
<1>2. CASE x.stage \notin {"idle", "done"}
  <2>1. /\ DOMAIN y = QueryFields /\ y.seen = x.seen \cup {new} /\ y.stage = x.stage /\ y.ask = x.ask
        /\ y.client = x.client /\ y.match = x.match /\ y.reply = x.reply /\ y.upstream = x.upstream
    BY <1>2 DEF QuerySound, QueryFields
  <2>2. AlwaysOwn(y) => AlwaysOwn(x)
    BY <2>1 DEF AlwaysOwn
  <2>3. Matched(x) => Matched(y)
    BY <2>1, <2>2 DEF Matched
  <2>4. \A ip : AddressOf(x.client, x.match.svc, x.ask.type, x.seen, ip) => AddressOf(y.client, y.match.svc, y.ask.type, y.seen, ip)
    BY <2>1 DEF AddressOf
  <2>5. AnswerSound(x) => AnswerSound(y)
    BY <2>1, <2>2, <2>4 DEF AnswerSound
  <2>6. Later(x, y)
    BY <2>1 DEF Later
  <2>. QED
    BY <1>2, <2>1, <2>2, <2>3, <2>5, <2>6 DEF QuerySound
<1>. QED
  BY <1>1, <1>2

\* A query that an immediate drain drops has no answer.
LEMMA QueryDropped ==
    ASSUME NEW x, NEW st, QuerySound(x, st), x.stage # "idle", NEW y, y = [x EXCEPT !.stage = "done", !.reply = Absent]
    PROVE  QuerySound(y, st) /\ Later(x, y)
<1>1. /\ DOMAIN y = QueryFields /\ y.seen = x.seen /\ y.stage = "done" /\ y.ask = x.ask
      /\ y.client = x.client /\ y.match = x.match /\ y.reply = Absent /\ y.upstream = x.upstream
  BY DEF QuerySound, QueryFields
<1>2. x.ask \in Asked /\ x.upstream \in BOOLEAN
  BY DEF QuerySound
<1>3. Later(x, y)
  BY <1>1 DEF Later
<1>4. QuerySound(y, st)
  BY <1>1, <1>2 DEF QuerySound, Stages
<1>. QED
  BY <1>3, <1>4

\* A reply to a lookup without a client has no addresses.
LEMMA ErrorSound ==
    ASSUME NEW x, NEW st, QuerySound(x, st), x.stage = "client", NEW code,
           NEW y, y = [x EXCEPT !.stage = "send", !.reply = SendError(code)]
    PROVE  QuerySound(y, st) /\ y.stage = "send" /\ ~y.upstream /\ ~x.upstream /\ Later(x, y)
<1>1. SendError(code).records = {}
  BY DEF SendError
<1>2. /\ DOMAIN y = QueryFields /\ y.seen = x.seen /\ y.stage = "send" /\ y.ask = x.ask
      /\ y.client = x.client /\ y.match = x.match /\ y.reply = SendError(code) /\ y.upstream = x.upstream
  BY DEF QuerySound, QueryFields
<1>3. x.ask \in Asked /\ x.upstream \in BOOLEAN /\ ~x.upstream /\ x.client = Absent
  BY DEF QuerySound
<1>4. Followable(y.reply.records, y.ask.name)
  BY <1>1, <1>2, NothingToFollow
<1>5. QuerySound(y, st)
  BY <1>2, <1>3, <1>4 DEF QuerySound, Stages
<1>6. Later(x, y)
  BY <1>2 DEF Later
<1>. QED
  BY <1>2, <1>3, <1>5, <1>6

\* handle_request: a query begins with the store of that moment; another message is refused.
LEMMA RequestSound ==
    ASSUME NEW x, NEW st, QuerySound(x, st), x.stage = "idle", NEW ask \in Asked, NEW code, NEW y,
           \/ y = [x EXCEPT !.stage = "client", !.ask = ask, !.seen = {st}]
           \/ y = [x EXCEPT !.stage = "send", !.ask = ask, !.reply = SendError(code)]
    PROVE  QuerySound(y, st) /\ Later(x, y)
<1>1. DOMAIN x = QueryFields /\ x.upstream \in BOOLEAN /\ ~x.upstream /\ x.client = Absent /\ x.reply = Absent
  BY DEF QuerySound
<1>2. CASE y = [x EXCEPT !.stage = "client", !.ask = ask, !.seen = {st}]
  <2>1. /\ DOMAIN y = QueryFields /\ y.seen = {st} /\ y.stage = "client" /\ y.ask = ask
        /\ y.client = x.client /\ y.reply = x.reply /\ y.upstream = x.upstream
    BY <1>1, <1>2 DEF QueryFields
  <2>2. Later(x, y)
    BY <2>1 DEF Later
  <2>3. QuerySound(y, st)
    BY <1>1, <2>1 DEF QuerySound, Stages
  <2>. QED
    BY <2>2, <2>3
<1>3. CASE y = [x EXCEPT !.stage = "send", !.ask = ask, !.reply = SendError(code)]
  <2>1. /\ DOMAIN y = QueryFields /\ y.stage = "send" /\ y.ask = ask
        /\ y.client = x.client /\ y.reply = SendError(code) /\ y.upstream = x.upstream
    BY <1>1, <1>3 DEF QueryFields
  <2>2. Later(x, y)
    BY <2>1 DEF Later
  <2>3. Followable(y.reply.records, y.ask.name)
    <3>1. SendError(code).records = {}
      BY DEF SendError
    <3>. QED
      BY <2>1, <3>1, NothingToFollow
  <2>4. QuerySound(y, st)
    BY <1>1, <2>1, <2>3 DEF QuerySound, Stages
  <2>. QED
    BY <2>2, <2>4
<1>. QED
  BY <1>2, <1>3

\* A query that a store is asked about: its client is of a namespace, its name is one.
LEMMA AskedOf ==
    ASSUME NEW x, NEW st \in DnsStores, QuerySound(x, st), x.stage = "client", NEW client \in st.workloads
    PROVE  client.ns \in Labels /\ client # Absent /\ x.ask.name \in Names /\ x.ask \in Asked /\ st \in x.seen
<1>1. x.ask \in Asked /\ st \in x.seen
  BY DEF QuerySound
<1>2. client \in DnsWorkloads
  BY DEF DnsWorkloads
<1>. QED
  BY <1>1, <1>2, DnsAssumption

\* A query that has gone upstream, and one that has found a service.
Forwarded(x, client) == [x EXCEPT !.stage = "forward", !.client = client, !.upstream = TRUE]
Found(x, client, m) == [x EXCEPT !.stage = "addresses", !.client = client, !.match = m]

\* forward: a query for addresses goes upstream only when the client's own service of that
\* name is not there.
LEMMA ForwardSound ==
    ASSUME NEW x, NEW st \in DnsStores, QuerySound(x, st), x.stage = "client", NEW client \in st.workloads,
           x.ask.type \notin {"A", "AAAA"} \/ FindServer(st, client, x.ask.name) = Absent,
           NEW y, y = Forwarded(x, client)
    PROVE  QuerySound(y, st) /\ y.stage = "forward" /\ y.upstream /\ ~x.upstream
<1>1. DOMAIN x = QueryFields /\ ~x.upstream /\ x.reply = Absent
  BY DEF QuerySound
<1>2. /\ DOMAIN y = QueryFields /\ y.stage = "forward" /\ y.client = client /\ y.upstream = TRUE
      /\ y.ask = x.ask /\ y.reply = x.reply /\ y.seen = x.seen
  BY <1>1 DEF QueryFields, Forwarded
<1>3. client.ns \in Labels /\ x.ask.name \in Names /\ x.ask \in Asked /\ st \in x.seen
  BY AskedOf
<1>4. y.ask.type \in {"A", "AAAA"} => ~AlwaysOwn(y)
  <2>1. OwnService(st, client.ns, x.ask.name) => FindServer(st, client, x.ask.name) # Absent
    BY <1>3, FindServerSound
  <2>. QED
    BY <1>2, <1>3, <2>1 DEF AlwaysOwn
<1>5. QuerySound(y, st)
  BY <1>1, <1>2, <1>3, <1>4 DEF QuerySound, Stages
<1>. QED
  BY <1>1, <1>2, <1>5

\* lookup with a match.
LEMMA FoundSound ==
    ASSUME NEW x, NEW st \in DnsStores, QuerySound(x, st), x.stage = "client", NEW client \in st.workloads,
           x.ask.type \in {"A", "AAAA"}, FindServer(st, client, x.ask.name) # Absent,
           NEW y, y = Found(x, client, FindServer(st, client, x.ask.name))
    PROVE  QuerySound(y, st) /\ y.stage = "addresses" /\ ~y.upstream /\ ~x.upstream
<1>. DEFINE m == FindServer(st, client, x.ask.name)
<1>1. DOMAIN x = QueryFields /\ ~x.upstream /\ x.upstream \in BOOLEAN /\ x.reply = Absent
  BY DEF QuerySound
<1>2. /\ DOMAIN y = QueryFields /\ y.stage = "addresses" /\ y.client = client /\ y.upstream = x.upstream
      /\ y.ask = x.ask /\ y.reply = x.reply /\ y.seen = x.seen /\ y.match = m
  BY <1>1 DEF QueryFields, Found
<1>3. client.ns \in Labels /\ x.ask.name \in Names /\ x.ask \in Asked /\ st \in x.seen
  BY AskedOf
<1>4. /\ MatchFor(client.ns, x.ask.name, m)
      /\ OwnService(st, client.ns, x.ask.name) => m.svc.ns = client.ns
  BY <1>3, FindServerSound
<1>5. Matched(y)
  BY <1>2, <1>3, <1>4 DEF Matched, AlwaysOwn
<1>6. QuerySound(y, st)
  BY <1>1, <1>2, <1>3, <1>5 DEF QuerySound, Stages
<1>. QED
  BY <1>1, <1>2, <1>6

\* The rest of lookup: the answer is sound also when the store has changed since the match.
LEMMA AnswerGiven ==
    ASSUME NEW x, NEW st \in DnsStores, QuerySound(x, st), x.stage = "addresses",
           NEW ips, ips = IF ServiceFamilyAllowed(x.match.svc, x.ask.type) THEN GetAddresses(st, x.client, x.match.svc, x.ask.type) ELSE {},
           NEW records, records = IF ips = {} THEN {} ELSE Records(x.ask.name, x.match, ips),
           NEW y, y = [x EXCEPT !.stage = "send", !.reply = Answer(records, TRUE)]
    PROVE  QuerySound(y, st) /\ Later(x, y)
<1>1. /\ DOMAIN x = QueryFields /\ x.upstream \in BOOLEAN /\ x.ask \in Asked /\ st \in x.seen /\ Matched(x)
  BY DEF QuerySound
<1>2. /\ DOMAIN y = QueryFields /\ y.stage = "send" /\ y.client = x.client /\ y.upstream = x.upstream
      /\ y.ask = x.ask /\ y.reply = Answer(records, TRUE) /\ y.seen = x.seen /\ y.match = x.match
  BY <1>1 DEF QueryFields
<1>3. y.reply.aa = TRUE /\ y.reply.records = records
  BY <1>2 DEF Answer
<1>4. /\ x.ask.type \in {"A", "AAAA"} /\ x.match.svc \in DnsServices /\ Meant(x.client.ns, x.ask.name, x.match.svc.host)
      /\ x.match.stripped # Absent => x.match.stripped # x.ask.name
      /\ AlwaysOwn(x) => x.match.svc.ns = x.client.ns
  BY <1>1 DEF Matched, MatchFor
<1>5. \A ip \in ips : AddressOf(x.client, x.match.svc, x.ask.type, x.seen, ip)
  BY <1>1, <1>4, AddressesSound
<1>6. Followable(records, x.ask.name) /\ \A r \in records : "ip" \in DOMAIN r => r.ip \in ips
  <2>1. CASE ips = {}
    BY <2>1, NothingToFollow
  <2>2. CASE ips # {}
    BY <1>4, <2>2, RecordsSound
  <2>. QED
    BY <2>1, <2>2
<1>7. AlwaysOwn(y) => AlwaysOwn(x)
  BY <1>2 DEF AlwaysOwn
<1>8. AnswerSound(y)
  BY <1>2, <1>3, <1>4, <1>5, <1>6, <1>7 DEF AnswerSound
<1>9. QuerySound(y, st)
  BY <1>1, <1>2, <1>3, <1>6, <1>8 DEF QuerySound, Stages
<1>10. Later(x, y)
  BY <1>2 DEF Later
<1>. QED
  BY <1>9, <1>10

\* What comes back from upstream is no answer of ours.
LEMMA UpstreamSound ==
    ASSUME NEW x, NEW st, QuerySound(x, st), x.stage = "forward", NEW code,
           NEW reply, reply = IF code = "NoError" THEN Answer({}, FALSE) ELSE SendError(code),
           NEW y, y = [x EXCEPT !.stage = "send", !.reply = reply]
    PROVE  QuerySound(y, st) /\ Later(x, y) /\ y.stage = "send" /\ y.upstream /\ x.upstream
<1>1. /\ DOMAIN x = QueryFields /\ x.upstream \in BOOLEAN /\ x.upstream /\ x.ask \in Asked
      /\ x.ask.type \in {"A", "AAAA"} => ~AlwaysOwn(x)
  BY DEF QuerySound
<1>2. reply.records = {} /\ reply.aa = FALSE
  BY DEF Answer, SendError
<1>3. /\ DOMAIN y = QueryFields /\ y.stage = "send" /\ y.client = x.client /\ y.upstream = x.upstream
      /\ y.ask = x.ask /\ y.reply = reply /\ y.seen = x.seen /\ y.match = x.match
  BY <1>1 DEF QueryFields
<1>4. Followable(y.reply.records, y.ask.name)
  BY <1>2, <1>3, NothingToFollow
<1>5. AnswerSound(y)
  BY <1>1, <1>2, <1>3 DEF AnswerSound, AlwaysOwn
<1>6. QuerySound(y, st)
  BY <1>1, <1>3, <1>4, <1>5 DEF QuerySound, Stages
<1>7. Later(x, y)
  BY <1>3 DEF Later
<1>. QED
  BY <1>1, <1>3, <1>6, <1>7

\* send_response
LEMMA SentSound ==
    ASSUME NEW x, NEW st, QuerySound(x, st), x.stage = "send", NEW reply, reply \in {x.reply, Absent},
           NEW y, y = [x EXCEPT !.stage = "done", !.reply = reply]
    PROVE  QuerySound(y, st) /\ Later(x, y)
<1>1. DOMAIN x = QueryFields /\ x.upstream \in BOOLEAN /\ x.ask \in Asked /\ Followable(x.reply.records, x.ask.name)
  BY DEF QuerySound
<1>2. /\ DOMAIN y = QueryFields /\ y.stage = "done" /\ y.upstream = x.upstream /\ y.ask = x.ask /\ y.reply = reply
  BY <1>1 DEF QueryFields
<1>3. y.reply # Absent => Followable(y.reply.records, y.ask.name)
  BY <1>1, <1>2
<1>4. QuerySound(y, st)
  BY <1>1, <1>2, <1>3 DEF QuerySound, Stages
<1>5. Later(x, y)
  BY <1>2 DEF Later
<1>. QED
  BY <1>4, <1>5

\* What a step leaves: the next queries and counters, read with the configuration that stays.
DnsKept ==
    /\ dnsCfg' = dnsCfg /\ dnsStore' \in DnsStores /\ DOMAIN query' = Queries
    /\ \A q \in Queries : QuerySound(query'[q], dnsStore')
    /\ CountsFit(dnsCounts', query')

\* A step of one query.
LEMMA QueryStep ==
    ASSUME DnsInv, NEW q \in Queries, NEW y, DnsSet(q, y), QuerySound(y, dnsStore), dnsStore' = dnsStore, dnsCfg' = dnsCfg
    PROVE  /\ query'[q] = y /\ \A p \in Queries \ {q} : query'[p] = query[p]
           /\ CountsFit(dnsCounts', query') => DnsKept
           /\ dnsCounts' = dnsCounts /\ Later(query[q], y) => DnsKept
<1>1. DOMAIN query = Queries /\ dnsStore \in DnsStores /\ (\A p \in Queries : QuerySound(query[p], dnsStore)) /\ CountsFit(dnsCounts, query)
  BY DEF DnsInv
<1>2. DOMAIN query' = Queries /\ query'[q] = y /\ \A p \in Queries \ {q} : query'[p] = query[p]
  BY <1>1 DEF DnsSet
<1>3. \A p \in Queries : QuerySound(query'[p], dnsStore')
  BY <1>1, <1>2
<1>4. CountsFit(dnsCounts', query') => DnsKept
  BY <1>1, <1>2, <1>3 DEF DnsKept
<1>5. ASSUME dnsCounts' = dnsCounts, Later(query[q], y)
      PROVE  CountsFit(dnsCounts', query')
  <2>1. \A p \in Queries : Later(query[p], query'[p])
    <3>1. \A x : Later(x, x)
      BY DEF Later
    <3>. QED
      BY <1>2, <1>5, <3>1
  <2>2. CountsFit(dnsCounts, query')
    BY <1>1, <2>1, CountsKept
  <2>. QED
    BY <1>5, <2>2
<1>. QED
  BY <1>2, <1>4, <1>5

\* Lookup: the three ends of the first half.
LEMMA LookupKeeps ==
    ASSUME DnsInv, NEW q \in Queries, Lookup(q)
    PROVE  DnsKept
<1>. DEFINE x == query[q]
<1>1. QuerySound(x, dnsStore) /\ dnsStore \in DnsStores /\ CountsFit(dnsCounts, query) /\ x.stage = "client"
  BY DEF DnsInv, Lookup
<1>2. dnsStore' = dnsStore /\ dnsCfg' = dnsCfg
  BY DEF Lookup
<1>3. PICK client \in dnsStore.workloads :
         \/ Replied(q, SendError("ServFail")) /\ dnsCounts' = dnsCounts
         \/ (x.ask.type \notin {"A", "AAAA"} \/ FindServer(dnsStore, client, x.ask.name) = Absent) /\ Forward(q, client)
         \/ /\ x.ask.type \in {"A", "AAAA"} /\ FindServer(dnsStore, client, x.ask.name) # Absent /\ CountRequest
            /\ DnsSet(q, [x EXCEPT !.stage = "addresses", !.client = client, !.match = FindServer(dnsStore, client, x.ask.name)])
  BY DEF Lookup, Asks
<1>4. CASE Replied(q, SendError("ServFail")) /\ dnsCounts' = dnsCounts
  <2>1. PICK y : y = [x EXCEPT !.stage = "send", !.reply = SendError("ServFail")]
    OBVIOUS
  <2>2. DnsSet(q, y)
    BY <1>4, <2>1 DEF Replied
  <2>3. QuerySound(y, dnsStore) /\ Later(x, y)
    BY <1>1, <2>1, ErrorSound
  <2>. QED
    BY <1>2, <1>4, <2>2, <2>3, QueryStep
<1>5. CASE (x.ask.type \notin {"A", "AAAA"} \/ FindServer(dnsStore, client, x.ask.name) = Absent) /\ Forward(q, client)
  <2>1. PICK y : y = Forwarded(x, client)
    OBVIOUS
  <2>2. DnsSet(q, y) /\ dnsCounts' = [dnsCounts EXCEPT !.requests = @ + 1, !.forwarded = @ + 1]
    BY <1>5, <2>1 DEF Forward, Forwarded
  <2>3. QuerySound(y, dnsStore) /\ y.stage = "forward" /\ y.upstream /\ ~x.upstream
    <3>. HIDE DEF x
    <3>1. x.ask.type \notin {"A", "AAAA"} \/ FindServer(dnsStore, client, x.ask.name) = Absent
      BY <1>5, Zenon
    <3>. QED
      BY ONLY <1>1, <2>1, <3>1, client \in dnsStore.workloads, ForwardSound
  <2>4. query'[q] = y /\ (\A p \in Queries \ {q} : query'[p] = query[p]) /\ (CountsFit(dnsCounts', query') => DnsKept)
    BY <1>2, <2>2, <2>3, QueryStep
  <2>5. CountsFit([dnsCounts EXCEPT !.requests = @ + 1, !.forwarded = @ + 1], query')
    BY <1>1, <2>3, <2>4, CountsLookup
  <2>. QED
    BY <2>2, <2>4, <2>5
<1>6. CASE /\ x.ask.type \in {"A", "AAAA"} /\ FindServer(dnsStore, client, x.ask.name) # Absent /\ CountRequest
           /\ DnsSet(q, [x EXCEPT !.stage = "addresses", !.client = client, !.match = FindServer(dnsStore, client, x.ask.name)])
  <2>1. PICK y : y = Found(x, client, FindServer(dnsStore, client, x.ask.name))
    OBVIOUS
  <2>2. DnsSet(q, y) /\ dnsCounts' = [dnsCounts EXCEPT !.requests = @ + 1]
    BY <1>6, <2>1 DEF CountRequest, Found
  <2>3. QuerySound(y, dnsStore) /\ y.stage = "addresses" /\ ~y.upstream /\ ~x.upstream
    <3>. HIDE DEF x
    <3>1. x.ask.type \in {"A", "AAAA"} /\ FindServer(dnsStore, client, x.ask.name) # Absent
      BY <1>6, Zenon
    <3>. QED
      BY ONLY <1>1, <2>1, <3>1, client \in dnsStore.workloads, FoundSound
  <2>4. query'[q] = y /\ (\A p \in Queries \ {q} : query'[p] = query[p]) /\ (CountsFit(dnsCounts', query') => DnsKept)
    BY <1>2, <2>2, <2>3, QueryStep
  <2>5. CountsFit([dnsCounts EXCEPT !.requests = @ + 1], query')
    BY <1>1, <2>3, <2>4, CountsLookup
  <2>. QED
    BY <2>2, <2>4, <2>5
<1>. QED
  BY <1>3, <1>4, <1>5, <1>6

\* The other steps of one query.
LEMMA QueryKeeps ==
    ASSUME DnsInv, NEW q \in Queries,
           \/ \E ask \in Asked : HandleRequest(q, ask)
           \/ UnknownSource(q) \/ Addresses(q)
           \/ \E code \in {"NoError", "NXDomain", "ServFail"} : Upstream(q, code)
           \/ \E ok \in BOOLEAN : Send(q, ok)
    PROVE  DnsKept
<1>. DEFINE x == query[q]
<1>1. QuerySound(x, dnsStore) /\ dnsStore \in DnsStores /\ CountsFit(dnsCounts, query)
  BY DEF DnsInv
<1>2. ASSUME NEW ask \in Asked, HandleRequest(q, ask)
      PROVE  DnsKept
  <2>1. dnsStore' = dnsStore /\ dnsCfg' = dnsCfg /\ dnsCounts' = dnsCounts /\ x.stage = "idle"
    BY <1>2 DEF HandleRequest
  <2>2. PICK code, y : /\ DnsSet(q, y)
                       /\ \/ y = [x EXCEPT !.stage = "client", !.ask = ask, !.seen = {dnsStore}]
                          \/ y = [x EXCEPT !.stage = "send", !.ask = ask, !.reply = SendError(code)]
    BY <1>2 DEF HandleRequest
  <2>3. QuerySound(y, dnsStore) /\ Later(x, y)
    <3>. HIDE DEF x
    <3>. QED
      BY <1>1, <2>1, <2>2, RequestSound
  <2>. QED
    BY <2>1, <2>2, <2>3, QueryStep
<1>3. ASSUME UnknownSource(q)
      PROVE  DnsKept
  <2>1. /\ dnsStore' = dnsStore /\ dnsCfg' = dnsCfg /\ x.stage = "client"
        /\ dnsCounts' = [dnsCounts EXCEPT !.requests = @ + 1]
    BY <1>3 DEF UnknownSource, CountRequest
  <2>2. PICK y : y = [x EXCEPT !.stage = "send", !.reply = SendError("ServFail")]
    OBVIOUS
  <2>3. DnsSet(q, y)
    BY <1>3, <2>2 DEF UnknownSource, Replied
  <2>4. QuerySound(y, dnsStore) /\ y.stage = "send" /\ ~y.upstream /\ ~x.upstream
    <3>. HIDE DEF x
    <3>. QED
      BY <1>1, <2>1, <2>2, ErrorSound
  <2>5. query'[q] = y /\ (\A p \in Queries \ {q} : query'[p] = query[p]) /\ (CountsFit(dnsCounts', query') => DnsKept)
    BY <2>1, <2>3, <2>4, QueryStep
  <2>6. CountsFit([dnsCounts EXCEPT !.requests = @ + 1], query')
    BY <1>1, <2>1, <2>4, <2>5, CountsLookup
  <2>. QED
    BY <2>1, <2>5, <2>6
<1>4. ASSUME Addresses(q)
      PROVE  DnsKept
  <2>1. dnsStore' = dnsStore /\ dnsCfg' = dnsCfg /\ dnsCounts' = dnsCounts /\ x.stage = "addresses"
    BY <1>4 DEF Addresses
  <2>2. PICK ips : ips = IF ServiceFamilyAllowed(x.match.svc, x.ask.type)
                         THEN GetAddresses(dnsStore, x.client, x.match.svc, x.ask.type) ELSE {}
    OBVIOUS
  <2>3. PICK records : records = IF ips = {} THEN {} ELSE Records(x.ask.name, x.match, ips)
    OBVIOUS
  <2>4. PICK y : y = [x EXCEPT !.stage = "send", !.reply = Answer(records, TRUE)]
    OBVIOUS
  <2>5. DnsSet(q, y)
    BY <1>4, <2>2, <2>3, <2>4 DEF Addresses, Replied, Asks
  <2>6. QuerySound(y, dnsStore) /\ Later(x, y)
    <3>. HIDE DEF x
    <3>. QED
      BY <1>1, <2>1, <2>2, <2>3, <2>4, AnswerGiven
  <2>. QED
    BY <2>1, <2>5, <2>6, QueryStep
<1>5. ASSUME NEW code, Upstream(q, code)
      PROVE  DnsKept
  <2>1. dnsStore' = dnsStore /\ dnsCfg' = dnsCfg /\ x.stage = "forward"
    BY <1>5 DEF Upstream
  <2>2. PICK reply : reply = IF code = "NoError" THEN Answer({}, FALSE) ELSE SendError(code)
    OBVIOUS
  <2>3. PICK y : y = [x EXCEPT !.stage = "send", !.reply = reply]
    OBVIOUS
  <2>4. DnsSet(q, y)
    BY <1>5, <2>2, <2>3 DEF Upstream, Replied
  <2>5. QuerySound(y, dnsStore) /\ Later(x, y) /\ y.stage = "send" /\ y.upstream /\ x.upstream
    <3>. HIDE DEF x
    <3>. QED
      BY <1>1, <2>1, <2>2, <2>3, UpstreamSound
  <2>6. /\ query'[q] = y /\ (\A p \in Queries \ {q} : query'[p] = query[p]) /\ (CountsFit(dnsCounts', query') => DnsKept)
        /\ dnsCounts' = dnsCounts => DnsKept
    BY <2>1, <2>4, <2>5, QueryStep
  <2>7. CASE code # "NoError"
    <3>1. dnsCounts' = [dnsCounts EXCEPT !.failures = @ + 1]
      BY <1>5, <2>7 DEF Upstream
    <3>2. CountsFit([dnsCounts EXCEPT !.failures = @ + 1], query')
      BY <1>1, <2>1, <2>5, <2>6, CountsFailure
    <3>. QED
      BY <2>6, <3>1, <3>2
  <2>8. CASE code = "NoError"
    <3>1. dnsCounts' = [dnsCounts EXCEPT !.failures = @]
      BY <1>5, <2>8 DEF Upstream
    <3>2. dnsCounts \in [requests : Nat, forwarded : Nat, failures : Nat]
      BY <1>1 DEF CountsFit
    <3>3. dnsCounts' = dnsCounts
      BY <3>1, <3>2
    <3>. QED
      BY <2>6, <3>3
  <2>. QED
    BY <2>7, <2>8
<1>6. ASSUME NEW ok \in BOOLEAN, Send(q, ok)
      PROVE  DnsKept
  <2>1. dnsStore' = dnsStore /\ dnsCfg' = dnsCfg /\ dnsCounts' = dnsCounts /\ x.stage = "send"
    BY <1>6 DEF Send
  <2>2. PICK reply \in {x.reply, Absent} : reply = IF ok THEN x.reply ELSE Absent
    OBVIOUS
  <2>3. PICK y : y = [x EXCEPT !.stage = "done", !.reply = reply]
    OBVIOUS
  <2>4. DnsSet(q, y)
    BY <1>6, <2>2, <2>3 DEF Send
  <2>5. QuerySound(y, dnsStore) /\ Later(x, y)
    <3>. HIDE DEF x
    <3>. QED
      BY <1>1, <2>1, <2>2, <2>3, SentSound
  <2>. QED
    BY <2>1, <2>4, <2>5, QueryStep
<1>. QED
  BY <1>2, <1>3, <1>4, <1>5, <1>6

\* Steps that concern every query: the store changes, the server is drained.
LEMMA ServerKeeps ==
    ASSUME DnsInv,
           \/ \E st \in DnsStores : DnsUpdate(st)
           \/ \E mode \in {"Graceful", "Immediate"} : DnsDrain(mode)
           \/ DnsDrained
           \/ UNCHANGED dnsVars
    PROVE  DnsKept
<1>1. /\ DOMAIN query = Queries /\ dnsStore \in DnsStores /\ CountsFit(dnsCounts, query)
      /\ \A p \in Queries : QuerySound(query[p], dnsStore)
  BY DEF DnsInv
<1>2. ASSUME NEW st \in DnsStores, DnsUpdate(st)
      PROVE  DnsKept
  <2>1. dnsStore' = st /\ dnsCfg' = dnsCfg /\ dnsCounts' = dnsCounts /\ DOMAIN query' = Queries
    BY <1>2 DEF DnsUpdate
  <2>2. \A p \in Queries : query'[p] = IF query[p].stage \notin {"idle", "done"} THEN [query[p] EXCEPT !.seen = @ \cup {st}] ELSE query[p]
    BY <1>2 DEF DnsUpdate, InFlight
  <2>3. \A p \in Queries : QuerySound(query'[p], st) /\ Later(query[p], query'[p])
    BY <1>1, <2>2, StoreChanges
  <2>4. CountsFit(dnsCounts, query')
    BY <1>1, <2>3, CountsKept
  <2>. QED
    BY <2>1, <2>3, <2>4 DEF DnsKept
<1>3. ASSUME NEW mode, DnsDrain(mode), query' # query
      PROVE  DnsKept
  <2>1. dnsStore' = dnsStore /\ dnsCfg' = dnsCfg /\ dnsCounts' = dnsCounts /\ DOMAIN query' = Queries
    BY <1>3 DEF DnsDrain
  <2>2. \A p \in Queries : query'[p] = IF query[p].stage \notin {"idle", "done"} THEN [query[p] EXCEPT !.stage = "done", !.reply = Absent] ELSE query[p]
    BY <1>3 DEF DnsDrain, InFlight
  <2>3. \A p \in Queries : QuerySound(query'[p], dnsStore) /\ Later(query[p], query'[p])
    <3>1. \A x : Later(x, x)
      BY DEF Later
    <3>. QED
      BY <1>1, <2>2, <3>1, QueryDropped
  <2>4. CountsFit(dnsCounts, query')
    BY <1>1, <2>3, CountsKept
  <2>. QED
    BY <1>1, <2>1, <2>3, <2>4 DEF DnsKept
<1>4. ASSUME dnsStore' = dnsStore, dnsCfg' = dnsCfg, dnsCounts' = dnsCounts, query' = query
      PROVE  DnsKept
  BY <1>1, <1>4 DEF DnsKept
<1>5. ASSUME NEW mode, DnsDrain(mode)
      PROVE  DnsKept
  BY <1>3, <1>4, <1>5 DEF DnsDrain
<1>6. (DnsDrained \/ UNCHANGED dnsVars) => DnsKept
  BY <1>4 DEF DnsDrained, dnsVars
<1>. QED
  BY <1>2, <1>5, <1>6

\* Every step of the DNS proxy keeps the invariant.
LEMMA DnsStepKeeps ==
    ASSUME DnsInv, [DnsNext]_dnsVars
    PROVE  DnsInv'
<1>1. DnsKept
  <2>1. ASSUME NEW q \in Queries, Lookup(q)
        PROVE  DnsKept
    BY <2>1, LookupKeeps
  <2>2. ASSUME NEW q \in Queries,
               \/ \E ask \in Asked : HandleRequest(q, ask)
               \/ UnknownSource(q) \/ Addresses(q)
               \/ \E code \in {"NoError", "NXDomain", "ServFail"} : Upstream(q, code)
               \/ \E ok \in BOOLEAN : Send(q, ok)
        PROVE  DnsKept
    BY <2>2, QueryKeeps
  <2>3. ASSUME \/ \E st \in DnsStores : DnsUpdate(st)
               \/ \E mode \in {"Graceful", "Immediate"} : DnsDrain(mode)
               \/ DnsDrained
               \/ UNCHANGED dnsVars
        PROVE  DnsKept
    BY <2>3, ServerKeeps
  <2>4. DnsNext \/ UNCHANGED dnsVars
    OBVIOUS
  <2>. QED
    BY <2>1, <2>2, <2>3, <2>4, Zenon DEF DnsNext
<1>2. dnsCfg' = dnsCfg /\ dnsStore' \in DnsStores /\ DOMAIN query' = Queries /\ CountsFit(dnsCounts', query')
  BY <1>1 DEF DnsKept
<1>3. ASSUME NEW q \in Queries
      PROVE  QuerySound(query[q], dnsStore)'
  <2>1. PICK y, s : y = query'[q] /\ s = dnsStore'
    OBVIOUS
  <2>2. QuerySound(y, s)
    BY <1>1, <2>1 DEF DnsKept
  <2>3. QuerySound(y, s)'
    BY <1>2, <2>2, MeaningsKept
  <2>. QED
    BY <2>1, <2>3
<1>4. CountsFit(dnsCounts, query)'
  BY <1>2 DEF CountsFit, Begun, Upstreamed, Returned
<1>. QED
  BY <1>2, <1>3, <1>4 DEF DnsInv

\* At the start no query is in flight and nothing is counted.
LEMMA DnsStart ==
    ASSUME DnsInit
    PROVE  DnsInv
<1>1. dnsStore \in DnsStores /\ query = [q \in Queries |-> NoQuery] /\ dnsCounts = [requests |-> 0, forwarded |-> 0, failures |-> 0]
  BY DEF DnsInit
<1>2. /\ DOMAIN NoQuery = QueryFields /\ NoQuery.stage = "idle" /\ NoQuery.client = Absent /\ NoQuery.reply = Absent
      /\ NoQuery.upstream = FALSE
  BY DEF NoQuery, QueryFields
<1>3. QuerySound(NoQuery, dnsStore)
  BY <1>2 DEF QuerySound, Stages
<1>4. DOMAIN query = Queries /\ \A q \in Queries : query[q] = NoQuery
  BY <1>1
<1>5. Begun(query) = {} /\ Upstreamed(query) = {} /\ Returned(query) = {}
  BY <1>2, <1>4 DEF Begun, Upstreamed, Returned
<1>6. Cardinality({}) = 0
  BY FS_EmptySet
<1>7. CountsFit(dnsCounts, query)
  BY <1>1, <1>5, <1>6 DEF CountsFit
<1>. QED
  BY <1>1, <1>3, <1>4, <1>7 DEF DnsInv

\* The invariant says what an answer and the counters promise.
LEMMA DnsInvGrounds ==
    ASSUME DnsInv
    PROVE  AnswersGrounded
<1>1. (\A q \in Queries : QuerySound(query[q], dnsStore)) /\ CountsFit(dnsCounts, query)
  BY DEF DnsInv
<1>2. ASSUME NEW q \in Queries, query[q].stage = "send", query[q].client # Absent, NEW x, x = query[q]
      PROVE  /\ x.reply.aa =>
                  /\ \E n \in Meanings(x.client.ns, x.ask.name) : Covers(x.match.svc.host, n)
                  /\ \A r \in {r \in x.reply.records : "ip" \in DOMAIN r} :
                       /\ (x.ask.type = "AAAA") = (r.ip \in IPv6)
                       /\ \/ [ip |-> r.ip, net |-> x.client.net] \in x.match.svc.vips
                          \/ /\ x.match.svc.vips = {}
                             /\ \E st \in x.seen : \E w \in st.workloads :
                                  w.uid \in DOMAIN x.match.svc.eps /\ r.ip \in Range(w.ips)
             /\ x.ask.type \in {"A", "AAAA"}
                /\ (\A st \in x.seen : {s \in Range(st.services) : s.host = x.ask.name /\ s.ns = x.client.ns /\ s.vips # {}} # {}) =>
                  x.reply.aa /\ x.match.svc.ns = x.client.ns
  <2>1. AnswerSound(x)
    BY <1>1, <1>2 DEF QuerySound
  <2>2. ASSUME x.reply.aa
        PROVE  \E n \in Meanings(x.client.ns, x.ask.name) : Covers(x.match.svc.host, n)
    BY <2>1, <2>2 DEF AnswerSound, Meant
  <2>3. ASSUME x.reply.aa, NEW r \in x.reply.records, "ip" \in DOMAIN r
        PROVE  /\ (x.ask.type = "AAAA") = (r.ip \in IPv6)
               /\ \/ [ip |-> r.ip, net |-> x.client.net] \in x.match.svc.vips
                  \/ /\ x.match.svc.vips = {}
                     /\ \E st \in x.seen : \E w \in st.workloads : w.uid \in DOMAIN x.match.svc.eps /\ r.ip \in Range(w.ips)
    <3>1. AddressOf(x.client, x.match.svc, x.ask.type, x.seen, r.ip)
      BY <2>1, <2>3 DEF AnswerSound
    <3>. QED
      BY <3>1 DEF AddressOf
  <2>4. ASSUME x.ask.type \in {"A", "AAAA"},
               \A st \in x.seen : {s \in Range(st.services) : s.host = x.ask.name /\ s.ns = x.client.ns /\ s.vips # {}} # {}
        PROVE  x.reply.aa /\ x.match.svc.ns = x.client.ns
    <3>1. AlwaysOwn(x)
      BY <2>4 DEF AlwaysOwn, OwnService
    <3>. QED
      BY <2>1, <2>4, <3>1 DEF AnswerSound
  <2>. QED
    BY <2>2, <2>3, <2>4
<1>3. AnswersAuthoritative
  BY <1>2 DEF AnswersAuthoritative
<1>4. ASSUME NEW q \in Queries, query[q].reply # Absent
      PROVE  Followable(query[q].reply.records, query[q].ask.name)
  BY <1>1, <1>4 DEF QuerySound
<1>5. /\ dnsCounts.requests <= Cardinality({q \in Queries : InFlight(q) \/ query[q].stage = "done"})
      /\ dnsCounts.forwarded = Cardinality({q \in Queries : query[q].upstream})
      /\ dnsCounts.failures <= dnsCounts.forwarded /\ dnsCounts.forwarded <= dnsCounts.requests
  <2>. DEFINE all == {q \in Queries : InFlight(q) \/ query[q].stage = "done"}
  <2>1. Begun(query) \subseteq all /\ all \in SUBSET Queries /\ Begun(query) \in SUBSET Queries
    BY DEF Begun, InFlight
  <2>2. Returned(query) \subseteq Upstreamed(query) /\ Upstreamed(query) \in SUBSET Queries /\ Returned(query) \in SUBSET Queries
    BY DEF Returned, Upstreamed
  <2>. HIDE DEF all
  <2>3. Cardinality(Begun(query)) \in Nat /\ Cardinality(all) \in Nat /\ Cardinality(Begun(query)) <= Cardinality(all)
    BY ONLY <2>1, QueriesCounted
  <2>4. /\ Cardinality(Returned(query)) \in Nat /\ Cardinality(Upstreamed(query)) \in Nat
        /\ Cardinality(Returned(query)) <= Cardinality(Upstreamed(query))
    BY ONLY <2>2, QueriesCounted
  <2>5. /\ dnsCounts \in [requests : Nat, forwarded : Nat, failures : Nat]
        /\ dnsCounts.requests <= Cardinality(Begun(query)) /\ dnsCounts.forwarded = Cardinality(Upstreamed(query))
        /\ dnsCounts.failures <= Cardinality(Returned(query)) /\ dnsCounts.forwarded <= dnsCounts.requests
    BY <1>1 DEF CountsFit
  <2>6. Upstreamed(query) = {q \in Queries : query[q].upstream}
    BY DEF Upstreamed
  <2>7. dnsCounts.requests <= Cardinality(all) /\ dnsCounts.failures <= dnsCounts.forwarded
    BY <2>3, <2>4, <2>5
  <2>. QED
    BY <2>5, <2>6, <2>7 DEF all
<1>6. AnswersUsable
  BY <1>4, <1>5 DEF AnswersUsable, Followable
<1>. QED
  BY <1>3, <1>6 DEF AnswersGrounded

\* Queries, answers and counters of the DNS proxy stay as DnsInv says, for any number of
\* queries at once and any stores, search domains and configurations.
THEOREM DnsInvariant == DnsSpec => []DnsInv
<1>1. DnsInit => DnsInv
  BY DnsStart
<1>2. DnsInv /\ [DnsNext]_dnsVars => DnsInv'
  BY DnsStepKeeps
<1>. QED
  BY <1>1, <1>2, PTL DEF DnsSpec

\* A name is answered with what the stores held while the query lived, for a service that
\* the client can mean by it, in records that can be followed (find_server, get_addresses,
\* lookup), and the counters agree with the queries.
THEOREM AnswersGroundedHolds == DnsSpec => []AnswersGrounded
BY DnsInvariant, DnsInvGrounds, PTL
=============================================================================
