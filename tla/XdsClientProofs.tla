--------------------------- MODULE XdsClientProofs ---------------------------
(***************************************************************************)
(* TLAPS proofs about XdsClient, for any types, names, contents and tasks  *)
(* and any bounds: the client keeps account of what it holds and of who    *)
(* waits for what, through every reconnect.                                *)
(***************************************************************************)
EXTENDS XdsClient, SequenceTheorems, TLAPS

\* The names a task may demand, and what a task does.
DemandKeys == {j \in Asks : Supports(j[1])}
TaskStates == {Answered, Dropped} \union [st : {"sending", "waiting"}, key : DemandKeys]

\* The rest of the state the client's steps read.
Shapes ==
    /\ task \in [Tasks -> TaskStates]
    /\ demand \in Seq(Tasks)
    /\ world \in [Keys -> Values \union {Bad, Absent}]
    /\ response # NoResponse =>
          /\ response.rem \subseteq Asks /\ DOMAIN response.upd \subseteq Keys
          /\ response.rem \intersect DOMAIN response.upd = {}
          /\ \A k \in DOMAIN response.upd : response.upd[k] \in Values \union {Bad}

\* Where a waiting task is waited for: once in the demand channel, or in the
\* pending table under the key it asked for.
Waiters ==
    /\ \A j \in Asks : pending[j] # Absent =>
          /\ j \in subscriptions
          /\ task[pending[j]].st = "waiting" /\ task[pending[j]].key = j
    /\ \A i \in DOMAIN demand :
          task[demand[i]].st = "waiting" /\ pending[task[demand[i]].key] # demand[i]
    /\ \A i, j \in DOMAIN demand : demand[i] = demand[j] => i = j
    /\ \A w \in Tasks : task[w].st = "waiting" =>
          pending[task[w].key] = w \/ \E i \in DOMAIN demand : demand[i] = w

KnownHeld == \A k \in Keys : store[k] # Absent => k \in known

\* What Remembered needs to be inductive.
XdsInv == TypeOK /\ Shapes /\ Waiters /\ KnownHeld

-----------------------------------------------------------------------------
\* A resource can be asked for by its own name.
LEMMA OwnNames == Keys \subseteq Asks
  BY DEF Keys, Asks

\* No name of a resource is an alias, so that it names this resource.
LEMMA OwnResource == \A k \in Keys : Resource(k) = k
  BY XdsAssumption DEF Keys, Resource

\* A task asks for a resource it did not find in the proxy state.
LEMMA FetchStep ==
    ASSUME XdsInv, NEW w \in Tasks, NEW k \in Asks, Fetch(w, k)
    PROVE  XdsInv'
  <1> USE DEF XdsInv
  <1>1. UNCHANGED <<store, clientVars, demand, response, world>>
    BY DEF Fetch
  <1>2. k \in DemandKeys
    BY DEF Fetch, DemandKeys
  <1>3. PICK a \in TaskStates : a.st = "sending" /\ task' = [task EXCEPT ![w] = a]
    BY <1>2 DEF Fetch, TaskStates
  <1>4. /\ task' \in [Tasks -> TaskStates] /\ task[w].st # "waiting"
        /\ \A u \in Tasks : task'[u] = IF u = w THEN a ELSE task[u]
    BY <1>3 DEF Fetch, Shapes
  <1>5. TypeOK' /\ KnownHeld'
    BY <1>1 DEF TypeOK, KnownHeld, clientVars
  <1>6. Shapes'
    BY <1>1, <1>4 DEF Shapes
  <1>7. Waiters'
    <2>1. \A j \in Asks : pending[j] \in Tasks \union {Absent}
      BY DEF TypeOK
    <2>2. \A i \in DOMAIN demand : demand[i] \in Tasks
      BY ElementOfSeq, LenProperties DEF Shapes
    <2> QED
      BY <1>1, <1>3, <1>4, <2>1, <2>2 DEF Waiters, clientVars
  <1> QED
    BY <1>5, <1>6, <1>7

\* The demand enters the channel.
LEMMA DemandStep ==
    ASSUME XdsInv, NEW w \in Tasks, Demand(w)
    PROVE  XdsInv'
  <1> USE DEF XdsInv
  <1>1. UNCHANGED <<store, clientVars, response, world>>
    BY DEF Demand
  <1>2. task[w].st = "sending" /\ task[w] \in TaskStates
    BY DEF Demand, Shapes
  <1>3. task[w] \in [st : {"sending", "waiting"}, key : DemandKeys]
    BY <1>2 DEF TaskStates, Answered, Dropped
  <1>4. PICK a \in TaskStates : a.st = "waiting" /\ a.key = task[w].key /\ task' = [task EXCEPT ![w] = a]
    <2>1. [task[w] EXCEPT !.st = "waiting"] \in TaskStates
      BY <1>3 DEF TaskStates
    <2> QED
      BY <1>3, <2>1 DEF Demand, Shapes
  <1>5. /\ task' \in [Tasks -> TaskStates]
        /\ \A u \in Tasks : task'[u] = IF u = w THEN a ELSE task[u]
    BY <1>4 DEF Shapes
  <1>6. PICK q \in Seq(Tasks) : q = demand
    BY DEF Shapes
  <1>7. PICK r \in Seq(Tasks) : r = Append(q, w) /\ demand' = r
    <2>1. Append(q, w) \in Seq(Tasks)
      BY <1>6, AppendProperties
    <2> QED
      BY <1>6, <2>1 DEF Demand
  <1>8. /\ Len(q) \in Nat /\ DOMAIN q = 1..Len(q) /\ DOMAIN r = 1..(Len(q) + 1)
        /\ r[Len(q) + 1] = w
        /\ \A i \in DOMAIN q : r[i] = q[i] /\ q[i] \in Tasks
    BY <1>6, <1>7, ElementOfSeq
  <1>9. \A i \in DOMAIN q : q[i] # w
    BY <1>2, <1>6 DEF Waiters
  <1>10. \A k \in Asks : pending[k] \in Tasks \union {Absent} /\ pending[k] # w
    BY <1>2, XdsAssumption DEF Waiters, TypeOK
  <1>11. TypeOK' /\ KnownHeld'
    BY <1>1 DEF TypeOK, KnownHeld, clientVars
  <1>12. Shapes'
    BY <1>1, <1>5, <1>7 DEF Shapes
  <1>13. Waiters'
    <2>1. a.key \in Asks
      BY <1>3, <1>4 DEF DemandKeys
    <2>2. \A k \in Asks : pending[k] # Absent =>
            k \in subscriptions /\ task'[pending[k]].st = "waiting" /\ task'[pending[k]].key = k
      BY <1>5, <1>10 DEF Waiters
    <2>3. \A i \in DOMAIN r : task'[r[i]].st = "waiting" /\ pending[task'[r[i]].key] # r[i]
      BY <1>4, <1>5, <1>6, <1>8, <1>9, <1>10, <2>1 DEF Waiters
    <2>4. \A i, j \in DOMAIN r : r[i] = r[j] => i = j
      BY <1>6, <1>8, <1>9 DEF Waiters
    <2>5. \A u \in Tasks : task'[u].st = "waiting" =>
            pending[task'[u].key] = u \/ \E i \in DOMAIN r : r[i] = u
      BY <1>5, <1>6, <1>8 DEF Waiters
    <2> QED
      BY <1>1, <1>7, <2>2, <2>3, <2>4, <2>5 DEF Waiters, clientVars
  <1> QED
    BY <1>11, <1>12, <1>13

\* handle_demand_event takes the first demand out of the channel and files its
\* oneshot; one that waited for the same name is dropped and waits no more.
LEMMA HandleDemandStep ==
    ASSUME XdsInv, HandleDemand
    PROVE  XdsInv'
  <1> USE DEF XdsInv
  <1>1. PICK q \in Seq(Tasks) : q = demand /\ q # <<>>
    BY DEF Shapes, HandleDemand
  <1>2. PICK w \in Tasks : w = Head(q)
    BY <1>1
  <1>3. PICK r \in Seq(Tasks) : r = Tail(q) /\ demand' = r
    <2>1. Tail(q) \in Seq(Tasks)
      BY <1>1, HeadTailProperties
    <2> QED
      BY <1>1, <2>1 DEF HandleDemand
  <1>4. /\ Len(q) \in Nat \ {0} /\ DOMAIN q = 1..Len(q) /\ w = q[1]
        /\ DOMAIN r = 1..(Len(q) - 1) /\ \A i \in DOMAIN r : r[i] = q[i + 1]
        /\ \A i \in DOMAIN q : q[i] \in Tasks
    BY <1>1, <1>2, <1>3, ElementOfSeq
  <1>5. task[w].st = "waiting" /\ pending[task[w].key] # w /\ task[w] \in TaskStates
    BY <1>1, <1>4 DEF Waiters, Shapes
  <1>6. PICK k \in DemandKeys : k = task[w].key
    BY <1>5 DEF TaskStates, Answered, Dropped
  <1>7. k \in Asks /\ k[1] \in OnDemand
    BY <1>6 DEF DemandKeys, Supports
  <1>8. /\ pending' = [pending EXCEPT ![k] = w]
        /\ subscriptions' = subscriptions \union {k}
        /\ task' = IF pending[k] = Absent THEN task ELSE [task EXCEPT ![pending[k]] = Dropped]
        /\ UNCHANGED <<store, known, backoff, expect, ready, response, world>>
    BY <1>1, <1>2, <1>6 DEF HandleDemand, Subscribed
  <1>9. /\ pending' \in [Asks -> Tasks \union {Absent}]
        /\ \A j \in Asks : pending'[j] = IF j = k THEN w ELSE pending[j]
    BY <1>7, <1>8 DEF TypeOK
  <1>10. /\ task' \in [Tasks -> TaskStates]
         /\ \A u \in Tasks : task'[u] = IF u = pending[k] /\ u # Absent THEN Dropped ELSE task[u]
    BY <1>7, <1>8, XdsAssumption DEF Shapes, TypeOK, TaskStates
  <1>11. TypeOK' /\ KnownHeld'
    BY <1>7, <1>8, <1>9 DEF TypeOK, KnownHeld
  <1>12. Shapes'
    BY <1>3, <1>8, <1>10 DEF Shapes
  <1>13. \A u \in Tasks : u = pending[k] /\ u # Absent =>
            /\ task[u].st = "waiting" /\ task[u].key = k /\ u # w
            /\ \A i \in DOMAIN q : q[i] # u
    BY <1>1, <1>5, <1>6, <1>7 DEF Waiters
  <1>14. w # Absent /\ Dropped.st # "waiting" /\ \A i \in DOMAIN r : r[i] # w
    BY <1>1, <1>4, XdsAssumption, SMTT(30) DEF Dropped, Waiters
  <1>15. Waiters'
    <2>1. ASSUME NEW j \in Asks, pending'[j] # Absent
          PROVE  j \in subscriptions' /\ task'[pending'[j]].st = "waiting" /\ task'[pending'[j]].key = j
      <3>1. CASE j = k
        BY <3>1, <1>5, <1>6, <1>8, <1>9, <1>10
      <3>2. CASE j # k
        <4>1. pending'[j] = pending[j] /\ pending[j] \in Tasks
          BY <2>1, <3>2, <1>9 DEF TypeOK
        <4>2. j \in subscriptions /\ task[pending[j]].st = "waiting" /\ task[pending[j]].key = j
          BY <2>1, <4>1 DEF Waiters
        <4>3. pending[j] # pending[k] \/ pending[k] = Absent
          BY <3>2, <4>1, <4>2, <1>13
        <4> QED
          BY <4>1, <4>2, <4>3, <1>8, <1>10
      <3> QED
        BY <3>1, <3>2
    <2>2. ASSUME NEW i \in DOMAIN r
          PROVE  task'[r[i]].st = "waiting" /\ pending'[task'[r[i]].key] # r[i]
      <3>1. i + 1 \in DOMAIN q /\ r[i] = q[i + 1] /\ r[i] \in Tasks
        BY <1>4
      <3>2. task[r[i]].st = "waiting" /\ pending[task[r[i]].key] # r[i]
        BY <3>1, <1>1 DEF Waiters
      <3>3. task'[r[i]] = task[r[i]]
        BY <3>1, <1>10, <1>13
      <3>4. task[r[i]].key \in Asks
        BY <3>1, <3>2 DEF Shapes, TaskStates, Answered, Dropped, DemandKeys
      <3> QED
        BY <3>1, <3>2, <3>3, <3>4, <1>9, <1>14
    <2>3. \A i, j \in DOMAIN r : r[i] = r[j] => i = j
      <3> SUFFICES ASSUME NEW i \in DOMAIN r, NEW j \in DOMAIN r, r[i] = r[j] PROVE i = j
        OBVIOUS
      <3>1. i + 1 \in DOMAIN q /\ j + 1 \in DOMAIN q /\ q[i + 1] = q[j + 1]
        BY <1>4
      <3>2. i + 1 = j + 1
        BY <3>1, <1>1 DEF Waiters
      <3> QED
        BY <3>2, <1>4
    <2>4. ASSUME NEW u \in Tasks, task'[u].st = "waiting"
          PROVE  pending'[task'[u].key] = u \/ \E i \in DOMAIN r : r[i] = u
      <3>1. task'[u] = task[u] /\ task[u].st = "waiting" /\ task[u].key \in Asks
        BY <2>4, <1>10, <1>14 DEF Shapes, TaskStates, Answered, Dropped, DemandKeys
      <3>2. CASE pending[task[u].key] = u
        BY <3>1, <3>2, <2>4, <1>9, <1>10, <1>14, XdsAssumption
      <3>3. CASE \E i \in DOMAIN demand : demand[i] = u
        <4>1. PICK i \in DOMAIN q : q[i] = u
          BY <3>3, <1>1
        <4>2. CASE i = 1
          BY <4>1, <4>2, <3>1, <1>4, <1>6, <1>9
        <4>3. CASE i # 1
          <5>1. i - 1 \in DOMAIN r /\ r[i - 1] = q[i]
            BY <4>3, <1>4
          <5> QED
            BY <4>1, <5>1
        <4> QED
          BY <4>2, <4>3
      <3> QED
        BY <3>1, <3>2, <3>3 DEF Waiters
    <2> QED
      BY <1>3, <2>1, <2>2, <2>3, <2>4 DEF Waiters
  <1> QED
    BY <1>11, <1>12, <1>15

\* A response is handled: what the handlers take in becomes known, what they
\* give up is forgotten, and whoever waits for one of its names is answered.
LEMMA HandleResponseStep ==
    ASSUME XdsInv, HandleResponse
    PROVE  XdsInv'
  <1> USE DEF XdsInv
  <1>1. PICK upd, rem : upd = response.upd /\ rem = response.rem
    OBVIOUS
  <1>2. /\ rem \subseteq Asks /\ DOMAIN upd \subseteq Keys /\ rem \intersect DOMAIN upd = {}
        /\ \A k \in DOMAIN upd : upd[k] \in Values \union {Bad}
    BY <1>1 DEF HandleResponse, Shapes
  <1>3. PICK ks \in SUBSET Asks : ks = DOMAIN upd \union rem
    BY <1>2, OwnNames
  <1>4. /\ pending' = [k \in Asks |-> IF k \in ks THEN Absent ELSE pending[k]]
        /\ task' = [w \in Tasks |-> IF \E k \in ks : pending[k] = w THEN Answered ELSE task[w]]
    BY <1>1, <1>3 DEF HandleResponse, Notified, Wake
  <1>5. /\ store' = Handled(upd, rem)
        /\ known' = (known \ rem) \union DOMAIN upd
        /\ response' = NoResponse
        /\ UNCHANGED <<subscriptions, backoff, demand, world>>
    BY <1>1 DEF HandleResponse, KnownAfter
  <1>6. expect' \subseteq expect /\ ready' \in BOOLEAN
    BY DEF HandleResponse, StillExpected, TypeOK
  <1>7. \A k \in Keys :
          /\ store'[k] \in Values \union {Absent}
          /\ store'[k] # Absent => k \in DOMAIN upd \/ (k \notin rem /\ store[k] # Absent)
    <2> SUFFICES ASSUME NEW k \in Keys
                 PROVE  /\ store'[k] \in Values \union {Absent}
                        /\ store'[k] # Absent => k \in DOMAIN upd \/ (k \notin rem /\ store[k] # Absent)
      OBVIOUS
    <2>0. store[k] \in Values \union {Absent}
      BY DEF TypeOK
    <2>1. CASE k \in rem
      BY <1>2, <1>5, <2>1 DEF Handled
    <2>2. CASE k \notin rem /\ k \in DOMAIN upd /\ upd[k] # Bad
      <3>1. store'[k] = upd[k]
        BY <1>5, <2>2 DEF Handled
      <3>2. upd[k] \in Values
        BY <1>2, <2>2
      <3> QED
        BY <3>1, <3>2, <2>2
    <2>3. CASE k \notin rem /\ ~(k \in DOMAIN upd /\ upd[k] # Bad)
      BY <1>2, <1>5, <2>0, <2>3 DEF Handled
    <2> QED
      BY <2>1, <2>2, <2>3
  <1>8. store' \in [Keys -> Values \union {Absent}]
    BY <1>5, <1>7 DEF Handled
  <1>9. KnownHeld'
    BY <1>5, <1>7 DEF KnownHeld
  <1>10. pending' \in [Asks -> Tasks \union {Absent}]
    BY <1>4 DEF TypeOK
  <1>11. TypeOK'
    BY <1>2, <1>5, <1>6, <1>8, <1>10 DEF TypeOK
  <1>12. task' \in [Tasks -> TaskStates]
    BY <1>4 DEF Shapes, TaskStates
  <1>13. Shapes'
    BY <1>5, <1>12 DEF Shapes
  <1>14. /\ \A k \in Asks : pending'[k] = IF k \in ks THEN Absent ELSE pending[k]
         /\ \A u \in Tasks : task'[u] = IF \E k \in ks : pending[k] = u THEN Answered ELSE task[u]
    BY <1>4
  <1>15. Answered.st # "waiting"
    BY DEF Answered
  <1>16. \A i \in DOMAIN demand : demand[i] \in Tasks /\ \A k \in Asks : pending[k] # demand[i]
    <2> SUFFICES ASSUME NEW i \in DOMAIN demand, NEW k \in Asks, pending[k] = demand[i]
                 PROVE  FALSE
      BY ElementOfSeq, LenProperties DEF Shapes
    <2>1. demand[i] \in Tasks /\ pending[k] # Absent
      BY ElementOfSeq, LenProperties, XdsAssumption DEF Shapes
    <2> QED
      BY <2>1 DEF Waiters
  <1>17. Waiters'
    <2>1. ASSUME NEW k \in Asks, pending'[k] # Absent
          PROVE  k \in subscriptions /\ task'[pending'[k]].st = "waiting" /\ task'[pending'[k]].key = k
      <3>1. k \notin ks /\ pending'[k] = pending[k] /\ pending[k] \in Tasks
        BY <2>1, <1>14 DEF TypeOK
      <3>2. k \in subscriptions /\ task[pending[k]].st = "waiting" /\ task[pending[k]].key = k
        BY <2>1, <3>1 DEF Waiters
      <3>3. \A j \in ks : pending[j] # pending[k]
        BY <2>1, <3>1, <3>2, <1>3 DEF Waiters
      <3> QED
        BY <3>1, <3>2, <3>3, <1>14
    <2>2. ASSUME NEW i \in DOMAIN demand
          PROVE  task'[demand[i]].st = "waiting" /\ pending'[task'[demand[i]].key] # demand[i]
      <3>1. task'[demand[i]] = task[demand[i]]
        BY <1>3, <1>14, <1>16
      <3>2. task[demand[i]].st = "waiting" /\ task[demand[i]].key \in Asks
        BY <1>16 DEF Waiters, Shapes, TaskStates, Answered, Dropped, DemandKeys
      <3> QED
        BY <3>1, <3>2, <1>14, <1>16, XdsAssumption
    <2>3. ASSUME NEW u \in Tasks, task'[u].st = "waiting"
          PROVE  pending'[task'[u].key] = u \/ \E i \in DOMAIN demand : demand[i] = u
      <3>1. task'[u] = task[u] /\ \A k \in ks : pending[k] # u
        BY <2>3, <1>14, <1>15
      <3>2. task[u].key \in Asks
        BY <2>3, <3>1 DEF Shapes, TaskStates, Answered, Dropped, DemandKeys
      <3> QED
        BY <2>3, <3>1, <3>2, <1>14 DEF Waiters
    <2> QED
      BY <1>5, <2>1, <2>2, <2>3 DEF Waiters
  <1> QED
    BY <1>9, <1>11, <1>13, <1>17

\* Streams that start and end, and the control plane: the client's account of
\* resources and waiting tasks is not touched.
LEMMA StreamStep ==
    ASSUME XdsInv,
           \/ Connect \/ ConnectFails \/ Break \/ ServerReads \/ UNCHANGED vars
           \/ \E k \in Keys, v \in Values \union {Bad, Absent} : Change(k, v)
           \/ \E t \in Types : ServerSends(t)
    PROVE  XdsInv'
  <1> USE DEF XdsInv
  <1>1. UNCHANGED <<store, known, pending, subscriptions, expect, demand, task>>
    BY DEF Connect, ConnectFails, Break, ServerReads, Change, ServerSends, clientVars, vars
  <1>2. ready' \in BOOLEAN
    BY DEF Connect, ConnectFails, Break, ServerReads, Change, ServerSends, clientVars, vars, TypeOK
  <1>3. backoff' \in 0..MaxBackoff
    <2>1. MaxBackoff \in Nat /\ backoff \in 0..MaxBackoff
      BY XdsAssumption DEF TypeOK
    <2>2. Longer \in 0..MaxBackoff /\ 0 \in 0..MaxBackoff
      BY <2>1 DEF Longer
    <2>3. backoff' \in {backoff, Longer, 0}
      BY DEF Connect, ConnectFails, Break, ServerReads, Change, ServerSends, clientVars, vars,
         NextBackoff
    <2> QED
      BY <2>1, <2>2, <2>3
  <1>4. world' \in [Keys -> Values \union {Bad, Absent}]
    BY DEF Connect, ConnectFails, Break, ServerReads, Change, ServerSends, vars, Shapes
  <1>5. response' # NoResponse =>
          /\ response'.rem \subseteq Asks /\ DOMAIN response'.upd \subseteq Keys
          /\ response'.rem \intersect DOMAIN response'.upd = {}
          /\ \A k \in DOMAIN response'.upd : response'.upd[k] \in Values \union {Bad}
    <2>1. CASE Connect \/ ConnectFails \/ ServerReads \/ UNCHANGED vars
               \/ \E k \in Keys, v \in Values \union {Bad, Absent} : Change(k, v)
      BY <2>1 DEF Connect, ConnectFails, ServerReads, Change, vars, Shapes
    <2>2. CASE Break
      BY <2>2 DEF Break
    <2>3. ASSUME NEW t \in Types, ServerSends(t)
          PROVE  /\ response'.rem \subseteq Asks /\ DOMAIN response'.upd \subseteq Keys
                 /\ response'.rem \intersect DOMAIN response'.upd = {}
                 /\ \A k \in DOMAIN response'.upd : response'.upd[k] \in Values \union {Bad}
      <3>1. Difference(t) \subseteq Keys
        BY DEF Difference, Of, Keys
      <3>2. /\ response'.rem = Removed(t)
            /\ response'.upd = [k \in {j \in Difference(t) : world[j] # Absent} |-> world[k]]
        BY <2>3 DEF ServerSends
      <3>3. /\ DOMAIN response'.upd = {j \in Difference(t) : world[j] # Absent}
            /\ \A k \in DOMAIN response'.upd : response'.upd[k] = world[k] /\ k \in Keys
        BY <3>1, <3>2
      <3>4. Removed(t) \subseteq Asks
        BY <3>1, OwnNames DEF Removed
      <3>5. \A k \in Keys : k \in Removed(t) => world[k] = Absent
        BY OwnResource DEF Removed
      <3> QED
        BY <3>1, <3>2, <3>3, <3>4, <3>5 DEF Shapes
    <2> QED
      BY <2>1, <2>2, <2>3
  <1>6. TypeOK' /\ KnownHeld'
    BY <1>1, <1>2, <1>3 DEF TypeOK, KnownHeld
  <1>7. Shapes'
    BY <1>1, <1>4, <1>5 DEF Shapes
  <1>8. Waiters'
    BY <1>1 DEF Waiters
  <1> QED
    BY <1>6, <1>7, <1>8

\* The invariant holds for ever: a client that was never connected has it, and
\* every step of the client, its tasks and the control plane keeps it.
THEOREM XdsInvariant == Spec => []XdsInv
  <1>1. Init => XdsInv
    <2> SUFFICES ASSUME Init PROVE XdsInv
      OBVIOUS
    <2>1. TypeOK /\ KnownHeld
      <3>1. 0 \in 0..MaxBackoff
        BY XdsAssumption
      <3> QED
        BY <3>1 DEF Init, TypeOK, KnownHeld
    <2>2. Shapes
      BY DEF Init, Shapes, TaskStates
    <2>3. Waiters
      BY DEF Init, Waiters, Answered
    <2> QED
      BY <2>1, <2>2, <2>3 DEF XdsInv
  <1>2. XdsInv /\ [Next]_vars => XdsInv'
    BY FetchStep, DemandStep, HandleDemandStep, HandleResponseStep, StreamStep DEF Next
  <1> QED
    BY <1>1, <1>2, PTL DEF Spec

\* The client keeps its types: subscriptions are for types on demand only, the
\* wait for first resources only shrinks and the backoff stays in its range.
THEOREM TypeCorrect == Spec => []TypeOK
  BY XdsInvariant, PTL DEF XdsInv

\* Through every loss of the stream, whatever the proxy state holds is claimed on
\* the next stream, and whoever waits for a demand is filed under a name the next
\* stream subscribes to, or still in the demand channel.
THEOREM AlwaysRemembered == Spec => []Remembered
  <1>1. XdsInv => Remembered
    BY DEF XdsInv, Waiters, KnownHeld, Remembered
  <1> QED
    BY <1>1, XdsInvariant, PTL
=============================================================================
