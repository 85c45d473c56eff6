--------------------------- MODULE HbonePoolProofs ---------------------------
(***************************************************************************)
(* TLAPS proofs about HbonePool, for any tasks, keys and hash function:    *)
(* tunnels are never shared across keys, the mutex of a hash serializes    *)
(* the making of tunnels, and the stream counters are exact.               *)
(***************************************************************************)
EXTENDS HbonePool, FiniteSetTheorems, SequenceTheorems, TLAPS

\* A mutex is queued for by tasks of its hash that lock, or hold it while they
\* dial, and by each of them once.
QueueSound ==
    \A h \in Hashes :
        /\ \A i \in DOMAIN lockq[h] : Hash(lockq[h][i]) = h /\ at[lockq[h][i]] \in {"lock", "dial", "tls"}
        /\ \A i, j \in DOMAIN lockq[h] : lockq[h][i] = lockq[h][j] => i = j

\* What TunnelsSound needs to be inductive.
PoolInv == PoolTypeOK /\ QueueSound /\ TunnelsSound

-----------------------------------------------------------------------------
\* Taking a task out of a queue it is in at most once keeps the others in
\* their order: the holder, if it is another one, still holds the mutex.
LEMMA WithoutProperties ==
    ASSUME NEW q \in Seq(Tasks), NEW t,
           \A i, j \in DOMAIN q : q[i] = q[j] => i = j
    PROVE  /\ Without(q, t) \in Seq(Tasks)
           /\ \A i \in DOMAIN Without(q, t) :
                 Without(q, t)[i] # t /\ \E j \in DOMAIN q : q[j] = Without(q, t)[i]
           /\ \A i, j \in DOMAIN Without(q, t) : Without(q, t)[i] = Without(q, t)[j] => i = j
           /\ q # <<>> /\ Head(q) # t => Without(q, t) # <<>> /\ Head(Without(q, t)) = Head(q)
  <1> DEFINE r == Without(q, t)
  <1>1. Len(q) \in Nat /\ DOMAIN q = 1..Len(q) /\ \A i \in 1..Len(q) : q[i] \in Tasks
    BY LenProperties, ElementOfSeq
  <1>2. CASE \A n \in DOMAIN q : q[n] # t
    BY <1>2 DEF Without
  <1>3. CASE \E n \in DOMAIN q : q[n] = t
    <2> DEFINE k == CHOOSE n \in DOMAIN q : q[n] = t
    <2>1. k \in 1..Len(q) /\ q[k] = t
      BY <1>1, <1>3
    <2>2. r = [n \in 1..(Len(q) - 1) |-> IF n < k THEN q[n] ELSE q[n + 1]]
      BY <1>3 DEF Without
    <2> HIDE DEF r, k
    <2>3. Len(q) - 1 \in Nat
      BY <1>1, <2>1
    <2>4. r \in [1..(Len(q) - 1) -> Tasks]
      BY <1>1, <2>1, <2>2
    <2>5. r \in Seq(Tasks) /\ DOMAIN r = 1..(Len(q) - 1) /\ Len(r) = Len(q) - 1
      <3>1. r \in Seq(Tasks)
        BY <2>3, <2>4, SeqDef
      <3> QED
        BY <3>1, <2>3, <2>4, LenProperties
    <2>6. \A i \in DOMAIN r : r[i] = q[IF i < k THEN i ELSE i + 1]
      BY <2>2, <2>5
    <2>7. \A i \in DOMAIN r : (IF i < k THEN i ELSE i + 1) \in DOMAIN q \ {k}
      BY <1>1, <2>1, <2>5
    <2>8. \A i \in DOMAIN r : r[i] # t /\ \E j \in DOMAIN q : q[j] = r[i]
      BY <2>1, <2>6, <2>7, <1>1
    <2>9. \A i, j \in DOMAIN r : r[i] = r[j] => i = j
      <3> SUFFICES ASSUME NEW i \in DOMAIN r, NEW j \in DOMAIN r, r[i] = r[j]
                   PROVE  i = j
        OBVIOUS
      <3>1. (IF i < k THEN i ELSE i + 1) = (IF j < k THEN j ELSE j + 1)
        BY <2>6, <2>7
      <3> QED
        BY <3>1, <2>1, <2>5, <1>1
    <2>10. q # <<>> /\ Head(q) # t => r # <<>> /\ Head(r) = Head(q)
      <3> SUFFICES ASSUME q # <<>>, Head(q) # t
                   PROVE  r # <<>> /\ Head(r) = Head(q)
        OBVIOUS
      <3>1. Head(q) = q[1] /\ k # 1
        BY <2>1
      <3>2. Len(r) > 0 /\ r[1] = q[1]
        BY <3>1, <2>1, <2>5, <2>6, <1>1
      <3> QED
        BY <3>1, <3>2, <2>5
    <2> QED
      BY <2>5, <2>8, <2>9, <2>10 DEF r
  <1> QED
    BY <1>2, <1>3

-----------------------------------------------------------------------------
\* A task that queues for the mutex of its hash leaves whoever holds a mutex in
\* possession, and holds it itself when nobody else does.
LEMMA EnqueueKeeps ==
    ASSUME PoolTypeOK, QueueSound, NEW t \in Tasks, NEW l \in {"lock", "dial"},
           at[t] \notin {"lock", "dial", "tls"},
           Goto(t, l), JoinQueue(t), key' = key
    PROVE  /\ lockq' \in [Hashes -> Seq(Tasks)]
           /\ QueueSound'
           /\ \A u \in Tasks : HoldsLock(u) => HoldsLock(u)'
           /\ lockq[Hash(t)] = <<>> => HoldsLock(t)'
  <1>1. PICK h \in Hashes : h = HashOf[key[t]]
    BY PoolAssumption DEF PoolTypeOK
  <1>2. PICK q \in Seq(Tasks) : q = lockq[h]
    BY <1>1 DEF PoolTypeOK
  <1>3. PICK r \in Seq(Tasks) : r = Append(q, t)
    <2>1. Append(q, t) \in Seq(Tasks)
      BY <1>2, AppendProperties
    <2> QED
      BY <2>1
  <1>4. /\ lockq' \in [Hashes -> Seq(Tasks)]
        /\ \A g \in Hashes : lockq'[g] = IF g = h THEN r ELSE lockq[g]
    BY <1>1, <1>2, <1>3 DEF PoolTypeOK, JoinQueue, Hash
  <1>5. /\ Len(q) \in Nat /\ DOMAIN q = 1..Len(q) /\ DOMAIN r = 1..(Len(q) + 1)
        /\ r[Len(q) + 1] = t
        /\ \A i \in DOMAIN q : r[i] = q[i]
    BY <1>2, <1>3
  <1>6. \A i \in DOMAIN q : q[i] # t /\ q[i] \in Tasks
    BY <1>1, <1>2, <1>5, ElementOfSeq DEF QueueSound
  <1>7. \A u \in Tasks \ {t} : at'[u] = at[u]
    BY DEF Goto, PoolTypeOK
  <1>8. QueueSound'
    <2> SUFFICES ASSUME NEW g \in Hashes
                 PROVE  /\ \A i \in DOMAIN lockq'[g] : HashOf[key[lockq'[g][i]]] = g /\ at'[lockq'[g][i]] \in {"lock", "dial", "tls"}
                        /\ \A i, j \in DOMAIN lockq'[g] : lockq'[g][i] = lockq'[g][j] => i = j
      BY DEF QueueSound, Hash
    <2>1. CASE g # h
      <3>1. lockq'[g] = lockq[g]
        BY <1>4, <2>1
      <3>2. \A i \in DOMAIN lockq[g] : lockq[g][i] \in Tasks \ {t}
        BY <1>1, <2>1, ElementOfSeq, LenProperties DEF QueueSound, Hash, PoolTypeOK
      <3> QED
        BY <3>1, <3>2, <1>7 DEF QueueSound, Hash
    <2>2. CASE g = h
      <3>1. lockq'[g] = r
        BY <1>4, <2>2
      <3>2. \A i \in DOMAIN q : HashOf[key[q[i]]] = h /\ at'[q[i]] \in {"lock", "dial", "tls"}
        BY <1>2, <1>6, <1>7 DEF QueueSound, Hash
      <3>3. HashOf[key[t]] = h /\ at'[t] \in {"lock", "dial", "tls"}
        BY <1>1 DEF Goto, PoolTypeOK
      <3>4. \A i, j \in DOMAIN q : q[i] = q[j] => i = j
        BY <1>2 DEF QueueSound
      <3>5. \A i, j \in DOMAIN r : r[i] = r[j] => i = j
        BY <1>5, <1>6, <3>4
      <3>6. \A i \in DOMAIN r : HashOf[key[r[i]]] = h /\ at'[r[i]] \in {"lock", "dial", "tls"}
        BY <1>5, <3>2, <3>3
      <3> QED
        BY <3>1, <3>5, <3>6, <2>2
    <2> QED
      BY <2>1, <2>2
  <1>9. \A u \in Tasks : HoldsLock(u) => HoldsLock(u)'
    <2> SUFFICES ASSUME NEW u \in Tasks, NEW g \in Hashes, g = HashOf[key[u]],
                        lockq[g] # <<>>, Head(lockq[g]) = u
                 PROVE  lockq'[g] # <<>> /\ Head(lockq'[g]) = u
      BY PoolAssumption DEF HoldsLock, Hash, PoolTypeOK
    <2>1. CASE g = h
      <3>1. 1 \in DOMAIN q /\ 1 \in DOMAIN r
        BY <2>1, <1>2, <1>5
      <3>2. Head(q) = q[1] /\ Head(r) = r[1] /\ r # <<>>
        BY <3>1, <1>2, <1>3
      <3> QED
        BY <2>1, <3>1, <3>2, <1>2, <1>4, <1>5
    <2>2. CASE g # h
      BY <1>4, <2>2
    <2> QED
      BY <2>1, <2>2
  <1>10. ASSUME lockq[Hash(t)] = <<>> PROVE HoldsLock(t)'
    <2>1. q = <<>>
      BY <1>10, <1>1, <1>2 DEF Hash
    <2>2. r # <<>> /\ Head(r) = t
      BY <2>1, <1>3
    <2> QED
      BY <2>2, <1>1, <1>4 DEF HoldsLock, Hash
  <1> QED
    BY <1>4, <1>8, <1>9, <1>10

\* A task that leaves the queue, as its holder or not, takes nobody else's place.
LEMMA LeaveKeeps ==
    ASSUME PoolTypeOK, QueueSound, NEW t \in Tasks, NEW l \in PCs,
           Goto(t, l), Leave(t), key' = key
    PROVE  /\ lockq' \in [Hashes -> Seq(Tasks)]
           /\ QueueSound'
           /\ \A u \in Tasks \ {t} : HoldsLock(u) => HoldsLock(u)'
  <1>1. PICK h \in Hashes : h = HashOf[key[t]]
    BY PoolAssumption DEF PoolTypeOK
  <1>2. PICK q \in Seq(Tasks) : q = lockq[h]
    BY <1>1 DEF PoolTypeOK
  <1>3. \A i, j \in DOMAIN q : q[i] = q[j] => i = j
    BY <1>2 DEF QueueSound
  <1>4. PICK r \in Seq(Tasks) :
        /\ r = Without(q, t)
        /\ \A i \in DOMAIN r : r[i] # t /\ \E j \in DOMAIN q : q[j] = r[i]
        /\ \A i, j \in DOMAIN r : r[i] = r[j] => i = j
        /\ q # <<>> /\ Head(q) # t => r # <<>> /\ Head(r) = Head(q)
    BY <1>2, <1>3, WithoutProperties
  <1>5. /\ lockq' \in [Hashes -> Seq(Tasks)]
        /\ \A g \in Hashes : lockq'[g] = IF g = h THEN r ELSE lockq[g]
    BY <1>1, <1>2, <1>4 DEF PoolTypeOK, Leave, Hash
  <1>6. \A i \in DOMAIN q : q[i] \in Tasks
    BY <1>2, LenProperties, ElementOfSeq
  <1>7. \A u \in Tasks \ {t} : at'[u] = at[u]
    BY DEF Goto, PoolTypeOK
  <1>8. QueueSound'
    <2> SUFFICES ASSUME NEW g \in Hashes
                 PROVE  /\ \A i \in DOMAIN lockq'[g] : HashOf[key[lockq'[g][i]]] = g /\ at'[lockq'[g][i]] \in {"lock", "dial", "tls"}
                        /\ \A i, j \in DOMAIN lockq'[g] : lockq'[g][i] = lockq'[g][j] => i = j
      BY DEF QueueSound, Hash
    <2>1. CASE g # h
      <3>1. lockq'[g] = lockq[g]
        BY <1>5, <2>1
      <3>2. \A i \in DOMAIN lockq[g] : lockq[g][i] \in Tasks \ {t}
        BY <1>1, <2>1, ElementOfSeq, LenProperties DEF QueueSound, Hash, PoolTypeOK
      <3> QED
        BY <3>1, <3>2, <1>7 DEF QueueSound, Hash
    <2>2. CASE g = h
      <3>1. lockq'[g] = r
        BY <1>5, <2>2
      <3>2. \A i \in DOMAIN q : q[i] # t => HashOf[key[q[i]]] = h /\ at'[q[i]] \in {"lock", "dial", "tls"}
        BY <1>2, <1>6, <1>7 DEF QueueSound, Hash
      <3> QED
        BY <3>1, <3>2, <1>4, <2>2
    <2> QED
      BY <2>1, <2>2
  <1>9. \A u \in Tasks \ {t} : HoldsLock(u) => HoldsLock(u)'
    <2> SUFFICES ASSUME NEW u \in Tasks \ {t}, NEW g \in Hashes, g = HashOf[key[u]],
                        lockq[g] # <<>>, Head(lockq[g]) = u
                 PROVE  lockq'[g] # <<>> /\ Head(lockq'[g]) = u
      BY PoolAssumption DEF HoldsLock, Hash, PoolTypeOK
    <2> QED
      BY <1>2, <1>4, <1>5
  <1> QED
    BY <1>5, <1>8, <1>9

\* A task that goes on without touching a mutex: it does not leave the states in
\* which it may be queued.
LEMMA StayKeeps ==
    ASSUME PoolTypeOK, QueueSound, NEW t \in Tasks, NEW l \in PCs,
           at[t] \in {"lock", "dial", "tls"} => l \in {"lock", "dial", "tls"},
           Goto(t, l), lockq' = lockq, key' = key
    PROVE  /\ lockq' \in [Hashes -> Seq(Tasks)]
           /\ QueueSound'
           /\ \A u \in Tasks : HoldsLock(u) => HoldsLock(u)'
  <1>1. \A u \in Tasks : at'[u] = IF u = t THEN l ELSE at[u]
    BY DEF Goto, PoolTypeOK
  <1>2. \A g \in Hashes : \A i \in DOMAIN lockq[g] : lockq[g][i] \in Tasks
    BY ElementOfSeq, LenProperties DEF PoolTypeOK
  <1>3. QueueSound'
    BY <1>1, <1>2 DEF QueueSound, Hash
  <1> QED
    BY <1>3 DEF HoldsLock, Hash, PoolTypeOK

\* The types a step of one task leaves behind, given those of the queues.
LEMMA GotoType ==
    ASSUME PoolTypeOK, NEW t \in Tasks, NEW l \in PCs, Goto(t, l)
    PROVE  at' \in [Tasks -> PCs] /\ \A u \in Tasks : at'[u] = IF u = t THEN l ELSE at[u]
  BY DEF Goto, PoolTypeOK

\* Steps before the mutex is asked for, and the dialling itself.
LEMMA ApproachStep ==
    ASSUME PoolInv, NEW t \in Tasks,
           Connect(t) \/ Lookup(t) \/ InsertLock(t) \/ TryLock(t) \/ Woken(t) \/ DialOk(t)
    PROVE  PoolInv'
  <1> USE DEF PoolInv
  <1>1. PICK l \in {"lookup", "insert", "trylock", "lock", "watch", "dial", "tls"} :
           /\ Goto(t, l)
           /\ \/ /\ l \in {"lock", "dial"} /\ at[t] \notin {"lock", "dial", "tls"} /\ JoinQueue(t)
                 /\ l = "dial" => lockq[Hash(t)] = <<>> /\ won'[t]
              \/ /\ l # "dial" /\ (l = "tls" <=> at[t] = "dial") /\ at[t] \notin {"lock", "tls"}
                 /\ lockq' = lockq /\ won' = won
           /\ at[t] \notin HasStream \cup {"got", "half"}
    BY DEF Connect, Lookup, InsertLock, TryLock, Woken, DialOk, PoolTypeOK, HasStream
  <1>2. UNCHANGED <<key, held, pool, conn, count>> /\ won' \in [Tasks -> BOOLEAN]
    BY DEF Connect, Lookup, InsertLock, TryLock, Woken, DialOk, PoolTypeOK
  <1>3. \A u \in Tasks : u # t => won'[u] = won[u]
    BY DEF Connect, Lookup, InsertLock, TryLock, Woken, DialOk, PoolTypeOK
  <1>4. /\ lockq' \in [Hashes -> Seq(Tasks)]
        /\ QueueSound'
        /\ \A u \in Tasks : HoldsLock(u) => HoldsLock(u)'
        /\ l = "dial" => HoldsLock(t)'
    BY <1>1, <1>2, EnqueueKeeps, StayKeeps DEF PCs, Waiting
  <1>5. at' \in [Tasks -> PCs] /\ \A u \in Tasks : at'[u] = IF u = t THEN l ELSE at[u]
    BY <1>1, GotoType DEF PCs, Waiting
  <1>6. lockmap' \subseteq Hashes /\ {notified', owner', drained'} \subseteq BOOLEAN
    BY PoolAssumption DEF Connect, Lookup, InsertLock, TryLock, Woken, DialOk, PoolTypeOK, Hash
  <1>7. PoolTypeOK'
    BY <1>1, <1>2, <1>4, <1>5, <1>6 DEF PoolTypeOK, HasStream
  <1>8. KeyIsolation'
    BY <1>2 DEF TunnelsSound, KeyIsolation
  <1>9. OneDialPerHash'
    BY <1>1, <1>4, <1>5 DEF TunnelsSound, OneDialPerHash
  <1>10. PoolEmptyWhileDialling'
    BY <1>1, <1>2, <1>3, <1>5 DEF TunnelsSound, PoolEmptyWhileDialling, Hash
  <1> QED
    BY <1>4, <1>7, <1>8, <1>9, <1>10 DEF TunnelsSound

\* The end of connect(), with a tunnel or an error: the guard is dropped, and
\* only the holder of the mutex may have put a tunnel into the pool.
LEMMA LeavingStep ==
    ASSUME PoolInv, NEW t \in Tasks, NEW c \in Tasks, NEW l \in {"failed", "got"},
           at[t] \in {"lock", "watch", "dial", "tls"},
           Goto(t, l), Leave(t), key' = key, won' = won,
           pool' \in [Hashes -> SUBSET Tasks],
           \A g \in Hashes \ {Hash(t)} : pool'[g] = pool[g],
           HoldsLock(t) \/ pool' = pool,
           held' \in [Tasks -> Tasks \cup {NoConn}],
           \A u \in Tasks : held'[u] = IF l = "got" /\ u = t THEN c ELSE held[u],
           key[c] = key[t],
           conn' \in [Tasks -> {"none", "up", "down"}], notified' \in BOOLEAN,
           UNCHANGED <<lockmap, count, owner, drained>>
    PROVE  PoolInv'
  <1> USE DEF PoolInv
  <1>1. l \in PCs
    BY DEF PCs, Over
  <1>2. /\ lockq' \in [Hashes -> Seq(Tasks)]
        /\ QueueSound'
        /\ \A u \in Tasks \ {t} : HoldsLock(u) => HoldsLock(u)'
    BY <1>1, LeaveKeeps
  <1>3. at' \in [Tasks -> PCs] /\ \A u \in Tasks : at'[u] = IF u = t THEN l ELSE at[u]
    BY <1>1, GotoType
  <1>4. ASSUME NEW u \in Tasks
        PROVE  (held'[u] # NoConn) <=> (at'[u] \in HasStream \cup {"got", "half"})
    <2>1. (held[u] # NoConn) <=> (at[u] \in HasStream \cup {"got", "half"})
      BY DEF PoolTypeOK
    <2>2. c # NoConn
      BY PoolAssumption
    <2>3. CASE u = t
      BY <2>1, <2>2, <2>3, <1>3 DEF HasStream
    <2>4. CASE u # t
      BY <2>1, <2>4, <1>3
    <2> QED
      BY <2>3, <2>4
  <1>5. PoolTypeOK'
    BY <1>2, <1>3, <1>4 DEF PoolTypeOK
  <1>6. KeyIsolation'
    <2> SUFFICES ASSUME NEW u \in Tasks, held'[u] # NoConn
                 PROVE  key[held'[u]] = key[u]
      BY DEF KeyIsolation
    <2>1. CASE l = "got" /\ u = t
      BY <2>1
    <2>2. CASE ~(l = "got" /\ u = t)
      BY <2>2 DEF TunnelsSound, KeyIsolation
    <2> QED
      BY <2>1, <2>2
  <1>7. OneDialPerHash'
    BY <1>2, <1>3 DEF TunnelsSound, OneDialPerHash
  <1>8. PoolEmptyWhileDialling'
    <2> SUFFICES ASSUME NEW u \in Tasks, at'[u] \in {"dial", "tls"}, ~won'[u]
                 PROVE  pool'[Hash(u)] = {}
      BY DEF PoolEmptyWhileDialling, Hash
    <2>1. u # t /\ at[u] \in {"dial", "tls"} /\ pool[Hash(u)] = {} /\ HoldsLock(u)
      BY <1>3 DEF TunnelsSound, OneDialPerHash, PoolEmptyWhileDialling
    <2>2. Hash(u) \in Hashes
      BY PoolAssumption DEF PoolTypeOK, Hash
    <2>3. CASE Hash(u) = Hash(t)
      BY <2>1, <2>3 DEF HoldsLock
    <2>4. CASE Hash(u) # Hash(t)
      BY <2>1, <2>2, <2>4
    <2> QED
      BY <2>3, <2>4
  <1> QED
    BY <1>2, <1>5, <1>6, <1>7, <1>8 DEF TunnelsSound

\* What maybe_checkin may do to the pool: only the set of one hash changes.
LEMMA CheckinKeeps ==
    ASSUME PoolInv, NEW c \in Tasks, NEW h \in Hashes, NEW rest \in SUBSET Tasks,
           MaybeCheckin(c, h, rest)
    PROVE  /\ pool' \in [Hashes -> SUBSET Tasks]
           /\ \A g \in Hashes \ {h} : pool'[g] = pool[g]
           /\ notified' \in BOOLEAN
  <1>1. PICK P \in SUBSET Tasks : pool' = [pool EXCEPT ![h] = P]
    <2>1. CASE WillBeAtMax(c)
      BY <2>1 DEF MaybeCheckin
    <2>2. CASE ~WillBeAtMax(c)
      BY <2>2, rest \cup {c} \in SUBSET Tasks DEF MaybeCheckin
    <2> QED
      BY <2>1, <2>2
  <1>2. notified' \in BOOLEAN
    BY DEF MaybeCheckin, PoolInv, PoolTypeOK
  <1> QED
    BY <1>1, <1>2 DEF PoolInv, PoolTypeOK

\* Under the mutex: a pooled tunnel of the very key, an error, or the decision to
\* make a tunnel, which keeps the mutex.
LEMMA CheckoutStep ==
    ASSUME PoolInv, NEW t \in Tasks, CheckoutConn(t)
    PROVE  PoolInv'
  <1> USE DEF PoolInv
  <1>1. PICK h \in Hashes : h = Hash(t)
    BY PoolAssumption DEF PoolTypeOK, Hash
  <1>2. PICK rest \in SUBSET pool[h] :
          \/ \E c \in rest :
                /\ pool' = [pool EXCEPT ![h] = rest \ {c}]
                /\ Goto(t, "failed") /\ Leave(t) /\ UNCHANGED <<held, notified>>
          \/ \E c \in rest :
                /\ key[c] = key[t] /\ MaybeCheckin(c, h, rest \ {c})
                /\ held' = [held EXCEPT ![t] = c]
                /\ Goto(t, "got") /\ Leave(t)
          \/ /\ pool' = [pool EXCEPT ![h] = {}]
             /\ Goto(t, "dial") /\ lockq' = lockq /\ UNCHANGED <<held, notified>>
    BY <1>1 DEF CheckoutConn, KeepLock, IsForWorkload
  <1>3. /\ at[t] = "lock" /\ HoldsLock(t)
        /\ UNCHANGED <<key, won, lockmap, conn, count, owner, drained>>
    BY DEF CheckoutConn
  <1>4. /\ pool[h] \subseteq Tasks
        /\ conn' \in [Tasks -> {"none", "up", "down"}]
        /\ notified \in BOOLEAN
    BY <1>3 DEF PoolTypeOK
  <1>5. ASSUME NEW c \in rest, pool' = [pool EXCEPT ![h] = rest \ {c}],
               Goto(t, "failed"), Leave(t), UNCHANGED <<held, notified>>
        PROVE  PoolInv'
    <2>1. pool' \in [Hashes -> SUBSET Tasks] /\ \A g \in Hashes \ {h} : pool'[g] = pool[g]
      BY <1>4, <1>5 DEF PoolTypeOK
    <2>2. held' \in [Tasks -> Tasks \cup {NoConn}]
      BY <1>5 DEF PoolTypeOK
    <2> QED
      BY <1>1, <1>3, <1>4, <1>5, <2>1, <2>2, LeavingStep
  <1>6. ASSUME NEW c \in rest, key[c] = key[t], MaybeCheckin(c, h, rest \ {c}),
               held' = [held EXCEPT ![t] = c], Goto(t, "got"), Leave(t)
        PROVE  PoolInv'
    <2>1. pool' \in [Hashes -> SUBSET Tasks] /\ \A g \in Hashes \ {h} : pool'[g] = pool[g]
      BY <1>4, <1>6, CheckinKeeps
    <2>2. notified' \in BOOLEAN /\ c \in Tasks
      BY <1>4, <1>6, CheckinKeeps
    <2>3. /\ held' \in [Tasks -> Tasks \cup {NoConn}]
          /\ \A u \in Tasks : held'[u] = IF u = t THEN c ELSE held[u]
      BY <1>6, <2>2 DEF PoolTypeOK
    <2> QED
      BY <1>1, <1>3, <1>4, <1>6, <2>1, <2>2, <2>3, LeavingStep
  <1>7. ASSUME pool' = [pool EXCEPT ![h] = {}], Goto(t, "dial"), lockq' = lockq,
               UNCHANGED <<held, notified>>
        PROVE  PoolInv'
    <2>1. "dial" \in PCs
      BY DEF PCs, Waiting
    <2>2. /\ lockq' \in [Hashes -> Seq(Tasks)]
          /\ QueueSound'
          /\ \A u \in Tasks : HoldsLock(u) => HoldsLock(u)'
      BY <1>3, <1>7, <2>1, StayKeeps
    <2>3. at' \in [Tasks -> PCs] /\ \A u \in Tasks : at'[u] = IF u = t THEN "dial" ELSE at[u]
      BY <1>7, <2>1, GotoType
    <2>4. pool' \in [Hashes -> SUBSET Tasks] /\ \A g \in Hashes : pool'[g] = IF g = h THEN {} ELSE pool[g]
      BY <1>7 DEF PoolTypeOK
    <2>5. PoolTypeOK'
      BY <1>3, <1>7, <2>2, <2>3, <2>4 DEF PoolTypeOK, HasStream
    <2>6. KeyIsolation' /\ OneDialPerHash'
      BY <1>3, <1>7, <2>2, <2>3 DEF TunnelsSound, KeyIsolation, OneDialPerHash
    <2>7. PoolEmptyWhileDialling'
      <3>1. \A u \in Tasks : Hash(u) \in Hashes /\ Hash(u)' = Hash(u)
        BY <1>3, PoolAssumption DEF PoolTypeOK, Hash
      <3> QED
        BY <1>1, <1>3, <2>3, <2>4, <3>1 DEF TunnelsSound, PoolEmptyWhileDialling
    <2> QED
      BY <2>2, <2>5, <2>6, <2>7 DEF TunnelsSound
  <1> QED
    BY <1>2, <1>5, <1>6, <1>7

\* A tunnel is made, or not: its maker still holds the mutex of its hash.
LEMMA MakingStep ==
    ASSUME PoolInv, NEW t \in Tasks,
           \/ DialFail(t) \/ HandshakeOk(t) \/ HandshakeFail(t)
           \/ at[t] \in {"lock", "watch", "dial", "tls"} /\ SpawnFails(t)
    PROVE  PoolInv'
  <1> USE DEF PoolInv
  <1>1. CASE at[t] \in {"lock", "watch", "dial", "tls"} /\ SpawnFails(t)
    BY <1>1, LeavingStep DEF SpawnFails, PoolTypeOK
  <1>2. CASE HandshakeOk(t)
    <2>1. PICK h \in Hashes : h = Hash(t)
      BY PoolAssumption DEF PoolTypeOK, Hash
    <2>2. /\ pool' \in [Hashes -> SUBSET Tasks] /\ \A g \in Hashes \ {h} : pool'[g] = pool[g]
          /\ notified' \in BOOLEAN /\ conn' \in [Tasks -> {"none", "up", "down"}]
      <3>1. MaybeCheckin(t, h, pool[h]) /\ pool[h] \in SUBSET Tasks
        BY <1>2, <2>1 DEF HandshakeOk, PoolTypeOK
      <3>2. conn' \in [Tasks -> {"none", "up", "down"}]
        BY <1>2 DEF HandshakeOk, PoolTypeOK
      <3> QED
        BY <3>1, <3>2, CheckinKeeps
    <2>3. HoldsLock(t)
      BY <1>2 DEF HandshakeOk, TunnelsSound, OneDialPerHash
    <2>4. /\ held' \in [Tasks -> Tasks \cup {NoConn}]
          /\ \A u \in Tasks : held'[u] = IF u = t THEN t ELSE held[u]
      BY <1>2 DEF HandshakeOk, PoolTypeOK
    <2> QED
      BY <1>2, <2>1, <2>2, <2>3, <2>4, LeavingStep DEF HandshakeOk
  <1> QED
    BY <1>1, <1>2 DEF DialFail, HandshakeFail

\* Steps of a task that has a tunnel, and of the tunnels and the pool themselves.
LEMMA StreamStep ==
    ASSUME PoolInv, NEW t \in Tasks,
           \/ SendRequest(t) \/ Established(t) \/ SendFail(t)
           \/ DropFirstHalf(t) \/ DropSecondHalf(t)
    PROVE  PoolInv'
  <1> USE DEF PoolInv
  <1>1. PICK l \in {"sending", "stream", "failed", "half", "done"} : Goto(t, l)
    BY DEF SendRequest, Established, SendFail, DropFirstHalf, DropSecondHalf
  <1>2. /\ at[t] \in {"got", "sending", "stream", "half"} /\ held[t] \in Tasks
        /\ l \in PCs
    BY <1>1 DEF SendRequest, Established, SendFail, DropFirstHalf, DropSecondHalf, PoolTypeOK,
       HasStream, PCs, Over
  <1>3. UNCHANGED <<key, won, lockmap, lockq, pool, notified, conn, owner, drained>>
    BY DEF SendRequest, Established, SendFail, DropFirstHalf, DropSecondHalf
  <1>4. at' \in [Tasks -> PCs] /\ \A u \in Tasks : at'[u] = IF u = t THEN l ELSE at[u]
    BY <1>1, <1>2, GotoType
  <1>5. QueueSound' /\ \A u \in Tasks : HoldsLock(u) => HoldsLock(u)'
    BY <1>1, <1>2, <1>3, StayKeeps
  <1>6. /\ held' \in [Tasks -> Tasks \cup {NoConn}]
        /\ \A u \in Tasks : held'[u] = IF l \in Over /\ u = t THEN NoConn ELSE held[u]
    BY <1>1, <1>4 DEF SendRequest, Established, SendFail, DropFirstHalf, DropSecondHalf, PoolTypeOK,
       Over, Goto
  <1>7. \A n \in U16 : (n + 1) % 65536 \in U16 /\ (n + 65535) % 65536 \in U16
    BY DEF U16
  <1>8. count' \in [Tasks -> U16]
    <2>1. CASE SendRequest(t)
      BY <2>1, <1>2, <1>7 DEF SendRequest, PoolTypeOK
    <2>2. CASE SendFail(t) \/ DropFirstHalf(t)
      BY <2>2, <1>2, <1>7 DEF SendFail, DropFirstHalf, ReleaseStream, PoolTypeOK
    <2>3. CASE Established(t) \/ DropSecondHalf(t)
      BY <2>3 DEF Established, DropSecondHalf, PoolTypeOK
    <2> QED
      BY <2>1, <2>2, <2>3
  <1>9. PoolTypeOK'
    BY <1>2, <1>3, <1>4, <1>6, <1>8 DEF PoolTypeOK, HasStream, Over
  <1>10. TunnelsSound'
    BY <1>3, <1>4, <1>5, <1>6 DEF TunnelsSound, KeyIsolation, PoolEmptyWhileDialling,
       OneDialPerHash, Hash
  <1> QED
    BY <1>5, <1>9, <1>10

\* The pool lets go of tunnels, drivers end and the owner drains: no task moves.
LEMMA PoolStep ==
    ASSUME PoolInv,
           \/ \E h \in Hashes, c \in Tasks : IdleExpires(h, c)
           \/ \E c \in Tasks : DriverEnds(c)
           \/ OwnerDrops \/ PoolDrops \/ UNCHANGED poolVars
    PROVE  PoolInv'
  <1> USE DEF PoolInv
  <1>1. UNCHANGED <<at, key, won, held, lockmap, lockq, count>>
    BY DEF IdleExpires, DriverEnds, OwnerDrops, PoolDrops, poolVars
  <1>2. pool' \in [Hashes -> SUBSET Tasks] /\ \A h \in Hashes : pool'[h] \subseteq pool[h]
    <2>0. pool \in [Hashes -> SUBSET Tasks]
      BY DEF PoolTypeOK
    <2>1. ASSUME NEW h \in Hashes, NEW c \in Tasks, IdleExpires(h, c)
          PROVE  pool' \in [Hashes -> SUBSET Tasks] /\ \A g \in Hashes : pool'[g] \subseteq pool[g]
      <3>1. pool' = [pool EXCEPT ![h] = pool[h] \ {c}]
        BY <2>1 DEF IdleExpires
      <3>. QED
        BY ONLY <2>0, <3>1
    <2>2. CASE PoolDrops
      <3>1. pool' = [g \in Hashes |-> {}]
        BY <2>2 DEF PoolDrops
      <3>. QED
        BY ONLY <2>0, <3>1
    <2>3. CASE (\E c \in Tasks : DriverEnds(c)) \/ OwnerDrops \/ UNCHANGED poolVars
      <3>1. pool' = pool
        BY <2>3 DEF DriverEnds, OwnerDrops, poolVars
      <3>. QED
        BY ONLY <2>0, <3>1
    <2>. QED
      BY <2>1, <2>2, <2>3
  <1>3. /\ conn' \in [Tasks -> {"none", "up", "down"}]
        /\ notified' \in BOOLEAN /\ owner' \in BOOLEAN /\ drained' \in BOOLEAN
    BY DEF IdleExpires, DriverEnds, OwnerDrops, PoolDrops, poolVars, PoolTypeOK
  <1>4. PoolTypeOK'
    BY <1>1, <1>2, <1>3 DEF PoolTypeOK
  <1>5. QueueSound'
    BY <1>1 DEF QueueSound, Hash
  <1>6. KeyIsolation' /\ OneDialPerHash'
    BY <1>1 DEF TunnelsSound, KeyIsolation, OneDialPerHash, HoldsLock, Hash
  <1>7. PoolEmptyWhileDialling'
    <2>1. \A u \in Tasks : Hash(u) \in Hashes /\ Hash(u)' = Hash(u)
      BY <1>1, PoolAssumption DEF PoolTypeOK, Hash
    <2> QED
      BY <1>1, <1>2, <2>1 DEF TunnelsSound, PoolEmptyWhileDialling
  <1> QED
    BY <1>4, <1>5, <1>6, <1>7 DEF TunnelsSound

\* The invariant holds for ever: a fresh pool has it and every step keeps it.
THEOREM PoolInvariant == PoolSpec => []PoolInv
  <1>1. PoolInit => PoolInv
    <2> SUFFICES ASSUME PoolInit PROVE PoolInv
      OBVIOUS
    <2>1. PoolTypeOK
      <3>1. 0 \in U16 /\ <<>> \in Seq(Tasks)
        BY DEF U16
      <3> QED
        BY <3>1 DEF PoolInit, PoolTypeOK, PCs, HasStream
    <2>2. QueueSound /\ TunnelsSound
      BY DEF PoolInit, QueueSound, TunnelsSound, KeyIsolation, PoolEmptyWhileDialling, OneDialPerHash
    <2> QED
      BY <2>1, <2>2 DEF PoolInv
  <1>2. PoolInv /\ [PoolNext]_poolVars => PoolInv'
    <2> SUFFICES ASSUME PoolInv, [PoolNext]_poolVars PROVE PoolInv'
      OBVIOUS
    <2>1. ASSUME NEW t \in Tasks,
                 \/ Connect(t) \/ Step(t) \/ Dial(t) \/ Peer(t) \/ Reply(t)
                 \/ DropFirstHalf(t) \/ CancelConnect(t)
          PROVE  PoolInv'
      BY <2>1, ApproachStep, CheckoutStep, MakingStep, StreamStep
         DEF Step, Dial, Peer, Reply, CancelConnect
    <2> QED
      BY <2>1, PoolStep DEF PoolNext, DriverDrained
  <1> QED
    BY <1>1, <1>2, PTL DEF PoolSpec

-----------------------------------------------------------------------------
(* Counting streams                                                          *)

\* One stream more or less on a tunnel: how the number of a set of tasks changes.
LEMMA OneMoreOrLess ==
    ASSUME NEW S, NEW T, IsFiniteSet(S), NEW t
    PROVE  /\ Cardinality(S) \in Nat
           /\ t \notin S /\ T = S \cup {t} => IsFiniteSet(T) /\ Cardinality(T) = Cardinality(S) + 1
           /\ t \in S /\ T = S \ {t} => IsFiniteSet(T) /\ Cardinality(T) = Cardinality(S) - 1
  BY FS_CardinalityType, FS_AddElement, FS_RemoveElement

\* The streams of a tunnel are tasks, so their number fits stream_count.
LEMMA StreamsFit ==
    ASSUME NEW S \in SUBSET Tasks
    PROVE  IsFiniteSet(S) /\ Cardinality(S) \in Nat /\ Cardinality(S) < 65536
  BY TasksAssumption, FS_Subset, FS_CardinalityType DEF U16

\* A request sent, and a stream that ends: the counter of its tunnel follows.
LEMMA CountStep ==
    ASSUME PoolInv, CountExact, [PoolNext]_poolVars
    PROVE  CountExact'
  <1> USE DEF PoolInv
  <1>1. ASSUME NEW t \in Tasks, SendRequest(t) PROVE CountExact'
    <2>1. /\ held[t] \in Tasks /\ at[t] = "got" /\ held' = held
          /\ \A u \in Tasks : at'[u] = IF u = t THEN "sending" ELSE at[u]
          /\ \A d \in Tasks : count'[d] = IF d = held[t] THEN (count[d] + 1) % 65536 ELSE count[d]
      BY <1>1 DEF SendRequest, Goto, PoolTypeOK
    <2> SUFFICES ASSUME NEW d \in Tasks
                 PROVE  count'[d] = Cardinality({u \in Tasks : held'[u] = d /\ at'[u] \in HasStream})
      BY DEF CountExact, Streams
    <2>2. PICK S \in SUBSET Tasks : S = Streams(d)
      BY DEF Streams
    <2>3. PICK T \in SUBSET Tasks : T = {u \in Tasks : held'[u] = d /\ at'[u] \in HasStream}
      OBVIOUS
    <2>4. count[d] = Cardinality(S)
      BY <2>2 DEF CountExact
    <2>5. CASE d = held[t]
      <3>1. t \notin S /\ T = S \cup {t}
        BY <2>1, <2>2, <2>3, <2>5 DEF Streams, HasStream
      <3>2. Cardinality(S) \in Nat /\ Cardinality(T) = Cardinality(S) + 1 /\ Cardinality(T) < 65536
        BY <3>1, StreamsFit, OneMoreOrLess
      <3>3. (Cardinality(S) + 1) % 65536 = Cardinality(S) + 1
        BY <3>2
      <3> QED
        BY <2>1, <2>3, <2>4, <2>5, <3>2, <3>3
    <2>6. CASE d # held[t]
      <3>1. T = S
        BY <2>1, <2>2, <2>3, <2>6 DEF Streams
      <3>2. count'[d] = count[d]
        BY <2>1, <2>6
      <3> QED
        BY <2>3, <2>4, <3>1, <3>2
    <2> QED
      BY <2>5, <2>6
  <1>2. ASSUME NEW t \in Tasks, SendFail(t) \/ DropFirstHalf(t) PROVE CountExact'
    <2>1. PICK l \in {"failed", "half"} :
          /\ held[t] \in Tasks /\ at[t] \in HasStream
          /\ \A u \in Tasks \ {t} : held'[u] = held[u]
          /\ \A u \in Tasks : at'[u] = IF u = t THEN l ELSE at[u]
          /\ \A d \in Tasks : count'[d] = IF d = held[t] THEN (count[d] + 65535) % 65536 ELSE count[d]
      BY <1>2 DEF SendFail, DropFirstHalf, ReleaseStream, Goto, PoolTypeOK, HasStream
    <2> SUFFICES ASSUME NEW d \in Tasks
                 PROVE  count'[d] = Cardinality({u \in Tasks : held'[u] = d /\ at'[u] \in HasStream})
      BY DEF CountExact, Streams
    <2>2. PICK S \in SUBSET Tasks : S = Streams(d)
      BY DEF Streams
    <2>3. PICK T \in SUBSET Tasks : T = {u \in Tasks : held'[u] = d /\ at'[u] \in HasStream}
      OBVIOUS
    <2>4. count[d] = Cardinality(S)
      BY <2>2 DEF CountExact
    <2>5. CASE d = held[t]
      <3>1. t \in S /\ T = S \ {t}
        BY <2>1, <2>2, <2>3, <2>5 DEF Streams, HasStream
      <3>2. /\ Cardinality(S) \in Nat /\ Cardinality(T) \in Nat
            /\ Cardinality(T) = Cardinality(S) - 1 /\ Cardinality(S) < 65536
        BY <3>1, StreamsFit, OneMoreOrLess
      <3>3. (Cardinality(S) + 65535) % 65536 = Cardinality(S) - 1
        BY <3>2
      <3> QED
        BY <2>1, <2>3, <2>4, <2>5, <3>2, <3>3
    <2>6. CASE d # held[t]
      <3>1. T = S
        BY <2>1, <2>2, <2>3, <2>6 DEF Streams, HasStream
      <3>2. count'[d] = count[d]
        BY <2>1, <2>6
      <3> QED
        BY <2>3, <2>4, <3>1, <3>2
    <2> QED
      BY <2>5, <2>6
  <1>3. ASSUME count' = count,
               \A u \in Tasks : at'[u] \in HasStream <=> at[u] \in HasStream,
               \A u \in Tasks : at[u] \in HasStream => held'[u] = held[u]
        PROVE  CountExact'
    <2>1. \A d \in Tasks : {u \in Tasks : held'[u] = d /\ at'[u] \in HasStream} = Streams(d)
      BY <1>3 DEF Streams
    <2> QED
      BY <1>3, <2>1 DEF CountExact, Streams
  <1>4. ASSUME NEW t \in Tasks, CheckoutConn(t) PROVE CountExact'
    <2>1. count' = count /\ at[t] = "lock" /\ \A u \in Tasks \ {t} : at'[u] = at[u] /\ held'[u] = held[u]
      BY <1>4, ZenonT(60) DEF CheckoutConn, Goto, PoolTypeOK
    <2>2. at'[t] \in {"failed", "got", "dial"}
      BY <1>4 DEF CheckoutConn, Goto, PoolTypeOK
    <2> QED
      BY <1>3, <2>1, <2>2 DEF HasStream
  <1>5. ASSUME NEW t \in Tasks, HandshakeOk(t) PROVE CountExact'
    BY <1>3, <1>5 DEF HandshakeOk, Goto, PoolTypeOK, HasStream
  <1>6. ASSUME NEW t \in Tasks, Established(t) \/ DropSecondHalf(t) PROVE CountExact'
    BY <1>3, <1>6 DEF Established, DropSecondHalf, Goto, PoolTypeOK, HasStream
  <1>7. ASSUME NEW t \in Tasks,
               Connect(t) \/ Lookup(t) \/ InsertLock(t) \/ TryLock(t) \/ Woken(t) \/ DialOk(t)
        PROVE CountExact'
    BY <1>3, <1>7 DEF Connect, Lookup, InsertLock, TryLock, Woken, DialOk, Goto, PoolTypeOK, HasStream
  <1>8. ASSUME NEW t \in Tasks, at[t] \in {"lock", "watch", "dial", "tls"}, SpawnFails(t)
        PROVE CountExact'
    BY <1>3, <1>8 DEF SpawnFails, Goto, PoolTypeOK, HasStream
  <1>9. ASSUME UNCHANGED <<at, held, count>> PROVE CountExact'
    BY <1>3, <1>9
  <1>10. CASE \E t \in Tasks :
          \/ Connect(t) \/ Step(t) \/ Dial(t) \/ Peer(t) \/ Reply(t)
          \/ DropFirstHalf(t) \/ CancelConnect(t)
    BY <1>1, <1>2, <1>4, <1>5, <1>6, <1>7, <1>8, <1>10
       DEF Step, Dial, Peer, Reply, CancelConnect, DialFail, HandshakeFail
  <1> QED
    BY <1>9, <1>10 DEF PoolNext, IdleExpires, DriverEnds, DriverDrained, OwnerDrops, PoolDrops, poolVars

\* The pool keeps its types: a task refers to a tunnel exactly from the time
\* connect() returned it until its stream is gone, whatever fails in between.
THEOREM TypeCorrect == PoolSpec => []PoolTypeOK
  BY PoolInvariant, PTL DEF PoolInv

\* connect() never hands out a tunnel made for another workload key, however keys
\* collide in the hash; a tunnel is made by the holder of the mutex only, and no
\* tunnel enters the pool between its decision and the making.
THEOREM TunnelsAreSound == PoolSpec => []TunnelsSound
  BY PoolInvariant, PTL DEF PoolInv

\* stream_count is exact through every failure and cancellation, for any number
\* of connections the u16 can count.
THEOREM StreamsAreCounted == PoolSpec => []CountExact
  <1>1. PoolInit => CountExact
    <2> SUFFICES ASSUME PoolInit, NEW c \in Tasks PROVE count[c] = Cardinality(Streams(c))
      BY DEF CountExact
    <2>1. Streams(c) = {}
      BY DEF PoolInit, Streams, HasStream
    <2> QED
      BY <2>1, FS_EmptySet DEF PoolInit
  <1> QED
    BY <1>1, PoolInvariant, CountStep, PTL DEF PoolSpec
=============================================================================
