-------------------------- MODULE OutboundUdpProofs --------------------------
(***************************************************************************)
(* Proofs about the outbound CONNECT-UDP dispatcher: the table names the   *)
(* session that listens for a flow, sessions share one bound socket, every *)
(* datagram is accounted for, and a graceful drain keeps its contract, for *)
(* any number of flows, destinations and datagrams.                        *)
(***************************************************************************)
EXTENDS OutboundUdp, FiniteSetTheorems, TLAPS

SessRec ==
    [flow : Flows \union {None}, st : States, queue : Seq(Sizes), inflight : Nat, counted : Nat]
Entry == [sock : Ids, users : Nat]
Completion == [flow : Flows, id : Ids]

TableType ==
    /\ entries \in [Flows -> Ids \union {None}] /\ nextId \in Nat
    /\ completed \in Seq(Completion)
    /\ batch \in Seq(Arrivals)
    /\ disp \in {"loop", "done"} /\ drainSeen \in BOOLEAN /\ shutdown \in {"run", "waiting", "forced"}
    /\ seen \in Nat /\ metered \in Int /\ lost \in Int

SessType ==
    /\ sess \in [Ids -> SessRec]
    /\ sockets \in [Dests -> Entry \union {None}]
    /\ lease \in [Ids -> Ids \union {None}]

\* A session is opened by a datagram that was received.
Opened == nextId + Len(batch) <= seen /\ seen <= MaxReceived

\* Sessions that were not opened yet; sessions that were have a flow.
Fresh ==
    \A i \in Ids : /\ i >= nextId => sess[i] = NoSession
                   /\ i < nextId => sess[i].flow \in Flows /\ sess[i].st # "none"

\* The table, with what the completions in the channel say of their sessions.
Table ==
    /\ \A i \in Ids : Open(i) => entries[sess[i].flow] = i
    /\ \A f \in Flows : entries[f] # None => sess[entries[f]].flow = f
    /\ \A k \in DOMAIN completed :
          sess[completed[k].id].st = "gone" /\ sess[completed[k].id].flow = completed[k].flow
    /\ disp = "loop" => \A f \in Flows : entries[f] # None /\ sess[entries[f]].st = "gone" =>
                           \E k \in DOMAIN completed : completed[k].id = entries[f]
    /\ disp = "done" => batch = <<>>

\* A socket is leased from the establishment of a session to its end.
Leased == \A i \in Ids : lease[i] # None => sess[i].st \in {"relay", "counting", "counted", "closed"}

\* Only what was in the queue is counted, once, before the queue closes.
Counted ==
    \A i \in Ids : sess[i].counted # 0 => sess[i].st = "counted" /\ sess[i].counted <= Len(sess[i].queue)

UdpInv ==
    /\ TableType /\ SessType /\ Opened /\ Fresh
    /\ Table /\ Leased /\ SharedBind /\ Counted /\ Accounting

-----------------------------------------------------------------------------
(* Counting                                                                  *)

\* The places of the datagrams that sessions hold, as in Accounting.
Owed(s) == UNION {{i} \X (1..Due(s[i])) : i \in Ids}

\* What the constants' assumptions say of identifiers.
LEMMA Constants ==
    /\ Ids \subseteq Nat /\ IsFiniteSet(Ids) /\ MaxReceived \in Nat
    /\ None \notin Ids /\ None \notin Entry /\ None \notin Flows
    /\ \A n \in Nat : n < MaxReceived => n \in Ids
<1>1. MaxReceived \in Nat /\ MaxReceived - 1 \in Int
  BY UdpAssumption
<1>2. IsFiniteSet(Ids)
  BY <1>1, FS_Interval DEF Ids
<1>3. Ids \subseteq Nat
  BY <1>1 DEF Ids
<1>4. Entry \subseteq [sock : Nat, users : Nat]
  BY <1>3 DEF Entry
<1>5. None \notin Ids /\ None \notin Entry /\ None \notin Flows
  BY <1>3, <1>4, UdpAssumption
<1>6. \A n \in Nat : n < MaxReceived => n \in Ids
  BY <1>1 DEF Ids
<1>. QED
  BY <1>1, <1>2, <1>3, <1>5, <1>6

\* The places of one session: as many as it holds datagrams.
LEMMA OneSession ==
    ASSUME NEW i, NEW n \in Nat
    PROVE  IsFiniteSet({i} \X (1..n)) /\ Cardinality({i} \X (1..n)) = n
<1>1. IsFiniteSet(1..n) /\ Cardinality(1..n) = n
  BY FS_Interval
<1>2. IsFiniteSet({i}) /\ Cardinality({i}) = 1
  BY FS_Singleton
<1>3. IsFiniteSet({i} \X (1..n)) /\ Cardinality({i} \X (1..n)) = Cardinality({i}) * Cardinality(1..n)
  BY <1>1, <1>2, FS_Product
<1>. QED
  BY <1>1, <1>2, <1>3

\* The places of any set of sessions are finitely many.
LEMMA PlacesFinite ==
    ASSUME NEW D, IsFiniteSet(D), NEW s, \A i \in D : Due(s[i]) \in Nat
    PROVE  IsFiniteSet(UNION {{i} \X (1..Due(s[i])) : i \in D})
<1> DEFINE P == {{i} \X (1..Due(s[i])) : i \in D}
           g == [i \in D |-> {i} \X (1..Due(s[i]))]
<1>1. g \in Surjection(D, P)
  BY DEF Surjection
<1>2. \A T \in P : IsFiniteSet(T)
  <2>1. ASSUME NEW i \in D
        PROVE  IsFiniteSet({i} \X (1..Due(s[i])))
    <3>1. Due(s[i]) \in Nat
      OBVIOUS
    <3>. QED
      BY ONLY <3>1, OneSession
  <2>. QED
    BY <2>1
<1> HIDE DEF g, P
<1>3. IsFiniteSet(P)
  BY <1>1, FS_Surjection
<1>4. IsFiniteSet(UNION P)
  BY <1>2, <1>3, FS_UNION
<1>. QED
  BY <1>4 DEF P

\* So the datagrams that sessions hold are a number.
LEMMA OwedIsNat ==
    ASSUME NEW s, \A i \in Ids : Due(s[i]) \in Nat
    PROVE  Cardinality(Owed(s)) \in Nat
<1>1. IsFiniteSet(UNION {{i} \X (1..Due(s[i])) : i \in Ids})
  <2>1. IsFiniteSet(Ids)
    BY Constants
  <2>2. \A i \in Ids : Due(s[i]) \in Nat
    OBVIOUS
  <2>. QED
    BY ONLY <2>1, <2>2, PlacesFinite
<1>. QED
  BY <1>1, FS_CardinalityType DEF Owed

\* When one session changes, the number of places changes by what it changes.
LEMMA OwedChanges ==
    ASSUME NEW s, NEW t, NEW i \in Ids,
           \A j \in Ids : Due(s[j]) \in Nat, Due(t[i]) \in Nat,
           \A j \in Ids : j # i => Due(t[j]) = Due(s[j])
    PROVE  Cardinality(Owed(s)) \in Nat
           /\ Cardinality(Owed(t)) = Cardinality(Owed(s)) + Due(t[i]) - Due(s[i])
<1> DEFINE R == UNION {{j} \X (1..Due(s[j])) : j \in Ids \ {i}}
           A == {i} \X (1..Due(s[i]))
           B == {i} \X (1..Due(t[i]))
<1>1. IsFiniteSet(R)
  <2>1. IsFiniteSet(Ids \ {i})
    BY Constants, FS_RemoveElement
  <2>2. \A j \in Ids \ {i} : Due(s[j]) \in Nat
    OBVIOUS
  <2>. QED
    BY ONLY <2>1, <2>2, PlacesFinite
<1>2. IsFiniteSet(A) /\ Cardinality(A) = Due(s[i])
  <2>1. Due(s[i]) \in Nat
    OBVIOUS
  <2>. QED
    BY ONLY <2>1, OneSession
<1>3. IsFiniteSet(B) /\ Cardinality(B) = Due(t[i])
  BY OneSession
<1>4. Owed(s) = R \union A
  BY DEF Owed
<1>5. Owed(t) = R \union B
  <2>1. R = UNION {{j} \X (1..Due(t[j])) : j \in Ids \ {i}}
    OBVIOUS
  <2>. QED
    BY <2>1 DEF Owed
<1>6. R \intersect A = {} /\ R \intersect B = {}
  OBVIOUS
<1> HIDE DEF R, A, B
<1>7. Cardinality(R) \in Nat
  BY <1>1, FS_CardinalityType
<1>8. Cardinality(R \union A) = Cardinality(R) + Cardinality(A) - Cardinality(R \intersect A)
  BY <1>1, <1>2, FS_Union
<1>9. Cardinality(R \union B) = Cardinality(R) + Cardinality(B) - Cardinality(R \intersect B)
  BY <1>1, <1>3, FS_Union
<1>10. Cardinality({}) = 0
  BY FS_EmptySet
<1>11. Cardinality(R \intersect A) = 0 /\ Cardinality(R \intersect B) = 0
  BY ONLY <1>6, <1>10, Zenon
<1>12. Cardinality(Owed(s)) = Cardinality(R \union A) /\ Cardinality(Owed(t)) = Cardinality(R \union B)
  BY ONLY <1>4, <1>5, Zenon
<1>13. Due(s[i]) \in Nat /\ Due(t[i]) \in Nat
  OBVIOUS
<1>. QED
  BY ONLY <1>2, <1>3, <1>7, <1>8, <1>9, <1>11, <1>12, <1>13

-----------------------------------------------------------------------------
(* Sessions                                                                  *)

IsOpen(st) == st \in {"spawned", "connecting", "relay", "counting", "counted"}

\* The record of a session, with what its count says of it.
Sound(r) == r \in SessRec /\ (r.counted # 0 => r.st = "counted" /\ r.counted <= Len(r.queue))

\* What a session holds is a number.
LEMMA DueIsNat ==
    ASSUME NEW r, Sound(r)
    PROVE  Due(r) \in Nat /\ Len(r.queue) \in Nat /\ r.inflight \in Nat /\ r.counted \in Nat
<1>1. r.queue \in Seq(Sizes) /\ r.inflight \in Nat /\ r.counted \in Nat
  BY DEF Sound, SessRec
<1>2. Len(r.queue) \in Nat /\ r.counted <= Len(r.queue)
  BY <1>1 DEF Sound
<1>. QED
  BY <1>1, <1>2 DEF Due

\* The invariant says so of every session.
LEMMA SessionsSound ==
    ASSUME UdpInv
    PROVE  \A i \in Ids : Sound(sess[i])
  BY DEF UdpInv, SessType, Counted, Sound

\* A step of session i, whose record becomes r: what it stops holding is counted,
\* as sent, dropped or lost.
Turned(i, r) ==
    /\ sess' = [sess EXCEPT ![i] = r] /\ Sound(r) /\ r.flow = sess[i].flow
    /\ sess[i].st \notin {"none", "gone"} /\ r.st # "none"
    /\ IsOpen(r.st) => IsOpen(sess[i].st)
    /\ metered' \in Int /\ lost' \in Int
    /\ metered' + lost' + Due(r) = metered + lost + Due(sess[i])
    /\ Outside

\* A capsule batch is a prefix of the queue.
LEMMA BatchIsPrefix ==
    ASSUME NEW q \in Seq(Sizes)
    PROVE  BatchLen(q) \in 0..Len(q)
<1> DEFINE K == {k \in 1..Len(q) : Encoded(q, k - 1) < BatchBytes}
<1>0. PICK n \in Nat : n = Len(q)
  OBVIOUS
<1>1. IsFiniteSet(1..Len(q)) /\ Cardinality(1..Len(q)) = Len(q)
  <2>1. IsFiniteSet(1..n) /\ Cardinality(1..n) = n
    BY FS_Interval
  <2>. QED
    BY ONLY <1>0, <2>1, Zenon
<1>2. K \in SUBSET (1..Len(q))
  OBVIOUS
<1> HIDE DEF K
<1>3. IsFiniteSet(K) /\ Cardinality(K) <= Len(q)
  BY <1>1, <1>2, FS_Subset
<1>4. Cardinality(K) \in Nat
  BY <1>3, FS_CardinalityType
<1>. QED
  BY <1>3, <1>4 DEF BatchLen, K

\* Every step of a session counts what it stops holding, once.
LEMMA SessionTurns ==
    ASSUME UdpInv, NEW i \in Ids, Session(i)
    PROVE  \E r : Turned(i, r)
<1> DEFINE s == sess[i]
<1>0. /\ s \in SessRec /\ Sound(s) /\ sess \in [Ids -> SessRec]
      /\ s.queue \in Seq(Sizes) /\ Len(s.queue) \in Nat /\ s.inflight \in Nat /\ s.counted \in Nat
      /\ s.counted # 0 => s.st = "counted"
      /\ metered \in Int /\ lost \in Int
  BY SessionsSound, DueIsNat DEF UdpInv, SessType, TableType, SessRec, Sound
<1>1. CASE StartSession(i) \/ EstablishFails(i) \/ Establish(i) \/ ReleaseLease(i) \/ Report(i)
  <2>1. PICK st \in {"connecting", "counting", "relay", "released", "gone"} :
            /\ sess' = [sess EXCEPT ![i].st = st] /\ s.st \in {"spawned", "connecting", "closed", "released"}
            /\ IsOpen(st) => IsOpen(s.st)
    BY <1>1 DEF StartSession, EstablishFails, Establish, ReleaseLease, Report, IsOpen
  <2> DEFINE r == [s EXCEPT !.st = st]
  <2>2. r \in SessRec /\ r.st = st /\ r.flow = s.flow /\ r.queue = s.queue /\ r.inflight = s.inflight
        /\ r.counted = s.counted /\ s.counted = 0
    BY <1>0, <2>1 DEF SessRec, States
  <2>3. UNCHANGED <<metered, lost>> /\ Outside
    BY <1>1 DEF StartSession, EstablishFails, Establish, ReleaseLease, Report
  <2>4. sess' = [sess EXCEPT ![i] = r]
    BY <2>1
  <2> HIDE DEF r
  <2>5. Due(r) = Due(s) /\ Due(s) \in Int
    BY <1>0, <2>2 DEF Due
  <2>6. Turned(i, r)
    BY <1>0, <2>1, <2>2, <2>3, <2>4, <2>5 DEF Turned, Sound
  <2>. QED
    BY <2>6
<1>2. CASE UploadBatch(i)
  <2>1. PICK n \in Nat : n = BatchLen(s.queue) /\ n <= Len(s.queue)
    BY <1>0, BatchIsPrefix
  <2>2. PICK q \in Seq(Sizes) : q = SubSeq(s.queue, n + 1, Len(s.queue)) /\ Len(q) = Len(s.queue) - n
    <3>1. SubSeq(s.queue, n + 1, Len(s.queue)) \in Seq(Sizes)
      BY <1>0, <2>1
    <3>2. Len(SubSeq(s.queue, n + 1, Len(s.queue))) = Len(s.queue) - n
      BY <1>0, <2>1
    <3>. QED
      BY ONLY <3>1, <3>2, Zenon
  <2> DEFINE r == [s EXCEPT !.inflight = n, !.queue = q]
  <2>3. s.st = "relay" /\ s.inflight = 0 /\ sess' = [sess EXCEPT ![i] = r] /\ UNCHANGED <<metered, lost>> /\ Outside
    BY <1>2, <2>1, <2>2 DEF UploadBatch
  <2>4. r \in SessRec /\ r.st = "relay" /\ r.flow = s.flow /\ r.inflight = n /\ r.counted = s.counted
        /\ r.queue = q
    BY <1>0, <2>3 DEF SessRec
  <2> HIDE DEF r
  <2>5. s.counted = 0 /\ Due(r) = Due(s) /\ Due(s) \in Int
    BY <1>0, <2>1, <2>2, <2>3, <2>4 DEF Due
  <2>6. Turned(i, r)
    BY <1>0, <2>3, <2>4, <2>5 DEF Turned, Sound, IsOpen
  <2>. QED
    BY <2>6
<1>3. CASE WriteOk(i) \/ WriteFails(i) \/ DownloadEnds(i) \/ ResponseFails(i) \/ IdleTimeout(i) \/ Cut(i)
  <2>1. PICK st \in {"relay", "counting", "counted"} :
            /\ sess' = [sess EXCEPT ![i].st = st, ![i].inflight = 0]
            /\ s.st \in {"spawned", "connecting", "relay"}
            /\ \/ metered' = metered + s.inflight /\ lost' = lost
               \/ lost' = lost + s.inflight /\ metered' = metered
            /\ Outside
    <3>1. CASE WriteOk(i)
      <4>1. sess[i].st = "relay" /\ sess' = [sess EXCEPT ![i].inflight = 0]
            /\ metered' = metered + s.inflight /\ lost' = lost /\ Outside
        BY <3>1 DEF WriteOk
      <4>2. [s EXCEPT !.inflight = 0] = [s EXCEPT !.st = "relay", !.inflight = 0]
        BY <1>0, <4>1 DEF SessRec
      <4>. QED
        BY <4>1, <4>2
    <3>2. CASE WriteFails(i) \/ DownloadEnds(i) \/ ResponseFails(i) \/ IdleTimeout(i)
      BY <3>2 DEF WriteFails, DownloadEnds, ResponseFails, IdleTimeout, RelayOver
    <3>3. CASE Cut(i)
      <4>1. PICK st : st = IF s.st = "spawned" THEN "counted" ELSE "counting"
        OBVIOUS
      <4>2. sess' = [sess EXCEPT ![i].st = st, ![i].inflight = 0]
        BY <3>3, <4>1 DEF Cut
      <4>. QED
        BY <3>3, <4>1, <4>2 DEF Cut
    <3>. QED
      BY <1>3, <3>1, <3>2, <3>3
  <2> DEFINE r == [s EXCEPT !.st = st, !.inflight = 0]
  <2>2. r \in SessRec /\ r.st = st /\ r.flow = s.flow /\ r.queue = s.queue /\ r.inflight = 0
        /\ r.counted = s.counted /\ s.counted = 0
    BY <1>0, <2>1 DEF SessRec, States
  <2>3. sess' = [sess EXCEPT ![i] = r]
    BY <2>1
  <2> HIDE DEF r
  <2>4. Due(r) + s.inflight = Due(s) /\ Due(s) \in Int /\ Due(r) \in Int
    BY <1>0, <2>2 DEF Due
  <2>5. metered' \in Int /\ lost' \in Int /\ metered' + lost' + Due(r) = metered + lost + Due(s)
    BY <1>0, <2>1, <2>4, SMTT(30)
  <2>6. Turned(i, r)
    BY <1>0, <2>1, <2>2, <2>3, <2>5 DEF Turned, Sound, IsOpen
  <2>. QED
    BY <2>6
<1>4. CASE CountPending(i)
  <2> DEFINE r == [s EXCEPT !.st = "counted", !.counted = Len(s.queue)]
  <2>1. s.st = "counting" /\ sess' = [sess EXCEPT ![i] = r] /\ metered' = metered + Len(s.queue)
        /\ UNCHANGED lost /\ Outside
    BY <1>4 DEF CountPending
  <2>2. r \in SessRec /\ r.st = "counted" /\ r.flow = s.flow /\ r.queue = s.queue /\ r.inflight = s.inflight
        /\ r.counted = Len(s.queue) /\ s.counted = 0
    BY <1>0, <2>1 DEF SessRec, States
  <2> HIDE DEF r
  <2>3. metered' \in Int /\ lost' \in Int /\ metered' + lost' + Due(r) = metered + lost + Due(s)
    BY <1>0, <2>1, <2>2 DEF Due
  <2>4. Turned(i, r)
    BY <1>0, <2>1, <2>2, <2>3 DEF Turned, Sound, IsOpen
  <2>. QED
    BY <2>4
<1>5. CASE CloseQueue(i)
  <2>0. PICK q \in Seq(Sizes) : q = <<>> /\ Len(q) = 0
    <3>1. <<>> \in Seq(Sizes)
      OBVIOUS
    <3>2. Len(<<>>) = 0
      OBVIOUS
    <3>. QED
      BY ONLY <3>1, <3>2, Zenon
  <2> DEFINE r == [s EXCEPT !.st = "closed", !.queue = q, !.counted = 0]
  <2>1. s.st = "counted" /\ sess' = [sess EXCEPT ![i] = r] /\ lost' = lost + Len(s.queue) - s.counted
        /\ UNCHANGED metered /\ Outside
    <3>1. s.st = "counted" /\ lost' = lost + Len(s.queue) - s.counted /\ UNCHANGED metered /\ Outside
      BY <1>5 DEF CloseQueue
    <3>2. sess' = [sess EXCEPT ![i] = [sess[i] EXCEPT !.st = "closed", !.queue = <<>>, !.counted = 0]]
      BY <1>5 DEF CloseQueue
    <3>3. sess' = [sess EXCEPT ![i] = r]
      BY ONLY <2>0, <3>2, Zenon
    <3>. QED
      BY <3>1, <3>3
  <2>2. r \in SessRec /\ r.st = "closed" /\ r.flow = s.flow /\ r.queue = q /\ r.inflight = s.inflight
        /\ r.counted = 0
    BY <1>0, <2>1 DEF SessRec, States
  <2> HIDE DEF r
  <2>3. Len(r.queue) = 0
    BY <2>0, <2>2
  <2>4. metered' \in Int /\ lost' \in Int /\ metered' + lost' + Due(r) = metered + lost + Due(s)
    <3>1. Due(r) = s.inflight /\ Due(s) = s.inflight + Len(s.queue) - s.counted
      BY <1>0, <2>2, <2>3 DEF Due
    <3>2. lost' = lost + Len(s.queue) - s.counted /\ metered' = metered
      BY <2>1
    <3>3. PICK a \in Nat, b \in Nat, c \in Nat : a = s.inflight /\ b = Len(s.queue) /\ c = s.counted
      BY <1>0
    <3>4. Due(r) = a /\ Due(s) = a + b - c /\ lost' = lost + b - c
      BY ONLY <3>1, <3>2, <3>3
    <3>5. metered \in Int /\ lost \in Int
      BY <1>0
    <3>. QED
      BY ONLY <3>2, <3>4, <3>5, a \in Nat, b \in Nat, c \in Nat
  <2>5. Turned(i, r)
    BY <1>0, <2>1, <2>2, <2>4 DEF Turned, Sound, IsOpen
  <2>. QED
    BY <2>5
<1>. QED
  BY <1>1, <1>2, <1>3, <1>4, <1>5 DEF Session

\* A session that steps: its record changes, the others do not.
LEMMA TurnedRecords ==
    ASSUME UdpInv, NEW i \in Ids, NEW r, Turned(i, r)
    PROVE  /\ sess' \in [Ids -> SessRec] /\ sess'[i] = r
           /\ \A j \in Ids : j # i => sess'[j] = sess[j]
           /\ \A j \in Ids : sess'[j].flow = sess[j].flow
  BY DEF UdpInv, SessType, Turned, Sound

\* A session that steps keeps the account, and is among those that were opened.
LEMMA TurnedCounts ==
    ASSUME UdpInv, NEW i \in Ids, NEW r, Turned(i, r)
    PROVE  Accounting' /\ Opened' /\ Fresh' /\ Counted'
<1>1. /\ sess'[i] = r /\ Sound(r)
      /\ \A j \in Ids : j # i => sess'[j] = sess[j]
      /\ \A j \in Ids : sess'[j].flow = sess[j].flow
  BY TurnedRecords DEF Turned
<1>2. UNCHANGED <<nextId, batch, seen>>
  BY DEF Turned, Outside, tableVars
<1>3. i < nextId
  <2>1. sess[i] # NoSession
    BY DEF Turned, NoSession
  <2>. QED
    BY <2>1, Constants DEF UdpInv, Fresh, TableType
<1>4. Fresh'
  BY <1>1, <1>2, <1>3, Constants DEF UdpInv, Fresh, Turned, TableType
<1>5. Opened'
  BY <1>2 DEF UdpInv, Opened
<1>6. Counted'
  BY <1>1 DEF UdpInv, Counted, Sound
<1>7. Accounting'
  <2>1. \A j \in Ids : Due(sess[j]) \in Nat
    BY SessionsSound, DueIsNat
  <2>2. Due(sess'[i]) \in Nat /\ Due(sess'[i]) = Due(r)
    BY <1>1, DueIsNat
  <2>3. \A j \in Ids : j # i => Due(sess'[j]) = Due(sess[j])
    BY <1>1
  <2>4. Cardinality(Owed(sess)) \in Nat
        /\ Cardinality(Owed(sess')) = Cardinality(Owed(sess)) + Due(sess'[i]) - Due(sess[i])
    BY ONLY <2>1, <2>2, <2>3, OwedChanges, i \in Ids
  <2>5. seen = metered + lost + Len(batch) + Cardinality(Owed(sess)) /\ Len(batch) \in Nat
    BY DEF UdpInv, Accounting, Owed, TableType
  <2>6. /\ metered' \in Int /\ lost' \in Int /\ metered \in Int /\ lost \in Int
        /\ metered' + lost' + Due(r) = metered + lost + Due(sess[i])
    BY DEF Turned, UdpInv, TableType
  <2>7. seen' = metered' + lost' + Len(batch') + Cardinality(Owed(sess'))
    <3>1. PICK a \in Nat, b \in Nat, c \in Nat, l \in Nat :
              a = Due(r) /\ b = Due(sess[i]) /\ c = Cardinality(Owed(sess)) /\ l = Len(batch)
      BY <2>1, <2>2, <2>4, <2>5
    <3>2. Cardinality(Owed(sess')) = c + a - b
      BY <2>2, <2>4, <3>1
    <3>3. seen = metered + lost + l + c /\ seen' = seen /\ Len(batch') = l
      BY <1>2, <2>5, <3>1
    <3>4. metered' + lost' + a = metered + lost + b
      BY <2>6, <3>1
    <3>5. PICK m1 \in Int, l1 \in Int, m2 \in Int, l2 \in Int :
              m1 = metered /\ l1 = lost /\ m2 = metered' /\ l2 = lost'
      BY <2>6
    <3>6. m2 + l2 + a = m1 + l1 + b
      BY ONLY <3>4, <3>5, Zenon
    <3>7. m1 + l1 + l + c = m2 + l2 + l + (c + a - b)
      BY ONLY <3>6, a \in Nat, b \in Nat, c \in Nat, l \in Nat, m1 \in Int, l1 \in Int, m2 \in Int, l2 \in Int
    <3>. QED
      BY ONLY <3>2, <3>3, <3>5, <3>7, Zenon
  <2>. QED
    BY <2>7 DEF Accounting, Owed
<1>. QED
  BY <1>4, <1>5, <1>6, <1>7

\* The completions in the channel name sessions.
LEMMA CompletionsTyped ==
    ASSUME UdpInv
    PROVE  \A k \in DOMAIN completed : completed[k].id \in Ids /\ completed[k].flow \in Flows
<1>1. completed \in Seq(Completion)
  BY DEF UdpInv, TableType
<1>2. \A k \in DOMAIN completed : completed[k] \in Completion
  BY ONLY <1>1
<1>. QED
  BY <1>2 DEF Completion

\* A session that steps, but does not report, leaves the table right.
LEMMA TurnedTable ==
    ASSUME UdpInv, NEW i \in Ids, NEW r, Turned(i, r), r.st # "gone", UNCHANGED completed
    PROVE  Table'
<1>1. /\ sess'[i] = r
      /\ \A j \in Ids : j # i => sess'[j] = sess[j]
      /\ \A j \in Ids : sess'[j].flow = sess[j].flow
  BY TurnedRecords
<1>2. UNCHANGED <<entries, batch, disp>>
  BY DEF Turned, Outside, tableVars
<1>3. \A j \in Ids : Open(j)' => Open(j)
  BY <1>1 DEF Open, Turned, IsOpen
<1>4. \A j \in Ids : sess'[j].st = "gone" <=> sess[j].st = "gone"
  BY <1>1 DEF Turned
<1>5. \A k \in DOMAIN completed : completed[k].id \in Ids
  BY CompletionsTyped
<1>6. \A f \in Flows : entries[f] # None => entries[f] \in Ids
  BY DEF UdpInv, TableType
<1>7. \A j \in Ids : Open(j)' => entries[sess'[j].flow] = j
  BY <1>1, <1>3 DEF UdpInv, Table
<1>8. \A f \in Flows : entries[f] # None => sess'[entries[f]].flow = f
  BY <1>1, <1>6 DEF UdpInv, Table
<1>9. \A k \in DOMAIN completed :
          sess'[completed[k].id].st = "gone" /\ sess'[completed[k].id].flow = completed[k].flow
  BY <1>1, <1>4, <1>5 DEF UdpInv, Table
<1>10. disp = "loop" => \A f \in Flows : entries[f] # None /\ sess'[entries[f]].st = "gone" =>
                           \E k \in DOMAIN completed : completed[k].id = entries[f]
  BY <1>4, <1>6 DEF UdpInv, Table
<1>11. disp = "done" => batch = <<>>
  BY DEF UdpInv, Table
<1>. QED
  BY <1>2, <1>7, <1>8, <1>9, <1>10, <1>11 DEF Table

\* The users of the sockets stay the same.
LEMMA SameUsers ==
    ASSUME UdpInv, UNCHANGED <<sockets, lease>>,
           \A j \in Ids : lease[j] # None => sess'[j].flow = sess[j].flow
    PROVE  SharedBind'
<1>1. ASSUME NEW d \in Dests
      PROVE  {j \in Ids : lease[j] # None /\ DestOf[sess'[j].flow] = d}
               = {j \in Ids : lease[j] # None /\ DestOf[sess[j].flow] = d}
  OBVIOUS
<1>. QED
  BY <1>1 DEF UdpInv, SharedBind

\* A session that steps and does not touch its lease leaves the sockets right.
LEMMA TurnedLeases ==
    ASSUME UdpInv, NEW i \in Ids, NEW r, Turned(i, r), UNCHANGED <<sockets, lease>>,
           lease[i] # None => r.st \in {"relay", "counting", "counted", "closed"}
    PROVE  Leased' /\ SharedBind'
<1>1. /\ sess'[i] = r
      /\ \A j \in Ids : j # i => sess'[j] = sess[j]
      /\ \A j \in Ids : sess'[j].flow = sess[j].flow
  BY TurnedRecords
<1>2. Leased'
  BY <1>1 DEF UdpInv, Leased
<1>3. SharedBind'
  BY <1>1, SameUsers
<1>. QED
  BY <1>2, <1>3

\* The sessions that have leased the socket of a destination.
Users(le, se, d) == {j \in Ids : le[j] # None /\ DestOf[se[j].flow] = d}

\* What the pool keeps about a destination, as in SharedBind.
Pooled(po, le, se, d) ==
    /\ Users(le, se, d) # {} <=> po[d] # None
    /\ po[d] # None => /\ po[d].users = Cardinality(Users(le, se, d))
                       /\ \A j \in Users(le, se, d) : le[j] = po[d].sock

\* SharedBind, destination by destination.
LEMMA SharedBindIs ==
    /\ SharedBind <=> \A d \in Dests : Pooled(sockets, lease, sess, d)
    /\ SharedBind' <=> \A d \in Dests : Pooled(sockets', lease', sess', d)
  BY DEF SharedBind, Pooled, Users

\* Users are finitely many.
LEMMA UsersFinite ==
    ASSUME NEW le, NEW se, NEW d
    PROVE  IsFiniteSet(Users(le, se, d)) /\ Cardinality(Users(le, se, d)) \in Nat
<1>1. Users(le, se, d) \in SUBSET Ids
  BY DEF Users
<1>2. IsFiniteSet(Users(le, se, d))
  BY <1>1, Constants, FS_Subset
<1>. QED
  BY <1>2, FS_CardinalityType

\* acquire: the session becomes another user of the socket, or the first one.
LEMMA EstablishLeases ==
    ASSUME UdpInv, NEW i \in Ids, Establish(i), NEW r, Turned(i, r)
    PROVE  /\ sockets' \in [Dests -> Entry \union {None}] /\ lease' \in [Ids -> Ids \union {None}]
           /\ Leased' /\ SharedBind'
<1> DEFINE d0 == DestOf[sess[i].flow]
           U == Users(lease, sess, d0)
<1>0. /\ sockets \in [Dests -> Entry \union {None}] /\ lease \in [Ids -> Ids \union {None}]
      /\ sess[i].st = "connecting" /\ lease[i] = None
      /\ \A d \in Dests : Pooled(sockets, lease, sess, d)
  BY SharedBindIs DEF UdpInv, SessType, Establish, Leased
<1>1. sess[i].flow \in Flows
  <2>1. sess[i] # NoSession
    BY <1>0 DEF NoSession
  <2>. QED
    BY <2>1, Constants DEF UdpInv, Fresh, TableType
<1>2. d0 \in Dests
  BY <1>1, UdpAssumption
<1>3. /\ sess'[i] = r /\ r.st = "relay" /\ \A j \in Ids : j # i => sess'[j] = sess[j]
      /\ \A j \in Ids : sess'[j].flow = sess[j].flow
  BY TurnedRecords DEF Establish, UdpInv, SessType, SessRec
<1>4. PICK e : /\ e = IF sockets[d0] = None THEN [sock |-> i, users |-> 1] ELSE Shared(sockets[d0])
               /\ sockets' = [sockets EXCEPT ![d0] = e] /\ lease' = [lease EXCEPT ![i] = e.sock]
  BY DEF Establish
<1> HIDE DEF d0
<1>5. e \in Entry /\ e # None /\ e.sock \in Ids /\ e.sock # None
  <2>1. CASE sockets[d0] = None
    BY <1>4, <2>1, Constants DEF Entry
  <2>2. CASE sockets[d0] # None
    <3>1. sockets[d0] \in Entry
      BY <1>0, <1>2, <2>2
    <3>. QED
      BY <1>4, <2>2, <3>1, Constants DEF Entry, Shared
  <2>. QED
    BY <2>1, <2>2
<1>6. sockets' \in [Dests -> Entry \union {None}] /\ lease' \in [Ids -> Ids \union {None}]
  BY <1>0, <1>2, <1>4, <1>5
<1>7. Leased'
  BY <1>0, <1>3, <1>4, <1>5 DEF UdpInv, Leased
<1>8. Users(lease', sess', d0) = U \union {i} /\ i \notin U
  BY <1>0, <1>3, <1>4, <1>5 DEF Users, d0
<1>9. \A d \in Dests : d # d0 => Users(lease', sess', d) = Users(lease, sess, d)
  BY <1>0, <1>3, <1>4, <1>5 DEF Users, d0
<1>10. \A j \in Ids : j # i => lease'[j] = lease[j]
  BY <1>0, <1>4
<1>11. sockets'[d0] = e /\ lease'[i] = e.sock /\ \A d \in Dests : d # d0 => sockets'[d] = sockets[d]
  BY <1>0, <1>2, <1>4
<1>12. \A d \in Dests : U \subseteq Ids /\ i \notin Users(lease, sess, d) /\ Users(lease, sess, d) \subseteq Ids
  BY <1>0 DEF Users
<1> HIDE DEF U
<1>13. Pooled(sockets', lease', sess', d0)
  <2>1. IsFiniteSet(U) /\ Cardinality(U) \in Nat
    BY UsersFinite DEF U
  <2>2. Cardinality(U \union {i}) = Cardinality(U) + 1
    BY <1>8, <2>1, FS_AddElement
  <2>3. Cardinality(Users(lease', sess', d0)) = Cardinality(U) + 1
    BY ONLY <1>8, <2>2, Zenon
  <2>4. Pooled(sockets, lease, sess, d0)
    BY <1>0, <1>2
  <2>5. e.users = Cardinality(U) + 1 /\ \A j \in U : lease[j] = e.sock
    <3>1. CASE sockets[d0] = None
      <4>1. U = {}
        BY <2>4, <3>1 DEF Pooled, U
      <4>2. Cardinality(U) = 0
        BY ONLY <4>1, FS_EmptySet, Zenon
      <4>. QED
        BY <1>4, <3>1, <4>1, <4>2
    <3>2. CASE sockets[d0] # None
      <4>1. sockets[d0].users = Cardinality(U) /\ \A j \in U : lease[j] = sockets[d0].sock
        BY <2>4, <3>2 DEF Pooled, U
      <4>2. sockets[d0] \in Entry
        BY <1>0, <1>2, <3>2
      <4>3. e.users = sockets[d0].users + 1 /\ e.sock = sockets[d0].sock
        BY <1>4, <3>2, <4>2 DEF Shared, Entry
      <4>. QED
        BY <4>1, <4>3
    <3>. QED
      BY <3>1, <3>2
  <2>6. \A j \in U \union {i} : lease'[j] = e.sock
    BY <1>10, <1>11, <1>12, <1>2, <2>5
  <2>7. U \union {i} # {}
    OBVIOUS
  <2>. QED
    BY <1>5, <1>8, <1>11, <2>3, <2>5, <2>6, <2>7 DEF Pooled
<1>14. ASSUME NEW d \in Dests, d # d0
       PROVE  Pooled(sockets', lease', sess', d)
  <2>1. Users(lease', sess', d) = Users(lease, sess, d) /\ sockets'[d] = sockets[d]
    BY <1>9, <1>11, <1>14
  <2>2. \A j \in Users(lease, sess, d) : lease'[j] = lease[j]
    BY <1>10, <1>12
  <2>3. Pooled(sockets, lease, sess, d)
    BY <1>0
  <2>. QED
    BY <2>1, <2>2, <2>3 DEF Pooled
<1>15. SharedBind'
  BY <1>13, <1>14, SharedBindIs
<1>. QED
  BY <1>6, <1>7, <1>15

\* Drop for ResponseSocketLease: the last user takes the entry away.
LEMMA ReleaseLeases ==
    ASSUME UdpInv, NEW i \in Ids, ReleaseLease(i), NEW r, Turned(i, r)
    PROVE  /\ sockets' \in [Dests -> Entry \union {None}] /\ lease' \in [Ids -> Ids \union {None}]
           /\ Leased' /\ SharedBind'
<1> DEFINE d0 == DestOf[sess[i].flow]
           U == Users(lease, sess, d0)
<1>0. /\ sockets \in [Dests -> Entry \union {None}] /\ lease \in [Ids -> Ids \union {None}]
      /\ \A d \in Dests : Pooled(sockets, lease, sess, d)
      /\ lease' = [lease EXCEPT ![i] = None]
      /\ sockets' = IF lease[i] = None THEN sockets
                 ELSE [sockets EXCEPT ![d0] = IF sockets[d0].users = 1 THEN None ELSE [sockets[d0] EXCEPT !.users = @ - 1]]
      /\ sess[i].st = "closed"
  BY SharedBindIs DEF UdpInv, SessType, ReleaseLease
<1>1. sess[i].flow \in Flows
  <2>1. sess[i] # NoSession
    BY <1>0 DEF NoSession
  <2>. QED
    BY <2>1, Constants DEF UdpInv, Fresh, TableType
<1>2. d0 \in Dests
  BY <1>1, UdpAssumption
<1>3. /\ \A j \in Ids : j # i => sess'[j] = sess[j]
      /\ \A j \in Ids : sess'[j].flow = sess[j].flow
  BY TurnedRecords
<1>4. lease' \in [Ids -> Ids \union {None}] /\ lease'[i] = None /\ \A j \in Ids : j # i => lease'[j] = lease[j]
  BY <1>0
<1>5. Leased'
  BY <1>3, <1>4 DEF UdpInv, Leased
<1>6. \A d \in Dests : Users(lease', sess', d) = Users(lease, sess, d) \ {i}
  BY <1>3, <1>4 DEF Users
<1>7. \A d \in Dests : i \in Users(lease, sess, d) <=> lease[i] # None /\ d = d0
  BY DEF Users
<1>8. \A d \in Dests : \A j \in Users(lease, sess, d) : j # i => lease'[j] = lease[j]
  BY <1>4 DEF Users
<1> HIDE DEF d0, U
<1>9. ASSUME NEW d \in Dests, lease[i] = None \/ d # d0
      PROVE  Pooled(sockets', lease', sess', d)
  <2>1. Users(lease', sess', d) = Users(lease, sess, d) /\ sockets'[d] = sockets[d]
    BY <1>0, <1>2, <1>6, <1>7, <1>9
  <2>2. \A j \in Users(lease, sess, d) : lease'[j] = lease[j]
    BY <1>7, <1>8, <1>9
  <2>3. Pooled(sockets, lease, sess, d)
    BY <1>0
  <2>. QED
    BY ONLY <2>1, <2>2, <2>3 DEF Pooled
<1>10. CASE lease[i] = None
  <2>1. sockets' = sockets
    BY <1>0, <1>10
  <2>. QED
    BY <1>0, <1>4, <1>5, <1>9, <1>10, <2>1, SharedBindIs
<1>11. CASE lease[i] # None
  <2>1. i \in U /\ IsFiniteSet(U) /\ Cardinality(U) \in Nat
    BY <1>2, <1>7, <1>11, UsersFinite DEF U
  <2>2. Cardinality(U \ {i}) = Cardinality(U) - 1 /\ IsFiniteSet(U \ {i})
    BY <2>1, FS_RemoveElement
  <2>3. sockets[d0] \in Entry /\ sockets[d0].users = Cardinality(U) /\ \A j \in U : lease[j] = sockets[d0].sock
    BY <1>0, <1>2, <2>1 DEF Pooled, U
  <2>4. Cardinality(Users(lease', sess', d0)) = Cardinality(U) - 1 /\ Users(lease', sess', d0) = U \ {i}
    BY ONLY <1>2, <1>6, <2>2, Zenon DEF U
  <2>5. CASE sockets[d0].users = 1
    <3>1. Cardinality(U \ {i}) = 0
      BY <2>1, <2>2, <2>3, <2>5
    <3>2. U \ {i} = {}
      BY <2>2, <3>1, FS_EmptySet
    <3>3. sockets'[d0] = None /\ sockets' \in [Dests -> Entry \union {None}]
      BY <1>0, <1>2, <1>11, <2>5
    <3>4. Pooled(sockets', lease', sess', d0)
      BY <2>4, <3>2, <3>3 DEF Pooled
    <3>. QED
      BY <1>4, <1>5, <1>9, <3>3, <3>4, SharedBindIs
  <2>6. CASE sockets[d0].users # 1
    <3>0. Cardinality(U) # 0
      <4>1. U # {}
        BY <2>1
      <4>. QED
        BY <2>1, <4>1, FS_EmptySet
    <3>1. PICK n \in Nat : n = Cardinality(U) - 1 /\ n # 0
      BY <2>1, <2>3, <2>6, <3>0
    <3>2. PICK e : e = [sockets[d0] EXCEPT !.users = sockets[d0].users - 1]
      OBVIOUS
    <3>3. e \in Entry /\ e.users = n /\ e.sock = sockets[d0].sock
      BY <2>3, <3>1, <3>2 DEF Entry
    <3>4. sockets' = [sockets EXCEPT ![d0] = e]
      BY <1>0, <1>11, <2>6, <3>2
    <3>5. sockets'[d0] = e /\ sockets' \in [Dests -> Entry \union {None}] /\ e # None
      BY <1>0, <1>2, <3>3, <3>4, Constants
    <3>6. U \ {i} # {}
      <4>1. Cardinality(U \ {i}) # 0
        BY <2>2, <3>1
      <4>2. Cardinality({}) = 0
        BY FS_EmptySet
      <4>. QED
        BY ONLY <4>1, <4>2, Zenon
    <3>7. \A j \in U \ {i} : lease'[j] = e.sock
      BY <1>2, <1>8, <2>3, <3>3 DEF U
    <3>8. Cardinality(Users(lease', sess', d0)) = e.users
      BY ONLY <2>4, <3>1, <3>3, Zenon
    <3>9. Pooled(sockets', lease', sess', d0)
      BY <2>4, <3>5, <3>6, <3>7, <3>8 DEF Pooled
    <3>. QED
      BY <1>4, <1>5, <1>9, <3>5, <3>9, SharedBindIs
  <2>. QED
    BY <2>5, <2>6
<1>. QED
  BY <1>10, <1>11

\* The report of a session that the table still names is in the channel.
LEMMA ReportTable ==
    ASSUME UdpInv, NEW i \in Ids, Report(i), NEW r, Turned(i, r)
    PROVE  Table' /\ completed' \in Seq(Completion)
<1>1. /\ sess'[i] = r
      /\ \A j \in Ids : j # i => sess'[j] = sess[j]
      /\ \A j \in Ids : sess'[j].flow = sess[j].flow
  BY TurnedRecords
<1>2. UNCHANGED <<entries, batch, disp>>
  BY DEF Turned, Outside, tableVars
<1>3. sess[i].st = "released" /\ r.st = "gone"
  BY <1>1 DEF Report, UdpInv, SessType, SessRec
<1>4. sess[i].flow \in Flows
  <2>1. sess[i] # NoSession
    BY <1>3 DEF NoSession
  <2>. QED
    BY <2>1, Constants DEF UdpInv, Fresh, TableType
<1>5. PICK c \in Completion : c = [flow |-> sess[i].flow, id |-> i]
  BY <1>4 DEF Completion
<1>6. c.flow = sess[i].flow /\ c.id = i
  BY <1>5
<1>7. completed' = IF disp = "done" THEN completed ELSE Append(completed, c)
  BY <1>5 DEF Report
<1>8. completed \in Seq(Completion)
  BY DEF UdpInv, TableType
<1>9. completed' \in Seq(Completion)
  BY <1>7, <1>8
<1>10. \A k \in DOMAIN completed' : (k \in DOMAIN completed /\ completed'[k] = completed[k]) \/ completed'[k] = c
  BY <1>7, <1>8
<1>11. /\ \A k \in DOMAIN completed : k \in DOMAIN completed' /\ completed'[k] = completed[k]
       /\ disp = "loop" => \E k \in DOMAIN completed' : completed'[k] = c
  <2>1. CASE disp = "done"
    BY <1>7, <2>1
  <2>2. CASE disp # "done"
    <3>1. completed' = Append(completed, c) /\ Len(completed) \in Nat
      BY <1>7, <1>8, <2>2
    <3>2. Len(completed) + 1 \in DOMAIN completed' /\ completed'[Len(completed) + 1] = c
      BY <1>8, <3>1
    <3>3. \A k \in DOMAIN completed : k \in DOMAIN completed' /\ completed'[k] = completed[k]
      BY <1>8, <3>1
    <3>. QED
      BY <3>2, <3>3
  <2>. QED
    BY <2>1, <2>2
<1>12. \A j \in Ids : Open(j)' => Open(j)
  BY <1>1 DEF Open, Turned, IsOpen
<1>13. \A k \in DOMAIN completed : completed[k].id \in Ids
  BY CompletionsTyped
<1>14. \A f \in Flows : entries[f] # None => entries[f] \in Ids
  BY DEF UdpInv, TableType
<1>15. \A j \in Ids : sess'[j].st = "gone" => j = i \/ sess[j].st = "gone"
  BY <1>1
<1>16. \A j \in Ids : Open(j)' => entries[sess'[j].flow] = j
  BY <1>1, <1>12 DEF UdpInv, Table
<1>17. \A f \in Flows : entries[f] # None => sess'[entries[f]].flow = f
  BY <1>1, <1>14 DEF UdpInv, Table
<1>18. \A k \in DOMAIN completed :
          sess'[completed[k].id].st = "gone" /\ sess'[completed[k].id].flow = completed[k].flow
  BY <1>1, <1>3, <1>13 DEF UdpInv, Table
<1>19. sess'[c.id].st = "gone" /\ sess'[c.id].flow = c.flow
  BY <1>1, <1>3, <1>6
<1>20. \A k \in DOMAIN completed' :
          sess'[completed'[k].id].st = "gone" /\ sess'[completed'[k].id].flow = completed'[k].flow
  BY <1>10, <1>18, <1>19
<1>21. disp = "loop" => \A f \in Flows : entries[f] # None /\ sess'[entries[f]].st = "gone" =>
                           \E k \in DOMAIN completed' : completed'[k].id = entries[f]
  <2> SUFFICES ASSUME disp = "loop", NEW f \in Flows, entries[f] # None, sess'[entries[f]].st = "gone"
               PROVE  \E k \in DOMAIN completed' : completed'[k].id = entries[f]
    OBVIOUS
  <2>1. CASE entries[f] = i
    BY <1>6, <1>11, <2>1
  <2>2. CASE entries[f] # i
    <3>1. \E k \in DOMAIN completed : completed[k].id = entries[f]
      BY <1>14, <1>15, <2>2 DEF UdpInv, Table
    <3>. QED
      BY <1>11, <3>1
  <2>. QED
    BY <2>1, <2>2
<1>22. disp = "done" => batch = <<>>
  BY DEF UdpInv, Table
<1>. QED
  BY <1>2, <1>9, <1>16, <1>17, <1>20, <1>21, <1>22 DEF Table

\* Where a session has got to after a step.
LEMMA SessionGoesTo ==
    ASSUME UdpInv, NEW i \in Ids, NEW r, Turned(i, r)
    PROVE  /\ Establish(i) => r.st = "relay"
           /\ ReleaseLease(i) => r.st = "released"
           /\ Report(i) => r.st = "gone" /\ lease[i] = None
           /\ StartSession(i) => r.st = "connecting" /\ lease[i] = None
           /\ EstablishFails(i) => r.st = "counting"
           /\ UploadBatch(i) \/ WriteOk(i) => r.st = "relay"
           /\ WriteFails(i) \/ DownloadEnds(i) \/ ResponseFails(i) \/ IdleTimeout(i) => r.st = "counting"
           /\ Cut(i) => r.st \in {"counting", "counted"}
           /\ CountPending(i) => r.st = "counted"
           /\ CloseQueue(i) => r.st = "closed"
<1>1. sess'[i] = r /\ sess \in [Ids -> SessRec] /\ sess[i] \in SessRec
  BY TurnedRecords DEF UdpInv, SessType
<1>2. Establish(i) => r.st = "relay"
  BY <1>1 DEF Establish, SessRec
<1>3. ReleaseLease(i) => r.st = "released"
  BY <1>1 DEF ReleaseLease, SessRec
<1>4. Report(i) => r.st = "gone" /\ lease[i] = None
  BY <1>1 DEF Report, SessRec, UdpInv, Leased
<1>5. EstablishFails(i) => r.st = "counting"
  BY <1>1 DEF EstablishFails, SessRec
<1>6. UploadBatch(i) \/ WriteOk(i) => r.st = "relay"
  <2>1. CASE UploadBatch(i)
    BY <1>1, <2>1 DEF UploadBatch, SessRec
  <2>2. CASE WriteOk(i)
    BY <1>1, <2>2 DEF WriteOk, SessRec
  <2>. QED
    BY <2>1, <2>2
<1>7. WriteFails(i) \/ DownloadEnds(i) \/ ResponseFails(i) \/ IdleTimeout(i) => r.st = "counting"
  BY <1>1 DEF WriteFails, DownloadEnds, ResponseFails, IdleTimeout, RelayOver, SessRec
<1>10. Cut(i) => r.st \in {"counting", "counted"}
  <2>. SUFFICES ASSUME Cut(i) PROVE r.st \in {"counting", "counted"}
    OBVIOUS
  <2>1. PICK st \in {"counting", "counted"} : st = IF sess[i].st = "spawned" THEN "counted" ELSE "counting"
    OBVIOUS
  <2>2. sess' = [sess EXCEPT ![i].st = st, ![i].inflight = 0]
    BY <2>1 DEF Cut
  <2>. QED
    BY <1>1, <2>1, <2>2 DEF SessRec
<1>11. StartSession(i) => r.st = "connecting" /\ lease[i] = None
  BY <1>1 DEF StartSession, SessRec, UdpInv, Leased
<1>8. CountPending(i) => r.st = "counted"
  BY <1>1, ZenonT(60) DEF CountPending, SessRec
<1>9. CloseQueue(i) => r.st = "closed"
  BY <1>1 DEF CloseQueue, SessRec
<1>. QED
  BY <1>2, <1>3, <1>4, <1>5, <1>6, <1>7, <1>8, <1>9, <1>10, <1>11

\* Every step of a session keeps the invariant.
LEMMA SessionKeeps ==
    ASSUME UdpInv, NEW i \in Ids, Session(i)
    PROVE  UdpInv'
<1>1. PICK r : Turned(i, r)
  BY SessionTurns
<1>2. Accounting' /\ Opened' /\ Fresh' /\ Counted' /\ sess' \in [Ids -> SessRec]
  BY <1>1, TurnedCounts, TurnedRecords
<1>3. /\ entries' \in [Flows -> Ids \union {None}] /\ nextId' \in Nat /\ batch' \in Seq(Arrivals)
      /\ disp' \in {"loop", "done"} /\ drainSeen' \in BOOLEAN /\ shutdown' \in {"run", "waiting", "forced"}
      /\ seen' \in Nat /\ metered' \in Int /\ lost' \in Int
  BY <1>1 DEF UdpInv, TableType, Turned, Outside, tableVars
<1>4. completed \in Seq(Completion) /\ sockets \in [Dests -> Entry \union {None}]
      /\ lease \in [Ids -> Ids \union {None}]
  BY DEF UdpInv, TableType, SessType
<1>5. CASE Establish(i)
  <2>1. r.st = "relay" /\ UNCHANGED completed
    BY <1>1, <1>5, SessionGoesTo DEF Establish
  <2>2. Table'
    BY <1>1, <2>1, TurnedTable
  <2>3. /\ sockets' \in [Dests -> Entry \union {None}] /\ lease' \in [Ids -> Ids \union {None}]
        /\ Leased' /\ SharedBind'
    BY <1>1, <1>5, EstablishLeases
  <2>. QED
    BY <1>2, <1>3, <1>4, <2>1, <2>2, <2>3 DEF UdpInv, TableType, SessType
<1>6. CASE ReleaseLease(i)
  <2>1. r.st = "released" /\ UNCHANGED completed
    BY <1>1, <1>6, SessionGoesTo DEF ReleaseLease
  <2>2. Table'
    BY <1>1, <2>1, TurnedTable
  <2>3. /\ sockets' \in [Dests -> Entry \union {None}] /\ lease' \in [Ids -> Ids \union {None}]
        /\ Leased' /\ SharedBind'
    BY <1>1, <1>6, ReleaseLeases
  <2>. QED
    BY <1>2, <1>3, <1>4, <2>1, <2>2, <2>3 DEF UdpInv, TableType, SessType
<1>7. CASE Report(i)
  <2>1. lease[i] = None /\ UNCHANGED <<sockets, lease>>
    BY <1>1, <1>7, SessionGoesTo DEF Report
  <2>2. Table' /\ completed' \in Seq(Completion)
    BY <1>1, <1>7, ReportTable
  <2>3. Leased' /\ SharedBind'
    BY <1>1, <2>1, TurnedLeases
  <2>. QED
    BY <1>2, <1>3, <1>4, <2>1, <2>2, <2>3 DEF UdpInv, TableType, SessType
<1>8. CASE \/ EstablishFails(i) \/ UploadBatch(i) \/ WriteOk(i)
           \/ WriteFails(i) \/ DownloadEnds(i) \/ ResponseFails(i) \/ IdleTimeout(i)
           \/ Cut(i) \/ CountPending(i) \/ CloseQueue(i)
  <2>1. r.st \in {"relay", "counting", "counted", "closed"}
    BY <1>1, <1>8, SessionGoesTo
  <2>2. UNCHANGED <<sockets, lease, completed>>
    BY <1>8 DEF EstablishFails, UploadBatch, WriteOk, WriteFails, DownloadEnds, ResponseFails,
       IdleTimeout, RelayOver, Cut, CountPending, CloseQueue
  <2>3. Table'
    BY <1>1, <2>1, <2>2, TurnedTable
  <2>4. Leased' /\ SharedBind'
    BY <1>1, <2>1, <2>2, TurnedLeases
  <2>. QED
    BY <1>2, <1>3, <1>4, <2>2, <2>3, <2>4 DEF UdpInv, TableType, SessType
<1>9. CASE StartSession(i)
  <2>1. r.st = "connecting" /\ lease[i] = None /\ UNCHANGED <<sockets, lease, completed>>
    BY <1>1, <1>9, SessionGoesTo DEF StartSession
  <2>2. Table'
    BY <1>1, <2>1, TurnedTable
  <2>3. Leased' /\ SharedBind'
    BY <1>1, <2>1, TurnedLeases
  <2>. QED
    BY <1>2, <1>3, <1>4, <2>1, <2>2, <2>3 DEF UdpInv, TableType, SessType
<1>. QED
  BY <1>5, <1>6, <1>7, <1>8, <1>9 DEF Session

-----------------------------------------------------------------------------
(* The dispatcher                                                            *)

\* Steps that leave the sessions and their sockets alone.
LEMMA SessionsAlone ==
    ASSUME UdpInv, UNCHANGED <<sess, sockets, lease>>
    PROVE  SessType' /\ Leased' /\ SharedBind' /\ Counted'
<1>1. SharedBind'
  BY SameUsers
<1>. QED
  BY <1>1 DEF UdpInv, SessType, Leased, Counted

\* The account, as numbers.
LEMMA Account ==
    ASSUME UdpInv
    PROVE  /\ seen = metered + lost + Len(batch) + Cardinality(Owed(sess))
           /\ Len(batch) \in Nat /\ Cardinality(Owed(sess)) \in Nat
           /\ seen \in Nat /\ metered \in Int /\ lost \in Int
<1>1. \A j \in Ids : Due(sess[j]) \in Nat
  BY SessionsSound, DueIsNat
<1>3. Cardinality(Owed(sess)) \in Nat
  BY ONLY <1>1, OwedIsNat
<1>. QED
  BY <1>3 DEF UdpInv, Accounting, Owed, TableType

\* The dispatcher waits, sees a drain or returns; run_with_drain moves on.
LEMMA QuietKeeps ==
    ASSUME UdpInv, UNCHANGED <<entries, nextId, sess, sockets, lease, completed, batch, seen, metered, lost>>,
           disp' = disp \/ (disp' = "done" /\ batch = <<>>),
           drainSeen' \in BOOLEAN, shutdown' \in {"run", "waiting", "forced"}
    PROVE  UdpInv'
<1>1. SessType' /\ Leased' /\ SharedBind' /\ Counted'
  BY SessionsAlone
<1>2. TableType' /\ Opened' /\ Fresh' /\ Accounting'
  BY DEF UdpInv, TableType, Opened, Fresh, Accounting
<1>3. Table'
  BY DEF UdpInv, Table, Open
<1>. QED
  BY <1>1, <1>2, <1>3 DEF UdpInv

\* SessionTable::complete: a completion takes away the entry of its session only.
LEMMA TakeCompletionKeeps ==
    ASSUME UdpInv, TakeCompletion
    PROVE  UdpInv'
<1>1. SessType' /\ Leased' /\ SharedBind' /\ Counted'
  BY SessionsAlone DEF TakeCompletion
<1>2. /\ completed \in Seq(Completion) /\ completed # <<>> /\ completed' = Tail(completed)
      /\ entries \in [Flows -> Ids \union {None}]
  BY DEF UdpInv, TableType, TakeCompletion
<1>3. PICK c : c = completed[1] /\ c = Head(completed)
  BY <1>2
<1>4. 1 \in DOMAIN completed
  BY <1>2
<1>5. /\ c.id \in Ids /\ c.flow \in Flows
      /\ sess[c.id].st = "gone" /\ sess[c.id].flow = c.flow
  BY <1>3, <1>4, CompletionsTyped DEF UdpInv, Table
<1>6. entries' = IF entries[c.flow] = c.id THEN [entries EXCEPT ![c.flow] = None] ELSE entries
  BY <1>3 DEF TakeCompletion, Complete
<1>7. UNCHANGED <<nextId, sess, batch, disp, drainSeen, shutdown, seen, metered, lost>>
  BY DEF TakeCompletion, countVars
<1>8. completed' \in Seq(Completion)
  BY ONLY <1>2
<1>9. entries' \in [Flows -> Ids \union {None}]
  BY <1>2, <1>6
<1>10. TableType' /\ Opened' /\ Fresh' /\ Accounting'
  BY <1>7, <1>8, <1>9 DEF UdpInv, TableType, Opened, Fresh, Accounting
<1>11. /\ \A k \in DOMAIN completed' : k + 1 \in DOMAIN completed /\ completed'[k] = completed[k + 1]
       /\ \A k \in DOMAIN completed : k = 1 \/ (k - 1 \in DOMAIN completed' /\ completed'[k - 1] = completed[k])
  <2>1. PICK n \in Nat : n = Len(completed) /\ DOMAIN completed = 1..n /\ n # 0
    BY <1>2
  <2>2. DOMAIN completed' = 1..(n - 1)
    BY <1>2, <2>1
  <2>3. \A k \in 1..(n - 1) : completed'[k] = completed[k + 1]
    BY <1>2, <2>1
  <2>. QED
    BY <2>1, <2>2, <2>3
<1>12. \A f \in Flows : entries'[f] # None => entries'[f] = entries[f]
  BY <1>2, <1>5, <1>6
<1>13. ASSUME NEW j \in Ids, Open(j)
       PROVE  entries'[sess[j].flow] = j
  <2>1. j # c.id /\ entries[sess[j].flow] = j
    BY <1>5, <1>13 DEF UdpInv, Table, Open
  <2>. QED
    BY <1>2, <1>5, <1>6, <2>1
<1>14. \A f \in Flows : entries'[f] # None => sess[entries'[f]].flow = f
  BY <1>12 DEF UdpInv, Table
<1>15. \A k \in DOMAIN completed' :
          sess[completed'[k].id].st = "gone" /\ sess[completed'[k].id].flow = completed'[k].flow
  <2>1. \A k \in DOMAIN completed :
          sess[completed[k].id].st = "gone" /\ sess[completed[k].id].flow = completed[k].flow
    BY DEF UdpInv, Table
  <2>. QED
    BY ONLY <1>11, <2>1
<1>16. ASSUME NEW f \in Flows, disp = "loop", entries'[f] # None, sess[entries'[f]].st = "gone"
       PROVE  \E k \in DOMAIN completed' : completed'[k].id = entries'[f]
  <2>1. entries'[f] = entries[f] /\ sess[entries[f]].flow = f
    BY <1>12, <1>16 DEF UdpInv, Table
  <2>2. PICK k \in DOMAIN completed : completed[k].id = entries[f]
    BY <1>16, <2>1 DEF UdpInv, Table
  <2>3. k # 1
    BY <1>2, <1>3, <1>5, <1>6, <1>16, <2>1, <2>2
  <2>. QED
    BY <1>11, <2>1, <2>2, <2>3
<1>17. disp = "done" => batch = <<>>
  BY DEF UdpInv, Table
<1>18. Table'
  BY <1>7, <1>13, <1>14, <1>15, <1>16, <1>17 DEF Table, Open
<1>. QED
  BY <1>1, <1>10, <1>18 DEF UdpInv

\* recv_nonblocking: what is received is in the batch or counted as dropped.
LEMMA ReceiveKeeps ==
    ASSUME UdpInv, NEW b \in Batches, NEW dropped \in Nat, Receive(b, dropped)
    PROVE  UdpInv'
<1>1. SessType' /\ Leased' /\ SharedBind' /\ Counted'
  BY SessionsAlone DEF Receive
<1>2. b \in Seq(Arrivals)
  BY DEF Batches
<1>3. PICK n \in Nat : n = Len(b)
  BY <1>2
<1>4. /\ batch = <<>> /\ disp = "loop" /\ batch' = b
      /\ seen' = seen + n + dropped /\ metered' = metered + dropped /\ seen + n + dropped <= MaxReceived
      /\ UNCHANGED <<entries, nextId, sess, completed, disp, drainSeen, shutdown, lost>>
  BY <1>3 DEF Receive, Turn, tableVars
<1>5. Len(batch) = 0
  BY <1>4
<1>6. /\ seen = metered + lost + Len(batch) + Cardinality(Owed(sess))
      /\ Cardinality(Owed(sess)) \in Nat
      /\ seen \in Nat /\ metered \in Int /\ lost \in Int
  BY Account
<1>7. seen' \in Nat /\ metered' \in Int
  BY <1>4, <1>6
<1>8. TableType'
  BY <1>2, <1>4, <1>7 DEF UdpInv, TableType
<1>9. Opened'
  <2>1. nextId + 0 <= seen /\ nextId \in Nat
    BY <1>5 DEF UdpInv, Opened, TableType
  <2>2. nextId + n <= seen + n + dropped
    BY <1>6, <2>1
  <2>. QED
    BY <1>3, <1>4, <2>2 DEF Opened
<1>10. Accounting'
  <2>1. PICK c \in Nat, s1 \in Nat, m1 \in Int, l1 \in Int :
            c = Cardinality(Owed(sess)) /\ s1 = seen /\ m1 = metered /\ l1 = lost
    BY <1>6
  <2>2. s1 = m1 + l1 + 0 + c
    BY ONLY <1>5, <1>6, <2>1
  <2>3. s1 + n + dropped = (m1 + dropped) + l1 + n + c
    BY ONLY <2>2, c \in Nat, s1 \in Nat, m1 \in Int, l1 \in Int, n \in Nat, dropped \in Nat
  <2>4. seen' = metered' + lost' + Len(batch') + Cardinality(Owed(sess'))
    BY ONLY <1>3, <1>4, <2>1, <2>3, Zenon
  <2>. QED
    BY <2>4 DEF Accounting, Owed
<1>11. Fresh' /\ Table'
  BY <1>4 DEF UdpInv, Fresh, Table, Open
<1>. QED
  BY <1>1, <1>8, <1>9, <1>10, <1>11 DEF UdpInv

\* The datagram at the head of the batch, and what is left of it.
LEMMA BatchHead ==
    ASSUME UdpInv, batch # <<>>
    PROVE  /\ Head(batch) \in Arrivals /\ Tail(batch) \in Seq(Arrivals)
           /\ Len(batch) \in Nat \ {0} /\ Len(Tail(batch)) = Len(batch) - 1
           /\ Head(batch).flow # "listener" => Head(batch).flow \in Flows /\ Head(batch).size \in Sizes
           /\ disp = "loop"
<1>1. batch \in Seq(Arrivals)
  BY DEF UdpInv, TableType
<1>2. Head(batch) \in Arrivals /\ Tail(batch) \in Seq(Arrivals)
  BY ONLY <1>1, batch # <<>>
<1>3. Len(batch) \in Nat \ {0} /\ Len(Tail(batch)) = Len(batch) - 1
  BY ONLY <1>1, batch # <<>>
<1>4. Head(batch).flow # "listener" => Head(batch).flow \in Flows /\ Head(batch).size \in Sizes
  BY <1>2 DEF Arrivals
<1>5. disp = "loop"
  BY DEF UdpInv, Table, TableType
<1>. QED
  BY <1>2, <1>3, <1>4, <1>5

\* A datagram is taken from the batch and counted as sent or dropped: one owed
\* place less, one count more.
LEMMA OneCounted ==
    ASSUME UdpInv, batch # <<>>, Rest, UNCHANGED <<sess, seen, lost>>, metered' = metered + 1
    PROVE  Accounting'
<1>1. Len(batch) \in Nat \ {0} /\ Len(batch') = Len(batch) - 1
  BY BatchHead DEF Rest
<1>2. /\ seen = metered + lost + Len(batch) + Cardinality(Owed(sess))
      /\ Cardinality(Owed(sess)) \in Nat
      /\ seen \in Nat /\ metered \in Int /\ lost \in Int
  BY Account
<1>3. PICK c \in Nat, n \in Nat, s1 \in Nat, m1 \in Int, l1 \in Int :
          c = Cardinality(Owed(sess)) /\ n = Len(batch) /\ s1 = seen /\ m1 = metered /\ l1 = lost
  BY <1>1, <1>2
<1>4. s1 = m1 + l1 + n + c
  BY ONLY <1>2, <1>3, Zenon
<1>5. s1 = (m1 + 1) + l1 + (n - 1) + c
  BY ONLY <1>4, c \in Nat, n \in Nat, s1 \in Nat, m1 \in Int, l1 \in Int
<1>6. seen' = seen /\ metered' = metered + 1 /\ lost' = lost /\ sess' = sess
  OBVIOUS
<1>7. seen' = metered' + lost' + Len(batch') + Cardinality(Owed(sess'))
  BY ONLY <1>1, <1>3, <1>5, <1>6, Zenon
<1>. QED
  BY <1>7 DEF Accounting, Owed

\* A datagram is taken from the batch and handed to session i, whose channel then
\* holds one more: the owed places stay.
LEMMA OneQueued ==
    ASSUME UdpInv, batch # <<>>, Rest, UNCHANGED <<seen, metered, lost>>,
           NEW i \in Ids, NEW r, sess' = [sess EXCEPT ![i] = r], Sound(r), Due(r) = Due(sess[i]) + 1
    PROVE  Accounting'
<1>1. Len(batch) \in Nat \ {0} /\ Len(batch') = Len(batch) - 1
  BY BatchHead DEF Rest
<1>2. /\ seen = metered + lost + Len(batch) + Cardinality(Owed(sess))
      /\ Cardinality(Owed(sess)) \in Nat
      /\ seen \in Nat /\ metered \in Int /\ lost \in Int
  BY Account
<1>3. \A j \in Ids : Due(sess[j]) \in Nat
  BY SessionsSound, DueIsNat
<1>4. sess'[i] = r /\ \A j \in Ids : j # i => sess'[j] = sess[j]
  BY DEF UdpInv, SessType
<1>5. Due(sess'[i]) \in Nat /\ Due(sess'[i]) = Due(sess[i]) + 1
  BY <1>4, DueIsNat
<1>6. \A j \in Ids : j # i => Due(sess'[j]) = Due(sess[j])
  BY <1>4
<1>7. Cardinality(Owed(sess')) = Cardinality(Owed(sess)) + Due(sess'[i]) - Due(sess[i])
  BY ONLY <1>3, <1>5, <1>6, OwedChanges, i \in Ids
<1>8. PICK c \in Nat, n \in Nat, a \in Nat, s1 \in Nat, m1 \in Int, l1 \in Int :
          /\ c = Cardinality(Owed(sess)) /\ n = Len(batch) /\ a = Due(sess[i])
          /\ s1 = seen /\ m1 = metered /\ l1 = lost
  BY <1>1, <1>2, <1>3
<1>9. s1 = m1 + l1 + n + c
  BY ONLY <1>2, <1>8, Zenon
<1>10. Cardinality(Owed(sess')) = c + (a + 1) - a
  BY ONLY <1>5, <1>7, <1>8, Zenon
<1>11. s1 = m1 + l1 + (n - 1) + (c + (a + 1) - a)
  BY ONLY <1>9, c \in Nat, n \in Nat, a \in Nat, s1 \in Nat, m1 \in Int, l1 \in Int
<1>12. seen' = seen /\ metered' = metered /\ lost' = lost
  OBVIOUS
<1>13. seen' = metered' + lost' + Len(batch') + Cardinality(Owed(sess'))
  BY ONLY <1>1, <1>8, <1>10, <1>11, <1>12, Zenon
<1>. QED
  BY <1>13 DEF Accounting, Owed

\* A refused datagram is counted as dropped.
LEMMA RefuseKeeps ==
    ASSUME UdpInv, Refuse
    PROVE  UdpInv'
<1>1. SessType' /\ Leased' /\ SharedBind' /\ Counted'
  BY SessionsAlone DEF Refuse
<1>2. /\ batch # <<>> /\ metered' = metered + 1 /\ Rest
      /\ UNCHANGED <<entries, nextId, sess, completed, disp, drainSeen, shutdown, seen, lost>>
  BY DEF Refuse, tableVars
<1>3. batch' \in Seq(Arrivals) /\ Len(batch) \in Nat \ {0} /\ Len(batch') = Len(batch) - 1 /\ disp = "loop"
  BY <1>2, BatchHead DEF Rest
<1>4. metered' \in Int
  BY <1>2 DEF UdpInv, TableType
<1>5. TableType'
  BY <1>2, <1>3, <1>4 DEF UdpInv, TableType
<1>6. Opened' /\ Fresh'
  BY <1>2, <1>3 DEF UdpInv, Opened, Fresh, TableType
<1>7. Accounting'
  BY <1>2, OneCounted
<1>8. Table'
  BY <1>2, <1>3 DEF UdpInv, Table, Open
<1>. QED
  BY <1>1, <1>5, <1>6, <1>7, <1>8 DEF UdpInv

\* try_send: a datagram waits in the queue of its session, or is dropped.
LEMMA EnqueueKeeps ==
    ASSUME UdpInv, Enqueue
    PROVE  UdpInv'
<1>1. PICK d \in Arrivals : d = Head(batch)
  BY BatchHead DEF Enqueue
<1>2. d.flow \in Flows /\ d.size \in Sizes
  BY <1>1, BatchHead DEF Enqueue, IsIllegalCall
<1>3. PICK i \in Ids : i = entries[d.flow] /\ Open(i)
  BY <1>1, <1>2 DEF Enqueue, UdpInv, TableType
<1>4. /\ batch # <<>> /\ Rest
      /\ UNCHANGED <<entries, nextId, sockets, lease, completed, disp, drainSeen, shutdown, seen, lost>>
      /\ \/ sess' = [sess EXCEPT ![i].queue = Append(sess[i].queue, d.size)] /\ metered' = metered
         \/ sess' = sess /\ metered' = metered + 1
  BY <1>1, <1>3 DEF Enqueue, tableVars
<1>5. batch' \in Seq(Arrivals) /\ Len(batch) \in Nat \ {0} /\ Len(batch') = Len(batch) - 1 /\ disp = "loop"
  BY <1>4, BatchHead DEF Rest
<1>6. metered' \in Int
  BY <1>4 DEF UdpInv, TableType
<1>7. TableType'
  BY <1>4, <1>5, <1>6 DEF UdpInv, TableType
<1>8. Opened'
  BY <1>4, <1>5 DEF UdpInv, Opened, TableType
<1>9. CASE sess' = sess /\ metered' = metered + 1
  <2>1. SessType' /\ Leased' /\ SharedBind' /\ Counted'
    BY <1>4, <1>9, SessionsAlone
  <2>2. Accounting'
    BY <1>4, <1>9, OneCounted
  <2>3. Fresh' /\ Table'
    BY <1>4, <1>5, <1>9 DEF UdpInv, Fresh, Table, Open
  <2>. QED
    BY <1>7, <1>8, <2>1, <2>2, <2>3 DEF UdpInv
<1>10. CASE sess' = [sess EXCEPT ![i].queue = Append(sess[i].queue, d.size)] /\ metered' = metered
  <2>1. sess \in [Ids -> SessRec] /\ sess[i] \in SessRec /\ Sound(sess[i])
    BY SessionsSound DEF UdpInv, SessType
  <2>2. PICK q \in Seq(Sizes) : q = Append(sess[i].queue, d.size) /\ Len(q) = Len(sess[i].queue) + 1
    <3>1. sess[i].queue \in Seq(Sizes)
      BY <2>1 DEF SessRec
    <3>2. Append(sess[i].queue, d.size) \in Seq(Sizes)
      BY ONLY <1>2, <3>1
    <3>3. Len(Append(sess[i].queue, d.size)) = Len(sess[i].queue) + 1
      BY ONLY <1>2, <3>1
    <3>. QED
      BY ONLY <3>2, <3>3, Zenon
  <2> DEFINE r == [sess[i] EXCEPT !.queue = q]
  <2>3. sess' = [sess EXCEPT ![i] = r]
    BY <1>10, <2>2
  <2>4. /\ r \in SessRec /\ r.flow = sess[i].flow /\ r.st = sess[i].st /\ r.queue = q
        /\ r.inflight = sess[i].inflight /\ r.counted = sess[i].counted
    BY <2>1 DEF SessRec
  <2> HIDE DEF r
  <2>5. Len(sess[i].queue) \in Nat /\ sess[i].inflight \in Nat /\ sess[i].counted \in Nat
    BY <2>1, DueIsNat
  <2>6. Due(r) = Due(sess[i]) + 1
    <3>1. PICK a \in Nat, b \in Nat, c \in Nat :
              a = sess[i].inflight /\ b = Len(sess[i].queue) /\ c = sess[i].counted
      BY <2>5
    <3>2. Len(r.queue) = Len(q) /\ Len(q) = b + 1
      BY ONLY <2>2, <2>4, <3>1, Zenon
    <3>3. r.inflight = a /\ r.counted = c
      BY <2>4, <3>1
    <3>4. Due(r) = a + (b + 1) - c
      BY ONLY <3>2, <3>3, Zenon DEF Due
    <3>5. Due(sess[i]) = a + b - c
      BY ONLY <3>1, Zenon DEF Due
    <3>. QED
      BY ONLY <3>4, <3>5, a \in Nat, b \in Nat, c \in Nat
  <2>7. Sound(r)
    BY <2>1, <2>2, <2>4, <2>5 DEF Sound
  <2>8. /\ sess'[i] = r /\ sess' \in [Ids -> SessRec]
        /\ \A j \in Ids : j # i => sess'[j] = sess[j]
    BY <2>1, <2>3, <2>4
  <2>9. \A j \in Ids : sess'[j].flow = sess[j].flow /\ sess'[j].st = sess[j].st
    BY <2>4, <2>8
  <2>10. Accounting'
    BY <1>4, <1>10, <2>3, <2>6, <2>7, OneQueued
  <2>11. SharedBind'
    BY <1>4, <2>9, SameUsers
  <2>12. SessType' /\ Leased'
    BY <1>4, <2>8, <2>9 DEF UdpInv, SessType, Leased
  <2>13. Counted'
    BY <2>7, <2>8 DEF UdpInv, Counted, Sound
  <2>14. Fresh'
    <3>1. i < nextId
      <4>1. sess[i] # NoSession
        BY <1>3 DEF NoSession, Open
      <4>. QED
        BY <4>1, Constants DEF UdpInv, Fresh, TableType
    <3>. QED
      BY <1>4, <2>8, <2>9, <3>1, Constants DEF UdpInv, Fresh, TableType
  <2>15. Table'
    <3>1. \A k \in DOMAIN completed : completed[k].id \in Ids
      BY CompletionsTyped
    <3>2. \A f \in Flows : entries[f] # None => entries[f] \in Ids
      BY DEF UdpInv, TableType
    <3>3. \A j \in Ids : Open(j)' => entries[sess'[j].flow] = j
      BY <2>9 DEF UdpInv, Table, Open
    <3>4. \A f \in Flows : entries[f] # None => sess'[entries[f]].flow = f
      BY <2>9, <3>2 DEF UdpInv, Table
    <3>5. \A k \in DOMAIN completed :
             sess'[completed[k].id].st = "gone" /\ sess'[completed[k].id].flow = completed[k].flow
      BY <2>9, <3>1 DEF UdpInv, Table
    <3>6. disp = "loop" => \A f \in Flows : entries[f] # None /\ sess'[entries[f]].st = "gone" =>
                              \E k \in DOMAIN completed : completed[k].id = entries[f]
      BY <2>9, <3>2 DEF UdpInv, Table
    <3>. QED
      BY <1>4, <1>5, <3>3, <3>4, <3>5, <3>6 DEF Table
  <2>. QED
    BY <1>7, <1>8, <2>10, <2>11, <2>12, <2>13, <2>14, <2>15 DEF UdpInv
<1>. QED
  BY <1>4, <1>9, <1>10

\* A session that was not opened holds nothing.
LEMMA FreshSession ==
    /\ NoSession \in SessRec /\ NoSession.st = "none" /\ NoSession.counted = 0 /\ Due(NoSession) = 0
    /\ \E q \in Seq(Sizes) :
          NoSession = [flow |-> None, st |-> "none", queue |-> q, inflight |-> 0, counted |-> 0]
<1>1. PICK q \in Seq(Sizes) : q = <<>> /\ Len(q) = 0
  <2>1. <<>> \in Seq(Sizes)
    OBVIOUS
  <2>2. Len(<<>>) = 0
    OBVIOUS
  <2>. QED
    BY ONLY <2>1, <2>2, Zenon
<1>2. NoSession = [flow |-> None, st |-> "none", queue |-> q, inflight |-> 0, counted |-> 0]
  BY ONLY <1>1, Zenon DEF NoSession
<1>3. NoSession \in SessRec
  BY <1>2 DEF SessRec, States
<1>4. NoSession.st = "none" /\ NoSession.counted = 0 /\ NoSession.inflight = 0 /\ NoSession.queue = q
  BY <1>2
<1>5. Len(NoSession.queue) = 0
  BY ONLY <1>1, <1>4, Zenon
<1>6. Due(NoSession) = 0
  BY ONLY <1>4, <1>5 DEF Due
<1>. QED
  BY <1>2, <1>3, <1>4, <1>6

\* A session task just spawned for a flow.
Spawned(f, size) == [NoSession EXCEPT !.flow = f, !.st = "spawned", !.queue = <<size>>]

\* The two ways in which an unknown flow ends: nothing is opened, or the next
\* session is, and the entry of a session that no longer listens goes either way.
LEMMA AdmitCases ==
    ASSUME UdpInv, Admit
    PROVE  \E f \in Flows, size \in Sizes :
              /\ entries[f] # None => entries[f] \in Ids /\ ~Open(entries[f])
              /\ \/ entries' = [entries EXCEPT ![f] = None] /\ metered' = metered + 1
                    /\ UNCHANGED <<nextId, sess>>
                 \/ /\ entries' = [entries EXCEPT ![f] = nextId] /\ nextId' = nextId + 1
                    /\ sess' = [sess EXCEPT ![nextId] = Spawned(f, size)]
                    /\ ~drainSeen /\ UNCHANGED metered
<1>1. PICK d \in Arrivals : d = Head(batch)
  BY BatchHead DEF Admit
<1>2. d.flow \in Flows /\ d.size \in Sizes
  BY <1>1, BatchHead DEF Admit, IsIllegalCall
<1>3. PICK f \in Flows, size \in Sizes : f = d.flow /\ size = d.size
  BY <1>2
<1>4. entries \in [Flows -> Ids \union {None}]
  BY DEF UdpInv, TableType
<1>5. entries[f] # None => ~Open(entries[f])
  BY <1>1, <1>3 DEF Admit
<1>6. PICK tab : tab = IF entries[f] = None THEN entries ELSE Complete(entries, f, entries[f])
  OBVIOUS
<1>7. tab = [entries EXCEPT ![f] = None]
  BY <1>4, <1>6 DEF Complete
<1>8. \/ entries' = tab /\ metered' = metered + 1 /\ UNCHANGED <<nextId, sess>>
      \/ /\ entries' = [tab EXCEPT ![f] = nextId] /\ nextId' = nextId + 1
         /\ sess' = [sess EXCEPT ![nextId] = Spawned(f, size)]
         /\ ~drainSeen /\ UNCHANGED metered
  BY <1>1, <1>3, <1>6 DEF Admit, Spawned
<1>9. [tab EXCEPT ![f] = nextId] = [entries EXCEPT ![f] = nextId]
  BY <1>4, <1>7
<1>. QED
  BY <1>4, <1>5, <1>7, <1>8, <1>9

\* SessionTable::admit: the flow has one session at most.
LEMMA AdmitKeeps ==
    ASSUME UdpInv, Admit
    PROVE  UdpInv'
<1>1. PICK f \in Flows, size \in Sizes :
          /\ entries[f] # None => entries[f] \in Ids /\ ~Open(entries[f])
          /\ \/ entries' = [entries EXCEPT ![f] = None] /\ metered' = metered + 1
                /\ UNCHANGED <<nextId, sess>>
             \/ /\ entries' = [entries EXCEPT ![f] = nextId] /\ nextId' = nextId + 1
                /\ sess' = [sess EXCEPT ![nextId] = Spawned(f, size)]
                /\ ~drainSeen /\ UNCHANGED metered
  BY AdmitCases
<1>2. batch # <<>> /\ Rest /\ UNCHANGED <<sockets, lease, completed, disp, drainSeen, shutdown, seen, lost>>
  BY DEF Admit
<1>3. batch' \in Seq(Arrivals) /\ Len(batch) \in Nat \ {0} /\ Len(batch') = Len(batch) - 1 /\ disp = "loop"
  BY <1>2, BatchHead DEF Rest
<1>4. entries \in [Flows -> Ids \union {None}] /\ nextId \in Nat /\ metered \in Int /\ seen \in Nat
  BY DEF UdpInv, TableType
<1>5. \A g \in Flows : entries[g] # None => entries[g] \in Ids /\ sess[entries[g]].flow = g
  BY <1>4 DEF UdpInv, Table
<1>6. \A j \in Ids : Open(j) => entries[sess[j].flow] = j /\ sess[j].flow \in Flows
  <2>1. ASSUME NEW j \in Ids, Open(j)
        PROVE  sess[j].flow \in Flows
    <3>1. sess[j] # NoSession
      BY <2>1 DEF NoSession, Open
    <3>. QED
      BY <3>1, <1>4, Constants DEF UdpInv, Fresh
  <2>. QED
    BY <2>1 DEF UdpInv, Table
<1>7. \A k \in DOMAIN completed :
          /\ completed[k].id \in Ids
          /\ sess[completed[k].id].st = "gone" /\ sess[completed[k].id].flow = completed[k].flow
  BY CompletionsTyped DEF UdpInv, Table
<1>8. CASE /\ entries' = [entries EXCEPT ![f] = None] /\ metered' = metered + 1
           /\ UNCHANGED <<nextId, sess>>
  <2>1. SessType' /\ Leased' /\ SharedBind' /\ Counted'
    BY <1>2, <1>8, SessionsAlone
  <2>2. Accounting'
    BY <1>2, <1>8, OneCounted
  <2>3. entries' \in [Flows -> Ids \union {None}] /\ metered' \in Int
    BY <1>4, <1>8
  <2>4. TableType'
    BY <1>2, <1>3, <1>8, <2>3 DEF UdpInv, TableType
  <2>5. Opened' /\ Fresh'
    BY <1>2, <1>3, <1>4, <1>8 DEF UdpInv, Opened, Fresh
  <2>6. \A g \in Flows : entries'[g] # None => entries'[g] = entries[g] /\ entries[g] # None
    BY <1>4, <1>8
  <2>7. \A j \in Ids : Open(j) => entries'[sess[j].flow] = j
    BY <1>1, <1>4, <1>6, <1>8, Constants
  <2>8. disp = "loop" => \A g \in Flows : entries'[g] # None /\ sess[entries'[g]].st = "gone" =>
                            \E k \in DOMAIN completed : completed[k].id = entries'[g]
    BY <2>6 DEF UdpInv, Table
  <2>9. Table'
    BY <1>2, <1>3, <1>5, <1>7, <1>8, <2>6, <2>7, <2>8 DEF Table, Open
  <2>. QED
    BY <2>1, <2>2, <2>4, <2>5, <2>9 DEF UdpInv
<1>9. CASE /\ entries' = [entries EXCEPT ![f] = nextId] /\ nextId' = nextId + 1
           /\ sess' = [sess EXCEPT ![nextId] = Spawned(f, size)]
           /\ ~drainSeen /\ UNCHANGED metered
  <2>1. nextId < MaxReceived /\ nextId' + Len(batch') <= seen /\ seen <= MaxReceived
    BY <1>3, <1>4, <1>9, Constants DEF UdpInv, Opened
  <2>2. PICK n \in Ids : n = nextId
    BY <1>4, <2>1, Constants
  <2>3. sess[n] = NoSession
    BY <1>4, <2>2, Constants DEF UdpInv, Fresh
  <2>4. sess[n].st = "none" /\ lease[n] = None /\ ~Open(n)
    BY <2>3 DEF NoSession, UdpInv, Leased, Open
  <2>5. PICK q \in Seq(Sizes) : q = <<size>> /\ Len(q) = 1
    <3>1. <<size>> \in Seq(Sizes)
      OBVIOUS
    <3>2. Len(<<size>>) = 1
      OBVIOUS
    <3>. QED
      BY ONLY <3>1, <3>2, Zenon
  <2>6. PICK r : r = [NoSession EXCEPT !.flow = f, !.st = "spawned", !.queue = q]
    OBVIOUS
  <2>7. Spawned(f, size) = r
    BY ONLY <2>5, <2>6, Zenon DEF Spawned
  <2>8. /\ r \in SessRec /\ r.flow = f /\ r.st = "spawned" /\ r.queue = q
        /\ r.inflight = 0 /\ r.counted = 0
    <3>1. NoSession \in SessRec /\ NoSession.inflight = 0 /\ NoSession.counted = 0
      BY FreshSession
    <3>. QED
      BY <2>6, <3>1 DEF SessRec, States
  <2>9. sess' = [sess EXCEPT ![n] = r]
    BY <1>9, <2>2, <2>7
  <2>10. Sound(r)
    BY <2>8 DEF Sound
  <2>11. Due(r) = Due(sess[n]) + 1
    <3>1. Len(r.queue) = 1
      BY <2>5, <2>8
    <3>2. Due(r) = 1
      BY <2>8, <3>1 DEF Due
    <3>3. Due(NoSession) = 0
      BY FreshSession
    <3>. QED
      BY <2>3, <3>2, <3>3
  <2>12. Accounting'
    BY <1>2, <1>9, <2>9, <2>10, <2>11, OneQueued
  <2>13. /\ sess'[n] = r /\ sess' \in [Ids -> SessRec]
         /\ \A j \in Ids : j # n => sess'[j] = sess[j]
    BY <2>8, <2>9 DEF UdpInv, SessType
  <2>14. SessType' /\ Leased' /\ Counted'
    BY <1>2, <2>4, <2>10, <2>13 DEF UdpInv, SessType, Leased, Counted, Sound
  <2>15. SharedBind'
    BY <1>2, <2>4, <2>13, SameUsers
  <2>16. entries' \in [Flows -> Ids \union {None}] /\ nextId' \in Nat
    BY <1>4, <1>9, <2>2
  <2>17. TableType' /\ Opened'
    BY <1>2, <1>3, <1>9, <2>1, <2>16 DEF UdpInv, TableType, Opened
  <2>18. Fresh'
    BY <1>4, <1>9, <2>2, <2>8, <2>13, Constants DEF UdpInv, Fresh
  <2>19. entries'[f] = n /\ \A g \in Flows : g # f => entries'[g] = entries[g]
    BY <1>4, <1>9, <2>2
  <2>20. \A g \in Flows : entries[g] # None => entries[g] # n
    BY <1>5, <2>3, Constants DEF NoSession
  <2>21. ASSUME NEW j \in Ids, Open(j)'
         PROVE  entries'[sess'[j].flow] = j
    <3>1. CASE j = n
      BY <2>8, <2>13, <2>19, <3>1
    <3>2. CASE j # n
      <4>1. Open(j) /\ sess'[j] = sess[j]
        BY <2>13, <2>21, <3>2 DEF Open
      <4>2. entries[sess[j].flow] = j /\ sess[j].flow \in Flows
        BY <1>6, <4>1
      <4>3. sess[j].flow # f
        BY <1>1, <4>1, <4>2, Constants
      <4>. QED
        BY <2>19, <4>1, <4>2, <4>3
    <3>. QED
      BY <3>1, <3>2
  <2>22. \A g \in Flows : entries'[g] # None => sess'[entries'[g]].flow = g
    BY <1>5, <2>8, <2>13, <2>19, <2>20
  <2>23. \A k \in DOMAIN completed : completed[k].id # n
    BY <1>7, <2>4
  <2>24. \A k \in DOMAIN completed :
             sess'[completed[k].id].st = "gone" /\ sess'[completed[k].id].flow = completed[k].flow
    BY <1>7, <2>13, <2>23
  <2>25. ASSUME disp = "loop", NEW g \in Flows, entries'[g] # None, sess'[entries'[g]].st = "gone"
         PROVE  \E k \in DOMAIN completed : completed[k].id = entries'[g]
    <3>1. g # f
      BY <2>8, <2>13, <2>19, <2>25
    <3>2. entries'[g] = entries[g] /\ sess'[entries[g]] = sess[entries[g]]
      BY <1>5, <2>13, <2>19, <2>20, <2>25, <3>1
    <3>. QED
      BY <2>25, <3>2 DEF UdpInv, Table
  <2>26. Table'
    BY <1>2, <1>3, <2>21, <2>22, <2>24, <2>25 DEF Table
  <2>. QED
    BY <2>12, <2>14, <2>15, <2>17, <2>18, <2>26 DEF UdpInv
<1>. QED
  BY <1>1, <1>8, <1>9

-----------------------------------------------------------------------------
(* The theorems                                                              *)

\* Nothing is received, open or leased at first.
LEMMA UdpStarts == UdpInit => UdpInv
<1> SUFFICES ASSUME UdpInit PROVE UdpInv
  OBVIOUS
<1>1. /\ entries = [f \in Flows |-> None] /\ nextId = 0 /\ sess = [i \in Ids |-> NoSession]
      /\ sockets = [d \in Dests |-> None] /\ lease = [i \in Ids |-> None]
      /\ completed = <<>> /\ batch = <<>>
      /\ disp = "loop" /\ drainSeen = FALSE /\ shutdown = "run"
      /\ seen = 0 /\ metered = 0 /\ lost = 0
  BY DEF UdpInit
<1>2. completed \in Seq(Completion) /\ batch \in Seq(Arrivals) /\ Len(batch) = 0 /\ DOMAIN completed = {}
  BY <1>1
<1>3. TableType
  <2>1. entries \in [Flows -> Ids \union {None}]
    BY <1>1
  <2>2. nextId \in Nat /\ seen \in Nat /\ metered \in Int /\ lost \in Int
    BY <1>1
  <2>3. disp \in {"loop", "done"} /\ drainSeen \in BOOLEAN /\ shutdown \in {"run", "waiting", "forced"}
    BY <1>1
  <2>. QED
    BY ONLY <1>2, <2>1, <2>2, <2>3 DEF TableType
<1>4. NoSession \in SessRec /\ NoSession.st = "none" /\ NoSession.counted = 0 /\ Due(NoSession) = 0
  BY FreshSession
<1>5. SessType
  BY <1>1, <1>4 DEF SessType
<1>6. \A i \in Ids : sess[i] = NoSession /\ lease[i] = None
  BY <1>1
<1>7. Opened
  BY <1>1, <1>2, Constants DEF Opened
<1>8. Fresh /\ Leased /\ Counted
  BY <1>1, <1>4, <1>6, Constants DEF Fresh, Leased, Counted
<1>9. Table
  BY <1>1, <1>2, <1>4, <1>6 DEF Table, Open
<1>10. SharedBind
  <2>1. ASSUME NEW d \in Dests PROVE {i \in Ids : lease[i] # None /\ DestOf[sess[i].flow] = d} = {}
    BY <1>6
  <2>. QED
    BY <1>1, <2>1 DEF SharedBind
<1>11. Accounting
  <2>1. \A i \in Ids : 1..Due(sess[i]) = {}
    BY <1>4, <1>6
  <2>2. Owed(sess) = {}
    BY <2>1 DEF Owed
  <2>3. Cardinality({}) = 0
    BY FS_EmptySet
  <2>4. Cardinality(Owed(sess)) = 0
    BY ONLY <2>2, <2>3, Zenon
  <2>5. seen = metered + lost + Len(batch) + Cardinality(Owed(sess))
    BY <1>1, <1>2, <2>4
  <2>. QED
    BY <2>5 DEF Accounting, Owed
<1>. QED
  BY <1>3, <1>5, <1>7, <1>8, <1>9, <1>10, <1>11 DEF UdpInv

\* Every step of the dispatcher, of a session or of run_with_drain keeps it.
LEMMA UdpKept == UdpInv /\ [UdpNext]_udpVars => UdpInv'
<1> SUFFICES ASSUME UdpInv, [UdpNext]_udpVars PROVE UdpInv'
  OBVIOUS
<1>0. drainSeen \in BOOLEAN /\ shutdown \in {"run", "waiting", "forced"}
  BY DEF UdpInv, TableType
<1>1. CASE UNCHANGED udpVars
  <2>1. UNCHANGED <<entries, nextId, sess, sockets, lease, completed, batch, seen, metered, lost, disp, drainSeen, shutdown>>
    BY <1>1 DEF udpVars, countVars
  <2>. QED
    BY <1>0, <2>1, QuietKeeps
<1>2. CASE SeeForce \/ SeeDrain \/ DispatcherReturns
  <2>1. /\ UNCHANGED <<entries, nextId, sess, sockets, lease, completed, batch, seen, metered, lost>>
        /\ disp' = disp \/ (disp' = "done" /\ batch = <<>>)
        /\ drainSeen' \in BOOLEAN /\ shutdown' \in {"run", "waiting", "forced"}
    BY <1>0, <1>2 DEF SeeForce, SeeDrain, DispatcherReturns, Turn, tableVars, countVars
  <2>. QED
    BY <2>1, QuietKeeps
<1>3. CASE DrainGraceful \/ DrainImmediate \/ Deadline \/ Drained
  <2>1. /\ UNCHANGED <<entries, nextId, sess, sockets, lease, completed, batch, seen, metered, lost, disp, drainSeen>>
        /\ shutdown' \in {"run", "waiting", "forced"}
    BY <1>3 DEF DrainGraceful, DrainImmediate, Deadline, Drained, Elsewhere, tableVars, countVars
  <2>. QED
    BY <1>0, <2>1, QuietKeeps
<1>4. CASE TakeCompletion
  BY <1>4, TakeCompletionKeeps
<1>5. CASE Refuse
  BY <1>5, RefuseKeeps
<1>6. CASE Enqueue
  BY <1>6, EnqueueKeeps
<1>7. CASE Admit
  BY <1>7, AdmitKeeps
<1>8. CASE \E b \in Batches, dropped \in 0..MaxPerReady : Receive(b, dropped)
  <2>1. PICK b \in Batches, dropped \in 0..MaxPerReady : Receive(b, dropped)
    BY <1>8
  <2>2. dropped \in Nat
    BY UdpAssumption
  <2>. QED
    BY <2>1, <2>2, ReceiveKeeps
<1>9. CASE \E i \in Ids : Session(i)
  BY <1>9, SessionKeeps
<1>. QED
  BY <1>1, <1>2, <1>3, <1>4, <1>5, <1>6, <1>7, <1>8, <1>9 DEF UdpNext, Dispatcher

\* The inductive invariant of the dispatcher, its sessions and their sockets.
THEOREM UdpInvariant == UdpSpec => []UdpInv
  BY UdpStarts, UdpKept, PTL DEF UdpSpec

\* The variables have their types: in particular a socket in the pool always has
\* a user.
THEOREM TypeCorrect == UdpSpec => []UdpTypeOK
<1>1. UdpInv => UdpTypeOK
  <2> SUFFICES ASSUME UdpInv PROVE UdpTypeOK
    OBVIOUS
  <2>1. nextId \in 0..MaxReceived
    <3>1. nextId \in Nat /\ Len(batch) \in Nat /\ seen \in Nat /\ nextId + Len(batch) <= seen /\ seen <= MaxReceived
      BY DEF UdpInv, Opened, TableType
    <3>. QED
      BY <3>1, Constants
  <2>2. \A i \in Ids : sess[i].st \in States /\ sess[i].queue \in Seq(Sizes) /\ sess[i].inflight \in Nat
    BY DEF UdpInv, SessType, SessRec
  <2>3. ASSUME NEW d \in Dests, sockets[d] # None
        PROVE  sockets[d].sock \in Ids /\ sockets[d].users \in Nat \ {0}
    <3>1. sockets[d] \in Entry /\ Pooled(sockets, lease, sess, d)
      BY <2>3, SharedBindIs DEF UdpInv, SessType
    <3>2. sockets[d].users = Cardinality(Users(lease, sess, d)) /\ Users(lease, sess, d) # {}
      BY <2>3, <3>1 DEF Pooled
    <3>3. IsFiniteSet(Users(lease, sess, d)) /\ Cardinality(Users(lease, sess, d)) \in Nat
      BY UsersFinite
    <3>4. Cardinality(Users(lease, sess, d)) # 0
      BY ONLY <3>2, <3>3, FS_EmptySet
    <3>. QED
      BY <3>1, <3>2, <3>3, <3>4 DEF Entry
  <2>. QED
    BY <2>1, <2>2, <2>3 DEF UdpTypeOK, UdpInv, TableType
<1>. QED
  BY <1>1, UdpInvariant, PTL

\* What the table, the socket pool and the counters say of the sessions is true:
\* a flow has one session that listens, the sessions of a destination share one
\* bound socket, and every datagram received is written, dropped, waiting or
\* among the few that the code is known to lose.
THEOREM SessionsAlwaysAccounted == UdpSpec => []SessionsAccounted
<1>1. UdpInv => SessionsAccounted
  BY DEF UdpInv, SessionsAccounted, TableMatchesSessions, Table
<1>. QED
  BY <1>1, UdpInvariant, PTL

-----------------------------------------------------------------------------
(* The contract of a graceful drain                                          *)

\* The dispatcher and its sessions as the contract sees them.
Phase == IF disp = "loop" THEN (IF drainSeen THEN "draining" ELSE "serving")
         ELSE IF drainSeen /\ \A f \in Flows : entries[f] = None THEN "stopped" ELSE "aborted"

Active == {i \in Ids : Open(i)}

\* A session that listens has a flow, and the table names it.
LEMMA OpenIsListed ==
    ASSUME UdpInv, NEW i \in Ids, Open(i)
    PROVE  sess[i].flow \in Flows /\ entries[sess[i].flow] = i
<1>1. sess[i] # NoSession
  BY DEF NoSession, Open
<1>2. nextId \in Nat
  BY DEF UdpInv, TableType
<1>. QED
  BY <1>1, <1>2, Constants DEF UdpInv, Fresh, Table

\* A session that steps is no longer listening at most.
LEMMA SessionContract ==
    ASSUME UdpInv, NEW i \in Ids, Session(i)
    PROVE  [Contract!Next]_<<Phase, Active>>
<1>1. PICK r : Turned(i, r)
  BY SessionTurns
<1>2. sess'[i] = r /\ \A j \in Ids : j # i => sess'[j] = sess[j]
  BY <1>1, TurnedRecords
<1>3. Phase' = Phase
  BY <1>1 DEF Turned, Outside, tableVars, Phase
<1>4. \A j \in Ids : j # i => (Open(j)' <=> Open(j))
  BY <1>2 DEF Open
<1>5. Open(i)' => Open(i)
  BY <1>1, <1>2 DEF Open, Turned, IsOpen
<1>6. CASE Open(i) /\ ~Open(i)'
  <2>1. i \in Active /\ Active' = Active \ {i}
    BY <1>4, <1>6 DEF Active
  <2>2. Contract!Finish(i)
    BY <1>3, <2>1 DEF Contract!Finish, Active, Phase
  <2>. QED
    BY <2>2 DEF Contract!Next
<1>7. CASE ~(Open(i) /\ ~Open(i)')
  <2>1. Active' = Active
    BY <1>4, <1>5, <1>7 DEF Active
  <2>. QED
    BY <1>3, <2>1
<1>. QED
  BY <1>6, <1>7

\* Every step is a step of the contract or leaves it alone.
LEMMA ContractStep ==
    ASSUME UdpInv, [UdpNext]_udpVars
    PROVE  [Contract!Next]_<<Phase, Active>>
<1>1. CASE UNCHANGED udpVars \/ Refuse \/ DrainGraceful \/ DrainImmediate \/ Deadline \/ Drained
  <2>1. UNCHANGED <<entries, sess, disp, drainSeen>>
    BY <1>1 DEF udpVars, Refuse, DrainGraceful, DrainImmediate, Deadline, Drained, Elsewhere, tableVars
  <2>. QED
    BY <2>1 DEF Phase, Active, Open
<1>2. CASE \E b \in Batches, dropped \in 0..MaxPerReady : Receive(b, dropped)
  <2>1. UNCHANGED <<entries, sess, disp, drainSeen>>
    BY <1>2 DEF Receive, tableVars
  <2>. QED
    BY <2>1 DEF Phase, Active, Open
<1>3. CASE SeeForce
  <2>1. /\ disp = "loop" /\ disp' = "done" /\ UNCHANGED <<entries, sess, drainSeen>>
        /\ ~(drainSeen /\ \A f \in Flows : entries[f] = None)
    BY <1>3 DEF SeeForce, Turn, tableVars
  <2>2. Active' = Active
    BY <2>1 DEF Active, Open
  <2>3. Phase \in {"serving", "draining"} /\ Phase' = "aborted"
    BY <2>1 DEF Phase
  <2>4. Contract!Abort
    BY <2>2, <2>3 DEF Contract!Abort, Active, Phase
  <2>. QED
    BY <2>4 DEF Contract!Next
<1>4. CASE SeeDrain
  <2>1. disp = "loop" /\ ~drainSeen /\ drainSeen' = TRUE /\ UNCHANGED <<entries, sess, disp>>
    BY <1>4 DEF SeeDrain, Turn, tableVars
  <2>2. Active' = Active
    BY <2>1 DEF Active, Open
  <2>3. Phase = "serving" /\ Phase' = "draining"
    BY <2>1 DEF Phase
  <2>4. Contract!StartDrain
    BY <2>2, <2>3 DEF Contract!StartDrain, Active, Phase
  <2>. QED
    BY <2>4 DEF Contract!Next
<1>5. CASE DispatcherReturns
  <2>1. /\ disp = "loop" /\ drainSeen /\ disp' = "done" /\ UNCHANGED <<entries, sess, drainSeen>>
        /\ \A f \in Flows : entries[f] = None
    BY <1>5 DEF DispatcherReturns, tableVars
  <2>2. \A i \in Ids : ~Open(i)
    BY <2>1, OpenIsListed, Constants
  <2>3. Active = {} /\ Active' = Active
    BY <2>1, <2>2 DEF Active, Open
  <2>4. Phase = "draining" /\ Phase' = "stopped"
    BY <2>1 DEF Phase
  <2>5. Contract!Stop
    BY <2>3, <2>4 DEF Contract!Stop, Active, Phase
  <2>. QED
    BY <2>5 DEF Contract!Next
<1>6. CASE TakeCompletion
  <2>1. disp = "loop" /\ UNCHANGED <<sess, disp, drainSeen>>
    BY <1>6 DEF TakeCompletion, Turn
  <2>. QED
    BY <2>1 DEF Phase, Active, Open
<1>7. CASE Enqueue
  <2>1. disp = "loop" /\ UNCHANGED <<entries, disp, drainSeen>>
    BY <1>7, BatchHead DEF Enqueue, tableVars
  <2>2. \A j \in Ids : sess'[j].st = sess[j].st
    <3>1. sess \in [Ids -> SessRec]
      BY DEF UdpInv, SessType
    <3>2. PICK i, q : UNCHANGED sess \/ sess' = [sess EXCEPT ![i].queue = q]
      BY <1>7 DEF Enqueue
    <3>. QED
      BY ONLY <3>1, <3>2, ZenonT(60) DEF SessRec
  <2>. QED
    BY <2>1, <2>2 DEF Phase, Active, Open
<1>8. CASE Admit
  <2>1. disp = "loop" /\ UNCHANGED <<disp, drainSeen>> /\ batch # <<>>
    BY <1>8, BatchHead DEF Admit
  <2>2. Phase' = Phase
    BY <2>1 DEF Phase
  <2>3. PICK f \in Flows, size \in Sizes :
          \/ UNCHANGED sess
          \/ sess' = [sess EXCEPT ![nextId] = Spawned(f, size)] /\ ~drainSeen
    BY <1>8, AdmitCases
  <2>4. CASE UNCHANGED sess
    BY <2>2, <2>4 DEF Active, Open
  <2>5. CASE sess' = [sess EXCEPT ![nextId] = Spawned(f, size)] /\ ~drainSeen
    <3>1. nextId \in Ids
      <4>1. nextId \in Nat /\ Len(batch) \in Nat \ {0} /\ seen \in Nat
            /\ nextId + Len(batch) <= seen /\ seen <= MaxReceived
        BY <2>1, BatchHead DEF UdpInv, Opened, TableType
      <4>. QED
        BY <4>1, Constants
    <3>2. sess[nextId] = NoSession
      BY <3>1, Constants DEF UdpInv, Fresh, TableType
    <3>3. ~Open(nextId)
      BY <3>2 DEF Open, NoSession
    <3>4. sess \in [Ids -> SessRec]
      BY DEF UdpInv, SessType
    <3>5. Spawned(f, size).st = "spawned"
      <4>1. NoSession \in SessRec
        BY FreshSession
      <4>. QED
        BY <4>1 DEF Spawned, SessRec
    <3>6. sess'[nextId].st = "spawned" /\ \A j \in Ids : j # nextId => sess'[j] = sess[j]
      BY <2>5, <3>1, <3>4, <3>5
    <3>7. nextId \notin Active /\ Active' = Active \cup {nextId}
      BY <3>1, <3>3, <3>6 DEF Active, Open
    <3>8. Phase = "serving"
      BY <2>1, <2>5 DEF Phase
    <3>9. Contract!TakeUp(nextId)
      BY <2>2, <3>7, <3>8 DEF Contract!TakeUp, Active, Phase
    <3>. QED
      BY <3>1, <3>9 DEF Contract!Next
  <2>. QED
    BY <2>3, <2>4, <2>5
<1>9. CASE \E i \in Ids : Session(i)
  BY <1>9, SessionContract
<1>. QED
  BY <1>1, <1>2, <1>3, <1>4, <1>5, <1>6, <1>7, <1>8, <1>9 DEF UdpNext, Dispatcher

\* The dispatcher implements the contract of a graceful drain: it takes up no
\* session after it saw the drain, and returns from the drain only when the last
\* one has stopped listening.  This is the safety part of DrainContract.
THEOREM DrainIsGraceful == UdpSpec => Contract!Spec
<1>1. UdpInit => Contract!Init
  BY DEF UdpInit, Contract!Init, Open, NoSession
<1>2. UdpInv /\ [UdpNext]_udpVars => [Contract!Next]_<<Phase, Active>>
  BY ContractStep
<1>. QED
  BY <1>1, <1>2, UdpInvariant, PTL DEF UdpSpec, Contract!Spec, Phase, Active
=============================================================================
