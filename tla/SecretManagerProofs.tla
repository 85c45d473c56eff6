------------------------- MODULE SecretManagerProofs -------------------------
(***************************************************************************)
(* TLAPS proofs about SecretManager, for any identities, clients, channel  *)
(* capacity, lifetimes and delays: the shared map and the worker's         *)
(* bookkeeping agree up to the requests in flight, and renewals are due    *)
(* before certificates expire.                                             *)
(***************************************************************************)
EXTENDS SecretManager, SequenceTheorems, TLAPS

\* The worker holds one result at a time, nothing is pending while it is being
\* fetched or stored, and a result is due again before it expires.
WorkerSound ==
    /\ job \in Results \cup {NoReq}
    /\ \A i \in Ids : pendPri[i] # "none" => processing[i] = "none"
    /\ job.op = "store" =>
          /\ processing[job.id] = "none" /\ pendPri[job.id] = "none"
          /\ job.state = "available" => job.at <= job.life

\* A client that posts has a request to post, for the identity it waits for.
ClientSound ==
    \A c \in Clients : cpc[c] = "posting" =>
        req[c] \in Requests /\ (req[c].op = "fetch" => rx[c] = req[c].id)

\* Someone is bound to refresh the identity: the worker, a request in the
\* channel, or the client that inserted its channel and is about to post.
Bound(i) ==
    \/ pendPri[i] # "none"
    \/ processing[i] = "processing"
    \/ job.op = "store" /\ job.id = i
    \/ \E n \in 1..Len(queue) : queue[n].op = "fetch" /\ queue[n].id = i
    \/ \E c \in Clients : /\ cpc[c] = "posting" /\ req[c] = Fetch(i, initPri[i])
                          /\ rx[c] = i /\ last[c] = "live"

\* The two sides of the agreement between the map and the worker.
ManagedIsBound == running => \A i \in Ids : cert[i] # "absent" /\ i \notin abandoned => Bound(i)

ForgottenIsTold ==
    running => \A i \in Ids :
        cert[i] = "absent" /\ (pendPri[i] # "none" \/ processing[i] = "processing") => InFlight(Forget(i))

\* What ManagedIsRefreshed and RenewedBeforeExpiry need to be inductive.
SecretInv ==
    TypeOK /\ WorkerSound /\ ClientSound /\ ManagedIsBound /\ ForgottenIsTold /\ RenewedBeforeExpiry

-----------------------------------------------------------------------------
\* Taking the first request from the channel leaves the others in it.
LEMMA QueueTail ==
    ASSUME NEW q \in Seq(Requests), q # <<>>, NEW r, r = Tail(q)
    PROVE  /\ r \in Seq(Requests) /\ Len(r) <= Len(q) /\ Head(q) \in Requests
           /\ \A n \in 1..Len(q) : q[n] = Head(q) \/ \E m \in 1..Len(r) : r[m] = q[n]
  <1>1. /\ Len(q) \in Nat \ {0} /\ Head(q) = q[1] /\ r \in Seq(Requests) /\ Len(r) = Len(q) - 1
        /\ \A m \in 1..Len(r) : r[m] = q[m + 1]
    BY HeadTailProperties
  <1>2. ASSUME NEW n \in 1..Len(q), n # 1 PROVE n - 1 \in 1..Len(r) /\ r[n - 1] = q[n]
    BY <1>1, <1>2
  <1>3. Head(q) \in Requests
    BY <1>1, ElementOfSeq
  <1> QED
    BY <1>1, <1>2, <1>3

\* Posting a request keeps those already in the channel.
LEMMA QueueAppend ==
    ASSUME NEW q \in Seq(Requests), NEW a \in Requests, NEW r, r = Append(q, a)
    PROVE  /\ r \in Seq(Requests) /\ Len(r) = Len(q) + 1
           /\ \A n \in 1..Len(q) : \E m \in 1..Len(r) : r[m] = q[n]
           /\ \E m \in 1..Len(r) : r[m] = a
  <1>1. /\ Len(q) \in Nat /\ r \in Seq(Requests) /\ Len(r) = Len(q) + 1
        /\ r[Len(q) + 1] = a /\ \A n \in 1..Len(q) : r[n] = q[n]
    BY AppendProperties
  <1>2. Len(q) + 1 \in 1..Len(r) /\ \A n \in 1..Len(q) : n \in 1..Len(r)
    BY <1>1
  <1> QED
    BY <1>1, <1>2

\* The part of TypeOK about the map, and the part about the clients.
MapType ==
    /\ cert \in [Ids -> CertStates]
    /\ initPri \in [Ids -> Priorities \cup {"none"}]
    /\ life \in [Ids -> Nat]
    /\ abandoned \subseteq Ids

ClientType ==
    /\ cpc \in [Clients -> {"idle", "posting", "waiting"}]
    /\ req \in [Clients -> Requests \cup {NoReq}]
    /\ rx \in [Clients -> Ids \cup {NoId}]
    /\ last \in [Clients -> {"live", "initializing", "available", "unavailable"}]

WorkerType ==
    /\ queue \in Seq(Requests) /\ Len(queue) <= QueueCap
    /\ job \in Results \cup {NoReq}
    /\ processing \in [Ids -> {"none", "processing", "forgetting"}]
    /\ pendPri \in [Ids -> Priorities \cup {"none"}]
    /\ pendAt \in [Ids -> Nat]
    /\ backoff \subseteq Ids
    /\ running \in BOOLEAN

\* TypeOK falls into these parts.
LEMMA TypeParts ==
    ASSUME WorkerSound
    PROVE  TypeOK <=> MapType /\ ClientType /\ WorkerType
  BY DEF TypeOK, MapType, ClientType, WorkerType, WorkerSound

\* A client looks an identity up and inserts its channel if there is none.
LEMMA StartFetchStep ==
    ASSUME SecretInv, NEW c \in Clients, NEW i \in Ids, NEW pri \in {"Warmup", "RealTime"},
           StartFetchKnown(c, i, pri) \/ StartFetchNew(c, i, pri)
    PROVE  SecretInv'
  <1> USE DEF SecretInv
  <1>1. MapType /\ ClientType /\ WorkerType
    BY TypeParts
  <1>2. UNCHANGED <<life, workerVars, abandoned>> /\ cpc[c] = "idle"
    BY DEF StartFetchKnown, StartFetchNew, mapVars
  <1>3. Fetch(i, pri) \in Requests /\ Fetch(i, pri).op = "fetch" /\ Fetch(i, pri).id = i
    BY DEF Fetch, Requests, Priorities
  <1>4. /\ rx' \in [Clients -> Ids \cup {NoId}]
        /\ \A d \in Clients : rx'[d] = IF d = c THEN i ELSE rx[d]
    BY <1>1 DEF StartFetchKnown, StartFetchNew, ClientType
  <1>5. /\ last' \in [Clients -> {"live", "initializing", "available", "unavailable"}]
        /\ \A d \in Clients : last'[d] = IF d = c THEN "live" ELSE last[d]
    BY <1>1 DEF StartFetchKnown, StartFetchNew, ClientType
  <1>6. /\ cpc' \in [Clients -> {"idle", "posting", "waiting"}]
        /\ req' \in [Clients -> Requests \cup {NoReq}]
        /\ \A d \in Clients \ {c} : cpc'[d] = cpc[d] /\ req'[d] = req[d]
        /\ cpc'[c] = "posting" => req'[c] = Fetch(i, pri)
    BY <1>1, <1>3 DEF StartFetchKnown, StartFetchNew, ClientType
  <1>7. /\ cert' \in [Ids -> CertStates] /\ initPri' \in [Ids -> Priorities \cup {"none"}]
        /\ \A j \in Ids \ {i} : cert'[j] = cert[j] /\ initPri'[j] = initPri[j]
        /\ \/ cert' = cert /\ initPri' = initPri
           \/ cert'[i] # "absent" /\ cpc'[c] = "posting" /\ initPri'[i] = pri /\ cert[i] = "absent"
        /\ cert'[i] # "absent" /\ (cert'[i] = "available" => cert[i] = "available")
    BY <1>1 DEF StartFetchKnown, StartFetchNew, MapType, ClientType, mapVars, CertStates, Priorities
  <1>8. WorkerSound'
    BY <1>2 DEF WorkerSound, workerVars
  <1>9. TypeOK'
    <2>1. MapType'
      BY <1>1, <1>2, <1>7 DEF MapType
    <2>2. ClientType'
      BY <1>4, <1>5, <1>6 DEF ClientType
    <2>3. WorkerType'
      BY <1>1, <1>2 DEF WorkerType, workerVars
    <2> QED
      BY <1>8, <2>1, <2>2, <2>3 DEF TypeOK, MapType, ClientType, WorkerType
  <1>10. ClientSound'
    BY <1>3, <1>4, <1>6 DEF ClientSound
  <1>11. ManagedIsBound'
    <2> SUFFICES ASSUME running, NEW j \in Ids, cert'[j] # "absent", j \notin abandoned
                 PROVE  Bound(j)'
      BY <1>2 DEF ManagedIsBound, workerVars
    <2>1. CASE cert'[j] = cert[j] /\ initPri'[j] = initPri[j]
      <3>1. Bound(j)
        BY <2>1 DEF ManagedIsBound
      <3> QED
        BY <3>1, <2>1, <1>2, <1>4, <1>5, <1>6 DEF Bound, workerVars, Fetch
    <2>2. CASE j = i /\ cpc'[c] = "posting" /\ initPri'[i] = pri
      BY <2>2, <1>4, <1>5, <1>6 DEF Bound
    <2> QED
      BY <2>1, <2>2, <1>7
  <1>12. ForgottenIsTold'
    <2> SUFFICES ASSUME running, NEW j \in Ids, cert'[j] = "absent",
                        pendPri[j] # "none" \/ processing[j] = "processing"
                 PROVE  InFlight(Forget(j))'
      BY <1>2 DEF ForgottenIsTold, workerVars, InFlight
    <2>1. InFlight(Forget(j))
      BY <1>7 DEF ForgottenIsTold
    <2> QED
      BY <2>1, <1>2, <1>6 DEF InFlight, workerVars, Forget
  <1>13. RenewedBeforeExpiry'
    BY <1>2, <1>7 DEF RenewedBeforeExpiry, workerVars
  <1> QED
    BY <1>8, <1>9, <1>10, <1>11, <1>12, <1>13

\* forget_certificate removes the channel and is about to tell the worker.
LEMMA ForgetStep ==
    ASSUME SecretInv, NEW c \in Clients, NEW i \in Ids, ForgetCertificate(c, i)
    PROVE  SecretInv'
  <1> USE DEF SecretInv
  <1>1. MapType /\ ClientType /\ WorkerType
    BY TypeParts
  <1>2. UNCHANGED <<rx, workerVars>> /\ cpc[c] = "idle" /\ abandoned' = abandoned \ {i}
    BY DEF ForgetCertificate
  <1>3. Forget(i) \in Requests /\ Forget(i).op = "forget"
    BY DEF Forget, Requests, Priorities
  <1>4. /\ last' \in [Clients -> {"live", "initializing", "available", "unavailable"}]
        /\ \A d \in Clients : rx[d] # i => last'[d] = last[d]
    BY <1>1 DEF ForgetCertificate, ClientType, MapType, CertStates
  <1>5. /\ cpc' \in [Clients -> {"idle", "posting", "waiting"}]
        /\ req' \in [Clients -> Requests \cup {NoReq}]
        /\ \A d \in Clients \ {c} : cpc'[d] = cpc[d] /\ req'[d] = req[d]
        /\ cpc'[c] = "posting" /\ req'[c] = Forget(i)
    BY <1>1, <1>3 DEF ForgetCertificate, ClientType
  <1>6. MapType'
    BY <1>1 DEF ForgetCertificate, MapType, CertStates
  <1>7. /\ cert'[i] = "absent"
        /\ \A j \in Ids \ {i} : cert'[j] = cert[j] /\ initPri'[j] = initPri[j] /\ life'[j] = life[j]
    BY <1>1 DEF ForgetCertificate, MapType
  <1>8. WorkerSound'
    BY <1>2 DEF WorkerSound, workerVars
  <1>9. TypeOK'
    <2>1. ClientType'
      BY <1>1, <1>2, <1>4, <1>5 DEF ClientType
    <2>2. WorkerType'
      BY <1>1, <1>2 DEF WorkerType, workerVars
    <2> QED
      BY <1>6, <2>1, <2>2 DEF TypeOK, MapType, ClientType, WorkerType
  <1>10. ClientSound'
    BY <1>2, <1>3, <1>5 DEF ClientSound
  <1>11. ManagedIsBound'
    <2> SUFFICES ASSUME running, NEW j \in Ids, cert'[j] # "absent", j \notin abandoned'
                 PROVE  Bound(j)'
      BY <1>2 DEF ManagedIsBound, workerVars
    <2>1. j # i /\ Bound(j)
      BY <1>2, <1>7 DEF ManagedIsBound
    <2> QED
      BY <2>1, <1>2, <1>4, <1>5, <1>7 DEF Bound, workerVars, Fetch
  <1>12. ForgottenIsTold'
    <2> SUFFICES ASSUME running, NEW j \in Ids, cert'[j] = "absent",
                        pendPri[j] # "none" \/ processing[j] = "processing"
                 PROVE  InFlight(Forget(j))'
      BY <1>2 DEF ForgottenIsTold, workerVars, InFlight
    <2>1. CASE j = i
      BY <2>1, <1>5 DEF InFlight, Forget
    <2>2. CASE j # i
      <3>1. InFlight(Forget(j))
        BY <2>2, <1>7 DEF ForgottenIsTold
      <3> QED
        BY <3>1, <1>2, <1>5 DEF InFlight, workerVars, Forget
    <2> QED
      BY <2>1, <2>2
  <1>13. RenewedBeforeExpiry'
    BY <1>2, <1>7 DEF RenewedBeforeExpiry, workerVars
  <1> QED
    BY <1>8, <1>9, <1>10, <1>11, <1>12, <1>13

\* The request enters the channel.
LEMMA PostStep ==
    ASSUME SecretInv, NEW c \in Clients, Post(c)
    PROVE  SecretInv'
  <1> USE DEF SecretInv
  <1>1. MapType /\ ClientType /\ WorkerType
    BY TypeParts
  <1>2. UNCHANGED <<mapVars, rx, last, job, processing, pendVars, backoff, running, abandoned>>
    BY DEF Post
  <1>3. PICK a \in Requests : a = req[c]
    BY DEF Post, ClientSound
  <1>4. /\ queue' \in Seq(Requests) /\ Len(queue') <= QueueCap
        /\ \A n \in 1..Len(queue) : \E m \in 1..Len(queue') : queue'[m] = queue[n]
        /\ \E m \in 1..Len(queue') : queue'[m] = a
    <2>1. queue \in Seq(Requests) /\ Len(queue) < QueueCap /\ queue' = Append(queue, a)
      BY <1>1, <1>3 DEF Post, WorkerType
    <2>2. Len(queue) \in Nat /\ QueueCap \in Nat
      BY <2>1, LenProperties, SecretManagerAssumption
    <2> QED
      BY <2>1, <2>2, QueueAppend
  <1>5. /\ cpc' \in [Clients -> {"idle", "posting", "waiting"}]
        /\ req' \in [Clients -> Requests \cup {NoReq}]
        /\ \A d \in Clients \ {c} : cpc'[d] = cpc[d] /\ req'[d] = req[d]
        /\ cpc'[c] # "posting"
    BY <1>1 DEF Post, ClientType
  <1>6. WorkerSound'
    BY <1>2 DEF WorkerSound, pendVars
  <1>7. TypeOK'
    <2>1. MapType'
      BY <1>1, <1>2 DEF MapType, mapVars
    <2>2. ClientType'
      BY <1>1, <1>2, <1>5 DEF ClientType
    <2>3. WorkerType'
      BY <1>1, <1>2, <1>4 DEF WorkerType, pendVars
    <2> QED
      BY <2>1, <2>2, <2>3 DEF TypeOK, MapType, ClientType, WorkerType
  <1>8. ClientSound'
    BY <1>2, <1>5 DEF ClientSound
  <1>9. ManagedIsBound'
    <2> SUFFICES ASSUME running, NEW j \in Ids, Bound(j)
                 PROVE  Bound(j)'
      BY <1>2 DEF ManagedIsBound, mapVars
    <2>1. CASE \E n \in 1..Len(queue) : queue[n].op = "fetch" /\ queue[n].id = j
      BY <2>1, <1>4 DEF Bound
    <2>2. CASE \E d \in Clients : /\ cpc[d] = "posting" /\ req[d] = Fetch(j, initPri[j])
                                  /\ rx[d] = j /\ last[d] = "live"
      <3>1. PICK d \in Clients : /\ cpc[d] = "posting" /\ req[d] = Fetch(j, initPri[j])
                                 /\ rx[d] = j /\ last[d] = "live"
        BY <2>2
      <3>2. CASE d = c
        BY <3>1, <3>2, <1>3, <1>4 DEF Bound, Fetch
      <3>3. CASE d # c
        BY <3>1, <3>3, <1>2, <1>5 DEF Bound, mapVars
      <3> QED
        BY <3>2, <3>3
    <2> QED
      BY <2>1, <2>2, <1>2 DEF Bound, pendVars
  <1>10. ForgottenIsTold'
    <2> SUFFICES ASSUME NEW j \in Ids, InFlight(Forget(j))
                 PROVE  InFlight(Forget(j))'
      BY <1>2 DEF ForgottenIsTold, mapVars, pendVars
    <2>1. CASE \E d \in Clients : cpc[d] = "posting" /\ req[d] = Forget(j)
      <3>1. PICK d \in Clients : cpc[d] = "posting" /\ req[d] = Forget(j)
        BY <2>1
      <3>2. CASE d = c
        BY <3>1, <3>2, <1>3, <1>4 DEF InFlight, Forget
      <3>3. CASE d # c
        BY <3>1, <3>3, <1>5 DEF InFlight, Forget
      <3> QED
        BY <3>2, <3>3
    <2>2. CASE \E n \in 1..Len(queue) : queue[n] = Forget(j)
      BY <2>2, <1>4 DEF InFlight, Forget
    <2> QED
      BY <2>1, <2>2 DEF InFlight
  <1>11. RenewedBeforeExpiry'
    BY <1>2 DEF RenewedBeforeExpiry, mapVars, pendVars
  <1> QED
    BY <1>6, <1>7, <1>8, <1>9, <1>10, <1>11

\* A fetch returns or is dropped; an identity whose first request is dropped
\* with it is abandoned.
LEMMA LeaveStep ==
    ASSUME SecretInv, NEW c \in Clients, Return(c) \/ CancelFetch(c)
    PROVE  SecretInv'
  <1> USE DEF SecretInv
  <1>1. MapType /\ ClientType /\ WorkerType
    BY TypeParts
  <1>2. UNCHANGED <<mapVars, workerVars>>
    BY DEF Return, CancelFetch
  <1>3. /\ abandoned \subseteq abandoned'
        /\ cpc[c] = "posting" =>
              /\ req[c].op = "fetch" /\ rx[c] \in Ids
              /\ last[c] = "live" /\ req[c].pri = initPri[rx[c]] => rx[c] \in abandoned'
        /\ abandoned' \subseteq Ids
    BY <1>1 DEF Return, CancelFetch, ClientSound, MapType, Requests
  <1>4. /\ cpc' \in [Clients -> {"idle", "posting", "waiting"}]
        /\ req' \in [Clients -> Requests \cup {NoReq}]
        /\ rx' \in [Clients -> Ids \cup {NoId}]
        /\ last' \in [Clients -> {"live", "initializing", "available", "unavailable"}]
        /\ \A d \in Clients \ {c} : /\ cpc'[d] = cpc[d] /\ req'[d] = req[d]
                                    /\ rx'[d] = rx[d] /\ last'[d] = last[d]
        /\ cpc'[c] # "posting"
    BY <1>1 DEF Return, CancelFetch, ClientType
  <1>5. WorkerSound'
    BY <1>2 DEF WorkerSound, workerVars
  <1>6. TypeOK'
    <2>1. MapType'
      BY <1>1, <1>2, <1>3 DEF MapType, mapVars
    <2>2. ClientType'
      BY <1>4 DEF ClientType
    <2>3. WorkerType'
      BY <1>1, <1>2 DEF WorkerType, workerVars
    <2> QED
      BY <2>1, <2>2, <2>3 DEF TypeOK, MapType, ClientType, WorkerType
  <1>7. ClientSound'
    BY <1>4 DEF ClientSound
  <1>8. ManagedIsBound'
    <2> SUFFICES ASSUME NEW j \in Ids, j \notin abandoned', Bound(j)
                 PROVE  Bound(j)'
      BY <1>2, <1>3 DEF ManagedIsBound, mapVars, workerVars
    <2>1. ASSUME NEW d \in Clients, cpc[d] = "posting", req[d] = Fetch(j, initPri[j]),
                 rx[d] = j, last[d] = "live"
          PROVE  Bound(j)'
      <3>1. d # c
        BY <2>1, <1>3 DEF Fetch
      <3> QED
        BY <2>1, <3>1, <1>2, <1>4 DEF Bound, mapVars
    <2> QED
      BY <2>1, <1>2 DEF Bound, workerVars
  <1>9. ForgottenIsTold'
    <2> SUFFICES ASSUME NEW j \in Ids, InFlight(Forget(j))
                 PROVE  InFlight(Forget(j))'
      BY <1>2 DEF ForgottenIsTold, mapVars, workerVars
    <2>1. ASSUME NEW d \in Clients, cpc[d] = "posting", req[d] = Forget(j) PROVE d # c
      BY <2>1, <1>3 DEF Forget
    <2> QED
      BY <2>1, <1>2, <1>4 DEF InFlight, workerVars, Forget
  <1>10. RenewedBeforeExpiry'
    BY <1>2 DEF RenewedBeforeExpiry, mapVars, workerVars
  <1> QED
    BY <1>5, <1>6, <1>7, <1>8, <1>9, <1>10

\* push_increase on an identity: it is pending afterwards, and its instant is
\* the old one or the new one.
LEMMA PushKeeps ==
    ASSUME WorkerType, NEW i \in Ids, NEW pri \in Priorities, NEW at \in Nat,
           PushIncrease(i, pri, at)
    PROVE  /\ pendPri' \in [Ids -> Priorities \cup {"none"}] /\ pendAt' \in [Ids -> Nat]
           /\ \A j \in Ids \ {i} : pendPri'[j] = pendPri[j] /\ pendAt'[j] = pendAt[j]
           /\ pendPri'[i] # "none"
           /\ pendAt'[i] = at \/ (pendPri[i] # "none" /\ pendAt'[i] = pendAt[i])
  <1>1. Rank("none") = 0 /\ Rank(pri) \in Nat \ {0} /\ pri # "none"
    BY DEF Rank, Priorities
  <1>2. CASE /\ pendPri' = [pendPri EXCEPT ![i] = pri]
             /\ pendAt' = [pendAt EXCEPT ![i] = at]
    BY <1>1, <1>2 DEF WorkerType
  <1>3. CASE UNCHANGED pendVars /\ ~(Rank(pri) > Rank(pendPri[i]))
    <2>1. pendPri[i] # "none"
      BY <1>1, <1>3
    <2> QED
      BY <1>3, <2>1 DEF WorkerType, pendVars
  <1> QED
    BY <1>2, <1>3 DEF PushIncrease

\* The worker takes a request: a fetch of a managed identity becomes pending or
\* keeps the fetch under way, a forget of an unmanaged one undoes both.
LEMMA RequestStep ==
    ASSUME SecretInv, HandleFetch \/ HandleForget
    PROVE  SecretInv'
  <1> USE DEF SecretInv
  <1>1. MapType /\ ClientType /\ WorkerType
    BY TypeParts
  <1>2. /\ UNCHANGED <<mapVars, clientVars, job, backoff, running, abandoned>>
        /\ queue # <<>> /\ queue' = Tail(queue) /\ job = NoReq
    BY DEF HandleFetch, HandleForget, Idle
  <1>3. PICK r \in Requests :
        /\ r = Head(queue) /\ queue' \in Seq(Requests) /\ Len(queue') <= Len(queue)
        /\ \A n \in 1..Len(queue) : queue[n] = r \/ \E m \in 1..Len(queue') : queue'[m] = queue[n]
    <2>1. queue \in Seq(Requests)
      BY <1>1 DEF WorkerType
    <2>2. /\ queue' \in Seq(Requests) /\ Len(queue') <= Len(queue) /\ Head(queue) \in Requests
          /\ \A n \in 1..Len(queue) : queue[n] = Head(queue) \/ \E m \in 1..Len(queue') : queue'[m] = queue[n]
      BY <1>2, <2>1, QueueTail, ZenonT(60)
    <2> QED
      BY <2>2
  <1>4. PICK i \in Ids : i = r.id
    BY DEF Requests
  <1>5. Len(queue) \in Nat /\ Len(queue') \in Nat /\ QueueCap \in Nat
    BY <1>1, <1>3, LenProperties, SecretManagerAssumption DEF WorkerType
  <1>6. /\ processing' \in [Ids -> {"none", "processing", "forgetting"}]
        /\ pendPri' \in [Ids -> Priorities \cup {"none"}] /\ pendAt' \in [Ids -> Nat]
        /\ \A j \in Ids \ {i} : /\ processing'[j] = processing[j]
                                /\ pendPri'[j] = pendPri[j] /\ pendAt'[j] = pendAt[j]
        /\ pendPri'[i] # "none" => processing'[i] = "none" /\ pendAt'[i] \in {0, pendAt[i]}
                                   /\ (pendAt'[i] = 0 \/ pendPri[i] # "none")
        /\ \/ r.op = "fetch" /\ cert[i] # "absent" /\ (pendPri'[i] # "none" \/ processing'[i] = "processing")
           \/ r.op = "fetch" /\ cert[i] = "absent" /\ UNCHANGED <<processing, pendVars>>
           \/ r.op = "forget" /\ cert[i] # "absent" /\ UNCHANGED <<processing, pendVars>>
           \/ r.op = "forget" /\ cert[i] = "absent" /\ pendPri'[i] = "none" /\ processing'[i] # "processing"
    <2>1. CASE /\ UNCHANGED <<processing, pendVars>>
               /\ (HandleFetch /\ cert[i] = "absent") \/ (HandleForget /\ cert[i] # "absent")
      <3>1. r.op = "fetch" <=> HandleFetch
        BY <1>3 DEF HandleFetch, HandleForget
      <3>2. r.op = "forget" <=> HandleForget
        BY <1>3 DEF HandleFetch, HandleForget
      <3>3. pendPri[i] # "none" => processing[i] = "none"
        BY DEF WorkerSound
      <3> QED
        BY <2>1, <3>1, <3>2, <3>3, <1>1 DEF WorkerType, pendVars
    <2>2. CASE HandleFetch /\ cert[i] # "absent" /\ processing[i] = "none" /\ PushIncrease(i, r.pri, 0) /\ UNCHANGED processing
      <3>1. r.pri \in Priorities /\ 0 \in Nat
        BY DEF Requests
      <3>2. /\ pendPri' \in [Ids -> Priorities \cup {"none"}] /\ pendAt' \in [Ids -> Nat]
            /\ \A j \in Ids \ {i} : pendPri'[j] = pendPri[j] /\ pendAt'[j] = pendAt[j]
            /\ pendPri'[i] # "none"
            /\ pendAt'[i] = 0 \/ (pendPri[i] # "none" /\ pendAt'[i] = pendAt[i])
        BY <2>2, <3>1, <1>1, PushKeeps
      <3> QED
        BY <2>2, <3>2, <1>1, <1>3 DEF HandleFetch, WorkerType
    <2>3. CASE /\ HandleFetch /\ cert[i] # "absent" /\ processing[i] # "none"
               /\ processing' = [processing EXCEPT ![i] = "processing"]
               /\ UNCHANGED pendVars
      <3>1. r.op = "fetch" /\ pendPri[i] = "none"
        BY <2>3, <1>3 DEF HandleFetch, WorkerSound
      <3> QED
        BY <2>3, <3>1, <1>1 DEF WorkerType, pendVars
    <2>4. CASE /\ HandleForget /\ cert[i] = "absent" /\ processing[i] = "none"
               /\ pendPri' = [pendPri EXCEPT ![i] = "none"]
               /\ pendAt' = [pendAt EXCEPT ![i] = 0]
               /\ UNCHANGED processing
      BY <2>4, <1>1, <1>3 DEF HandleForget, WorkerType, WorkerSound
    <2>5. CASE /\ HandleForget /\ cert[i] = "absent" /\ processing[i] # "none"
               /\ processing' = [processing EXCEPT ![i] = "forgetting"]
               /\ UNCHANGED pendVars
      BY <2>5, <1>1, <1>3 DEF HandleForget, WorkerType, WorkerSound, pendVars
    <2> QED
      BY <2>1, <2>2, <2>3, <2>4, <2>5, <1>3, <1>4 DEF HandleFetch, HandleForget
  <1>7. WorkerSound'
    <2>1. NoReq.op # "store"
      BY DEF NoReq
    <2> QED
      BY <2>1, <1>2, <1>6, ZenonT(60) DEF WorkerSound
  <1>8. TypeOK'
    <2>1. MapType' /\ ClientType'
      BY <1>1, <1>2 DEF MapType, ClientType, mapVars, clientVars
    <2>2. WorkerType'
      BY <1>1, <1>2, <1>3, <1>5, <1>6 DEF WorkerType
    <2> QED
      BY <2>1, <2>2 DEF TypeOK, MapType, ClientType, WorkerType
  <1>9. ClientSound'
    BY <1>2 DEF ClientSound, clientVars
  <1>10. ManagedIsBound'
    <2> SUFFICES ASSUME NEW j \in Ids, cert[j] # "absent", Bound(j)
                 PROVE  Bound(j)'
      BY <1>2 DEF ManagedIsBound, mapVars
    <2>1. CASE j = i /\ r.op = "fetch"
      BY <2>1, <1>6 DEF Bound
    <2>2. CASE j # i \/ r.op # "fetch"
      <3>1. pendPri'[j] = pendPri[j] /\ processing'[j] = processing[j]
        BY <2>2, <1>6 DEF pendVars
      <3>2. (\E n \in 1..Len(queue) : queue[n].op = "fetch" /\ queue[n].id = j) =>
              \E n \in 1..Len(queue') : queue'[n].op = "fetch" /\ queue'[n].id = j
        BY <2>2, <1>3, <1>4
      <3> QED
        BY <3>1, <3>2, <1>2 DEF Bound, clientVars, mapVars
    <2> QED
      BY <2>1, <2>2
  <1>11. ForgottenIsTold'
    <2> SUFFICES ASSUME running, NEW j \in Ids, cert[j] = "absent",
                        pendPri'[j] # "none" \/ processing'[j] = "processing"
                 PROVE  InFlight(Forget(j))'
      BY <1>2 DEF ForgottenIsTold, mapVars
    <2>1. InFlight(Forget(j))
      BY <1>6 DEF ForgottenIsTold, pendVars
    <2>2. r # Forget(j)
      BY <1>4, <1>6 DEF Forget
    <2> QED
      BY <2>1, <2>2, <1>2, <1>3 DEF InFlight, clientVars, Forget
  <1>12. RenewedBeforeExpiry'
    <2>1. \A j \in Ids : life[j] \in Nat /\ pendAt[j] \in Nat
      BY <1>1 DEF MapType, WorkerType
    <2> QED
      BY <2>1, <1>2, <1>6, SMTT(30) DEF RenewedBeforeExpiry, mapVars
  <1> QED
    BY <1>7, <1>8, <1>9, <1>10, <1>11, <1>12

\* A fetch starts, or ends with a result the worker is about to store, or with
\* one that nobody wants: all of it between two looks at the map.
LEMMA FetchStep ==
    ASSUME SecretInv, NEW i \in Ids,
           StartFetch(i) \/ FetchForgotten(i) \/ FetchSucceeded(i) \/ FetchFailed(i)
    PROVE  SecretInv'
  <1> USE DEF SecretInv
  <1>1. MapType /\ ClientType /\ WorkerType
    BY TypeParts
  <1>2. /\ UNCHANGED <<mapVars, clientVars, queue, pendAt, running, abandoned>> /\ job = NoReq
        /\ NoReq.op # "store"
    BY DEF StartFetch, FetchForgotten, FetchSucceeded, FetchFailed, Idle, pendVars, NoReq
  <1>3. /\ processing' \in [Ids -> {"none", "processing", "forgetting"}]
        /\ pendPri' \in [Ids -> Priorities \cup {"none"}]
        /\ backoff' \subseteq Ids
        /\ \A j \in Ids \ {i} : processing'[j] = processing[j] /\ pendPri'[j] = pendPri[j]
        /\ pendPri'[i] = "none" \/ (pendPri'[i] = pendPri[i] /\ processing'[i] = "none")
    BY <1>1 DEF StartFetch, FetchForgotten, FetchSucceeded, FetchFailed, WorkerType, pendVars
  <1>4. /\ job' \in Results \cup {NoReq}
        /\ job'.op = "store" => /\ job'.id = i /\ job'.state = "available" => job'.at <= job'.life
                                /\ processing[i] = "processing" /\ processing'[i] = "none"
                                /\ pendPri' = pendPri
        /\ (job'.op = "store" /\ job'.id = i) \/ processing'[i] = "processing"
              \/ (FetchForgotten(i) /\ processing[i] # "processing" /\ pendPri' = pendPri)
    <2>1. CASE StartFetch(i)
      BY <2>1, <1>1, <1>2 DEF StartFetch, WorkerType
    <2>2. CASE FetchForgotten(i)
      BY <2>2, <1>1, <1>2 DEF FetchForgotten, WorkerType, pendVars
    <2>3. CASE FetchSucceeded(i)
      <3>1. PICK l \in Lifetimes :
              job' = [op |-> "store", id |-> i, state |-> "available", life |-> l, at |-> l \div 2]
        BY <2>3 DEF FetchSucceeded
      <3>2. l \in Nat /\ l \div 2 \in Nat /\ l \div 2 <= l
        BY SecretManagerAssumption
      <3>3. job' \in Results /\ job'.op = "store" /\ job'.id = i /\ job'.at <= job'.life
        BY <3>1, <3>2 DEF Results
      <3> QED
        BY <2>3, <3>3, <1>1 DEF FetchSucceeded, WorkerType, pendVars
    <2>4. CASE FetchFailed(i)
      <3>1. PICK d \in RetryDelays : job' = FailureOutcome(i, d)
        BY <2>4 DEF FetchFailed
      <3>2. d \in Nat /\ life[i] \in Nat
        BY <1>1, SecretManagerAssumption DEF MapType
      <3>3. Smaller(d, life[i]) \in Nat /\ Smaller(d, life[i]) <= life[i]
        BY <3>2 DEF Smaller
      <3>4. /\ job' \in Results /\ job'.op = "store" /\ job'.id = i
            /\ job'.state = "available" => job'.at <= job'.life
        BY <3>1, <3>2, <3>3 DEF Results, FailureOutcome
      <3> QED
        BY <2>4, <3>4, <1>1 DEF FetchFailed, WorkerType, pendVars
    <2> QED
      BY <2>1, <2>2, <2>3, <2>4
  <1>5. WorkerSound'
    <2>1. \A j \in Ids : pendPri'[j] # "none" => processing'[j] = "none"
      BY <1>3 DEF WorkerSound
    <2>2. job'.op = "store" => pendPri'[i] = "none"
      BY <1>4 DEF WorkerSound
    <2> QED
      BY <2>1, <2>2, <1>4 DEF WorkerSound
  <1>6. TypeOK'
    <2>1. MapType' /\ ClientType'
      BY <1>1, <1>2 DEF MapType, ClientType, mapVars, clientVars
    <2>2. WorkerType'
      BY <1>1, <1>2, <1>3, <1>4 DEF WorkerType
    <2> QED
      BY <2>1, <2>2 DEF TypeOK, MapType, ClientType, WorkerType
  <1>7. ClientSound'
    BY <1>2 DEF ClientSound, clientVars
  <1>8. ManagedIsBound'
    <2> SUFFICES ASSUME NEW j \in Ids, Bound(j)
                 PROVE  Bound(j)'
      BY <1>2 DEF ManagedIsBound, mapVars
    <2>1. CASE j = i /\ ~(FetchForgotten(i) /\ processing[i] # "processing" /\ pendPri' = pendPri)
      BY <2>1, <1>4 DEF Bound
    <2>2. CASE j = i /\ FetchForgotten(i) /\ processing[i] # "processing" /\ pendPri' = pendPri
      BY <2>2, <1>2 DEF Bound, clientVars, mapVars
    <2>3. CASE j # i
      BY <2>3, <1>2, <1>3 DEF Bound, clientVars, mapVars
    <2> QED
      BY <2>1, <2>2, <2>3
  <1>9. ForgottenIsTold'
    <2>1. ASSUME NEW j \in Ids, pendPri'[j] # "none" \/ processing'[j] = "processing"
          PROVE  pendPri[j] # "none" \/ processing[j] = "processing"
      <3>1. CASE StartFetch(i)
        BY <2>1, <3>1, <1>1, <1>3 DEF StartFetch, IsHead, WorkerType
      <3>2. CASE ~StartFetch(i)
        <4>1. processing'[i] = "none" /\ pendPri' = pendPri
          BY <3>2, <1>1 DEF FetchForgotten, FetchSucceeded, FetchFailed, WorkerType, pendVars
        <4> QED
          BY <2>1, <4>1, <1>3
      <3> QED
        BY <3>1, <3>2
    <2>2. \A j \in Ids : InFlight(Forget(j)) => InFlight(Forget(j))'
      BY <1>2 DEF InFlight, clientVars, Forget
    <2> QED
      BY <2>1, <2>2, <1>2 DEF ForgottenIsTold, mapVars
  <1>10. RenewedBeforeExpiry'
    BY <1>2, <1>3 DEF RenewedBeforeExpiry, mapVars
  <1> QED
    BY <1>5, <1>6, <1>7, <1>8, <1>9, <1>10

\* A result goes into the map and its next fetch is queued, unless the identity
\* was forgotten meanwhile.
LEMMA StoreStep ==
    ASSUME SecretInv, Store
    PROVE  SecretInv'
  <1> USE DEF SecretInv
  <1>1. MapType /\ ClientType /\ WorkerType
    BY TypeParts
  <1>2. /\ UNCHANGED <<clientVars, queue, processing, backoff, running, abandoned>>
        /\ job' = NoReq /\ NoReq.op # "store" /\ job.op = "store"
    BY DEF Store, NoReq
  <1>3. job \in Results
    BY <1>2 DEF WorkerSound
  <1>4. PICK i \in Ids : i = job.id
    BY <1>3 DEF Results
  <1>5. /\ job.at \in Nat /\ job.life \in Nat /\ job.state \in {"available", "unavailable"}
        /\ processing[i] = "none" /\ pendPri[i] = "none"
        /\ job.state = "available" => job.at <= job.life
    BY <1>2, <1>3, <1>4 DEF Results, WorkerSound
  <1>6. /\ MapType' /\ pendPri' \in [Ids -> Priorities \cup {"none"}] /\ pendAt' \in [Ids -> Nat]
        /\ \A j \in Ids \ {i} : /\ cert'[j] = cert[j] /\ initPri'[j] = initPri[j] /\ life'[j] = life[j]
                                /\ pendPri'[j] = pendPri[j] /\ pendAt'[j] = pendAt[j]
        /\ \/ cert[i] = "absent" /\ UNCHANGED <<cert, initPri, life, pendPri, pendAt>>
           \/ /\ cert[i] # "absent" /\ cert'[i] = job.state /\ life'[i] = job.life
              /\ pendPri'[i] # "none" /\ pendAt'[i] = job.at
    <2>1. CASE cert[i] = "absent"
      BY <2>1, <1>1, <1>2, <1>4 DEF Store, MapType, WorkerType, mapVars, pendVars
    <2>2. CASE cert[i] # "absent"
      <3>1. /\ cert' = [cert EXCEPT ![i] = job.state]
            /\ initPri' = [initPri EXCEPT ![i] = "none"]
            /\ life' = [life EXCEPT ![i] = job.life]
            /\ PushIncrease(i, "Background", job.at)
        BY <2>2, <1>4 DEF Store
      <3>2. "Background" \in Priorities
        BY DEF Priorities
      <3>3. /\ pendPri' \in [Ids -> Priorities \cup {"none"}] /\ pendAt' \in [Ids -> Nat]
            /\ \A j \in Ids \ {i} : pendPri'[j] = pendPri[j] /\ pendAt'[j] = pendAt[j]
            /\ pendPri'[i] # "none" /\ pendAt'[i] = job.at
        BY <3>1, <3>2, <1>1, <1>5, PushKeeps
      <3>4. MapType'
        BY <3>1, <1>1, <1>2, <1>5 DEF MapType, CertStates
      <3> QED
        BY <2>2, <3>1, <3>3, <3>4, <1>1 DEF MapType
    <2> QED
      BY <2>1, <2>2
  <1>7. WorkerSound'
    BY <1>2, <1>5, <1>6 DEF WorkerSound
  <1>8. TypeOK'
    <2>1. ClientType'
      BY <1>1, <1>2 DEF ClientType, clientVars
    <2>2. WorkerType'
      BY <1>1, <1>2, <1>6 DEF WorkerType
    <2> QED
      BY <1>6, <2>1, <2>2 DEF TypeOK, MapType, ClientType, WorkerType
  <1>9. ClientSound'
    BY <1>2 DEF ClientSound, clientVars
  <1>10. ManagedIsBound'
    <2> SUFFICES ASSUME running, NEW j \in Ids, cert'[j] # "absent", j \notin abandoned
                 PROVE  Bound(j)'
      BY <1>2 DEF ManagedIsBound
    <2>1. CASE j = i
      BY <2>1, <1>6 DEF Bound
    <2>2. CASE j # i
      <3>1. Bound(j) /\ initPri'[j] = initPri[j] /\ pendPri'[j] = pendPri[j]
        BY <2>2, <1>6 DEF ManagedIsBound
      <3> QED
        BY <2>2, <3>1, <1>2, <1>4 DEF Bound, clientVars
    <2> QED
      BY <2>1, <2>2
  <1>11. ForgottenIsTold'
    <2>1. \A j \in Ids : InFlight(Forget(j)) => InFlight(Forget(j))'
      BY <1>2 DEF InFlight, clientVars, Forget
    <2>2. \A j \in Ids : cert'[j] = "absent" => cert[j] = "absent" /\ pendPri'[j] = pendPri[j]
      BY <1>5, <1>6
    <2> QED
      BY <2>1, <2>2, <1>2 DEF ForgottenIsTold
  <1>12. RenewedBeforeExpiry'
    BY <1>5, <1>6 DEF RenewedBeforeExpiry
  <1> QED
    BY <1>7, <1>8, <1>9, <1>10, <1>11, <1>12

\* Time passes for certificates, queued refreshes and a result alike.
LEMMA TickStep ==
    ASSUME SecretInv, Tick
    PROVE  SecretInv'
  <1> USE DEF SecretInv
  <1>1. MapType /\ ClientType /\ WorkerType
    BY TypeParts
  <1>2. UNCHANGED <<cert, initPri, clientVars, queue, processing, pendPri, backoff, running, abandoned>>
    BY DEF Tick
  <1>3. \A n \in Nat : Pred(n) \in Nat /\ \A m \in Nat : m <= n => Pred(m) <= Pred(n)
    BY DEF Pred
  <1>4. /\ life' \in [Ids -> Nat] /\ pendAt' \in [Ids -> Nat]
        /\ \A j \in Ids : life'[j] = Pred(life[j]) /\ pendAt'[j] = Pred(pendAt[j])
    BY <1>1, <1>3 DEF Tick, MapType, WorkerType
  <1>5. /\ job' \in Results \cup {NoReq}
        /\ job'.op = "store" <=> job.op = "store"
        /\ job.op = "store" => /\ job'.id = job.id /\ job'.state = job.state
                               /\ job.at <= job.life => job'.at <= job'.life
    <2>1. CASE job.op = "store"
      <3>1. job \in Results /\ job' = [job EXCEPT !.life = Pred(job.life), !.at = Pred(job.at)]
        BY <2>1, <1>1 DEF Tick, WorkerType, NoReq
      <3>2. job.life \in Nat /\ job.at \in Nat
        BY <3>1 DEF Results
      <3>3. /\ job' \in Results /\ job'.op = job.op /\ job'.id = job.id /\ job'.state = job.state
            /\ job'.life = Pred(job.life) /\ job'.at = Pred(job.at)
        BY <3>1, <3>2, <1>3 DEF Results
      <3> QED
        BY <2>1, <3>2, <3>3, <1>3
    <2>2. CASE job.op # "store"
      BY <2>2, <1>1 DEF Tick, WorkerType
    <2> QED
      BY <2>1, <2>2
  <1>6. WorkerSound'
    BY <1>2, <1>5 DEF WorkerSound
  <1>7. TypeOK'
    <2>1. MapType' /\ ClientType'
      BY <1>1, <1>2, <1>4 DEF MapType, ClientType, clientVars
    <2>2. WorkerType'
      BY <1>1, <1>2, <1>4, <1>5 DEF WorkerType
    <2> QED
      BY <2>1, <2>2 DEF TypeOK, MapType, ClientType, WorkerType
  <1>8. ClientSound'
    BY <1>2 DEF ClientSound, clientVars
  <1>9. ManagedIsBound'
    BY <1>2, <1>5 DEF ManagedIsBound, Bound, clientVars, Fetch
  <1>10. ForgottenIsTold'
    BY <1>2 DEF ForgottenIsTold, InFlight, clientVars, Forget
  <1>11. RenewedBeforeExpiry'
    BY <1>1, <1>2, <1>3, <1>4 DEF RenewedBeforeExpiry, MapType, WorkerType
  <1> QED
    BY <1>6, <1>7, <1>8, <1>9, <1>10, <1>11

\* The worker's main loop has ended, or ends now.
LEMMA EndStep ==
    ASSUME SecretInv,
           Shutdown \/ (\E i \in Ids : DrainFetch(i)) \/ UNCHANGED vars
    PROVE  SecretInv'
  <1> USE DEF SecretInv
  <1>1. MapType /\ ClientType /\ WorkerType
    BY TypeParts
  <1>2. /\ UNCHANGED <<mapVars, clientVars, queue, job, pendVars, backoff, abandoned>>
        /\ running' \in BOOLEAN
        /\ processing' \in [Ids -> {"none", "processing", "forgetting"}]
        /\ \A i \in Ids : processing'[i] \in {"none", processing[i]}
        /\ running' => running /\ processing' = processing
    <2>1. CASE Shutdown
      BY <2>1, <1>1 DEF Shutdown, WorkerType
    <2>2. CASE UNCHANGED vars
      BY <2>2, <1>1 DEF vars, mapVars, clientVars, pendVars, WorkerType
    <2>3. ASSUME NEW i \in Ids, DrainFetch(i)
          PROVE  /\ processing' \in [Ids -> {"none", "processing", "forgetting"}]
                 /\ \A j \in Ids : processing'[j] \in {"none", processing[j]}
                 /\ ~running /\ UNCHANGED <<mapVars, clientVars, queue, job, pendVars, backoff, running, abandoned>>
      BY <2>3, <1>1 DEF DrainFetch, WorkerType
    <2> QED
      BY <2>1, <2>2, <2>3, <1>1 DEF WorkerType
  <1>3. WorkerSound'
    <2>1. job.op = "store" => job.id \in Ids
      BY DEF WorkerSound, Results, NoReq
    <2> QED
      BY <1>2, <2>1 DEF WorkerSound, pendVars
  <1>4. TypeOK'
    <2>1. MapType' /\ ClientType'
      BY <1>1, <1>2 DEF MapType, ClientType, mapVars, clientVars
    <2>2. WorkerType'
      BY <1>1, <1>2 DEF WorkerType, pendVars
    <2> QED
      BY <2>1, <2>2 DEF TypeOK, MapType, ClientType, WorkerType
  <1>5. ClientSound'
    BY <1>2 DEF ClientSound, clientVars
  <1>6. ManagedIsBound'
    BY <1>2 DEF ManagedIsBound, Bound, clientVars, mapVars, pendVars, Fetch
  <1>7. ForgottenIsTold'
    BY <1>2 DEF ForgottenIsTold, InFlight, clientVars, mapVars, pendVars, Forget
  <1>8. RenewedBeforeExpiry'
    BY <1>2 DEF RenewedBeforeExpiry, mapVars, pendVars
  <1> QED
    BY <1>3, <1>4, <1>5, <1>6, <1>7, <1>8

\* The invariant holds for ever: an empty cache has it, and every step of the
\* clients, the worker and the clock keeps it.
THEOREM SecretInvariant == Spec => []SecretInv
  <1>1. Init => SecretInv
    <2> SUFFICES ASSUME Init PROVE SecretInv
      OBVIOUS
    <2>1. MapType /\ ClientType
      BY DEF Init, MapType, ClientType, CertStates
    <2>2. WorkerType
      <3>1. Len(queue) <= QueueCap /\ queue \in Seq(Requests)
        BY SecretManagerAssumption DEF Init
      <3> QED
        BY <3>1 DEF Init, WorkerType
    <2>3. WorkerSound
      BY DEF Init, WorkerSound, NoReq
    <2>4. TypeOK
      BY <2>1, <2>2 DEF TypeOK, MapType, ClientType, WorkerType
    <2>5. ClientSound /\ ManagedIsBound /\ ForgottenIsTold /\ RenewedBeforeExpiry
      BY DEF Init, ClientSound, ManagedIsBound, ForgottenIsTold, RenewedBeforeExpiry
    <2> QED
      BY <2>3, <2>4, <2>5 DEF SecretInv
  <1>2. SecretInv /\ [Next]_vars => SecretInv'
    <2> SUFFICES ASSUME SecretInv, [Next]_vars PROVE SecretInv'
      OBVIOUS
    <2>1. ASSUME NEW c \in Clients, NEW i \in Ids,
                 \/ \E pri \in {"Warmup", "RealTime"} :
                      StartFetchKnown(c, i, pri) \/ StartFetchNew(c, i, pri)
                 \/ ForgetCertificate(c, i)
          PROVE  SecretInv'
      BY <2>1, StartFetchStep, ForgetStep
    <2>2. ASSUME NEW c \in Clients, ClientStep(c) \/ CancelFetch(c) PROVE SecretInv'
      BY <2>2, PostStep, LeaveStep DEF ClientStep
    <2>3. ASSUME NEW i \in Ids, StartFetch(i) \/ FetchDone(i) \/ DrainFetch(i) PROVE SecretInv'
      BY <2>3, FetchStep, EndStep DEF FetchDone
    <2>4. CASE HandleRequest \/ Store \/ Shutdown \/ Tick \/ Terminated \/ UNCHANGED vars
      BY <2>4, RequestStep, StoreStep, EndStep, TickStep DEF HandleRequest, Terminated
    <2> QED
      BY <2>1, <2>2, <2>3, <2>4 DEF Next
  <1> QED
    BY <1>1, <1>2, PTL DEF Spec

\* The cache, its clients and the worker keep their types; the request channel
\* never holds more than its capacity.
THEOREM TypeCorrect == Spec => []TypeOK
  BY SecretInvariant, PTL DEF SecretInv

\* In whatever order Fetch and Forget requests reach the worker and whatever
\* fetches fail, what the map manages is requested, pending or being fetched,
\* what it does not manage is renewed no longer than a Forget is on its way, and a
\* cached certificate is due for renewal before it expires, whatever delay the
\* backoff of a failed renewal asks for.
THEOREM ManagedIsAlwaysRefreshed == Spec => []ManagedIsRefreshed
  <1>1. SecretInv => MapIsFollowed
    <2> SUFFICES ASSUME SecretInv, running, NEW i \in Ids
                 PROVE  /\ cert[i] # "absent" /\ i \notin abandoned => BeingRefreshed(i)
                        /\ cert[i] = "absent" /\ (pendPri[i] # "none" \/ processing[i] = "processing")
                              => InFlight(Forget(i))
      BY DEF MapIsFollowed
    <2>1. ASSUME Bound(i) PROVE BeingRefreshed(i)
      <3>1. ASSUME NEW n \in 1..Len(queue), queue[n].op = "fetch", queue[n].id = i
            PROVE  FetchInFlight(i)
        <4>1. queue[n] \in Requests
          BY ElementOfSeq DEF SecretInv, TypeOK
        <4>2. queue[n].pri \in Priorities /\ queue[n] = Fetch(i, queue[n].pri)
          BY <3>1, <4>1 DEF Requests, Fetch
        <4> QED
          BY <4>2 DEF FetchInFlight, InFlight
      <3>2. ASSUME NEW c \in Clients, cpc[c] = "posting", req[c] = Fetch(i, initPri[i])
            PROVE  FetchInFlight(i)
        <4>1. req[c] \in Requests
          BY <3>2 DEF SecretInv, ClientSound
        <4>2. initPri[i] \in Priorities
          BY <3>2, <4>1 DEF Requests, Fetch
        <4> QED
          BY <3>2, <4>2 DEF FetchInFlight, InFlight
      <3> QED
        BY <2>1, <3>1, <3>2 DEF Bound, BeingRefreshed
    <2> QED
      BY <2>1 DEF SecretInv, ManagedIsBound, ForgottenIsTold
  <1>2. SecretInv => ManagedIsRefreshed
    BY <1>1 DEF SecretInv, ManagedIsRefreshed
  <1> QED
    BY <1>2, SecretInvariant, PTL
=============================================================================
