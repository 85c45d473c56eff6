---------------------------- MODULE SecretManager ----------------------------
(***************************************************************************)
(* The certificate cache: identity/manager.rs.                             *)
(*                                                                         *)
(* Clients look an identity up in the shared `certs` map under its lock    *)
(* and post a request to the worker AFTER they released it; the single     *)
(* worker task keeps what is being fetched (`processing`) and what has to  *)
(* be fetched (`pending`) in local variables, and re-reads `certs` before  *)
(* it acts.  The map and the worker's bookkeeping are therefore only       *)
(* loosely coupled, through a bounded FIFO channel.                        *)
(*                                                                         *)
(* Instants are durations from now: Tick lets every one of them shrink,    *)
(* and 0 is "due" or "expired".                                            *)
(***************************************************************************)
EXTENDS Naturals, Sequences, FiniteSets

CONSTANTS
    Ids,          \* identities
    Clients,      \* tasks that call fetch_certificate or forget_certificate
    NoId,         \* "no identity"
    Cancellable,  \* clients whose task may be dropped at an await point
    Concurrency,  \* fetches at a time (8 in the code)
    QueueCap,     \* capacity of the request channel (10 in the code)
    Lifetimes,    \* how long an issued certificate may be valid
    RetryDelays   \* delays the exponential backoff may return

ASSUME SecretManagerAssumption ==
    /\ NoId \notin Ids
    /\ Cancellable \subseteq Clients
    /\ Concurrency \in Nat \ {0}
    /\ QueueCap \in Nat \ {0}
    /\ Lifetimes \subseteq Nat
    /\ RetryDelays \subseteq Nat \ {0}

VARIABLES
    \* the shared map
    cert,        \* state of each identity's CertChannel
    initPri,     \* the priority inside Initializing(_)
    life,        \* remaining validity of the available certificate
    \* clients
    cpc,         \* where each client stands
    req,         \* the request it is posting
    rx,          \* the identity whose channel it waits on
    last,        \* "live", or the state its channel had when it was dropped
    \* the request channel and the worker
    queue,
    job,         \* what the worker does between two of its own lock operations
    processing,  \* HashMap<Identity, Fetch>
    pendPri,     \* pending: priority of each queued identity, "none" if absent
    pendAt,      \* pending: when it is due
    backoff,     \* keys of pending_backoffs_by_id
    running,     \* the worker's main loop runs
    abandoned    \* history: identities whose first request was never posted

mapVars    == <<cert, initPri, life>>
clientVars == <<cpc, req, rx, last>>
pendVars   == <<pendPri, pendAt>>
workerVars == <<queue, job, processing, pendPri, pendAt, backoff, running>>
vars == <<cert, initPri, life, cpc, req, rx, last, queue, job, processing,
          pendPri, pendAt, backoff, running, abandoned>>

Priorities == {"Background", "Warmup", "RealTime"}
Rank(p) == CASE p = "none" -> 0 [] p = "Background" -> 1
             [] p = "Warmup" -> 2 [] p = "RealTime" -> 3

CertStates == {"absent", "initializing", "available", "unavailable"}

Requests == [op : {"fetch", "forget"}, id : Ids, pri : Priorities]
NoReq    == [op |-> "none", id |-> NoId, pri |-> "none"]
Fetch(id, pri) == [op |-> "fetch", id |-> id, pri |-> pri]
Forget(id)     == [op |-> "forget", id |-> id, pri |-> "Background"]

\* A result on its way into the map: the new state, the validity of its
\* certificate and when the next fetch is due.
Results == [op : {"store"}, id : Ids, state : {"available", "unavailable"},
            life : Nat, at : Nat]

TypeOK ==
    /\ cert \in [Ids -> CertStates]
    /\ initPri \in [Ids -> Priorities \cup {"none"}]
    /\ life \in [Ids -> Nat]
    /\ cpc \in [Clients -> {"idle", "posting", "waiting"}]
    /\ req \in [Clients -> Requests \cup {NoReq}]
    /\ rx \in [Clients -> Ids \cup {NoId}]
    /\ last \in [Clients -> {"live", "initializing", "available", "unavailable"}]
    /\ queue \in Seq(Requests) /\ Len(queue) <= QueueCap
    /\ job \in Requests \cup Results \cup {NoReq}
    /\ processing \in [Ids -> {"none", "processing", "forgetting"}]
    /\ pendPri \in [Ids -> Priorities \cup {"none"}]
    /\ pendAt \in [Ids -> Nat]
    /\ backoff \subseteq Ids
    /\ running \in BOOLEAN
    /\ abandoned \subseteq Ids

Init ==
    /\ cert = [i \in Ids |-> "absent"]
    /\ initPri = [i \in Ids |-> "none"]
    /\ life = [i \in Ids |-> 0]
    /\ cpc = [c \in Clients |-> "idle"]
    /\ req = [c \in Clients |-> NoReq]
    /\ rx = [c \in Clients |-> NoId]
    /\ last = [c \in Clients |-> "live"]
    /\ queue = <<>> /\ job = NoReq
    /\ processing = [i \in Ids |-> "none"]
    /\ pendPri = [i \in Ids |-> "none"]
    /\ pendAt = [i \in Ids |-> 0]
    /\ backoff = {}
    /\ running = TRUE
    /\ abandoned = {}

-----------------------------------------------------------------------------
(* Clients                                                                 *)

\* start_fetch() of an identity in the map: post only to raise the priority of
\* a first fetch that has not completed.
StartFetchKnown(c, i, pri) ==
    /\ cpc[c] = "idle" /\ cert[i] # "absent" /\ running
    /\ rx' = [rx EXCEPT ![c] = i]
    /\ last' = [last EXCEPT ![c] = "live"]
    /\ IF cert[i] = "initializing" /\ Rank(pri) > Rank(initPri[i])
         THEN /\ cpc' = [cpc EXCEPT ![c] = "posting"]
              /\ req' = [req EXCEPT ![c] = Fetch(i, pri)]
         ELSE /\ cpc' = [cpc EXCEPT ![c] = "waiting"]
              /\ UNCHANGED req
    /\ UNCHANGED <<mapVars, workerVars, abandoned>>

\* start_fetch() of a new identity: insert its channel, unlock, then post.
StartFetchNew(c, i, pri) ==
    /\ cpc[c] = "idle" /\ cert[i] = "absent" /\ running
    /\ cert' = [cert EXCEPT ![i] = "initializing"]
    /\ initPri' = [initPri EXCEPT ![i] = pri]
    /\ cpc' = [cpc EXCEPT ![c] = "posting"]
    /\ req' = [req EXCEPT ![c] = Fetch(i, pri)]
    /\ rx' = [rx EXCEPT ![c] = i]
    /\ last' = [last EXCEPT ![c] = "live"]
    /\ UNCHANGED <<life, workerVars, abandoned>>

\* forget_certificate(): remove the channel, unlock, then post.  Receivers of
\* the removed channel keep the last value it held.
ForgetCertificate(c, i) ==
    /\ cpc[c] = "idle" /\ cert[i] # "absent" /\ running
    /\ cert' = [cert EXCEPT ![i] = "absent"]
    /\ initPri' = [initPri EXCEPT ![i] = "none"]
    /\ life' = [life EXCEPT ![i] = 0]
    /\ last' = [d \in Clients |->
                  IF rx[d] = i /\ last[d] = "live" THEN cert[i] ELSE last[d]]
    /\ cpc' = [cpc EXCEPT ![c] = "posting"]
    /\ req' = [req EXCEPT ![c] = Forget(i)]
    /\ abandoned' = abandoned \ {i}
    /\ UNCHANGED <<rx, workerVars>>

\* post(): send() waits for room in the channel.
Post(c) ==
    /\ cpc[c] = "posting"
    /\ Len(queue) < QueueCap
    /\ queue' = Append(queue, req[c])
    /\ req' = [req EXCEPT ![c] = NoReq]
    /\ cpc' = [cpc EXCEPT ![c] = IF req[c].op = "fetch" THEN "waiting" ELSE "idle"]
    /\ UNCHANGED <<mapVars, rx, last, job, processing, pendVars, backoff, running, abandoned>>

Value(c) == IF last[c] = "live" THEN cert[rx[c]] ELSE last[c]

\* Mutant: a channel dropped before its first result is not noticed.
ReturnWithResult(c) ==
    /\ cpc[c] = "waiting"
    /\ Value(c) # "initializing"
    /\ cpc' = [cpc EXCEPT ![c] = "idle"]
    /\ rx' = [rx EXCEPT ![c] = NoId]
    /\ last' = [last EXCEPT ![c] = "live"]
    /\ UNCHANGED <<mapVars, req, workerVars, abandoned>>

\* wait(): the channel holds a result, or it was dropped before the first one
\* (Error::Forgotten).
Return(c) ==
    /\ cpc[c] = "waiting"
    /\ Value(c) # "initializing" \/ last[c] # "live"
    /\ cpc' = [cpc EXCEPT ![c] = "idle"]
    /\ rx' = [rx EXCEPT ![c] = NoId]
    /\ last' = [last EXCEPT ![c] = "live"]
    /\ UNCHANGED <<mapVars, req, workerVars, abandoned>>

\* The task that called fetch_certificate is dropped while it waits for room in
\* the request channel, or for the certificate.
CancelFetch(c) ==
    /\ c \in Cancellable
    /\ \/ cpc[c] = "posting" /\ req[c].op = "fetch"
       \/ cpc[c] = "waiting"
    /\ abandoned' = IF cpc[c] = "posting" /\ last[c] = "live"
                         /\ req[c].pri = initPri[rx[c]]
                      THEN abandoned \cup {rx[c]} ELSE abandoned
    /\ cpc' = [cpc EXCEPT ![c] = "idle"]
    /\ req' = [req EXCEPT ![c] = NoReq]
    /\ rx' = [rx EXCEPT ![c] = NoId]
    /\ last' = [last EXCEPT ![c] = "live"]
    /\ UNCHANGED <<mapVars, workerVars>>

-----------------------------------------------------------------------------
(* The worker.  Its select! runs one branch at a time.  A request is taken  *)
(* from the channel and checked against the map (has_id) in one action: what *)
(* the branch does after the check touches only the worker's own variables. *)

\* push_increase(): keep the greater of two priorities; of two equal ones the
\* earlier instant is the greater.
PushIncrease(i, pri, at) ==
    IF \/ Rank(pri) > Rank(pendPri[i])
       \/ Rank(pri) = Rank(pendPri[i]) /\ at < pendAt[i]
      THEN /\ pendPri' = [pendPri EXCEPT ![i] = pri]
           /\ pendAt' = [pendAt EXCEPT ![i] = at]
      ELSE UNCHANGED pendVars

Idle == running /\ job = NoReq

\* Request::Fetch
HandleFetch ==
    /\ Idle /\ queue # <<>> /\ Head(queue).op = "fetch"
    /\ queue' = Tail(queue)
    /\ LET i == Head(queue).id IN
         \/ /\ cert[i] = "absent"
            /\ UNCHANGED <<processing, pendVars>>
         \/ /\ cert[i] # "absent" /\ processing[i] = "none"
            /\ PushIncrease(i, Head(queue).pri, 0)
            /\ UNCHANGED processing
         \/ /\ cert[i] # "absent" /\ processing[i] # "none"
            /\ processing' = [processing EXCEPT ![i] = "processing"]
            /\ UNCHANGED pendVars
    /\ UNCHANGED <<mapVars, clientVars, job, backoff, running, abandoned>>

\* Mutant: Forget is carried out even when the identity is managed again.
HandleForgetUnchecked ==
    /\ Idle /\ queue # <<>> /\ Head(queue).op = "forget"
    /\ queue' = Tail(queue)
    /\ LET i == Head(queue).id IN
         \/ /\ processing[i] = "none"
            /\ pendPri' = [pendPri EXCEPT ![i] = "none"]
            /\ pendAt' = [pendAt EXCEPT ![i] = 0]
            /\ UNCHANGED processing
         \/ /\ processing[i] # "none"
            /\ processing' = [processing EXCEPT ![i] = "forgetting"]
            /\ UNCHANGED pendVars
    /\ UNCHANGED <<mapVars, clientVars, job, backoff, running, abandoned>>

\* Request::Forget
HandleForget ==
    /\ Idle /\ queue # <<>> /\ Head(queue).op = "forget"
    /\ queue' = Tail(queue)
    /\ LET i == Head(queue).id IN
         \/ /\ cert[i] # "absent"
            /\ UNCHANGED <<processing, pendVars>>
         \/ /\ cert[i] = "absent" /\ processing[i] = "none"
            /\ pendPri' = [pendPri EXCEPT ![i] = "none"]
            /\ pendAt' = [pendAt EXCEPT ![i] = 0]
            /\ UNCHANGED processing
         \/ /\ cert[i] = "absent" /\ processing[i] # "none"
            /\ processing' = [processing EXCEPT ![i] = "forgetting"]
            /\ UNCHANGED pendVars
    /\ UNCHANGED <<mapVars, clientVars, job, backoff, running, abandoned>>

\* The head of the KeyedPriorityQueue.
IsHead(i) ==
    /\ pendPri[i] # "none"
    /\ \A j \in Ids : pendPri[j] # "none" =>
         \/ Rank(pendPri[i]) > Rank(pendPri[j])
         \/ Rank(pendPri[i]) = Rank(pendPri[j]) /\ pendAt[i] <= pendAt[j]

Fetching == {i \in Ids : processing[i] # "none"}

\* "Initiate the next fetch": the head is due and there is a free slot.
StartFetch(i) ==
    /\ Idle /\ IsHead(i) /\ pendAt[i] = 0
    /\ Cardinality(Fetching) < Concurrency
    /\ pendPri' = [pendPri EXCEPT ![i] = "none"]
    /\ processing' = [processing EXCEPT ![i] = "processing"]
    /\ UNCHANGED <<mapVars, clientVars, queue, job, pendAt, backoff, running, abandoned>>

\* A fetch completes that nobody wants any more: its result is dropped.
FetchForgotten(i) ==
    /\ Idle /\ processing[i] = "forgetting"
    /\ processing' = [processing EXCEPT ![i] = "none"]
    /\ UNCHANGED <<mapVars, clientVars, queue, job, pendVars, backoff, running, abandoned>>

\* A fetch succeeds.  The next one is due at half of the lifetime; a lifetime
\* of 0 stands for a certificate with unusable dates, refetched at once.
FetchSucceeded(i) ==
    /\ Idle /\ processing[i] = "processing"
    /\ processing' = [processing EXCEPT ![i] = "none"]
    /\ \E l \in Lifetimes :
         job' = [op |-> "store", id |-> i, state |-> "available", life |-> l, at |-> l \div 2]
    /\ backoff' = backoff \ {i}
    /\ UNCHANGED <<mapVars, clientVars, queue, pendVars, running, abandoned>>

Smaller(a, b) == IF a <= b THEN a ELSE b

\* Mutant: the retry ignores when the retained certificate expires.
FailureOutcomeLate(i, delay) ==
    IF cert[i] = "available" /\ life[i] > 0
      THEN [op |-> "store", id |-> i, state |-> "available", life |-> life[i], at |-> delay]
      ELSE [op |-> "store", id |-> i, state |-> "unavailable", life |-> 0, at |-> delay]

\* What becomes of a failed fetch (get_existing_cert_info): a certificate that
\* is still valid is retained, and the retry is due before it expires.
FailureOutcome(i, delay) ==
    IF cert[i] = "available" /\ life[i] > 0
      THEN [op |-> "store", id |-> i, state |-> "available", life |-> life[i],
            at |-> Smaller(delay, life[i])]
      ELSE [op |-> "store", id |-> i, state |-> "unavailable", life |-> 0, at |-> delay]

FetchFailed(i) ==
    /\ Idle /\ processing[i] = "processing"
    /\ processing' = [processing EXCEPT ![i] = "none"]
    /\ \E d \in RetryDelays : job' = FailureOutcome(i, d)
    /\ backoff' = backoff \cup {i}
    /\ UNCHANGED <<mapVars, clientVars, queue, pendVars, running, abandoned>>

\* update_certs(), and the next refresh if the identity is still managed.
Store ==
    /\ running /\ job.op = "store"
    /\ LET i == job.id IN
         \/ /\ cert[i] = "absent"
            /\ UNCHANGED <<mapVars, pendVars>>
         \/ /\ cert[i] # "absent"
            /\ cert' = [cert EXCEPT ![i] = job.state]
            /\ initPri' = [initPri EXCEPT ![i] = "none"]
            /\ life' = [life EXCEPT ![i] = job.life]
            /\ PushIncrease(i, "Background", job.at)
    /\ job' = NoReq
    /\ UNCHANGED <<clientVars, queue, processing, backoff, running, abandoned>>

\* The last SecretManager is dropped: the main loop ends and the remaining
\* fetches complete without effect.
Shutdown ==
    /\ Idle /\ queue = <<>>
    /\ \A c \in Clients : cpc[c] = "idle"
    /\ running' = FALSE
    /\ UNCHANGED <<mapVars, clientVars, queue, job, processing, pendVars, backoff, abandoned>>

DrainFetch(i) ==
    /\ ~running /\ processing[i] # "none"
    /\ processing' = [processing EXCEPT ![i] = "none"]
    /\ UNCHANGED <<mapVars, clientVars, queue, job, pendVars, backoff, running, abandoned>>

Terminated == ~running /\ Fetching = {} /\ UNCHANGED vars

-----------------------------------------------------------------------------
Pred(n) == IF n = 0 THEN 0 ELSE n - 1

\* Time passes.
Tick ==
    /\ running
    /\ \/ \E i \in Ids : life[i] > 0 \/ pendAt[i] > 0
       \/ job.op = "store" /\ (job.life > 0 \/ job.at > 0)
    /\ life' = [i \in Ids |-> Pred(life[i])]
    /\ pendAt' = [i \in Ids |-> Pred(pendAt[i])]
    /\ job' = IF job.op = "store"
                THEN [job EXCEPT !.life = Pred(@), !.at = Pred(@)] ELSE job
    /\ UNCHANGED <<cert, initPri, clientVars, queue, processing, pendPri, backoff, running, abandoned>>

HandleRequest == HandleFetch \/ HandleForget
FetchDone(i) == FetchForgotten(i) \/ FetchSucceeded(i) \/ FetchFailed(i)

ClientStep(c) == Post(c) \/ Return(c)

Next ==
    \/ \E c \in Clients, i \in Ids :
         \/ \E pri \in {"Warmup", "RealTime"} :
              StartFetchKnown(c, i, pri) \/ StartFetchNew(c, i, pri)
         \/ ForgetCertificate(c, i)
    \/ \E c \in Clients : ClientStep(c) \/ CancelFetch(c)
    \/ HandleRequest \/ Store \/ Shutdown
    \/ \E i \in Ids : StartFetch(i) \/ FetchDone(i) \/ DrainFetch(i)
    \/ Tick \/ Terminated

\* Tasks are polled; select! picks among its ready branches at random, so a
\* branch that is ready again and again is taken; the CA answers or fails.
Fairness ==
    /\ \A c \in Clients : WF_vars(ClientStep(c))
    /\ SF_vars(HandleRequest)
    /\ WF_vars(Store)
    /\ \A i \in Ids : SF_vars(StartFetch(i)) /\ SF_vars(FetchDone(i))

Spec == Init /\ [][Next]_vars /\ Fairness

-----------------------------------------------------------------------------
(* Properties                                                              *)

InFlight(r) ==
    \/ \E c \in Clients : cpc[c] = "posting" /\ req[c] = r
    \/ \E n \in 1..Len(queue) : queue[n] = r

FetchInFlight(i) == \E pri \in Priorities : InFlight(Fetch(i, pri))

BeingRefreshed(i) ==
    \/ FetchInFlight(i)
    \/ pendPri[i] # "none"
    \/ processing[i] = "processing"
    \/ job.op = "store" /\ job.id = i

\* Whatever the order in which Fetch and Forget requests reach the worker, the map
\* and the worker disagree no longer than a request is in flight (the check of
\* has_id in run()): an identity in `certs` is requested, pending or being fetched,
\* and nothing is renewed for ever on behalf of a workload that is gone.
MapIsFollowed ==
    running => \A i \in Ids :
        /\ cert[i] # "absent" /\ i \notin abandoned => BeingRefreshed(i)
        /\ cert[i] = "absent" /\ (pendPri[i] # "none" \/ processing[i] = "processing") => InFlight(Forget(i))

\* "Identity found in cache and is already being refreshed" (start_fetch): the
\* same for every identity, callers that were cancelled included.
CachedIsRefreshed ==
    running => \A i \in Ids : cert[i] # "absent" => BeingRefreshed(i)

\* A certificate in the cache has its renewal due no later than its expiry, also
\* after failed renewals with their backoff (the min() in run()).
RenewedBeforeExpiry ==
    \A i \in Ids : (cert[i] = "available" /\ pendPri[i] # "none") => pendAt[i] <= life[i]

\* What the cache promises its users: an identity under management is always about
\* to be refreshed, in time, and one that is gone is not (run(), handle_request).
ManagedIsRefreshed == MapIsFollowed /\ RenewedBeforeExpiry

\* Every fetch_certificate call returns a certificate or an error, unless the call
\* that was to request the identity was dropped before it could (CachedIsRefreshed).
EveryFetchReturns ==
    \A c \in Clients : (cpc[c] = "waiting") ~> (cpc[c] # "waiting" \/ rx[c] \in abandoned)
=============================================================================
