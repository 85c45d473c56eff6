----------------------------- MODULE OutboundUdp -----------------------------
(***************************************************************************)
(* The outbound CONNECT-UDP dispatcher: one task receives redirected       *)
(* datagrams in batches and keeps a table of sessions, one spawned task    *)
(* per flow relays them over an HBONE stream, sessions to one destination  *)
(* share the socket that answers the client, and run_with_drain ends it    *)
(* all.  Threads run in parallel, so a session may take a step between two *)
(* datagrams of one batch.                                                 *)
(***************************************************************************)
EXTENDS Naturals, FiniteSets, Sequences, SequencesExt

CONSTANTS
    Flows,          \* FlowKey: source and original destination
    Dests,          \* original destinations
    DestOf,         \* the destination of a flow
    Sizes,          \* payload sizes
    MaxSessions,    \* udp_max_sessions
    MaxDatagrams,   \* udp_max_buffered_datagrams
    MaxBytes,       \* udp_max_buffered_bytes
    BatchBytes,     \* MAX_CAPSULE_BATCH_BYTES
    MaxReceived,    \* bound: datagrams in a behaviour
    MaxPerReady,    \* bound: datagrams handed over at once
    None

ASSUME UdpAssumption ==
    /\ DestOf \in [Flows -> Dests] /\ Sizes \subseteq Nat
    /\ {MaxSessions, MaxDatagrams, MaxBytes, BatchBytes, MaxReceived, MaxPerReady} \subseteq Nat \ {0}
    /\ None \notin Flows \union Nat \union [sock : Nat, users : Nat]

\* Every session is opened by a datagram.
Ids == 0..(MaxReceived - 1)

VARIABLES
    entries,    \* SessionTable.entries: the id registered for a flow
    nextId,     \* SessionTable.next_id
    sess,       \* the spawned session tasks
    sockets,       \* ResponseSocketPool.entries
    lease,      \* the socket (named after its creator) a session has leased
    completed,  \* the channel of completions
    batch,      \* what is left of the datagrams handed over by recvmmsg
    disp,       \* the dispatcher: "loop", "done"
    drainSeen,   \* the dispatcher has seen the drain
    shutdown,   \* run_with_drain: "run", "waiting" for watchers, "forced"
    seen,       \* datagrams received
    metered,    \* datagrams the metrics count as sent or dropped
    lost        \* history: datagrams that no metric counts

tableVars == <<entries, nextId>>
countVars == <<seen, metered, lost>>
udpVars == <<entries, nextId, sess, sockets, lease, completed, batch, disp, drainSeen, shutdown, countVars>>

\* What a session task is doing: spawned but not polled yet, waiting for its
\* stream, relaying, counting what it leaves behind, closing its queue, giving
\* back its socket, finished but still to report, or gone.
States == {"none", "spawned", "connecting", "relay", "counting", "counted", "closed", "released", "gone"}

NoSession == [flow |-> None, st |-> "none", queue |-> <<>>, inflight |-> 0, counted |-> 0]

\* The queue of a session can still be sent to.
Open(i) == sess[i].st \in {"spawned", "connecting", "relay", "counting", "counted"}

UdpInit ==
    /\ entries = [f \in Flows |-> None] /\ nextId = 0
    /\ sess = [i \in Ids |-> NoSession]
    /\ sockets = [d \in Dests |-> None]
    /\ lease = [i \in Ids |-> None]
    /\ completed = <<>> /\ batch = <<>>
    /\ disp = "loop" /\ drainSeen = FALSE /\ shutdown = "run"
    /\ seen = 0 /\ metered = 0 /\ lost = 0

-----------------------------------------------------------------------------
\* The dispatcher (accept).

\* A completion removes an entry whatever session it belongs to by now.
CompleteAny(tab, f, i) == [tab EXCEPT ![f] = None]

\* SessionTable::complete.
Complete(tab, f, i) == IF tab[f] = i THEN [tab EXCEPT ![f] = None] ELSE tab

\* The dispatcher's select! is biased: forced shutdown, drain, completions,
\* datagrams.  A batch is worked off before the next turn.
Turn == disp = "loop" /\ batch = <<>> /\ ~(drainSeen /\ \A f \in Flows : entries[f] = None)

SeeForce ==
    /\ Turn /\ shutdown = "forced"
    /\ disp' = "done"
    /\ UNCHANGED <<tableVars, sess, sockets, lease, completed, batch, drainSeen, shutdown, countVars>>

SeeDrain ==
    /\ Turn /\ shutdown = "waiting" /\ ~drainSeen
    /\ drainSeen' = TRUE
    /\ UNCHANGED <<tableVars, sess, sockets, lease, completed, batch, disp, shutdown, countVars>>

Calm == shutdown = "run" \/ (shutdown = "waiting" /\ drainSeen)

TakeCompletion ==
    /\ Turn /\ Calm /\ completed # <<>>
    /\ entries' = Complete(entries, Head(completed).flow, Head(completed).id)
    /\ completed' = Tail(completed)
    /\ UNCHANGED <<nextId, sess, sockets, lease, batch, disp, drainSeen, shutdown, countVars>>

\* With the drain seen and no session left the dispatcher returns.
DispatcherReturns ==
    /\ disp = "loop" /\ batch = <<>> /\ drainSeen /\ \A f \in Flows : entries[f] = None
    /\ disp' = "done"
    /\ UNCHANGED <<tableVars, sess, sockets, lease, completed, batch, drainSeen, shutdown, countVars>>

\* What decode_message makes of a message: a datagram of a flow, or one that a
\* client sent to this listener over loopback.
Arrivals == [flow : Flows, size : Sizes] \cup [flow : {"listener"}, size : {0}]

\* recv_nonblocking: messages are collected until none is left or enough are.
\* Those that are truncated or have no original destination are counted as
\* dropped right away.
Batches == UNION {[1..n -> Arrivals] : n \in 0..MaxPerReady}

Receive(b, dropped) ==
    /\ Turn /\ Calm /\ completed = <<>>
    /\ Len(b) + dropped \in 1..MaxPerReady /\ seen + Len(b) + dropped <= MaxReceived
    /\ seen' = seen + Len(b) + dropped
    /\ metered' = metered + dropped
    /\ batch' = b
    /\ UNCHANGED <<tableVars, sess, sockets, lease, completed, disp, drainSeen, shutdown, lost>>

\* DatagramSender::try_send takes a share of the byte budget first, an empty
\* datagram one byte and a large one all of it, then a place in the channel.
Permits(size) == LET n == IF size = 0 THEN 1 ELSE size IN IF n > MaxBytes THEN MaxBytes ELSE n
Held(q) == FoldSeq(LAMBDA size, n : n + Permits(size), 0, q)
Fits(q, size) == Held(q) + Permits(size) <= MaxBytes /\ Len(q) < MaxDatagrams

Rest == batch' = Tail(batch)

IsIllegalCall(f) == f = "listener"

Refuse ==
    /\ batch # <<>> /\ IsIllegalCall(Head(batch).flow)
    /\ metered' = metered + 1
    /\ Rest
    /\ UNCHANGED <<tableVars, sess, sockets, lease, completed, disp, drainSeen, shutdown, seen, lost>>

\* The flow is in the table and its session still listens.
Enqueue ==
    /\ batch # <<>> /\ ~IsIllegalCall(Head(batch).flow)
    /\ LET d == Head(batch)
           i == entries[d.flow]
       IN /\ i # None /\ Open(i)
          /\ \/ /\ Fits(sess[i].queue, d.size)
                /\ sess' = [sess EXCEPT ![i].queue = Append(@, d.size)]
                /\ UNCHANGED metered
             \/ /\ ~Fits(sess[i].queue, d.size)
                /\ metered' = metered + 1
                /\ UNCHANGED sess
    /\ Rest
    /\ UNCHANGED <<tableVars, sockets, lease, completed, disp, drainSeen, shutdown, seen, lost>>

\* The old entry goes and a new session comes, drain or no drain.
AdmitAlways ==
    /\ batch # <<>> /\ ~IsIllegalCall(Head(batch).flow)
    /\ LET d == Head(batch)
           i == entries[d.flow]
       IN /\ i # None => ~Open(i)
          /\ entries' = [entries EXCEPT ![d.flow] = nextId] /\ nextId' = nextId + 1
          /\ sess' = [sess EXCEPT ![nextId] =
                       [NoSession EXCEPT !.flow = d.flow, !.st = "spawned", !.queue = <<d.size>>]]
    /\ Rest
    /\ UNCHANGED <<sockets, lease, completed, disp, drainSeen, shutdown, seen, metered, lost>>

\* A flow without a session, or whose session closed its queue before its
\* completion was read: the old entry goes, a new session comes unless the
\* drain started or the table is full.
Admit ==
    /\ batch # <<>> /\ ~IsIllegalCall(Head(batch).flow)
    /\ LET d == Head(batch)
           i == entries[d.flow]
           tab == IF i = None THEN entries ELSE Complete(entries, d.flow, i)
           full == Cardinality({f \in Flows : tab[f] # None}) >= MaxSessions
       IN /\ i # None => ~Open(i)
          /\ \/ /\ drainSeen \/ full
                /\ entries' = tab /\ metered' = metered + 1
                /\ UNCHANGED <<nextId, sess>>
             \/ /\ ~drainSeen /\ ~full
                /\ entries' = [tab EXCEPT ![d.flow] = nextId] /\ nextId' = nextId + 1
                /\ sess' = [sess EXCEPT ![nextId] =
                       [NoSession EXCEPT !.flow = d.flow, !.st = "spawned", !.queue = <<d.size>>]]
                /\ UNCHANGED metered
    /\ Rest
    /\ UNCHANGED <<sockets, lease, completed, disp, drainSeen, shutdown, seen, lost>>

-----------------------------------------------------------------------------
\* A session task (run_session, relay_datagrams).

Outside == UNCHANGED <<tableVars, batch, disp, drainSeen, shutdown, seen>>

\* The first poll of run_session: from here on track_drops has the queue
\* counted when it is dropped.
StartSession(i) ==
    /\ sess[i].st = "spawned"
    /\ sess' = [sess EXCEPT ![i].st = "connecting"]
    /\ UNCHANGED <<sockets, lease, completed, metered, lost>> /\ Outside

\* connect_udp fails or takes longer than SESSION_ESTABLISH_TIMEOUT, or the
\* response socket cannot be bound.
EstablishFails(i) ==
    /\ sess[i].st = "connecting"
    /\ sess' = [sess EXCEPT ![i].st = "counting"]
    /\ UNCHANGED <<sockets, lease, completed, metered, lost>> /\ Outside

\* An occupied entry is handed out without being counted.
SharedUncounted(e) == e
\* Another user of a socket.
Shared(e) == [e EXCEPT !.users = @ + 1]

\* ResponseSocketPool::acquire: the socket of the destination, or a new one.
Establish(i) ==
    /\ sess[i].st = "connecting"
    /\ LET d == DestOf[sess[i].flow]
           e == IF sockets[d] = None THEN [sock |-> i, users |-> 1] ELSE Shared(sockets[d])
       IN sockets' = [sockets EXCEPT ![d] = e] /\ lease' = [lease EXCEPT ![i] = e.sock]
    /\ sess' = [sess EXCEPT ![i].st = "relay"]
    /\ UNCHANGED <<completed, metered, lost>> /\ Outside

\* next_capsule_batch: datagrams are taken until the encoded bytes reach the
\* limit; a capsule adds its type, length and context.
Encoded(q, k) == FoldSeq(LAMBDA size, n : n + size + 3, 0, SubSeq(q, 1, k))
BatchLen(q) == Cardinality({k \in 1..Len(q) : Encoded(q, k - 1) < BatchBytes})

UploadBatch(i) ==
    /\ sess[i].st = "relay" /\ sess[i].inflight = 0 /\ sess[i].queue # <<>>
    /\ LET n == BatchLen(sess[i].queue)
       IN sess' = [sess EXCEPT ![i].inflight = n, ![i].queue = SubSeq(@, n + 1, Len(@))]
    /\ UNCHANGED <<sockets, lease, completed, metered, lost>> /\ Outside

WriteOk(i) ==
    /\ sess[i].st = "relay" /\ sess[i].inflight > 0
    /\ metered' = metered + sess[i].inflight
    /\ sess' = [sess EXCEPT ![i].inflight = 0]
    /\ UNCHANGED <<sockets, lease, completed, lost>> /\ Outside

\* The relay ends and forgets the batch it was writing.
RelayForgets(i) ==
    /\ sess' = [sess EXCEPT ![i].st = "counting", ![i].inflight = 0]
    /\ UNCHANGED <<sockets, lease, completed, metered, lost>> /\ Outside

\* Whichever direction or timer ends first ends the relay; a batch that is
\* still being written counts as dropped.
RelayOver(i) ==
    /\ metered' = metered + sess[i].inflight
    /\ sess' = [sess EXCEPT ![i].st = "counting", ![i].inflight = 0]
    /\ UNCHANGED <<sockets, lease, completed, lost>> /\ Outside

\* A write fails, returns nothing, or stalls for the idle timeout.
WriteFails(i) == sess[i].st = "relay" /\ sess[i].inflight > 0 /\ RelayOver(i)
\* The peer closes, the stream fails, or a capsule is malformed.
DownloadEnds(i) == sess[i].st = "relay" /\ RelayOver(i)
\* send_response: an error that is not about this one datagram.
ResponseFails(i) == sess[i].st = "relay" /\ RelayOver(i)
IdleTimeout(i) == sess[i].st = "relay" /\ RelayOver(i)

\* The forced shutdown is seen by the relay only.
CutRelay(i) ==
    /\ shutdown = "forced" /\ sess[i].st = "relay"
    /\ lost' = lost + sess[i].inflight
    /\ sess' = [sess EXCEPT ![i].st = "counting", ![i].inflight = 0]
    /\ UNCHANGED <<sockets, lease, completed, metered>> /\ Outside

\* The forced shutdown drops run_session where it waits; a batch being written
\* is not counted.  The select! polls its branches in any order: it may drop
\* run_session before that was ever polled, and nothing of its queue is counted.
Cut(i) ==
    /\ shutdown = "forced" /\ sess[i].st \in {"spawned", "connecting", "relay"}
    /\ lost' = lost + sess[i].inflight
    /\ sess' = [sess EXCEPT ![i].st = IF @ = "spawned" THEN "counted" ELSE "counting", ![i].inflight = 0]
    /\ UNCHANGED <<sockets, lease, completed, metered>> /\ Outside

\* record_pending_drops, then the receiver is dropped: what the dispatcher
\* sends in between is in no metric.
CountPending(i) ==
    /\ sess[i].st = "counting"
    /\ metered' = metered + Len(sess[i].queue)
    /\ sess' = [sess EXCEPT ![i].st = "counted", ![i].counted = Len(sess[i].queue)]
    /\ UNCHANGED <<sockets, lease, completed, lost>> /\ Outside

CloseQueue(i) ==
    /\ sess[i].st = "counted"
    /\ lost' = lost + Len(sess[i].queue) - sess[i].counted
    /\ sess' = [sess EXCEPT ![i] = [@ EXCEPT !.st = "closed", !.queue = <<>>, !.counted = 0]]
    /\ UNCHANGED <<sockets, lease, completed, metered>> /\ Outside

\* Drop for ResponseSocketLease, after the relay let go of its clone; then the
\* log is written and the drain watcher dropped.
ReleaseLease(i) ==
    /\ sess[i].st = "closed"
    /\ LET d == DestOf[sess[i].flow]
       IN sockets' = IF lease[i] = None THEN sockets
                  ELSE [sockets EXCEPT ![d] = IF sockets[d].users = 1 THEN None ELSE [sockets[d] EXCEPT !.users = @ - 1]]
    /\ lease' = [lease EXCEPT ![i] = None]
    /\ sess' = [sess EXCEPT ![i].st = "released"]
    /\ UNCHANGED <<completed, metered, lost>> /\ Outside

\* The task reports and ends; nobody listens once the dispatcher is gone.
Report(i) ==
    /\ sess[i].st = "released"
    /\ completed' = IF disp = "done" THEN completed ELSE Append(completed, [flow |-> sess[i].flow, id |-> i])
    /\ sess' = [sess EXCEPT ![i].st = "gone"]
    /\ UNCHANGED <<sockets, lease, metered, lost>> /\ Outside

-----------------------------------------------------------------------------
\* run_with_drain: a graceful drain waits for every watcher until the
\* deadline, an immediate one for nothing; both force what is left.
Watched == disp # "done" \/ \E i \in Ids : sess[i].st \notin {"none", "released", "gone"}

Elsewhere == UNCHANGED <<tableVars, sess, sockets, lease, completed, batch, disp, drainSeen, countVars>>

DrainGraceful == shutdown = "run" /\ shutdown' = "waiting" /\ Elsewhere
DrainImmediate == shutdown = "run" /\ shutdown' = "forced" /\ Elsewhere
Deadline == shutdown = "waiting" /\ Watched /\ shutdown' = "forced" /\ Elsewhere
Drained == shutdown = "waiting" /\ ~Watched /\ shutdown' = "forced" /\ Elsewhere

Dispatcher == SeeForce \/ SeeDrain \/ TakeCompletion \/ DispatcherReturns \/ Refuse \/ Enqueue \/ Admit
Session(i) ==
    \/ StartSession(i) \/ EstablishFails(i) \/ Establish(i) \/ UploadBatch(i) \/ WriteOk(i)
    \/ WriteFails(i) \/ DownloadEnds(i) \/ ResponseFails(i) \/ IdleTimeout(i)
    \/ Cut(i) \/ CountPending(i) \/ CloseQueue(i) \/ ReleaseLease(i) \/ Report(i)

UdpNext ==
    \/ Dispatcher
    \/ \E b \in Batches, dropped \in 0..MaxPerReady : Receive(b, dropped)
    \/ \E i \in Ids : Session(i)
    \/ DrainGraceful \/ DrainImmediate \/ Deadline \/ Drained

UdpSpec == UdpInit /\ [][UdpNext]_udpVars

\* The dispatcher and the steps that end a session are polled, and the deadline
\* passes.  A peer may keep a stream waiting or busy for ever.
FairSpec ==
    /\ UdpSpec
    /\ WF_udpVars(Dispatcher) /\ WF_udpVars(Deadline \/ Drained)
    /\ \A i \in Ids : /\ WF_udpVars(Cut(i))
                      /\ WF_udpVars(CountPending(i) \/ CloseQueue(i) \/ ReleaseLease(i) \/ Report(i))

-----------------------------------------------------------------------------
UdpTypeOK ==
    /\ entries \in [Flows -> Ids \cup {None}] /\ nextId \in 0..MaxReceived
    /\ \A i \in Ids : sess[i].st \in States /\ sess[i].queue \in Seq(Sizes) /\ sess[i].inflight \in Nat
    /\ \A d \in Dests : sockets[d] = None \/ (sockets[d].sock \in Ids /\ sockets[d].users \in Nat \ {0})
    /\ disp \in {"loop", "done"} /\ shutdown \in {"run", "waiting", "forced"} /\ drainSeen \in BOOLEAN

\* The table names, for every flow, the session that listens for it: a late
\* completion of an ended session never removes the entry of its successor
\* (two sessions for one flow would follow), and an entry whose session ended
\* is about to be removed, so the table does not fill up with dead flows.
TableMatchesSessions ==
    /\ \A i \in Ids : Open(i) => entries[sess[i].flow] = i
    /\ disp = "loop" => \A f \in Flows : entries[f] # None =>
         LET i == entries[f]
         IN /\ sess[i].flow = f
            /\ sess[i].st = "gone" => \E k \in DOMAIN completed : completed[k].id = i

\* Sessions of one destination share one bound socket, which the pool knows
\* as long as any of them has it: the kernel never sees two binds of one
\* address, and no lease finds its entry gone.
SharedBind ==
    \A d \in Dests :
        LET users == {i \in Ids : lease[i] # None /\ DestOf[sess[i].flow] = d}
        IN /\ users # {} <=> sockets[d] # None
           /\ sockets[d] # None => sockets[d].users = Cardinality(users) /\ \A i \in users : lease[i] = sockets[d].sock

\* Every datagram received is written, counted as dropped, waiting or being
\* written, exactly once, and silently lost only when the forced shutdown cuts a
\* batch or a session that was never polled, or when it arrives while its session
\* closes.
Due(s) == s.inflight + Len(s.queue) - s.counted
Accounting ==
    seen = metered + lost + Len(batch) + Cardinality(UNION {{i} \X (1..Due(sess[i])) : i \in Ids})

\* What the dispatcher, the pool and the counters say of the sessions is true: the
\* three parts above, for SessionTable, ResponseSocketPool and the drop counters.
SessionsAccounted == TableMatchesSessions /\ SharedBind /\ Accounting

\* The dispatcher implements the contract of a graceful drain: work is the
\* sessions that listen, it returns from a graceful drain only when the last of
\* them has closed (its table may not forget one), and takes up none after it
\* saw the drain.  And a drain ends: the dispatcher returns and every session is
\* gone, at the latest after the deadline (run_with_drain).
Contract == INSTANCE GracefulDrain WITH
    Work <- Ids,
    active <- {i \in Ids : Open(i)},
    phase <- IF disp = "loop" THEN (IF drainSeen THEN "draining" ELSE "serving")
             ELSE IF drainSeen /\ \A f \in Flows : entries[f] = None THEN "stopped" ELSE "aborted"
DrainContract ==
    /\ Contract!Spec
    /\ []<>(shutdown # "run" => disp = "done" /\ \A i \in Ids : sess[i].st \in {"none", "gone"})
=============================================================================
