----------------------------- MODULE HbonePool -----------------------------
(***************************************************************************)
(* The pool of HTTP/2 tunnels of one workload (src/proxy/pool.rs) with the *)
(* stream accounting of its connections (src/proxy/h2/client.rs,           *)
(* src/proxy/h2.rs).                                                       *)
(*                                                                         *)
(* A task is one outbound connection: it asks the pool for a tunnel once,  *)
(* opens one stream on it and ends.  Locks and pooled tunnels are filed    *)
(* under a hash of the workload key, so two keys may share both.  A task   *)
(* makes at most one tunnel, so a tunnel bears the name of its maker.      *)
(*                                                                         *)
(* Everything between two awaits is a step of its own wherever another     *)
(* thread can see the difference.  The pingora pool, flurry map, tokio     *)
(* mutex (FIFO) and watch channel are external and modelled by what the    *)
(* code relies on.                                                         *)
(***************************************************************************)
EXTENDS Naturals, Sequences, FiniteSets

CONSTANTS
    Tasks,          \* outbound connections, each asking the pool once
    Keys,           \* WorkloadKey values
    Hashes,         \* values of DefaultHasher over the keys
    HashOf,         \* the hash of each key; two keys may collide
    MaxStreams,     \* max_allowed_streams of every tunnel
    NoConn          \* a task that holds no tunnel

\* The u16 values of the limit and of the counters of streams.
U16 == {n \in Nat : n < 65536}

ASSUME PoolAssumption ==
    /\ HashOf \in [Keys -> Hashes]
    /\ MaxStreams \in U16 \ {0}
    /\ NoConn \notin Tasks

\* Fewer connections at a time than the u16 of stream_count can tell apart.
ASSUME TasksAssumption == IsFiniteSet(Tasks) /\ Cardinality(Tasks) \in U16

VARIABLES
    at,         \* where each task is
    key,        \* the WorkloadKey it asks for; later the wl_key of its tunnel
    won,        \* the task makes a tunnel because it won the try_lock race
    held,       \* H2ConnectClient the task holds
    lockmap,    \* established_conn_writelock: hashes that have a mutex
    lockq,      \* each mutex: its holder, then the tasks queued in lock()
    pool,       \* connected_pool: the tunnels filed under each hash
    notified,   \* pool_notifier has been sent to at least once
    conn,       \* the driver of each tunnel: none, up or down
    count,      \* stream_count of each tunnel (u16)
    owner,      \* Outbound::run still holds its reference to the pool
    drained     \* PoolState dropped: timeout_tx has been sent

poolVars == <<at, key, won, held, lockmap, lockq, pool, notified, conn, count, owner, drained>>

-----------------------------------------------------------------------------
Waiting  == {"lookup", "insert", "trylock", "lock", "watch", "dial", "tls"}
HasStream     == {"sending", "stream"}
Over    == {"done", "failed"}
PCs      == Waiting \cup HasStream \cup Over \cup {"idle", "got", "half"}

Hash(t) == HashOf[key[t]]

\* Tasks whose OutboundConnection, and with it a clone of the pool, exists.
Active == {t \in Tasks : at[t] \notin {"idle"} \cup Over}

PoolInit ==
    /\ at = [t \in Tasks |-> "idle"]
    /\ key \in [Tasks -> Keys]
    /\ won = [t \in Tasks |-> FALSE]
    /\ held = [t \in Tasks |-> NoConn]
    /\ lockmap = {}
    /\ lockq = [h \in Hashes |-> <<>>]
    /\ pool = [h \in Hashes |-> {}]
    /\ notified = FALSE
    /\ conn = [t \in Tasks |-> "none"]
    /\ count = [t \in Tasks |-> 0]
    /\ owner = TRUE
    /\ drained = FALSE

-----------------------------------------------------------------------------
\* The mutex of a hash: lock() queues, dropping the guard (or the queued
\* future) hands the lock to the next in line.
\* A queue without one task, the others in their order.
Without(q, t) ==
    LET k == CHOOSE n \in DOMAIN q : q[n] = t
    IN IF \A n \in DOMAIN q : q[n] # t THEN q
       ELSE [n \in 1..(Len(q) - 1) |-> IF n < k THEN q[n] ELSE q[n + 1]]

JoinQueue(t) == lockq' = [lockq EXCEPT ![Hash(t)] = Append(@, t)]
Leave(t)   == lockq' = [lockq EXCEPT ![Hash(t)] = Without(@, t)]
HoldsLock(t) == lockq[Hash(t)] # <<>> /\ Head(lockq[Hash(t)]) = t

Goto(t, l) == at' = [at EXCEPT ![t] = l]

\* Would one more request put the tunnel at its maximum?
WillBeAtMax(c) == count[c] + 1 >= MaxStreams

\* Put the tunnel back for the next task, starting an idle timer and waking
\* the watchers, unless it is about to be full.  rest is what the pool holds
\* otherwise.
MaybeCheckin(c, h, rest) ==
    IF WillBeAtMax(c)
    THEN /\ pool' = [pool EXCEPT ![h] = rest]
         /\ UNCHANGED notified
    ELSE /\ pool' = [pool EXCEPT ![h] = rest \cup {c}]
         /\ notified' = TRUE

\* The connection pulled out must be for the very key asked for.
AnyConnMatches(c, t) == TRUE
IsForWorkload(c, t) == key[c] = key[t]

-----------------------------------------------------------------------------
\* A new outbound connection clones the pool and asks for a tunnel for its
\* key (which Init draws, one per task).
Connect(t) ==
    /\ owner
    /\ at[t] = "idle"
    /\ Goto(t, "lookup")
    /\ UNCHANGED <<key, won, held, lockmap, lockq, pool, notified, conn, count, owner, drained>>

\* First half of the first checkout: queue on the mutex of the hash if it
\* has one.
Lookup(t) ==
    /\ at[t] = "lookup"
    /\ IF Hash(t) \in lockmap
       THEN Goto(t, "lock") /\ JoinQueue(t)
       ELSE Goto(t, "insert") /\ UNCHANGED lockq
    /\ UNCHANGED <<key, won, held, lockmap, pool, notified, conn, count, owner, drained>>

\* try_insert of the mutex; of several tasks one inserts it.
InsertLock(t) ==
    /\ at[t] = "insert"
    /\ lockmap' = lockmap \cup {Hash(t)}
    /\ Goto(t, "trylock")
    /\ UNCHANGED <<key, won, held, lockq, pool, notified, conn, count, owner, drained>>

\* A race without losers: everyone makes a tunnel.
TryLockIgnored(t) ==
    /\ at[t] = "trylock"
    /\ Goto(t, "dial")
    /\ won' = [won EXCEPT ![t] = TRUE]
    /\ IF lockq[Hash(t)] = <<>> THEN JoinQueue(t) ELSE UNCHANGED lockq
    /\ UNCHANGED <<key, held, lockmap, pool, notified, conn, count, owner, drained>>

\* The winner makes a tunnel without looking into the pool; a loser waits
\* for a notification.
TryLock(t) ==
    /\ at[t] = "trylock"
    /\ IF lockq[Hash(t)] = <<>>
       THEN Goto(t, "dial") /\ JoinQueue(t) /\ won' = [won EXCEPT ![t] = TRUE]
       ELSE Goto(t, "watch") /\ UNCHANGED <<lockq, won>>
    /\ UNCHANGED <<key, held, lockmap, pool, notified, conn, count, owner, drained>>

\* A waiter that goes by the pool instead of the notification.
WakeUpPooled(t) ==
    /\ at[t] = "watch"
    /\ pool[Hash(t)] # {}
    /\ Goto(t, "lock")
    /\ JoinQueue(t)
    /\ UNCHANGED <<key, won, held, lockmap, pool, notified, conn, count, owner, drained>>

\* changed(): the receiver is a clone of one that has never seen a value, so
\* any notification ever sent wakes it, and checkout starts again.  A mutex
\* is never taken out of the map, so this second checkout finds one.
Woken(t) ==
    /\ at[t] = "watch"
    /\ notified
    /\ Goto(t, "lock")
    /\ JoinQueue(t)
    /\ UNCHANGED <<key, won, held, lockmap, pool, notified, conn, count, owner, drained>>

\* The guard lives to the end of checkout, across the making of a tunnel.
DropLock(t) == Leave(t)
KeepLock(t) == UNCHANGED lockq

\* Second half of checkout, under the mutex: take tunnels out one by one and
\* drop the broken ones, until one is for another key (error), one is usable
\* (put back, returned) or none is left (make one, keeping the mutex).
CheckoutConn(t) ==
    LET h == Hash(t) IN
    /\ at[t] = "lock"
    /\ HoldsLock(t)
    /\ \E B \in SUBSET {c \in pool[h] : IsForWorkload(c, t) /\ conn[c] # "up"} :
          LET rest == pool[h] \ B IN
          \/ \E c \in rest :
                /\ ~IsForWorkload(c, t)
                /\ pool' = [pool EXCEPT ![h] = rest \ {c}]
                /\ Goto(t, "failed")
                /\ Leave(t)
                /\ UNCHANGED <<held, notified>>
          \/ \E c \in rest :
                /\ IsForWorkload(c, t)
                /\ conn[c] = "up"
                /\ MaybeCheckin(c, h, rest \ {c})
                /\ held' = [held EXCEPT ![t] = c]
                /\ Goto(t, "got")
                /\ Leave(t)
          \/ /\ rest = {}
             /\ pool' = [pool EXCEPT ![h] = {}]
             /\ Goto(t, "dial")
             /\ KeepLock(t)
             /\ UNCHANGED <<held, notified>>
    /\ UNCHANGED <<key, won, lockmap, conn, count, owner, drained>>

-----------------------------------------------------------------------------
\* A failure that never gives the mutex back.
SpawnFailsLocked(t) ==
    /\ Goto(t, "failed")
    /\ UNCHANGED <<key, won, held, lockmap, lockq, pool, notified, conn, count, owner, drained>>

\* new_pool_conn fails: the error leaves connect() and the guard is dropped,
\* nobody is notified.
SpawnFails(t) ==
    /\ Goto(t, "failed")
    /\ Leave(t)
    /\ UNCHANGED <<key, won, held, lockmap, pool, notified, conn, count, owner, drained>>

\* The certificate and the TCP connection; bounded by CONNECTION_TIMEOUT.
DialOk(t) ==
    /\ at[t] = "dial"
    /\ Goto(t, "tls")
    /\ UNCHANGED <<key, won, held, lockmap, lockq, pool, notified, conn, count, owner, drained>>

DialFail(t) ==
    /\ at[t] = "dial"
    /\ SpawnFails(t)

\* The TLS handshake, for which the code sets no bound.  On success the
\* driver is spawned and the tunnel checked in before the guard is dropped.
HandshakeOk(t) ==
    /\ at[t] = "tls"
    /\ conn' = [conn EXCEPT ![t] = "up"]
    /\ MaybeCheckin(t, Hash(t), pool[Hash(t)])
    /\ held' = [held EXCEPT ![t] = t]
    /\ Goto(t, "got")
    /\ Leave(t)
    /\ UNCHANGED <<key, won, lockmap, count, owner, drained>>

HandshakeFail(t) ==
    /\ at[t] = "tls"
    /\ SpawnFails(t)

-----------------------------------------------------------------------------
\* The pool has returned; the stream is counted before the request is sent.
SendRequest(t) ==
    /\ at[t] = "got"
    /\ count' = [count EXCEPT ![held[t]] = (@ + 1) % 65536]
    /\ Goto(t, "sending")
    /\ UNCHANGED <<key, won, held, lockmap, lockq, pool, notified, conn, owner, drained>>

\* Guards installed only once the response has arrived: a cancelled or refused
\* request would never be discounted.
ReleaseLate(t) ==
    count' = IF at[t] = "sending" THEN count
             ELSE [count EXCEPT ![held[t]] = (@ + 65535) % 65536]

\* The first of the two halves to be dropped gives the count back: into_inner
\* is None as long as the other half has its reference.
ReleaseStream(t) == count' = [count EXCEPT ![held[t]] = (@ + 65535) % 65536]

\* A 200 response: the guards go into the two halves of the stream.
Established(t) ==
    /\ at[t] = "sending"
    /\ conn[held[t]] = "up"
    /\ Goto(t, "stream")
    /\ UNCHANGED <<key, won, held, lockmap, lockq, pool, notified, conn, count, owner, drained>>

\* Any other response or a broken tunnel: both guards are dropped.
SendFail(t) ==
    /\ at[t] = "sending"
    /\ ReleaseStream(t)
    /\ held' = [held EXCEPT ![t] = NoConn]
    /\ Goto(t, "failed")
    /\ UNCHANGED <<key, won, lockmap, lockq, pool, notified, conn, owner, drained>>

\* Copying is over: the halves are dropped one after the other.
DropFirstHalf(t) ==
    /\ at[t] = "stream"
    /\ ReleaseStream(t)
    /\ Goto(t, "half")
    /\ UNCHANGED <<key, won, held, lockmap, lockq, pool, notified, conn, owner, drained>>

DropSecondHalf(t) ==
    /\ at[t] = "half"
    /\ held' = [held EXCEPT ![t] = NoConn]
    /\ Goto(t, "done")
    /\ UNCHANGED <<key, won, lockmap, lockq, pool, notified, conn, count, owner, drained>>

\* The policy drain or forced shutdown drops the future at an await before
\* the response: what it holds (mutex, queue place, guards) is given back.
CancelConnect(t) ==
    \/ /\ at[t] \in {"lock", "watch", "dial", "tls"}
       /\ SpawnFails(t)
    \/ SendFail(t)

-----------------------------------------------------------------------------
\* Idle timer or LRU eviction: the pool lets go of a tunnel.
IdleExpires(h, c) ==
    /\ c \in pool[h]
    /\ pool' = [pool EXCEPT ![h] = @ \ {c}]
    /\ UNCHANGED <<at, key, won, held, lockmap, lockq, notified, conn, count, owner, drained>>

\* GOAWAY, ping timeout, reset, or h2 closing a tunnel nobody refers to.
DriverEnds(c) ==
    /\ conn[c] = "up"
    /\ conn' = [conn EXCEPT ![c] = "down"]
    /\ UNCHANGED <<at, key, won, held, lockmap, lockq, pool, notified, count, owner, drained>>

\* The driver sees the drain.
DriverDrained(c) == drained /\ DriverEnds(c)

\* Outbound::run returns and drops its pool.
OwnerDrops ==
    /\ owner
    /\ owner' = FALSE
    /\ UNCHANGED <<at, key, won, held, lockmap, lockq, pool, notified, conn, count, drained>>

\* The last clone is gone: PoolState is dropped and stops every driver.
PoolDrops ==
    /\ ~owner /\ Active = {} /\ ~drained
    /\ drained' = TRUE
    /\ pool' = [h \in Hashes |-> {}]
    /\ UNCHANGED <<at, key, won, held, lockmap, lockq, notified, conn, count, owner>>

Step(t) ==
    \/ Lookup(t) \/ InsertLock(t) \/ TryLock(t) \/ Woken(t) \/ CheckoutConn(t)
    \/ SendRequest(t) \/ DropSecondHalf(t)
Dial(t)  == DialOk(t) \/ DialFail(t)
Peer(t)  == HandshakeOk(t) \/ HandshakeFail(t)
Reply(t) == Established(t) \/ SendFail(t)

PoolNext ==
    \/ \E t \in Tasks :
          \/ Connect(t) \/ Step(t) \/ Dial(t) \/ Peer(t) \/ Reply(t)
          \/ DropFirstHalf(t) \/ CancelConnect(t)
    \/ \E h \in Hashes, c \in Tasks : IdleExpires(h, c)
    \/ \E c \in Tasks : DriverEnds(c) \/ DriverDrained(c)
    \/ OwnerDrops
    \/ PoolDrops
    \/ /\ drained /\ \A c \in Tasks : conn[c] # "up"
       /\ UNCHANGED poolVars

PoolSpec == PoolInit /\ [][PoolNext]_poolVars

\* The runtime polls every ready task and runs destructors; dialling is
\* bounded by CONNECTION_TIMEOUT.
CodeFairness ==
    /\ \A t \in Tasks : WF_poolVars(Step(t)) /\ WF_poolVars(Dial(t))
    /\ \A c \in Tasks : WF_poolVars(DriverDrained(c))
    /\ WF_poolVars(PoolDrops)

CodeSpec == PoolSpec /\ CodeFairness

\* The same, with peers that answer or refuse every TLS handshake: the code
\* sets no bound of its own for it.
PeerSpec == CodeSpec /\ \A t \in Tasks : WF_poolVars(Peer(t))

-----------------------------------------------------------------------------
\* The types, and that a task refers to a tunnel exactly from the time the
\* pool returned it until its stream is gone.
PoolTypeOK ==
    /\ \A t \in Tasks :
          (held[t] # NoConn) <=> (at[t] \in HasStream \cup {"got", "half"})
    /\ at \in [Tasks -> PCs]
    /\ key \in [Tasks -> Keys]
    /\ won \in [Tasks -> BOOLEAN]
    /\ held \in [Tasks -> Tasks \cup {NoConn}]
    /\ lockmap \subseteq Hashes
    /\ lockq \in [Hashes -> Seq(Tasks)]
    /\ pool \in [Hashes -> SUBSET Tasks]
    /\ notified \in BOOLEAN
    /\ conn \in [Tasks -> {"none", "up", "down"}]
    /\ count \in [Tasks -> U16]
    /\ owner \in BOOLEAN
    /\ drained \in BOOLEAN

\* Whatever collides in the hash, a task only ever talks through a tunnel
\* made for its own source, destination and sandbox (guarded_get,
\* enforce_key_integrity).
KeyIsolation == \A t \in Tasks : held[t] # NoConn => key[held[t]] = key[t]

\* A task that decided under the mutex that a new tunnel is needed is still
\* right when it has made it: nothing enters the pool for that hash while it
\* dials, across all its awaits (checkout_conn_under_writelock).
PoolEmptyWhileDialling ==
    \A t \in Tasks : at[t] \in {"dial", "tls"} /\ ~won[t] => pool[Hash(t)] = {}

\* Two tasks never make tunnels of one hash at the same time, and whoever
\* makes one holds the mutex.
OneDialPerHash ==
    \A t \in Tasks : at[t] \in {"dial", "tls"} => HoldsLock(t)

\* The pool keeps tunnels apart and makes no needless one, although workload keys may
\* share a hash and every decision is followed by awaits: the three parts above.
TunnelsSound == KeyIsolation /\ PoolEmptyWhileDialling /\ OneDialPerHash

Streams(c) == {t \in Tasks : held[t] = c /\ at[t] \in HasStream}

\* stream_count is given back exactly once for every request, through failures,
\* cancellations and halves dropped in any order: it is the number of requests
\* in flight and of streams no half of which is dropped, so that it never leaks
\* nor underflows its u16, or the tunnel would never be pooled again.  (The
\* comments of DropCounter mean it to last longer: CountedToTheEnd.)
CountExact == \A c \in Tasks : count[c] = Cardinality(Streams(c))

\* h2.rs:97 "Whether the other end of this shared counter has already dropped.
\* We only decrement if they have": a stream is counted until both its halves
\* are dropped.
CountedToTheEnd ==
    \A c \in Tasks :
        count[c] = Cardinality(Streams(c) \cup {t \in Tasks : held[t] = c /\ at[t] = "half"})

\* Once any tunnel was ever put in the pool, every request for a tunnel ends with a
\* tunnel or an error; and whatever came before, every queued checkout gets the
\* mutex: no failure or cancellation leaves it taken (connect).
NotifiedConnectsResolve ==
    \A t \in Tasks :
        /\ []<>(notified => at[t] \notin Waiting)
        /\ []<>(at[t] # "lock")

\* pool.rs:472 "loop and wait for the pool_watcher to tell us a new conn was
\* enpooled": a loser of the race is woken.
LoserIsWoken == \A t \in Tasks : (at[t] = "watch") ~> (at[t] # "watch")
=============================================================================
