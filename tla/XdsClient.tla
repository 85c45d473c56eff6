------------------------------ MODULE XdsClient ------------------------------
(***************************************************************************)
(* The delta xDS client (xds/client.rs) with the tasks that demand         *)
(* resources through it (state.rs), over a stream that breaks.  The        *)
(* control plane is external: it remembers, for one stream only, what it   *)
(* was asked for and what it believes the client holds, and sends the      *)
(* difference to what exists.  A response and the requests not yet read    *)
(* are lost with the stream.  A value is the content of a resource; Bad    *)
(* is one that does not decode or that the handler rejects.                *)
(***************************************************************************)
EXTENDS Naturals, FiniteSets, Sequences

CONSTANTS
    Watched,        \* types with a wildcard watch, readiness waits for them
    Optional,       \* with_optional_watched_handler: subscribed, not waited for
    OnDemand,       \* types subscribed by name
    Names,          \* names of resources, in every type
    Aliases,        \* other names to ask for a resource by: network/address
    AliasOf,        \* the name of the resource an alias stands for
    Values,         \* contents the handlers accept
    Bad, Absent,
    Tasks,          \* tasks that may demand a resource
    MaxDemand,      \* the capacity of the demand channel
    MaxRequests,    \* bound: requests under way on a stream (channel of 100)
    MaxBackoff,     \* doublings from INITIAL_BACKOFF to MAX_BACKOFF
    MaxChanges,     \* bound: changes of the control plane's resources
    MaxBreaks       \* bound: streams and connections that fail

Types == Watched \union Optional \union OnDemand
Keys == Types \X Names
Of(t) == {t} \X Names

\* ResourceKey: what may be asked for, and what resource that is.
Asks == Types \X (Names \union Aliases)
Resource(j) == IF j[2] \in Aliases THEN <<j[1], AliasOf[j[2]]>> ELSE j
Named(k, js) == \E j \in Asks : j \in js /\ Resource(j) = k

ASSUME XdsAssumption ==
    /\ Watched \intersect OnDemand = {} /\ Optional \subseteq Types \ OnDemand
    /\ AliasOf \in [Aliases -> Names] /\ Aliases \intersect Names = {}
    /\ Bad \notin Values /\ Absent \notin Values \union {Bad} \union Tasks
    /\ {MaxDemand, MaxRequests} \subseteq Nat \ {0} /\ {MaxBackoff, MaxChanges, MaxBreaks} \subseteq Nat

VARIABLES
    store,          \* what the handlers keep (the proxy state)
    known,          \* known_resources
    pending,        \* the task whose oneshot waits for a name, or Absent
    subscriptions,
    demand,         \* the demand channel
    conn,           \* run_loop: "down", "up"
    backoff,
    expect,         \* types_to_expect
    ready,          \* block_ready has been dropped
    requests,       \* on the stream, to the server
    response,       \* on the stream, to the client: at most one
    task,           \* what a demanding task does
    unheard,        \* history: tasks whose resource came while they waited for
                    \* an alias of it
    world, changes, \* the control plane's resources
    wanted,         \* the server: names subscribed to on this stream
    view,           \* the server: what it believes the client holds
    owed,           \* the server: names and types it has to answer for
    breaks

clientVars == <<known, pending, subscriptions, backoff, expect, ready>>
serverVars == <<wanted, view, owed>>
vars == <<store, clientVars, demand, conn, requests, response, task, unheard, world, changes, serverVars, breaks>>

NoResponse == [type |-> Absent]

\* A subscription may be for everything, nothing (the "*" taken back in the
\* same request), or for names.
Sub(t, names, versions) == [type |-> t, names |-> names, versions |-> versions, first |-> TRUE]
Names1(t, k) == [type |-> t, names |-> {k}, versions |-> {}, first |-> FALSE]
Signal(t, ack) == [type |-> t, ack |-> ack]
IsSignal(r) == "ack" \in DOMAIN r

\* recv returns when the answer was handled, and also when the sender was
\* dropped, which it does not tell apart.
Answered == [st |-> "idle"]
Dropped == [st |-> "dropped"]

Expected == (Types \ OnDemand) \ Optional

Init ==
    /\ store = [k \in Keys |-> Absent] /\ known = {} /\ subscriptions = {}
    /\ pending = [j \in Asks |-> Absent]
    /\ demand = <<>> /\ conn = "down" /\ backoff = 0
    /\ expect = Expected /\ ready = FALSE
    /\ requests = <<>> /\ response = NoResponse
    /\ task = [w \in Tasks |-> Answered] /\ unheard = {}
    /\ world \in [Keys -> {Absent} \union Values] /\ changes = 0
    /\ wanted = {} /\ view = [k \in Keys |-> Absent] /\ owed = {}
    /\ breaks = 0

-----------------------------------------------------------------------------
(* Demand                                                                    *)

Supports(t) == t \in OnDemand

\* A hit needs no demand, and a type that is pushed is never demanded.  What is
\* asked for is an address, by fetch_workload_by_address and the waypoint check
\* of an inbound request, or a name, by fetch_sandbox.
Fetch(w, j) ==
    /\ task[w].st \in {"idle", "dropped"}
    /\ store[Resource(j)] = Absent /\ Supports(j[1])
    /\ task' = [task EXCEPT ![w] = [st |-> "sending", key |-> j]]
    /\ unheard' = unheard \ {w}
    /\ UNCHANGED <<store, clientVars, demand, conn, requests, response, world, changes, serverVars, breaks>>

\* Demander::demand waits for room in the channel.
Demand(w) ==
    /\ task[w].st = "sending" /\ Len(demand) < MaxDemand
    /\ demand' = Append(demand, w)
    /\ task' = [task EXCEPT ![w].st = "waiting"]
    /\ UNCHANGED <<store, clientVars, conn, requests, response, world, changes, serverVars, unheard, breaks>>

\* Requested names remain subscribed even while absent.
Subscribed(k) == subscriptions \union {k}

\* handle_demand_event.  The oneshot of an earlier demand for the same key is
\* overwritten, which drops it.
HandleDemand ==
    /\ conn = "up" /\ demand # <<>> /\ Len(requests) < MaxRequests
    /\ LET w == Head(demand) k == task[w].key IN
       /\ pending' = [pending EXCEPT ![k] = w]
       /\ subscriptions' = Subscribed(k)
       /\ requests' = Append(requests, Names1(k[1], k))
       /\ task' = IF pending[k] = Absent THEN task
                  ELSE [task EXCEPT ![pending[k]] = Dropped]
    /\ demand' = Tail(demand)
    /\ UNCHANGED <<store, known, backoff, expect, ready, conn, response, world, changes, serverVars, unheard, breaks>>

-----------------------------------------------------------------------------
(* The stream                                                                *)

\* The names an initial request subscribes to: all for a watch; for a type on
\* demand the names asked for so far, if any.
InitialNames(t) ==
    IF t \in OnDemand THEN {j \in subscriptions : j[1] = t} ELSE Of(t)

\* A plausible slip: the resources held are not told to the new stream.
InitialRequestAmnesic(t) == Sub(t, InitialNames(t), {})

InitialRequest(t) == Sub(t, InitialNames(t), known \intersect Of(t))

\* The requests are composed before the connection is made.
InitialRequests ==
    {s \in [1..Cardinality(Types) -> Types] : \A t \in Types : \E i \in DOMAIN s : s[i] = t}

\* run_internal up to its loop.  Without a type to expect, the stream is enough
\* to be ready.
Connect ==
    /\ conn = "down"
    /\ conn' = "up"
    /\ LET order == CHOOSE s \in InitialRequests : TRUE IN
       requests' = [i \in DOMAIN order |-> InitialRequest(order[i])]
    /\ ready' = (ready \/ expect = {})
    /\ UNCHANGED <<store, known, pending, subscriptions, backoff, expect, demand, response, task, world, changes, serverVars, unheard, breaks>>

Longer == IF backoff < MaxBackoff THEN backoff + 1 ELSE MaxBackoff

\* run_loop: what follows an error of each kind.
NextBackoff ==
    {Longer,    \* Error::Connection, and gRPC errors in general
     0}         \* a stream that was closed or cancelled, other errors, and Ok

\* The connection is refused.
ConnectFails ==
    /\ conn = "down" /\ breaks < MaxBreaks
    /\ breaks' = breaks + 1
    /\ backoff' = Longer
    /\ UNCHANGED <<store, known, pending, subscriptions, expect, ready, demand, conn, requests, response, task, world, changes, serverVars, unheard>>

\* The stream ends: what was under way on it, and what the server remembers of
\* it, is gone.
Break ==
    /\ conn = "up" /\ breaks < MaxBreaks
    /\ breaks' = breaks + 1
    /\ conn' = "down" /\ requests' = <<>> /\ response' = NoResponse
    /\ backoff' \in NextBackoff
    /\ wanted' = {} /\ owed' = {} /\ view' = [k \in Keys |-> Absent]
    /\ UNCHANGED <<store, known, pending, subscriptions, expect, ready, demand, task, world, changes, unheard>>

-----------------------------------------------------------------------------
(* Responses                                                                 *)

\* handle_single_resource over the updates that decode: what is rejected leaves
\* the old resource in place.
Handled(upd, rem) ==
    [k \in Keys |-> CASE k \in rem -> Absent
                      [] k \in DOMAIN upd /\ upd[k] # Bad -> upd[k]
                      [] OTHER -> store[k]]

\* notify_on_demand of some names.
Wake(names) ==
    /\ pending' = [j \in Asks |-> IF j \in names THEN Absent ELSE pending[j]]
    /\ task' = [w \in Tasks |-> IF \E j \in names : pending[j] = w THEN Answered ELSE task[w]]

\* A plausible slip: nobody is told that a resource does not exist.
NotifiedFound(upd, rem) == Wake(DOMAIN upd)

\* HandlerWrapper::handle: by the names of the resources sent, whose aliases it
\* does not read, and by the names said not to exist.
Notified(upd, rem) == Wake(DOMAIN upd \union rem)

\* A plausible slip: only what was demanded is remembered.
KnownAfterAnswered(upd, rem) ==
    (known \ rem) \union {k \in DOMAIN upd : pending[k] # Absent}

\* HandlerWrapper::handle: even a rejected resource is remembered as known.
KnownAfter(upd, rem) == (known \ rem) \union DOMAIN upd

\* What does not decode is set aside, the rest goes through the handler; either
\* makes the response a NACK.
Accepted(upd) == \A k \in DOMAIN upd : upd[k] # Bad

\* Only an ACK of a type ends the wait for it.
StillExpected(t, ack) == IF ack THEN expect \ {t} ELSE expect

\* handle_stream_event and the loop around it: handlers first, then the waiting
\* tasks, then the reply; an ACK is what readiness counts.
HandleResponse ==
    /\ conn = "up" /\ response # NoResponse /\ Len(requests) < MaxRequests
    /\ LET t == response.type upd == response.upd rem == response.rem
           ack == Accepted(upd) left == StillExpected(t, ack) IN
       /\ store' = Handled(upd, rem)
       /\ Notified(upd, rem)
       /\ unheard' = {w \in Tasks : /\ task'[w].st = "waiting"
                                    /\ w \in unheard \/ \E j \in Asks : pending[j] = w /\ Resource(j) \in DOMAIN upd}
       /\ known' = KnownAfter(upd, rem)
       /\ requests' = Append(requests, Signal(t, ack))
       /\ expect' = left
       /\ ready' = (ready \/ (expect # {} /\ left = {}))
    /\ response' = NoResponse
    /\ UNCHANGED <<subscriptions, backoff, demand, conn, world, changes, serverVars, breaks>>

-----------------------------------------------------------------------------
(* The control plane                                                         *)

Change(k, v) ==
    /\ changes < MaxChanges /\ world[k] # v
    /\ world' = [world EXCEPT ![k] = v] /\ changes' = changes + 1
    /\ UNCHANGED <<store, clientVars, demand, conn, requests, response, task, serverVars, unheard, breaks>>

\* A request is read.  What the client already holds is believed to be of an
\* unknown version, so it is sent again or removed.
ServerReads ==
    /\ requests # <<>> /\ requests' = Tail(requests)
    /\ LET r == Head(requests) IN
       IF IsSignal(r) THEN UNCHANGED serverVars
       ELSE /\ wanted' = wanted \union r.names
            /\ view' = [k \in Keys |-> IF k \in r.versions THEN Bad ELSE view[k]]
            /\ owed' = owed \union r.versions
                            \union (IF r.type \in OnDemand THEN r.names ELSE {<<r.type>>})
    /\ UNCHANGED <<store, clientVars, demand, conn, response, task, world, changes, unheard, breaks>>

\* The resources of type t that were asked for, by whatever name, and differ, and
\* those newly asked for or claimed to be held.
Difference(t) ==
    {k \in Of(t) : (Named(k, wanted) /\ world[k] # view[k]) \/ Named(k, owed)}

\* What is said not to exist: a resource the client was sent, or the very name
\* it asked for.
Removed(t) ==
    {k \in Difference(t) : world[k] = Absent /\ view[k] # Absent}
    \union {j \in Asks : j[1] = t /\ j \in owed /\ world[Resource(j)] = Absent}

\* A resource is sent under its own name.
ServerSends(t) ==
    /\ conn = "up" /\ response = NoResponse
    /\ Difference(t) # {} \/ <<t>> \in owed
    /\ LET ks == Difference(t) IN
       /\ response' = [type |-> t, rem |-> Removed(t),
                       upd |-> [k \in {j \in ks : world[j] # Absent} |-> world[k]]]
       /\ view' = [k \in Keys |-> IF k \in ks THEN world[k] ELSE view[k]]
       /\ owed' = {o \in owed : o # <<t>> /\ ~(o \in Asks /\ Resource(o) \in ks)}
    /\ UNCHANGED <<store, clientVars, demand, conn, requests, task, world, changes, wanted, unheard, breaks>>

-----------------------------------------------------------------------------
Next ==
    \/ \E w \in Tasks, j \in Asks : Fetch(w, j)
    \/ \E w \in Tasks : Demand(w)
    \/ HandleDemand \/ HandleResponse
    \/ Connect \/ ConnectFails \/ Break
    \/ \E k \in Keys, v \in Values \union {Bad, Absent} : Change(k, v)
    \/ ServerReads \/ \E t \in Types : ServerSends(t)

\* The client's task runs whenever it can, and so does the control plane; the
\* two arms of its select! are polled in random order, so neither starves.
\* Nothing makes a task demand or the control plane change a resource.
Fairness ==
    /\ WF_vars(Connect) /\ WF_vars(HandleDemand) /\ SF_vars(HandleResponse)
    /\ WF_vars(ServerReads) /\ \A t \in Types : SF_vars(ServerSends(t))

Spec == Init /\ [][Next]_vars /\ Fairness

-----------------------------------------------------------------------------
(* Properties                                                                *)

TypeOK ==
    /\ store \in [Keys -> Values \union {Absent}]
    /\ known \subseteq Keys /\ subscriptions \subseteq Asks /\ \A j \in subscriptions : j[1] \in OnDemand
    /\ pending \in [Asks -> Tasks \union {Absent}]
    /\ expect \subseteq Expected /\ ready \in BOOLEAN /\ backoff \in 0..MaxBackoff

\* Every resource the proxy holds is known to the client, so that a new stream
\* learns what may have been removed while the old one was down
\* (initial_resource_versions of run_internal), and a task that waits for an
\* answer is in the pending table under a name the next stream subscribes to.
Remembered ==
    /\ \A k \in Keys : store[k] # Absent => k \in known
    /\ \A j \in Asks : pending[j] # Absent => j \in subscriptions /\ task[pending[j]].st = "waiting"
    /\ \A w \in Tasks : task[w].st = "waiting" =>
         pending[task[w].key] = w \/ \E i \in DOMAIN demand : demand[i] = w

\* What a stream that stays up ends with: everything subscribed to is held as
\* the control plane has it, except what was rejected, and what is not there
\* any more is gone.
InSync ==
    \A k \in Keys : (k[1] \in OnDemand => Named(k, subscriptions)) =>
        store[k] = world[k] \/ world[k] = Bad

\* Once streams stop failing and resources stop changing the proxy's state
\* converges to the control plane's, whatever was lost on the way
\* (run_internal replays subscriptions and known resources), and readiness is
\* reported unless a rejected resource stands in its way.  And a demand returns,
\* through every reconnect (Demanded::recv has no timeout), except one under an
\* alias that is answered by the resource's own name; it returns unanswered only
\* when another task asked for the same name after it.
Converges ==
    /\ <>[](InSync /\ (ready \/ \E k \in Keys : world[k] = Bad))
    /\ \A w \in Tasks : []<>(task[w].st # "waiting" \/ w \in unheard)

\* What the comment of Demanded::recv says: whoever waits for a demanded resource
\* is told that its response was handled.
DemandAnswered ==
    \A w \in Tasks : (task[w].st = "waiting") ~> (task[w] = Answered)
=============================================================================
