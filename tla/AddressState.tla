---------------------------- MODULE AddressState ----------------------------
(***************************************************************************)
(* Workloads, services and the indices over them: WorkloadStore of         *)
(* src/state/workload.rs, ServiceStore of src/state/service.rs, the        *)
(* Address handlers of src/xds.rs and the certificate requests they make   *)
(* (src/cert_fetcher.rs).                                                  *)
(*                                                                         *)
(* xDS delivers workloads and services in any order; endpoints of a        *)
(* service that is not there yet are staged.  A service is named by its    *)
(* namespace and hostname together.  A step is one update under the write  *)
(* lock of the state.  HashMaps are walked in any order, which shows when  *)
(* services share a VIP.  A resource that fails to parse changes nothing   *)
(* and has no action.  A local file is read into a state of its own that   *)
(* replaces the current one; the workloads it brings do not carry their    *)
(* services (LocalWorkload takes the field away from Workload), so their   *)
(* endpoints stay until the service goes: the history variable fromFile.   *)
(***************************************************************************)
EXTENDS Lists, FiniteSets, SequencesExt

CONSTANTS
    WorkloadIds, Services, Addrs, Vips, Identities, NoEntry,
    WorkloadValues,     \* [addrs, services, id, local, hbone, healthy, host]
    ServiceValues,      \* [vips, allowAll]
    AddressFiles        \* [workload, service]: contents of a local file

EndpointMaps == [WorkloadIds -> BOOLEAN \cup {NoEntry}]     \* the health of each endpoint
Workload ==
    [addrs : SUBSET Addrs, services : SUBSET Services, id : Identities,
     local : BOOLEAN, hbone : BOOLEAN, healthy : BOOLEAN, host : BOOLEAN]
Service  == [vips : SUBSET Vips, allowAll : BOOLEAN, eps : EndpointMaps]
VipEntries == [svc : Service, host : Services]

\* What arrives is of its type, and NoEntry is none of it.
ASSUME AddressAssumption ==
    /\ IsFiniteSet(WorkloadIds) /\ IsFiniteSet(Services)
    /\ NoEntry \notin BOOLEAN /\ {NoEntry} \cap Workload = {} /\ {NoEntry} \cap Service = {} /\ {NoEntry} \cap VipEntries = {}
    /\ WorkloadValues \subseteq Workload
    /\ ServiceValues \subseteq [vips : SUBSET Vips, allowAll : BOOLEAN]
    /\ \A c \in AddressFiles :
          /\ c.workload \in [WorkloadIds -> WorkloadValues \cup {NoEntry}]
          /\ c.service \in [Services -> ServiceValues \cup {NoEntry}]

VARIABLES
    byUid,          \* WorkloadStore.by_uid
    byAddr,         \* WorkloadStore.by_addr, versions of workloads in order of arrival
    byIdentity,     \* WorkloadStore.node_local_by_identity
    store,          \* ServiceStore: service (by_host), staged, byVip
    certs,          \* identities requested from the certificate fetcher and not cleared
    lost,           \* history: workloads that a service they list refused or that it was removed from
    fromFile,       \* history: endpoints of a service that a local file gave it
    shared          \* history: VIPs that two services have had at once

addressVars == <<byUid, byAddr, byIdentity, store, certs, lost, fromFile, shared>>

NoEndpoints == [u \in WorkloadIds |-> NoEntry]

EmptyStore ==
    [service |-> [h \in Services |-> NoEntry],
     staged  |-> [h \in Services |-> NoEndpoints],
     byVip   |-> [v \in Vips |-> NoEntry]]

AddressInit ==
    /\ byUid = NoEndpoints
    /\ byAddr = [a \in Addrs |-> <<>>]
    /\ byIdentity = [i \in Identities |-> {}]
    /\ store = EmptyStore
    /\ certs = {}
    /\ lost = [h \in Services |-> {}] /\ fromFile = lost /\ shared = {}

-----------------------------------------------------------------------------
(* ServiceStore                                                            *)

\* Service::should_include_endpoint, for the health of an endpoint.
Includes(svc, healthy) == healthy # NoEntry /\ (svc.allowAll \/ healthy)

Filtered(svc, eps) == [u \in WorkloadIds |-> IF Includes(svc, eps[u]) THEN eps[u] ELSE NoEntry]

\* remove: the VIPs of the service go with it, whoever they lead to, and so do
\* its staged endpoints.
RemoveService(st, h) ==
    IF st.service[h] = NoEntry THEN st
    ELSE [service |-> [st.service EXCEPT ![h] = NoEntry],
          staged  |-> [st.staged EXCEPT ![h] = NoEndpoints],
          byVip   |-> [v \in Vips |-> IF v \in st.service[h].vips THEN NoEntry ELSE st.byVip[v]]]

\* A hostname that is replaced without its VIPs.
PutStale(st, h, svc) ==
    [st EXCEPT !.service[h] = svc,
               !.byVip = [v \in Vips |-> IF v \in svc.vips /\ st.byVip[v] = NoEntry
                                         THEN [svc |-> svc, host |-> h] ELSE st.byVip[v]]]

\* The last part of insert_internal: both maps get the new version.
Put(st, h, svc) ==
    [service |-> [st.service EXCEPT ![h] = svc],
     staged  |-> st.staged,
     byVip   |-> [v \in Vips |-> IF v \in svc.vips THEN [svc |-> svc, host |-> h] ELSE st.byVip[v]]]

WithEndpoints(svc, eps) == [vips |-> svc.vips, allowAll |-> svc.allowAll, eps |-> eps]

TakeStaged(svc, staged) ==
    WithEndpoints(svc, [u \in WorkloadIds |-> IF Includes(svc, staged[u]) THEN staged[u] ELSE svc.eps[u]])

Stage(st, h, eps) == [service |-> st.service, staged |-> [st.staged EXCEPT ![h] = eps], byVip |-> st.byVip]

\* insert: a service with its staged endpoints replaces the previous one.
Insert(st, h, svc) == Put(RemoveService(Stage(st, h, NoEndpoints), h), h, TakeStaged(svc, st.staged[h]))

PutEndpoint(st, h, u, healthy) ==
    Put(st, h, WithEndpoints(st.service[h], [st.service[h].eps EXCEPT ![u] = healthy]))

StageEndpoint(st, h, u, healthy) == Stage(st, h, [st.staged[h] EXCEPT ![u] = healthy])

InsertEndpoint(st, h, u, healthy) ==
    IF st.service[h] = NoEntry THEN StageEndpoint(st, h, u, healthy)
    ELSE IF ~Includes(st.service[h], healthy) THEN st
    ELSE PutEndpoint(st, h, u, healthy)

RemoveEndpoint(st, h, u) ==
    LET unstaged == StageEndpoint(st, h, u, NoEntry)
    IN IF st.service[h] = NoEntry THEN unstaged ELSE PutEndpoint(unstaged, h, u, NoEntry)

-----------------------------------------------------------------------------
(* WorkloadStore                                                           *)

\* A host network workload has no addresses of its own.
Indexed(w) == IF w.host THEN {} ELSE w.addrs

WithoutAddr(index, u, w) ==
    [a \in Addrs |-> IF a \in Indexed(w) THEN Without(index[a], {x \in Range(index[a]) : x.uid = u}) ELSE index[a]]

WithAddr(index, u, w) ==
    [a \in Addrs |-> IF a \in Indexed(w) THEN Append(index[a], [uid |-> u, wl |-> w]) ELSE index[a]]

WithoutIdentity(index, u, w) == [index EXCEPT ![w.id] = index[w.id] \ {u}]
WithIdentity(index, u, w) == IF w.local THEN [index EXCEPT ![w.id] = index[w.id] \cup {u}] ELSE index

\* CertFetcherImpl::should_prefetch_certificate.
Prefetches(w) == w.local /\ w.hbone

-----------------------------------------------------------------------------
(* Handlers                                                                *)

Listed(u) == IF byUid[u] = NoEntry THEN {} ELSE byUid[u].services

\* remove_endpoint of the previous version, and insert_endpoint of the new one,
\* in any order of their services.
Cleaned(st, u, order) ==
    LET after[i \in 0..Len(order)] == IF i = 0 THEN st ELSE RemoveEndpoint(after[i - 1], order[i], u)
    IN after[Len(order)]

Joined(st, u, healthy, order) ==
    LET after[i \in 0..Len(order)] == IF i = 0 THEN st ELSE InsertEndpoint(after[i - 1], order[i], u, healthy)
    IN after[Len(order)]

\* insert_workload: the previous version is removed, its certificate kept.
UpsertWorkload(u, w, before, after) ==
    LET old == byUid[u]
    IN /\ byUid' = [byUid EXCEPT ![u] = w]
       /\ byAddr' = WithAddr(IF old = NoEntry THEN byAddr ELSE WithoutAddr(byAddr, u, old), u, w)
       /\ byIdentity' = WithIdentity(IF old = NoEntry THEN byIdentity ELSE WithoutIdentity(byIdentity, u, old), u, w)
       /\ store' = Joined(Cleaned(store, u, before), u, w.healthy, after)
       /\ certs' = IF Prefetches(w) THEN certs \cup {w.id} ELSE certs
       /\ lost' = [h \in Services |->
                     IF h \in w.services /\ store.service[h] # NoEntry /\ ~Includes(store.service[h], w.healthy)
                     THEN lost[h] \cup {u} ELSE lost[h] \ {u}]
       /\ UNCHANGED <<fromFile, shared>>

Clears(old, index) == old.local /\ index[old.id] = {}

DeleteWorkload(u, before) ==
    LET old == byUid[u]
        index == WithoutIdentity(byIdentity, u, old)
    IN /\ old # NoEntry
       /\ byUid' = [byUid EXCEPT ![u] = NoEntry]
       /\ byAddr' = WithoutAddr(byAddr, u, old)
       /\ byIdentity' = index
       /\ store' = Cleaned(store, u, before)
       /\ certs' = IF Clears(old, index) THEN certs \ {old.id} ELSE certs
       /\ lost' = [h \in Services |-> lost[h] \ {u}]
       /\ UNCHANGED <<fromFile, shared>>

HasVip(st, h, v) == st.service[h] # NoEntry /\ v \in st.service[h].vips

SharedVips(st) ==
    {v \in Vips : \E g, h \in Services : g # h /\ HasVip(st, g, v) /\ HasVip(st, h, v)}

Members(h) == {u \in WorkloadIds : h \in Listed(u)}

\* insert_service: the endpoints of the previous version are carried over.
CarriedNone(old, v) == WithEndpoints(v, NoEndpoints)
Carried(old, v) == WithEndpoints(v, IF old = NoEntry THEN NoEndpoints ELSE Filtered(v, old.eps))

InsertService(h, v) ==
    /\ store' = Insert(store, h, Carried(store.service[h], v))
    /\ lost' = [lost EXCEPT ![h] = lost[h] \cup {u \in Members(h) : ~Includes(v, byUid[u].healthy)}]
    /\ shared' = shared \cup SharedVips(store')
    /\ UNCHANGED <<byUid, byAddr, byIdentity, certs, fromFile>>

RemoveServiceByName(h) ==
    /\ store.service[h] # NoEntry
    /\ store' = RemoveService(store, h)
    /\ lost' = [lost EXCEPT ![h] = Members(h)]
    /\ fromFile' = [fromFile EXCEPT ![h] = {}]
    /\ UNCHANGED <<byUid, byAddr, byIdentity, certs, shared>>

\* load_config: a new state from a file, workloads before services.  No
\* certificate of the replaced workloads is cleared.
Listing(c, h) == {u \in WorkloadIds : c.workload[u] # NoEntry /\ h \in c.workload[u].services}

ReadWorkload(c, u) == IF c.workload[u] = NoEntry THEN NoEntry ELSE [c.workload[u] EXCEPT !.services = {}]

ReadAddresses(c, arrival) ==
    LET after[i \in 0..Len(arrival)] ==
            IF i = 0 THEN [a \in Addrs |-> <<>>] ELSE WithAddr(after[i - 1], arrival[i], ReadWorkload(c, arrival[i]))
    IN after[Len(arrival)]

Staging(c) ==
    [service |-> EmptyStore.service,
     staged  |-> [h \in Services |-> [u \in WorkloadIds |-> IF u \in Listing(c, h) THEN c.workload[u].healthy ELSE NoEntry]],
     byVip   |-> EmptyStore.byVip]

ReadServices(c, order) ==
    LET after[i \in 0..Len(order)] ==
            IF i = 0 THEN Staging(c) ELSE Insert(after[i - 1], order[i], Carried(NoEntry, c.service[order[i]]))
    IN after[Len(order)]

LoadAddresses(c) ==
    LET us == {u \in WorkloadIds : c.workload[u] # NoEntry}
        hs == {h \in Services : c.service[h] # NoEntry}
    IN \E order \in SetToSeqs(hs), arrival \in SetToSeqs(us) :
        /\ byUid' = [u \in WorkloadIds |-> ReadWorkload(c, u)]
        /\ byAddr' = ReadAddresses(c, arrival)
        /\ byIdentity' = [i \in Identities |-> {u \in us : c.workload[u].local /\ c.workload[u].id = i}]
        /\ store' = ReadServices(c, order)
        /\ certs' = certs \cup {c.workload[u].id : u \in {x \in us : Prefetches(c.workload[x])}}
        /\ lost' = [h \in Services |-> {}]
        /\ fromFile' = [h \in Services |-> Listing(c, h)]
        /\ shared' = shared \cup SharedVips(store')

AddressNext ==
    \/ \E u \in WorkloadIds, w \in WorkloadValues : \E before \in SetToSeqs(Listed(u)), after \in SetToSeqs(w.services) :
          UpsertWorkload(u, w, before, after)
    \/ \E u \in WorkloadIds : \E before \in SetToSeqs(Listed(u)) : DeleteWorkload(u, before)
    \/ \E h \in Services, v \in ServiceValues : InsertService(h, v)
    \/ \E h \in Services : RemoveServiceByName(h)
    \/ \E c \in AddressFiles : LoadAddresses(c)

AddressSpec == AddressInit /\ [][AddressNext]_addressVars

-----------------------------------------------------------------------------
(* Properties                                                              *)

AddressTypeOK ==
    /\ byUid \in [WorkloadIds -> Workload \cup {NoEntry}]
    /\ byAddr \in [Addrs -> Seq([uid : WorkloadIds, wl : Workload])]
    /\ byIdentity \in [Identities -> SUBSET WorkloadIds]
    /\ store \in [service : [Services -> Service \cup {NoEntry}],
                  staged  : [Services -> EndpointMaps],
                  byVip   : [Vips -> VipEntries \cup {NoEntry}]]
    /\ certs \subseteq Identities
    /\ lost \in [Services -> SUBSET WorkloadIds] /\ fromFile \in [Services -> SUBSET WorkloadIds] /\ shared \subseteq Vips

\* The indices of the workload store are exact: every address and every local
\* identity leads to the workloads that have it and to their current version,
\* through updates that change either (WorkloadStore::insert and remove).
WorkloadIndices ==
    /\ \A a \in Addrs :
        {byAddr[a][i] : i \in DOMAIN byAddr[a]} =
          {[uid |-> u, wl |-> byUid[u]] : u \in {x \in WorkloadIds : byUid[x] # NoEntry /\ a \in Indexed(byUid[x])}}
    /\ \A i \in Identities :
        byIdentity[i] = {u \in WorkloadIds : byUid[u] # NoEntry /\ byUid[u].local /\ byUid[u].id = i}

\* No service routes to a workload that is gone, has left the service or has
\* another health, and nothing of the kind is staged, whatever was updated in
\* between ("remove the entry entirely to make sure things are cleaned up
\* properly", insert_workload); an endpoint is staged or in its service, never
\* both.  Endpoints that came from a local file are not covered: they outlive
\* their workload.
EndpointsLive ==
    \A h \in Services, u \in WorkloadIds :
        LET eps == IF store.service[h] = NoEntry THEN NoEndpoints ELSE store.service[h].eps
        IN /\ eps[u] # NoEntry => Includes(store.service[h], eps[u]) /\ store.staged[h][u] = NoEntry
           /\ eps[u] # NoEntry /\ u \notin fromFile[h] => h \in Listed(u) /\ eps[u] = byUid[u].healthy
           /\ store.staged[h][u] # NoEntry /\ u \notin fromFile[h] =>
                store.service[h] = NoEntry /\ h \in Listed(u) /\ store.staged[h][u] = byUid[u].healthy

\* Whatever the order of the updates, a workload is an endpoint of every
\* service it lists, or staged for it, unless the service was removed or
\* refused its health since the workload's last update ("used to handle
\* ordering issues if workloads are received before services").
EndpointsComplete ==
    \A h \in Services : \A u \in Members(h) \ lost[h] :
        IF store.service[h] = NoEntry THEN store.staged[h][u] # NoEntry ELSE store.service[h].eps[u] # NoEntry

\* A VIP never leads to a stale version of a service, nor to one that does not
\* have it, and the VIPs of a service lead to it as long as no two services
\* ever shared them.
VipCurrent ==
    \A v \in Vips :
        /\ store.byVip[v] # NoEntry =>
              store.byVip[v].svc = store.service[store.byVip[v].host] /\ v \in store.byVip[v].svc.vips
        /\ \A h \in Services :
              store.service[h] # NoEntry /\ v \in store.service[h].vips /\ v \notin shared =>
                 store.byVip[v] # NoEntry /\ store.byVip[v].host = h

\* The certificate of a local mesh workload is never cleared because another
\* workload of the same identity went away (was_last_identity_on_node).
CertKept ==
    \A u \in WorkloadIds : byUid[u] # NoEntry /\ Prefetches(byUid[u]) => byUid[u].id \in certs

\* Every index over the workloads and services leads to the current version of what
\* has the key, and the certificate of a local identity is kept while a workload has
\* it (WorkloadStore, ServiceStore, was_last_identity_on_node).
IndicesCurrent == WorkloadIndices /\ VipCurrent /\ CertKept

\* The endpoints of a service are the workloads that list it, whatever the order in
\* which they, the service and their updates came (insert_workload, insert_service).
EndpointsExact == EndpointsLive /\ EndpointsComplete
=============================================================================
