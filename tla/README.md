# Verification of ztunnel

TLA+ specifications of the state machines inside this ztunnel (the node-level
proxy of an ambient mesh, extended with traffic policies, sandboxes and a
non-TCP firewall), the TLC configurations that check them on small instances,
and TLAPS proofs of the most important properties for instances of any size.
Paths below are relative to `src/src/` of the repository; `PROJECT.json` maps
every definition to the lines it models and lists the hazards that each property
is about.

    tlc -workers 2 -config Proxy.cfg MCProxy     # one run
    tlapm StateProofs.tla                        # one module of proofs

Contents: 1 inventory, 2 modules and their correspondence to the code, 3 runs,
bounds and fairness, 4 proofs, 5 where the code surprises, 6 what is not
modelled, 7 plan.

## 1. Inventory

ztunnel is a tokio program. A control side learns *workloads, services,
policies and sandboxes* over xDS into one `ProxyState` behind a read/write lock,
keeps *certificates* for the identities on the node and, in shared mode, is told
by a node agent which *pods* to proxy. A data side runs one proxy per pod:
listeners, one task per connection, a pool of HBONE tunnels, a policy watcher, a
DNS server, a UDP dispatcher.

| Component | State | Operations | Hard because | Correct when |
|---|---|---|---|---|
| Connection manager, policy watcher (`proxy/connection_manager.rs`) | map context → (drain channel, counter); watch receiver | register, assert_rbac, release, close, sweep | every connection task, the watcher and xDS interleave; entries are found by context, not by connection | no connection outlives its permission; no entry leaks |
| Secret manager (`identity/manager.rs`) | `certs` map; worker-local `processing`, `pending`, backoffs; bounded channel | fetch, forget, worker loop | map and worker are coupled only through a channel posted to after the lock is released | an identity in the map is being refreshed; nothing forgotten is; calls return |
| HBONE pool (`proxy/pool.rs`, `proxy/h2/client.rs`, `proxy/h2.rs`) | lock map, mutex per hash, pingora pool, watch channel, stream counts | connect, send, stream end, idle out, drain | lock-free map, try_lock race, waiting for a notification, counters changed by drop guards | right key, one dial at a time, exact counts, nobody waits for ever |
| Policies, sandbox bindings (`rbac.rs`, `sandbox/discovery.rs`, handlers in `xds.rs`) | resources, index by workload, watch sender | update, remove, batches, local file, evaluate | three resource types in any order, partly rejected batches, two evaluators of one policy | index exact; first match, fail closed, in both evaluators; every changed decision is notified |
| Workload and service stores (`state/workload.rs`, `state/service.rs`, `xds.rs`) | by uid, address, identity; by host, VIP; staged endpoints | insert, remove, local file | endpoints before services, versions stored twice, shared VIPs and identities | indices exact, endpoints neither stale nor missing |
| In-pod manager (`inpod/workloadmanager.rs`, `inpod/statemanager.rs`, `inpod/admin.rs`) | workload states, pending, snapshot, draining proxies, counters | add, keep, delete, snapshot, retry, reconnect, drain | snapshot protocol over a connection that breaks; starts are awaited, fail and are retried | proxies converge to the agent's cache; no orphan |
| Outbound UDP (`proxy/outbound_udp.rs`) | session table, queues, response sockets, drop counters | dispatch, establish, relay, session end, drain | late completions, limits, shared sockets, a drain with a deadline | table exact, one bound socket per destination, every datagram accounted for |
| Firewall controllers (`firewall/inpod.rs`, `firewall/dedicated.rs`), backends (`firewall/backend/*`) | pod → netns, state, hash of applied rules; chains in the kernel | add, remove, debounce, rebuild, retry, detect, render | rules computed under a lock and applied later; failing, half done and late calls; restarts | applied rules are those of the current policy and mean what the policy says |
| xDS client (`xds/client.rs`) | known resources, subscriptions, pending demands, backoff | stream, ACK/NACK, demand, reconnect | lost streams, rejected resources, two demands of one name | nothing removed survives a reconnect; demands are woken |
| Sandbox manager (`sandbox/sandbox.rs`, `proxy/sandbox.rs`), token files (`sandbox/token.rs`, `watcher/`) | registration in memory, file and disk; directory snapshot; two locks | prepare, register, recover, refresh, restart | races of preparations, crash between write, rename, flush and publication, cancelled scans | one identity for ever; no lost wake-up; the snapshot never goes back |
| Upstream lookup, requests (`state.rs`, `proxy/outbound.rs`, `proxy/inbound.rs`, `proxy/inbound_passthrough.rs`, `proxy/socks5.rs`, `proxy/metrics.rs`) | one task per connection, counters | accept, route, resolve, validate, admit, connect, end | the store changes between two lookups; a task may be cancelled anywhere | a connection ends where it was checked; hop and identity belong together; exact counters |
| DNS (`dns/`) | queries in flight | lookup, forward | two lookups under separate locks, aliases and search domains | answers are grounded in the store |
| TLS, CA client (`tls/`, `identity/caclient.rs`) | channel to the CA, revocation lists | fetch, rotate, reload, verify | rotation during a fetch, broken files | right identity, refreshed in time, revoked peers stay out |
| Start and drain (`app.rs`, `readiness.rs`, `signal.rs`, `drain.rs`, `hyper_util.rs`, `admin/unix.rs`) | tasks and their stage, readiness set, socket file | build, ready, signal, drain | tasks end in any order, a drain may come at any time | ready is true; a drain is never stuck and leaves nothing behind |
| Copy (`copy.rs`), codecs (`proxy/h2/capsule.rs`, `inpod/protocol.rs`) | buffers, decoder state, descriptors | read, write, shut down; push; read | partial reads and writes, fragments, resets | streams and messages arrive whole |
| Conversion (`state/workload.rs`, `state/service.rs`, `extensions/`, `baggage.rs`), configuration (`config.rs`) | none | parse, convert, validate | many cases, partial failure, u64 arithmetic | inputs are kept as they were meant |
| Probes (`probe.rs`, `metrics/server.rs`) | requests in flight | HTTP, TCP, gRPC probes | the application changes meanwhile; redirects, timeouts | success only if the application was healthy |
| Metrics, sockets, namespaces, helpers | – | – | – | – |

How they interact. xDS handlers change the stores under the write lock and call
`policies.send()` in the same critical section; the policy watcher, the firewall
controllers and the sandbox manager are woken by it. A connection task registers
with the connection manager *before* it evaluates the policy, then asks the pool
for a tunnel, whose dial asks the secret manager for a certificate. Workload
updates ask the secret manager to prefetch or forget through the certificate
fetcher. The in-pod manager starts and drains whole proxies and tells the
firewall controller about pods. Drain channels connect everything to shutdown.

The composition is by contract. `ConnectionManager` takes the policy as an
arbitrary set of allowed contexts that changes together with a notification, and
`PolicyState` checks exactly that of the handlers (`NotifyOnChange`). `Requests`
takes admission as a choice, the pool and the secret manager as outcomes.
`GracefulDrain` is what a drain promises, and the UDP dispatcher and the in-pod
manager are shown to implement it.

## 2. Modules

Each module's header says what a step is. In general a step is what one task
does under one lock, or between two awaits where another thread could see the
difference; everything else is atomic. `MC*` modules give the constants values.
Operators named after a definition with a suffix (`ReleasedUnchecked`,
`ChosenFresh`) are plausible wrong versions of it, used to make sure that each
property can fail; no specification uses them.

**ConnectionManager** — `drains` is the HashMap; an entry is a channel identity
and a counter. A connection task goes `idle → registered → guarded → serving`
(or `rejected`), following `assert_rbac`, the `ConnectionGuard` and
`handle_connection!`. `Released` and `CutByRelease` are `release`: dropping the
entry drops its trigger, which every watcher of the channel sees as a drain.
`Close`/`CloseWait` are `close()` with its wait for all watchers. `WakeUp`,
`Evaluate`, `SweepDone` are one iteration of `PolicyWatcher::run`. `UpdatePolicy`
is any handler that ends in `policies.send()`. Channel identities are recycled
when nobody refers to them. `early` is a history variable (section 5).

**SecretManager** — `cert` is the state inside each `CertChannel`. Clients look
up or insert under the lock, and post their request in a later step (`posting`).
The worker's `select!` arms are `HandleRequest`, `StartFetch`, `FetchDone`,
`Store`; `job` holds what it does between two of its own lock operations.
Instants are durations from now that `Tick` lets shrink, so no clock grows. The
backoff is any of `RetryDelays`, capped by the rest of the certificate's
validity as in the code.

**HbonePool** — a task is one outbound connection; a tunnel bears the name of the
task that made it. `lookup`, `insert`, `trylock`, `lock`, `watch`, `dial`, `tls`
are the await and lock points of `connect`, in its order. Two keys may share a
hash, hence a mutex and a slot. `count` is `stream_count`, raised by
`send_request` and lowered by the drop guard of whichever half of the stream goes
first; the other half then holds the stream alone (`half`). The pingora pool,
the flurry map, tokio's mutex and watch channel are external.

**PolicyState** — stores and handlers of policies, sandboxes and workload
bindings; `RbacAllows` is the decision over a connection, `FirewallAllows` the
verdict of the netfilter rules that `firewall_rulesets` derives. Both are compared
with `Decides`, a reference that knows neither priorities nor groups. A resource
that does not parse or validate is the value `Invalid`. A batch is one step, the last
value of a function over its positions (`SandboxFold`, `PolicyFold`), and so are the
priorities of the rules (`Offset`).

**AddressState** — `byUid`, `byAddr`, `byIdentity` are `WorkloadStore`,
`store` is `ServiceStore`. A VIP entry holds its own version of the service, as
the `Arc`s in the code do, so a stale one would show. HashMap iteration is a
choice of order. `certs` are the prefetch and forget requests the certificate
fetcher accepted. `lost`, `shared` and `fromFile` are history variables for the
cases the code gives up on (section 5).

**Lists** — `Without` is `Vec::retain`, which both indices use.

**WorkloadManager** — the manager's task with the agent and the proxies around
it. `mode` is where the task stands; while a start is awaited (`starting`,
`retrying`) drained proxies exit and touch the admin counters. `states`,
`pending`, `received`, `names`, `draining`, `timer`, `ready` are the fields of
the code; `fw` is what the firewall coordinator knows after the events sent.
The agent is external and follows `proto/zds.proto`.

**OutboundUdp** — the dispatcher's loop (`Receive`, `Admit`, `Enqueue`,
`TakeCompletion`), one record per spawned session (`sess`: its stage, queue, what
it holds of a batch), the response sockets with their users, `run_with_drain`
around it all. A session that was spawned has to be polled once (`StartSession`)
before its receiver counts drops; the `select!` around it is unbiased, so a forced
shutdown may come first (`Cut`), and then nothing counts what was queued. Datagrams are
sizes; `seen`, `metered` and `lost` say what became of each.

**GracefulDrain** — two variables, `phase` and `active`: work is taken up only
while serving, and the phase is `stopped` only when none is left.

**Netfilter** — rule sets as sets of addresses, ports and protocols, rendered to
nftables lines (families, named sets above a threshold) and to iptables lines
(products, multiport chunks), and what the kernel does with lines, against first
match over the rules. `Exempt` is what passes before any rule: of a pod with the DNS
proxy, iptables accepts every outbound UDP packet to port 53, nftables does not. A named
set is known by the place it is rendered at; the counter in the code that makes its name
unique is left out.

**Firewall** — both controllers over the same backend: events, debounce, jobs
computed under the state's lock and applied after it, retries, the kernel's hooks
and chains per network namespace, calls that fail, are half done, or time out and
take effect later, restarts with either backend mode, detection. A start with the
iptables mode does not look for nftables rules; `stranded` is the history of the netns
where that left some.

**XdsClient** — `run_loop` and `run_internal` with `known_resources`, the
subscriptions and the `pending` table of oneshots, the demand channel, backoff
and readiness; the control plane is external and remembers one stream only. A resource
may be demanded by its name or by an alias (`network/ip`); it is sent back under its
name, and the handler notifies by that name. A task whose oneshot was replaced returns
`Dropped`, not answered.

**TokenStore**, **SandboxManager** — `SandboxManager` extends `TokenStore`. The
steps of a preparation are those of `fetch_sandbox`, `wait_for_workload`,
`get_or_load` and `register`, with the subscription, the look and the wait for a change
apart; `file` and `durable` are what the process and a
power loss leave of `sandbox.json`. `Restart` is a crash of the process or of the
node. `acked` and `reread` are history variables.

**Routing**, **Requests** — `Routing` holds the pure lookups of `state.rs` and the
decisions of `outbound.rs` and `inbound.rs`; a random choice is a set of results.
`Requests` is the life of a connection of every kind (`tcp`, `udp`, `socks`,
`hbone`, `plain`), stage by stage, with the store changing in between, and the
counters with their drop guards. With on-demand xDS (`XDS_ON_DEMAND`) a lookup that
finds nothing asks for the target and looks once more when it is told, for the
destination of an inbound request (`ValidateDestination`) and for the source of a
connection (`FetchSource`). A hostname in the authority names its service whether or not the
workload is a member. `seen` is a history variable: the states of the store that the
task has lived in.

**Dns** — names as sequences of `Labels`; aliases, search domains and wildcards as one
list of names in the order in which `find_server` looks for them, `find_server` and
`get_addresses` under separate locks, forwarding, counters. `seen` is a history
variable: the states of the store since the query began.

**Tls** — certificates as records; `CaClient` with the dirty flag of the root, the
checks of the CA's answer, refresh times, `CrlManager`, the verifiers.

**Lifecycle** — `build_with_cert` step by step, each of which may fail (its tasks are
then dropped while the servers that run can still answer, before the process exits), the
tasks it creates, readiness, signals, and the drain of every server with its connections
and the admin socket's file. What a peer does, reading its answer included, is no step of
the process: `DrainSteps` leaves it out.

**DataPath** — both directions of `copy_bidirectional`, a direction carrying the
units 1, 2, ...; an empty DATA frame is 0. A reset is seen as such by HTTP/2 also after
the end of the stream.

**Wire** — the capsule decoder over every fragmentation of a stream, and one
`read_message` of the agent protocol with its descriptors: `cmsgs()` fails on a truncated
control message (`ctrunc`) before any descriptor has an owner, a truncated message
(`trunc`) is refused after.

**Convert**, **Settings**, **Probes** — from resources on the wire to what the
stores keep; the layers of the configuration and their checks; the probes that the
stats server answers for the application.

**MCProxy**, **MCStores**, **MCInpod** and **MCServing** put several of these side by
side. Their parts share no state: a behaviour is one of one part, so that the number of
states adds and does not multiply, and the fairness of a part asks for no step of the
others, which rest. In `MCInpod` the firewall rests while the manager is explored, and
the manager has drained before the firewall is.

## 3. Runs

| Run | Kinds | Bound |
|---|---|---|
| `proxy` | invariants, refinement, liveness | 2 connections, 2 contexts, 2 channels; 2 tasks, 2 keys with one hash, 2 streams; 2 flows to 1 destination, 1 session slot, 2 datagrams and 4 bytes of queue, 3 datagrams in all |
| `stores` | invariants, action property, liveness | 2 workloads, 2 sandboxes, 2 policies, batches of up to 2 with rejected members, files; 2 workloads, 2 services, 2 addresses, 2 VIPs, 2 identities; 1 certificate, 2 clients that may be cancelled, 1 fetch slot, a queue of 1, certificates that may arrive expired |
| `inpod` | invariants, refinement, liveness | 2 pods, 2 netns, 3 changes of the cache, 1 lost connection, 2 failed starts, 3 proxies; 2 pods of 2 generations, 2 rule sets, 3 changes, 2 faults |
| `xds_client` | invariant, liveness | 1 watched and 1 on-demand type, 1 name and 1 alias of it, 2 waiting tasks, 1 change, 1 broken stream |
| `sandbox_manager` | invariant, action property | 2 requests with 2 identities, 1 token file that is missing at first, 1 write, 1 xDS change, 2 faults; symmetric |
| `serving` | invariants | 1 connection of every kind over the stores of the module and 1 change; 1 DNS query; 2 CA fetches and 1 handshake; every configuration of the start; streams of 2 units; chosen wires, resources, environments, rule sets and probes |
| `secret_manager_cancel` | expected violation | 1 identity, 2 clients |
| `hbone_pool_lost`, `hbone_pool_halves` | expected violations | 2 tasks, 1 key |
| `xds_alias` | expected violation | 1 name, 1 alias, 2 tasks, nothing fails |
| `drain` | expected violation | a dedicated proxy, 1 connection |
| `wire` | expected violation | messages with at most 2 descriptors |

What each property says is in the comment above it; what each run shows is in
`PROJECT.json`. In short:

*proxy, connections*: `NoStaleAllow` – once the watcher is idle with nothing
unseen, every live connection is allowed by the policy of that moment, although
policies change between registration and evaluation, between snapshot and
evaluation, and during a close. `NoLeakedEntry` – counters never exceed the
connections behind them. `DeniedIsClosed` – a denied connection ends and
`close()` returns.

*proxy, tunnels*: `TunnelsSound` – a tunnel never serves another workload key, hash
collisions included; the decision to dial, taken several awaits earlier, is still
right and exclusive among winners. `CountExact` – through failures and cancellations the
stream count is the number of streams with both halves. `NotifiedConnectsResolve` –
liveness.

*proxy, datagrams*: `SessionsAccounted` – the table names the listening session of a
flow whatever completions come late, the sessions of a destination share one bound
socket that the last one closes, every datagram is counted once, or lost in one of the
three ways the code has. `DrainContract` – the refinement of `GracefulDrain`, and that a
drain ends.

*stores*: `PoliciesDecide` – the index of sandboxes is exact (`BindingIndex`) and both
evaluators decide as the reference does (`EvaluatorsAgree`); `NotifyOnChange` quantifies
over all connection contexts, so any handler that changes any decision without a
notification is found. `IndicesCurrent`, `EndpointsExact`: after any sequence of updates
the indices are exactly what the workloads and services say, with the exceptions of
section 5. `ManagedIsRefreshed` relates the certificate map to the worker in both
directions, for every order in which Fetch and Forget overtake one another, and the
renewal to the expiry; `EveryFetchReturns` – liveness.

*inpod*: `AddsTakeEffect`, `NothingForgottenRuns`, `ProxiesAccounted`
relate agent, manager, proxies, admin counters and firewall; `DrainContract` is the
refinement of `GracefulDrain`; `Converges` is liveness. `RulesCurrent` – a firewall
controller at rest has the current rules in force, leaves none behind and has rules of
one backend only (`OneBackend`), but for what a restart has stranded; `Settles` – a
controller comes to rest.

*xds_client*: `Remembered` – what is held is claimed on the next stream and who
waits is filed; `Converges` – the state converges and every demand by name returns.

*sandbox_manager*: `IdentityKept`; `Coordinated` – locks, wake-ups and the order of
snapshots.

*serving*: `EndsWhereChecked`, `CoherentHop`, `Accounted` for connections;
`AnswersGrounded` for DNS; `CredentialsSound` for TLS; `ReadyIsTrue`, `DrainSound`
for the process; `StreamIntact`, `WireIntact` for bytes; `InputsHonoured` for
conversion, settings and the rendering of firewall rules; `ProbesTruthful`. Several
clauses of `SettingsUsable` repeat what `validate_config` checks; what they add is that
no later layer undoes it.

**Why the bounds are enough.** The hazards need two actors of the same kind and
one that acts in between: two connections and a watcher (three were checked before
the proof made the number irrelevant), two clients competing for one slot and one
queue place, two dialling tasks, two services for one VIP, two preparations and a
recovery. Where a theorem of section 4 covers the property, the size of the run
only has to be large enough for its mutants to show. Bounds on counters
(`MaxChurn`, `MaxBreaks`, `MaxFailures`, `MaxProxies`, `QueueCap`, `Concurrency`,
`MaxStreams`, `MaxReceived`, `MaxChanges`, `MaxFaults`, `MaxUpdates`, ...) are named
constants; those of the environment also state the assumption of the liveness
properties that it comes to rest. In the `serving` run the inputs are chosen: a
gateway that moves to another address, port and identity, one known only by name, a
workload with a PROXY tunnel, a waypoint of another address, no local workload;
certificates have one usable SPIFFE URI, and one peer has two; `Width` stands for 2^64, the width at which
a release build wraps. The sample rule sets of the backends have no two clauses that
restrict the same field of one line. `IdentityKept` needs two crashes for its
exception to show. Deadlock is checked where the system must go on; runs whose
components stop after a drain, or whose environment is exhausted, turn it off.

**Fairness.** Tokio polls every runnable task, so steps that only need the
scheduler are weakly fair (`ConnStep`, `WatcherStep`, `ClientStep`, `Store`, `Step`,
`Manager`, `Controller`, `Dispatcher`, `Connect`, `HandleDemand`). `Finish` is not:
peers decide how long a connection lasts. `HandleRequest`, `StartFetch`, `FetchDone`
of the secret manager and `HandleResponse` of the xDS client are strongly fair
because `select!` picks its ready arms at random, so an arm that is ready again and
again is taken. That a CA call ends (`FetchDone`) is an assumption about the CA and the
connection to it: the code sets no deadline of its own. The control plane answers what
it read (`ServerReads`, `ServerSends`). In the pool, `CodeFairness` is what the code
alone guarantees; `PeerSpec` adds that a TLS handshake ends, because the code sets no
bound on it. `ProxyExits` is weakly fair because `run_with_drain` bounds it by a
deadline. `SF(StartOk)` assumes that a start tried for ever succeeds; without it
`Converges` is about the pod, not the manager. A UDP peer may keep a stream busy for
ever: only the dispatcher, the deadline, the cut of a session and the steps that end
one are fair. Of the firewall only the controller is fair, not its environment. In the
`drain` run the steps of the process are fair, the control plane and the peers are not.
The `sandbox_manager` and `serving` runs, and of `stores` all but the certificates, are
about safety only. Liveness properties are written `[]<>` and `<>[]`: what they wait for
is the end of the very condition that starts the wait, or something that stays once it is
reached, so that `[]<>` says what leads-to would.

## 4. Proofs

Eight modules hold theorems. Each has an inductive invariant, lemmas about the
operators that a step is made of, one lemma per action or group of actions, and the
theorem; they hold for every value of the constants that satisfies the assumptions
below. Each invariant was checked with TLC on the run's instance before.

| Module | Invariant | Theorems about |
|---|---|---|
| `StateProofs` | `IInv`, `LeakInv`, `PolicyInv`, `AddressInv`, `DnsInv` | of the connection manager `TypeOK`, `LiveIsTracked`, `NoStaleAllow`, `NoLeakedEntry`; of the policies `PoliciesDecide`, `NotifyOnChange`; of the workload and service stores types, `IndicesCurrent`, `EndpointsExact`; of DNS `AnswersGrounded` |
| `SecretManagerProofs` | `SecretInv` | `TypeOK`, `ManagedIsRefreshed` |
| `HbonePoolProofs` | `PoolInv` | `TypeOK`, `TunnelsSound`, `CountExact` |
| `XdsClientProofs` | `XdsInv` | `TypeOK`, `Remembered` |
| `InpodProofs` | `ManagerInv`, `FwInv` | of the manager `TypeOK`, `AddsTakeEffect`, `NothingForgottenRuns`, `ProxiesAccounted`, the safety of `DrainContract`; of the firewall `RulesCurrent` |
| `SandboxManagerProofs` | `SandboxInv` | types, `IdentityKept`, `Coordinated` |
| `OutboundUdpProofs` | `UdpInv` | types, `SessionsAccounted`, the safety of `DrainContract` |
| `ServingProofs` | `LifeInv`, `ReqInv`, `RouteInv`, `CopyInv`, `TlsInv`, `ProbesInv` | `ReadyIsTrue`, the clean end of a drain, `Accounted`, `EndsWhereChecked`, `CoherentHop`, `StreamIntact`, `CredentialsSound`, `ProbesTruthful` |

*Connection manager.* `NoStaleAllow` speaks only of states in which the watcher is
idle, so it is not inductive. `IInv` is `TypeOK /\ EnforcementInv`, whose part
`SweepCovers` says that a live connection is allowed, or a notification is unseen,
or its context is in the rest of the snapshot, or it is the one about to be closed.
An evaluation preserves it only because the policy and the notification change
together, a registration because the evaluation comes after it, and `Close` because
closing a context tells *every* connection with it. The last needs `LiveIsTracked`:
connections of the context that are not on the entry's channel have been told
already. `LeakInv` counts, for each entry, the connections that listen to its channel
and the releases to come.

*Lists and batches.* The provers cannot instantiate the library's induction theorems, so
`StateProofs` derives the induction it needs: `IntervalInduction`, over the positions
`0..n` of one list and for a set of positions instead of an operator, from a minimal
element of a set of naturals (`WellFoundedInduction`), and `RecursionExists`, that an
equation from each position to the next has a solution, without which nothing is known of
a recursive function. With them, `WithoutKeeps` says what `Vec::retain` leaves, and each fold of a handler is shown to
keep what one of its steps keeps.

*Policies.* `PolicyInv` is the types and `IndexExact`, that a sandbox is once in the list
of the workload it is bound to and in no other: `BindingIndex` without cardinalities, in
a form that one update of a batch preserves. `NotifyOnChange` follows from something
stronger (`NoSilentChange`): a step that notifies nobody changes no store. For a batch
that is an induction in which `changed` is FALSE only as long as the stores are those at
the start. `EvaluatorsAgree` compares three evaluations of one list of policies: the
first policy with a matching rule and its first such rule (`AssertPolicies`), the rule of
the least priority among those that netfilter keeps (`FirewallAllows`), and the first
match in the concatenation of all rules (`Decides`). The proof places every rule of the
concatenation: position `Offset(i) + j` is rule `j` of policy `i`, offsets grow with `i`,
so the least priority is the first position, and a rule that netfilter leaves out is one
that no such packet matches.

*Stores.* `AddressInv` says of each service and workload what endpoint is in the service,
what is staged, and when neither is (`EndpointRight`, with `lost` and `fromFile` as the two
exceptions); of each address and identity exactly which workloads it leads to, each once and
in its current version (`AddrExact`, `IdentityExact`); and that a VIP leads to the current
version of a service that has it, or is one that two services have had (`ExactStores`).
Endpoints of one workload are taken out of the services of its previous version and put into
those of the new one in any order: each step of the two folds touches one service and one
workload, and what is left alone stays right (`OthersRight`). `Insert` is stage, remove and put;
it keeps a VIP that a second service has only if it is in `shared`, which is why the exception
is there.

*DNS.* A query lives through several states of the store, so `DnsInv` says per stage what
it may rely on: a match is of a service that the client can mean by the name and, if every
state seen has the client's own service of exactly that name, it is of the client's
namespace; a query for addresses goes upstream only if some state seen lacks that service;
the store of now is among those seen. The lookups come down to facts about lists: what
`FindBestMatch` has found after `i` services (`BestMatchSound`), that every name on the list of
`find_server` covers something the client can mean (`AliasesSound`, `WildcardsSound`,
`SearchesSound`), and that the first of them is the name itself, which is why the own
service cannot be hidden. One fact is needed that is easy to miss: a search domain of no
labels (the root, `search .`) strips a name to itself, and a CNAME from a name to itself
could not be followed. It is never sent, because the unstripped alias of the same name comes
first. Counters are compared with cardinalities of sets of queries (`CountsFit`): those known
to be lookups, sent upstream, and back from there, none of which ever shrinks.

*Secret manager.* Where each request is: in the hands of a client, in the channel, in
the worker's; an identity in the map has one on the way, is pending or being fetched,
and one that is not in the map has a Forget on the way if it is renewed. `CachedUntil`
and due times relate the renewal to the expiry.

*Pool.* `PoolInv`: who holds and who waits for the mutex of a hash, that a tunnel is
made by the holder only, and which task holds which stream; the counter is the
cardinality of a set of tasks. `TasksAssumption` says that no more tasks run than a
`u16` counts, without which the counter wraps and the property is false.

*xDS client.* What is held is known; who waits is filed under a subscribed name or is
in the channel; what the server believes is on this stream only.

*In-pod manager.* `ManagerInv` says for each mode of the task what the half done start
has told to whom; proxies, admin counters and the firewall's pods are compared as
sets of identities that are never reused while somebody refers to them.

*Firewall.* `RulesCurrent` speaks of a controller at rest and says nothing of one that
debounces, rebuilds, sets up or retries. `FwInv` says it of every step: `Modes` and
`NetnsOwned` (which part of the control is used by which controller, and that a netns is
that of one pod), `Backends` (only the backend in use has rules or jumps anywhere, which
is why detection must find what an earlier process left; nftables rules in a stranded
netns are the exception), `Current`, `Retries` and
`Applying` (the pod being set up, those that are tried again, the jobs computed under the
lock and those applied already are about pods as they are known), `Hooks` and `Believed`
(the jumps and the rules that the recorded state and hash promise are in the kernel,
unless a timed out process has come since), and `Reported` and `Cleaned` (the last event
of a pod is still to come or has been taken up; rules are nowhere else). The part that
carries the argument is `Fresh`: unless a change is *noticed* (in the watch, or remembered
by a debounce that a setup or a retry has interrupted), every pod has or is getting the
rules it wants, or the failure is known. It holds because the rules are computed after the
notification is taken, never before.

*Sandbox manager.* `SandboxInv` is the conjunction of the token store's invariant
(a scan lies between snapshot and directory), the types, `Exclusive` (one task inside
the registration), `Agreed` (memory, file and disk at each step of `register`),
`FetchHeld`, `RefreshHeld` and `NoLostWakeup`. The first attempt failed, for the
reason in section 5: an identity that is read back is not flushed again.

*UDP.* `UdpInv`: types, `Fresh` and `Table` (identities are not reused, the table
names the listening session), `Leased` and `SharedBind` (who uses which socket), and
`Counted`/`Accounting`: the datagrams received are those in the batch, the queues, the
hands of a session, the meters and the lost ones, as a sum over `Owed` places. A session
cut before its first poll moves what it holds from `Owed` to the lost ones.

*Refinement.* `DrainIsGraceful` of the in-pod manager and of the UDP dispatcher: every
step maps to a step of `GracefulDrain` or a stutter, under the mapping of the phase
and the work under way. Its fairness stays with TLC.

*Process.* `LifeInv`: who has been told ready (`Told`), what is there after each step
of the build (`Built`, `Unbuilt`), that a living connection has a server that serves
or drains (`Reachable`), that our socket file has an owner (`SocketHeld`), and
`DrainedClean`.

*Connections.* `ReqInv` says for each stage which tracker, guard, socket and answer a
task has, and that the counters are the numbers of live trackers and open sockets.
`RouteInv` says for each stage what has been chosen and from where: the store of now
is among those the task has lived in; what validation accepted named this workload as
a waypoint in one of them (`WaypointNamesUs`); the gateway chosen is one that
`fetch_waypoint` finds in one of them (`WaypointsShape`), so that the address picked or
resolved (`PickedAddress`), the port and the identities belong together although the
store has changed since; the inbound upstream is on the address the request arrived at
(`InboundUpstreamsShape`). A change of the store keeps all of it because it only adds to
what was seen.

*Bytes.* `CopyInv`, per direction: what is written, waits in the buffer, in the
stream and at the source are consecutive units, and what is owed once a direction has
stopped.

*Certificates.* `CredentialsSound` has three parts. `RootCurrent` is not inductive:
rebuilds of the channel overlap, and `RootSound` adds what a rebuild that is alone has read
when no event and no flag is left (`gap` marks the two cases in which an old root stays). `FetchSound` says what the checks of the answer leave of it,
and the refresh time is compared with its two computations for every certificate and
moment (`CertificatesSound`). For a handshake, `HsSound` keeps the lists it was given
against those that were due when it began, and `CrlSound` that a file that cannot be read
takes nothing off the lists in use; both are needed although the file changes meanwhile.
A certificate with several SPIFFE identities is covered: the verifiers look for any of
them and `identity_from_connection` takes the first, so the identity that a peer is known
by is the one that was checked only if there is a single one (section 5).

*Probes.* `ProbesInv` adds to `ProbesTruthful` that the state of the application now is
among those a probe on its way has seen, and that only a gRPC check with a port has two
steps.

**Assumptions.** They are checked by TLC on every run. Values that stand for "none"
are none of the others (`NoneAssumption`, `SecretManagerAssumption`, `PoolAssumption`,
`UdpAssumption`, `XdsAssumption`, `TokenAssumption`, `SandboxAssumption`,
`WorkloadManagerAssumption`, `RoutingAssumption`, `RequestsAssumption`,
`SocketAssumption`, `FirewallAssumption`, `TlsAssumption`, `ProbesAssumption`,
`PolicyStateAssumption`, `AddressAssumption`, `DnsAssumption`), capacities are positive, and only finitely many tasks run at a time
(`ConnsAssumption`, `TasksAssumption`, `RequestsAssumption`, `DnsAssumption`). `LifeAssumption` and
`CopyAssumption` give the fields of the configuration. `RequestsAssumption` also says
that an authority is an address or a hostname and that a request does not arrive at
the loopback address; `StoresAssumption` says how workloads, services and destinations
look (a destination is an address in a network or a hostname in a namespace), which is
what the types of the code say. `PolicyStateAssumption` and `AddressAssumption` give the
types of what arrives; `DnsAssumption` says that hostnames, search domains and names that are
asked for are lists of labels and a namespace is a label, as parsing them requires. `PriorityAssumption` bounds the rules of a policy and the references of a
workload so that their product fits an `i32`: the code casts the position of a rule to
`i32`, and beyond 2^31 rules the order of priorities would not be that of the policies.

**Only model-checked.** Liveness (`DeniedIsClosed`, `EveryFetchReturns`,
`NotifiedConnectsResolve`, `Converges`, `Settles`, the liveness of `DrainContract`) is
outside the prover, as is `ENABLED`, in which `DrainSound` states that a drain is
never stuck. `WireIntact` decodes with a recursive operator. `InputsHonoured` is about
what recursive operators and the folds of the community modules compute over rendered
lines, resources and variables.

## 5. Where the code surprises

Six are expected violations with a run; `PROJECT.json` quotes the lines.

1. `secret_manager_cancel`: a caller that is dropped between inserting into the
   map and posting its request leaves an identity that nobody fetches; later
   callers of the same or lower priority wait for ever (`identity/manager.rs:621`).
2. `hbone_pool_lost`: a loser of the race waits for "a new conn was enpooled"; if
   the winner fails, nothing is sent (`proxy/pool.rs:475`).
3. `hbone_pool_halves`: the comments say that a half of a stream gives the count back
   only if the other half is gone; `Arc::into_inner` makes it the first half that goes
   (`proxy/h2.rs:139`), so streams that are half closed are not counted.
4. `xds_alias`: a demand by address is filed under the alias, the answer is notified
   under the name, and the task that asked is not told (`xds/client.rs:192`).
5. `drain`: the hard timeout of the drain that a comment names (`app.rs:48`) does not
   exist: a proxy that waits for xDS, or an HTTP peer that does not read, holds the
   process up without end (`drain.rs:149`, `hyper_util.rs:259`).
6. `wire`: "so no leaks happen" fails for a message whose control data was truncated: the
   error comes before the descriptors that were delivered have an owner
   (`inpod/protocol.rs:128`).

The others are modelled as the code does them, some with a history variable that
takes the case out of a property:

* *Connection manager.* `release()` finds its entry by context; after `close()` removed
  the entry and another connection registered the same context, the release takes away
  the new entry and ends a connection that the policy allows (`connection_manager.rs:198`).
  A policy change between the admission of a connection and the first poll of
  `PolicyWatcher::run` reaches nobody (`early`, 309).
* *Secret manager.* The backoff of a forgotten identity stays in
  `pending_backoffs_by_id` and sets the first delay when the identity returns (327).
* *Pool.* A task that found no mutex in the lock map may dial although a tunnel was
  pooled meanwhile (`pool.rs:225`, against the comment at 385); the stream limit can be
  overshot, because the count is raised after check-out (`h2/client.rs:139`); nothing bounds the TLS handshake, though the mutex is held
  over it (`pool.rs:453`).
* *In-pod manager.* A pod whose netns cannot be opened is not pending, so the manager
  reports ready (`statemanager.rs:370`); readiness is evaluated after successful
  messages only (`workloadmanager.rs:342`); a pod whose start failed and that is deleted
  while pending stays known to the firewall (`statemanager.rs:260`, 391); a protocol error
  of the agent returns before the drain (`workloadmanager.rs:163`); a kept pod that was
  never started is not started, which is why `Converges` leaves kept pods out.
* *Stores.* Two services with one VIP: removing or replacing one takes the VIP from the
  other (`service.rs:562`, `shared`). A service that is removed and added again has no
  endpoints until its workloads are updated (568), and one whose health policy is relaxed
  does not get back the endpoints it refused (419, `lost`). A workload from a local file is
  stored without its services, so an xDS update of it leaves the endpoints the file gave
  (`xds.rs:487`, `fromFile`). A workload that changes its identity leaves the old
  certificate in the cache (`xds.rs:197` clears only on removal).
* *Sandboxes.* An identity that is read back after a crash between rename and the flush of
  the directory is not flushed again, so a later power loss can lose an acknowledged
  registration (`sandbox.rs:111`, `reread`).
* *xDS.* A second demand for a name replaces the first waiter, whose `recv` ignores the
  error (`xds/client.rs:822`, 466).
* *UDP.* Datagrams queued for a session that is cut before it was ever polled are in no
  counter: the receiver learns to count drops in its first poll (`outbound_udp.rs:548`,
  598).
* *Firewall.* A dedicated ztunnel restarted with the iptables mode in a netns with
  nftables rules leaves them in force (`detect.rs:165`, `stranded`). With the DNS proxy,
  iptables accepts all outbound UDP to port 53 of a pod, whatever the policy
  (`ipt.rs:156`). The child of an apply that timed out is not killed and may take effect later
  (`nft.rs:578`, `ipt.rs:525`, `late`); an apply that fails during a rebuild is not retried
  until the next change of policies (`inpod.rs:381`).
* *Requests.* The success of SOCKS5 is sent before anything is routed (`socks5.rs:142`); an
  outbound connection closed by a policy is recorded by `Drop`, without a reason, an
  inbound one as a denial; `find_address` prefers a workload, `find_upstream` a service;
  the counters of opened and closed connections carry different labels; an HBONE request
  that a policy closes between the connection to the workload and its answer gets none;
  a hostname in the authority picks the service that metrics name, member or not.
* *DNS.* `find_server` and `get_addresses` lock the state separately; a wildcard of an
  earlier alias beats an exact match of a later one.
* *TLS.* Per connection the inbound side builds a new `server_config`
  (`inbound.rs:729`, against the note at `crl.rs:40`); a CRL file that is broken at start
  turns revocation off for good (`proxyfactory.rs:95`); a change between the first read of
  a root or list and the start of its watcher is missed (`caclient.rs:62`); overlapping
  rebuilds of the CA's channel may leave the older root (`caclient.rs:116`, `gap`). Of a
  certificate with several SPIFFE URIs any may satisfy `verify_trust_domain` and
  `verify_full_san` (`tls/workload.rs:80`), while the peer is known by the first
  (`certificate.rs:75`); SPIFFE allows a single one.
* *Start and drain.* The "stronger TERM signal" of `app.rs:414` does not exist; a build
  that fails drops what kept the process from being ready, so that the readiness server
  may answer 200 for the short time until it exits; a SIGTERM before `wait_termination` has its default action;
  in shared mode without a proxy, ready may be reported before the in-pod manager
  registers; the file of the admin socket is checked and removed in two calls
  (`admin/unix.rs:41`, one step here).
* *Bytes.* Errors of reading and the HTTP/2 reasons CANCEL and NO_ERROR are passed on as a
  clean shutdown (`copy.rs`); an error of the capsule decoder drops the datagrams decoded in
  the same push; an empty SCM_RIGHTS after a single descriptor would panic
  (`inpod/protocol.rs`).
* *Configuration.* `config.rs:909` subtracts one from a number of seconds: 0 wraps in a
  release build, 1 gives a deadline of 1; a metadata key in both spellings is decided by the
  order of a HashMap (1242); zero worker threads panic in tokio.
* *Conversion, probes.* Of two egress extensions the last wins silently; ports are cast to
  `u16`; only HTTP probers are validated, and one may name the port of the stats server; a
  gRPC check has no timeout once connected; redirects are followed to any port of the same
  host; "up to 10 redirects" are nine (`probe.rs:214`).

## 6. Not modelled

`PROJECT.json` lists every component with its reason: metrics and telemetry beyond the
counters that have a protocol, sockets and namespaces (system calls, whose results are
outcomes in the models), small helpers, test support. Within modelled components:
lookups that only read; the certificate fetcher's queue of 256, which drops requests when
full; the arithmetic of backoffs; the pingora LRU order; signatures and keys; the text of
scripts, records and logs; time, except in the secret manager (timers may fire whenever
they are armed).

## 7. Plan

Next, in order:

1. `BackendsFaithful` for nftables, whose lines correspond to the rules one to one; the
   products and chunks of iptables after that.
2. The other parts of `InputsHonoured`, with the folds over extensions as functions over
   positions, by the lemmas about lists of `StateProofs`.

Liveness and `ENABLED` stay with TLC.
