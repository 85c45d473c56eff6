--------------------------- MODULE SandboxManager ---------------------------
(***************************************************************************)
(* The sandbox manager of one workload proxy (sandbox/sandbox.rs) and its  *)
(* preparation server (proxy/sandbox.rs): requests wait for the sandbox,   *)
(* the local workload and the token, then commit the identity to a file    *)
(* that outlives crashes; a recovery task waits for the sandbox of the     *)
(* registered identity.  The stores are changed by xDS.                    *)
(***************************************************************************)
EXTENDS TokenStore

CONSTANTS
    Ids,            \* sandbox identities that pass validate_id
    Requests,       \* PrepareSandbox calls
    MaxUpdates,     \* bound: xDS changes of the sandboxes and the workload
    MaxFaults       \* bound: crashes, I/O errors, timeouts and cancelled calls

Recovery == "recovery"
Waiters == Requests \union {Recovery}

ASSUME SandboxAssumption ==
    /\ {MaxUpdates, MaxFaults} \subseteq Nat
    /\ Loaders = Requests /\ Recovery \notin Requests
    /\ None \notin Ids \union {Recovery, "watcher", "torn"} /\ "torn" \notin Ids

VARIABLES
    sandbox,    \* SandboxStore: binding of each identity
    workload,   \* the local workload is in the store
    id,         \* the registered identity in memory
    file,       \* sandbox.json: the identity, and whether its blocks are flushed
    durable,    \* what a power loss leaves of sandbox.json
    task,       \* what a request or the recovery does
    fetchLock, regLock,
    server,     \* the preparation server: "up", "draining", "down"
    acked,      \* history: identities a request was told are registered, less the
                \* one that Restart says is lost
    reread,     \* history: identities read back before the directory was flushed
    updates, crashes, failures

memVars == <<id, fetchLock, regLock, server>>
diskVars == <<file, durable>>
envVars == <<sandbox, workload, updates>>
vars == <<memVars, diskVars, envVars, task, acked, reread, crashes, failures, tokenVars>>

\* note: a change since the task subscribed, or last looked.
Idle == [st |-> "idle", id |-> None, note |-> FALSE, responded |-> FALSE]
Torn == [id |-> "torn", flushed |-> TRUE]
NoReg == [id |-> None, flushed |-> TRUE]

Init ==
    /\ sandbox \in [Ids -> {"unbound", "mine"}] /\ workload \in BOOLEAN
    /\ updates = 0
    /\ id = None /\ file = NoReg /\ durable = NoReg
    /\ task = [w \in Waiters |-> Idle]
    /\ fetchLock = None /\ regLock = None /\ server = "up"
    /\ acked = {} /\ reread = {} /\ crashes = 0 /\ failures = 0
    /\ TokenInit

MayFail == crashes + failures < MaxFaults

Become(w, st) == task' = [task EXCEPT ![w].st = st]
At(w, st) == task[w].st = st
Stop(w) == task' = [task EXCEPT ![w] = Idle]

\* A wait failed: a request returns the error, the recovery sleeps.
Fail(w) == IF w = Recovery THEN Become(w, "sleep") ELSE Stop(w)

-----------------------------------------------------------------------------
(* xDS (PolicyState and AddressState have the stores in detail)              *)

Notified(ws) == task' = [w \in Waiters |-> IF w \in ws THEN [task[w] EXCEPT !.note = TRUE] ELSE task[w]]

\* A plausible slip: only a new sandbox counts as a change.
PolicyWatchersNew(i) == IF sandbox[i] = "absent" THEN {w \in Waiters : task[w].st \in {"look", "select"}} ELSE {}

\* Every change of a sandbox is sent on the policy channel, to those who subscribed.
PolicyWatchers(i) == {w \in Waiters : task[w].st \in {"look", "select"}}

UpdateSandbox(i, b) ==
    /\ server # "down" /\ updates < MaxUpdates /\ sandbox[i] # b
    /\ sandbox' = [sandbox EXCEPT ![i] = b] /\ updates' = updates + 1
    /\ Notified(PolicyWatchers(i))
    /\ UNCHANGED <<workload, memVars, diskVars, acked, reread, crashes, failures, tokenVars>>

\* The workload channel tells of insertions only.
UpdateWorkload ==
    /\ server # "down" /\ updates < MaxUpdates
    /\ workload' = ~workload /\ updates' = updates + 1
    /\ Notified(IF workload THEN {} ELSE {w \in Waiters : task[w].st \in {"find", "await"}})
    /\ UNCHANGED <<sandbox, memVars, diskVars, acked, reread, crashes, failures, tokenVars>>

-----------------------------------------------------------------------------
(* wait_for_sandbox                                                          *)

CheckRegistration(i) == id \in {None, i}

\* fetch_sandbox's current().
Current(i) == sandbox[i] \in {"mine", "other"}

Begin(w, i) ==
    task' = [task EXCEPT ![w] = [Idle EXCEPT !.id = i, !.st = IF Current(i) THEN "workload" ELSE "lock"]]

\* prepare, and run once an identity is registered (registered_id).
Prepare(r, i) ==
    /\ server = "up" /\ At(r, "idle") /\ CheckRegistration(i)
    /\ Begin(r, i)
    /\ UNCHANGED <<memVars, diskVars, envVars, acked, reread, crashes, failures, tokenVars>>

Recover ==
    /\ server = "up" /\ At(Recovery, "idle") /\ id # None
    /\ Begin(Recovery, id)
    /\ UNCHANGED <<memVars, diskVars, envVars, acked, reread, crashes, failures, tokenVars>>

\* The recovery sleeps PREPARATION_RETRY and tries again.
Retry ==
    /\ At(Recovery, "sleep") /\ Begin(Recovery, task[Recovery].id)
    /\ UNCHANGED <<memVars, diskVars, envVars, acked, reread, crashes, failures, tokenVars>>

\* The store is looked at before the channel is subscribed to.
FetchLockedLate(w) ==
    /\ IF At(w, "lock") THEN /\ fetchLock = None
                             /\ Become(w, IF Current(task[w].id) THEN "workload" ELSE "seen")
                             /\ fetchLock' = IF Current(task[w].id) THEN None ELSE w
       ELSE /\ At(w, "seen") /\ task' = [task EXCEPT ![w].st = "select", ![w].note = FALSE] /\ UNCHANGED fetchLock
    /\ UNCHANGED <<id, regLock, server, diskVars, envVars, acked, reread, crashes, failures, tokenVars>>

\* Under fetch_lock the change channel is subscribed to.
FetchLocked(w) ==
    /\ At(w, "lock") /\ fetchLock = None
    /\ task' = [task EXCEPT ![w].st = "look", ![w].note = FALSE] /\ fetchLock' = w
    /\ UNCHANGED <<id, regLock, server, diskVars, envVars, acked, reread, crashes, failures, tokenVars>>

\* The store is looked at again; the lock goes with the future that returns.
Look(w) ==
    /\ At(w, "look")
    /\ Become(w, IF Current(task[w].id) THEN "workload" ELSE "select")
    /\ fetchLock' = IF Current(task[w].id) THEN None ELSE fetchLock
    /\ UNCHANGED <<id, regLock, server, diskVars, envVars, acked, reread, crashes, failures, tokenVars>>

\* select!: the demand was answered, which proves nothing, or the stores changed;
\* both go round the loop.
FetchWakes(w) ==
    /\ At(w, "select")
    /\ \/ ~task[w].responded /\ task' = [task EXCEPT ![w].st = "look", ![w].responded = TRUE]
       \/ task[w].note /\ task' = [task EXCEPT ![w].st = "look", ![w].note = FALSE]
    /\ UNCHANGED <<memVars, diskVars, envVars, acked, reread, crashes, failures, tokenVars>>

\* The workload is looked for before the channel is subscribed to.
SubscribeLate(w) ==
    /\ IF At(w, "workload") THEN Become(w, IF workload THEN "get" ELSE "missed")
       ELSE At(w, "missed") /\ task' = [task EXCEPT ![w].st = "await", ![w].note = FALSE]
    /\ UNCHANGED <<memVars, diskVars, envVars, acked, reread, crashes, failures, tokenVars>>

\* wait_for_workload subscribes, looks, then waits for a change and looks again.
Subscribe(w) ==
    /\ At(w, "workload") \/ (At(w, "await") /\ task[w].note)
    /\ task' = [task EXCEPT ![w].note = FALSE, ![w].st = "find"]
    /\ UNCHANGED <<memVars, diskVars, envVars, acked, reread, crashes, failures, tokenVars>>

WaitWorkload(w) ==
    /\ At(w, "find") /\ Become(w, IF workload THEN "get" ELSE "await")
    /\ UNCHANGED <<memVars, diskVars, envVars, acked, reread, crashes, failures, tokenVars>>

\* get_sandbox against the current stores.
Bound(i) == workload /\ sandbox[i] = "mine"

GetSandbox(w) ==
    /\ At(w, "get")
    /\ IF ~Bound(task[w].id) THEN Fail(w)
       ELSE Become(w, IF w = Recovery THEN "done" ELSE "token")
    /\ UNCHANGED <<memVars, diskVars, envVars, acked, reread, crashes, failures, tokenVars>>

Waiting(w) == task[w].st \in {"lock", "select", "await", "token"}

\* A plausible slip: the lock outlives the wait.
HoldingOn(w, l) == l

\* A lock goes with the future that holds it.
Holding(w, l) == IF l = w THEN None ELSE l

\* READY_TIMEOUT, or the caller is gone: whatever the future holds is released.
GiveUp(w) ==
    /\ MayFail /\ failures' = failures + 1
    /\ \/ /\ Waiting(w)
          /\ Fail(w) /\ UNCHANGED tokenVars
       \/ At(w, "load") /\ Abandon(w) /\ Stop(w)
    /\ fetchLock' = Holding(w, fetchLock)
    /\ UNCHANGED <<id, regLock, server, diskVars, envVars, acked, reread, crashes>>

-----------------------------------------------------------------------------
(* Token and registration                                                    *)

\* require_ready: a usable token in the snapshot, or one load of the directory.
TokenReady(r) ==
    /\ (At(r, "token") /\ Usable) \/ At(r, "loaded")
    /\ IF Usable THEN Become(r, "commit") ELSE Stop(r)
    /\ UNCHANGED <<memVars, diskVars, envVars, acked, reread, crashes, failures, tokenVars>>

TokenLoad(r) ==
    /\ \/ At(r, "token") /\ ~Usable /\ Acquire(r) /\ Become(r, "load")
          /\ UNCHANGED <<files, event, snapshot, orphan, watcher, writes>>
       \/ At(r, "load") /\ LoadEnds(r) /\ UNCHANGED watcher
          /\ IF Broken(scan) THEN Stop(r) ELSE Become(r, "loaded")
    /\ UNCHANGED <<memVars, diskVars, envVars, acked, reread, crashes, failures>>

\* A plausible slip: the check made before waiting is trusted.
RegisteredOnce(r) == id = task[r].id

\* register, under its lock: another request may have committed meanwhile.
Registered(r) == id # None

Locked(r) ==
    /\ At(r, "commit") /\ regLock = None
    /\ IF Registered(r)
       THEN /\ Stop(r) /\ UNCHANGED regLock
            /\ acked' = IF CheckRegistration(task[r].id) THEN acked \union {task[r].id} ELSE acked
       ELSE regLock' = r /\ Become(r, "write") /\ UNCHANGED acked
    /\ UNCHANGED <<id, fetchLock, server, diskVars, envVars, reread, crashes, failures, tokenVars>>

\* An I/O error at any step returns it and releases the lock.
RegisterFails(r) ==
    /\ regLock = r /\ MayFail /\ failures' = failures + 1
    /\ regLock' = None /\ Stop(r)
    /\ UNCHANGED <<id, fetchLock, server, diskVars, envVars, acked, reread, crashes, tokenVars>>

\* The temporary file is written and flushed; nobody reads it under that name.
WriteTemporary(r) ==
    /\ At(r, "write") /\ Become(r, "rename")
    /\ UNCHANGED <<memVars, diskVars, envVars, acked, reread, crashes, failures, tokenVars>>

Rename(r) ==
    /\ At(r, "rename") /\ Become(r, "dirsync")
    /\ file' = [id |-> task[r].id, flushed |-> TRUE]
    /\ UNCHANGED <<memVars, durable, envVars, acked, reread, crashes, failures, tokenVars>>

\* A plausible slip: the directory is not flushed.
SyncDirectoryNot(r) ==
    /\ At(r, "dirsync") /\ Become(r, "publish")
    /\ UNCHANGED <<memVars, diskVars, envVars, acked, reread, crashes, failures, tokenVars>>

SyncDirectory(r) ==
    /\ At(r, "dirsync") /\ Become(r, "publish")
    /\ durable' = file
    /\ UNCHANGED <<memVars, file, envVars, acked, reread, crashes, failures, tokenVars>>

PublishId(r) ==
    /\ At(r, "publish") /\ Stop(r)
    /\ id' = task[r].id /\ acked' = acked \union {task[r].id} /\ regLock' = None
    /\ UNCHANGED <<fetchLock, server, diskVars, envVars, reread, crashes, failures, tokenVars>>

-----------------------------------------------------------------------------
(* The end of the process                                                    *)

Committing(r) == task[r].st \in {"commit", "write", "rename", "dirsync", "publish"}

\* Drain: a graceful one lets requests finish until the deadline, and polls the
\* recovery no more; at once or at the deadline they are dropped, except for a
\* commit, which runs in a blocking thread.  The manager goes with its proxy.
Drain ==
    /\ server = "up" /\ server' = "draining"
    /\ task' = [task EXCEPT ![Recovery] = Idle]
    /\ fetchLock' = Holding(Recovery, fetchLock)
    /\ UNCHANGED <<id, regLock, diskVars, envVars, acked, reread, crashes, failures, tokenVars>>

ServerStops ==
    /\ server \in {"up", "draining"} /\ server' = "down"
    /\ task' = [w \in Waiters |-> IF Committing(w) THEN task[w] ELSE Idle]
    /\ fetchLock' = None
    /\ TokenDropped
    /\ UNCHANGED <<id, regLock, diskVars, envVars, acked, reread, crashes, failures>>

\* The content of a file of which the blocks were not flushed is lost.
AfterPowerLoss(f) == IF f.flushed THEN f ELSE Torn

\* The process, or the node, stops and starts again: with_registration reads
\* the file, the token watcher scans.  An identity that was read back before
\* the directory was flushed is not flushed again, so a power loss can take it.
Restart ==
    /\ MayFail /\ crashes' = crashes + 1
    /\ \/ UNCHANGED diskVars
       \/ \E f \in {durable, file} :
            /\ file' = AfterPowerLoss(f) /\ durable' = AfterPowerLoss(f)
    /\ id' = file'.id
    /\ reread' = IF file' = durable' THEN reread ELSE reread \union {file'.id}
    /\ acked' = IF file'.id = file.id THEN acked ELSE acked \ (reread \intersect {file.id})
    /\ task' = [w \in Waiters |-> Idle] /\ fetchLock' = None /\ regLock' = None /\ server' = "up"
    /\ snapshot' = [f \in Files |-> NoFile] /\ event' = FALSE /\ orphan' = NoScan
    /\ refresh' = "watcher" /\ scan' = NoScan /\ watcher' = "scan"
    /\ UNCHANGED <<envVars, failures, files, writes>>

-----------------------------------------------------------------------------
TokenStep ==
    /\ server # "down"
    /\ \/ \E f \in Files, k \in Kinds : Write(f, k)
       \/ Watcher \/ ScanNext \/ OrphanEnds
    /\ UNCHANGED <<memVars, diskVars, envVars, task, acked, reread, crashes, failures>>

Wait(w) ==
    \/ FetchLocked(w) \/ Look(w) \/ FetchWakes(w) \/ Subscribe(w) \/ WaitWorkload(w) \/ GetSandbox(w)

Commit(r) ==
    \/ TokenReady(r) \/ TokenLoad(r) \/ Locked(r) \/ WriteTemporary(r)
    \/ Rename(r) \/ SyncDirectory(r) \/ PublishId(r)

Next ==
    \/ \E i \in Ids, b \in {"absent", "unbound", "mine", "other"} : UpdateSandbox(i, b)
    \/ UpdateWorkload
    \/ \E r \in Requests, i \in Ids : Prepare(r, i)
    \/ \E r \in Requests : Commit(r) \/ RegisterFails(r)
    \/ \E w \in Waiters : Wait(w) \/ GiveUp(w)
    \/ Recover \/ Retry \/ Drain \/ ServerStops \/ Restart
    \/ TokenStep

Spec == Init /\ [][Next]_vars

-----------------------------------------------------------------------------
\* An identity a request was told is registered is the only one, and every
\* crash, of the process or of the node, leaves it registered: memory, the file
\* and what a power loss leaves of it agree (register, with_registration).  The
\* exception is an identity read back after a crash between rename and flush of
\* the directory: with_registration does not flush it again.
IdentityKept ==
    /\ id # "torn"
    /\ \A i \in acked : id = i /\ file.id = i /\ (durable.id = i \/ i \in reread)

\* No wake-up is lost: a task that waits for the sandbox or the local workload
\* while it is there has a notification to come, wherever the change fell between
\* the subscription, the look and the wait (fetch_sandbox, wait_for_workload).
NoLostWakeup ==
    \A w \in Waiters :
        /\ At(w, "select") /\ Current(task[w].id) => task[w].note
        /\ At(w, "await") /\ workload => task[w].note

\* Locks are held only by tasks that will release them: a cancelled, timed out
\* or failed request leaves none behind.
LocksHeld ==
    /\ fetchLock # None => task[fetchLock].st \in {"look", "select"}
    /\ regLock # None => task[regLock].st \in {"write", "rename", "dirsync", "publish"}
    /\ refresh \in Requests => At(refresh, "load")
    /\ refresh = "watcher" => watcher = "scan"

\* What the locks and subscriptions are for: no step leaves a lock with a task that
\* will not release it, none passes a waiter by, and the snapshot of the token files
\* never goes back to what an earlier scan saw, as refreshes are serialized from scan
\* to publication and a cancelled one is not published late (FileStore::load).
Coordinated ==
    [][/\ LocksHeld' /\ NoLostWakeup'
       /\ crashes' = crashes => \A f \in Files : snapshot'[f].ver >= snapshot[f].ver]_vars
=============================================================================
