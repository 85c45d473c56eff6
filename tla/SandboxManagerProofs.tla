------------------------ MODULE SandboxManagerProofs -------------------------
(***************************************************************************)
(* Proofs about the sandbox manager: an acknowledged identity survives     *)
(* crashes, no wake-up is lost, locks are released and the snapshot of the *)
(* token files never goes back, for any number of requests, identities and *)
(* files.                                                                  *)
(***************************************************************************)
EXTENDS SandboxManager, WellFoundedInduction, TLAPS

FileRec == [kind : Kinds, ver : Nat]
States == {"idle", "lock", "look", "select", "workload", "find", "await", "get", "sleep", "done",
           "token", "load", "loaded", "commit", "write", "rename", "dirsync", "publish"}
TaskRec == [st : States, id : Ids \union {None}, note : BOOLEAN, responded : BOOLEAN]
RegRec == [id : Ids \union {None}, flushed : {TRUE}]
Registering == {"write", "rename", "dirsync", "publish"}

\* What the token store keeps: its types, and a scan that is not older than the
\* snapshot it will replace, and not newer than the directory.
TokenInv ==
    /\ files \in [Files -> FileRec] /\ snapshot \in [Files -> FileRec]
    /\ DOMAIN scan \subseteq Files /\ scan \in [DOMAIN scan -> FileRec]
    /\ refresh \in Requests \union {None, "watcher"} /\ writes \in Nat
    /\ \A f \in Files : files[f].ver <= writes /\ snapshot[f].ver <= files[f].ver
    /\ \A f \in DOMAIN scan : snapshot[f].ver <= scan[f].ver /\ scan[f].ver <= files[f].ver

\* The types of the manager's variables; a task that is not idle has an identity.
TaskType ==
    /\ task \in [Waiters -> TaskRec]
    /\ \A w \in Waiters : At(w, "idle") \/ task[w].id \in Ids

ManagerType ==
    /\ sandbox \in [Ids -> {"absent", "unbound", "mine", "other"}] /\ workload \in BOOLEAN
    /\ id \in Ids \union {None} /\ file \in RegRec /\ durable \in RegRec
    /\ fetchLock \in Waiters \union {None} /\ regLock \in Requests \union {None}
    /\ server \in {"up", "draining", "down"}
    /\ acked \in SUBSET Ids /\ reread \in SUBSET (Ids \union {None})
    /\ updates \in Nat /\ crashes \in Nat /\ failures \in Nat

\* What the registration lock protects, and what is on disk at each step of it.
Exclusive ==
    /\ \A w \in Waiters : task[w].st \in Registering <=> regLock = w
    /\ regLock # None => id = None
    /\ \A w \in Waiters :
        /\ At(w, "dirsync") => file.id = task[w].id
        /\ At(w, "publish") => file.id = task[w].id /\ durable.id = task[w].id

Agreed ==
    /\ id # None => file.id = id /\ (durable.id = id \/ id \in reread)
    /\ \A i \in acked : id = i

\* Who holds the other two locks.
Fetching == {"look", "select"}
FetchHeld == \A w \in Waiters : task[w].st \in Fetching <=> fetchLock = w

RefreshHeld ==
    /\ \A w \in Waiters : At(w, "load") <=> refresh = w
    /\ refresh = "watcher" => watcher = "scan"

SandboxInv ==
    /\ TokenInv /\ TaskType /\ ManagerType
    /\ Exclusive /\ Agreed /\ FetchHeld /\ RefreshHeld /\ NoLostWakeup
-----------------------------------------------------------------------------
(* The token store                                                           *)

\* A nonempty set of keys has a least one: the next file of scan's traversal.
LEMMA LeastKey ==
    ASSUME NEW S \in SUBSET Nat, S # {}
    PROVE  \E m \in S : \A n \in S : m <= n
<1> DEFINE R == {ss \in Nat \X Nat : ss[1] < ss[2]}
<1>1. IsWellFoundedOn(R, Nat)
  BY NatLessThanWellFounded DEF OpToRel
<1>2. \A n, m \in Nat : n < m => <<n, m>> \in R
  OBVIOUS
<1> HIDE DEF R
<1>3. PICK m \in S : \A n \in S : ~ (<<n, m>> \in R)
  BY <1>1, WFMin
<1>4. \A n \in S : ~ (n < m)
  BY <1>2, <1>3
<1>5. \A n \in S : m <= n
  BY <1>4
<1>. QED
  BY <1>5

\* No operation of the token store makes the snapshot older.
Forward == \A f \in Files : snapshot'[f].ver >= snapshot[f].ver

\* A step of scan adds the file it reads, and nothing else.
LEMMA ReadAdds ==
    ASSUME TokenInv, ScanNext
    PROVE  \E f \in Files : /\ DOMAIN scan' = DOMAIN scan \union {f}
                            /\ scan'[f] = files[f]
                            /\ \A g \in DOMAIN scan : g # f => scan'[g] = scan[g]
                            /\ scan' \in [DOMAIN scan' -> FileRec]
<1>1. \E m \in Unread(scan) : \A n \in Unread(scan) : m <= n
  BY LeastKey, TokenAssumption DEF Unread, ScanNext
<1> DEFINE f == CHOOSE g \in Unread(scan) : \A h \in Unread(scan) : g <= h
<1>2. f \in Unread(scan)
  BY <1>1
<1>3. f \in Files
  BY <1>2 DEF Unread
<1>4. scan' = [g \in DOMAIN scan \union {f} |-> IF g = f THEN files[f] ELSE scan[g]]
  BY DEF ScanNext, Read
<1> HIDE DEF f
<1>5. \A g \in DOMAIN scan : scan[g] \in FileRec
  BY DEF TokenInv
<1>6. files[f] \in FileRec
  BY <1>3 DEF TokenInv
<1>. QED
  BY <1>3, <1>4, <1>5, <1>6

\* The operations of the token store that a task or the watcher performs.
TokenMove ==
    \/ UNCHANGED tokenVars
    \/ \E f \in Files, k \in Kinds : Write(f, k)
    \/ Notice \/ ScanNext \/ OrphanEnds \/ TokenDropped
    \/ \E p \in Requests \union {"watcher"} : Acquire(p) /\ UNCHANGED <<files, snapshot, writes>>
    \/ \E p \in Requests \union {"watcher"} : LoadEnds(p)
    \/ \E p \in Waiters : Abandon(p)

\* Every operation keeps the scan between the snapshot and the directory, so what
\* load publishes is never older than what it replaces.
LEMMA TokenKept ==
    ASSUME TokenInv, TokenMove
    PROVE  TokenInv' /\ Forward
<1>0. \A f \in Files : snapshot[f].ver \in Nat /\ files[f].ver \in Nat
  BY DEF TokenInv, FileRec
<1>1. CASE UNCHANGED tokenVars
  BY <1>0, <1>1 DEF TokenInv, tokenVars, Forward
<1>2. ASSUME NEW f \in Files, NEW k \in Kinds, Write(f, k)
      PROVE  TokenInv' /\ Forward
  <2>1. writes' = writes + 1 /\ UNCHANGED <<snapshot, refresh, scan>>
    BY <1>2 DEF Write
  <2>2. files' \in [Files -> FileRec] /\ files'[f].ver = writes + 1
    BY <1>2 DEF Write, TokenInv, FileRec
  <2>3. \A g \in Files : g # f => files'[g] = files[g]
    BY <1>2 DEF Write, TokenInv
  <2>4. \A g \in Files : files'[g].ver <= writes' /\ files[g].ver <= files'[g].ver
    BY <1>0, <2>1, <2>2, <2>3 DEF TokenInv
  <2>5. \A g \in DOMAIN scan : g \in Files /\ scan[g].ver \in Nat
    BY DEF TokenInv, FileRec
  <2>6. files' \in [Files -> FileRec] /\ \A g \in Files : files'[g].ver \in Nat
    BY <2>2 DEF FileRec
  <2>. QED
    BY <1>0, <2>1, <2>4, <2>5, <2>6 DEF TokenInv, Forward
<1>3. CASE Notice \/ OrphanEnds
  BY <1>0, <1>3 DEF TokenInv, Notice, OrphanEnds, Forward
<1>4. CASE ScanNext
  <2>1. PICK f \in Files : /\ DOMAIN scan' = DOMAIN scan \union {f}
                           /\ scan'[f] = files[f]
                           /\ \A g \in DOMAIN scan : g # f => scan'[g] = scan[g]
                           /\ scan' \in [DOMAIN scan' -> FileRec]
    BY <1>4, ReadAdds
  <2>2. UNCHANGED <<files, snapshot, refresh, writes>>
    BY <1>4 DEF ScanNext
  <2>3. \A g \in DOMAIN scan' : snapshot[g].ver <= scan'[g].ver /\ scan'[g].ver <= files[g].ver
    BY <1>0, <2>1 DEF TokenInv
  <2>. QED
    BY <1>0, <2>1, <2>2, <2>3 DEF TokenInv, Forward
<1>5. CASE TokenDropped
  BY <1>0, <1>5 DEF TokenInv, TokenDropped, Forward, NoScan
<1>6. ASSUME NEW p \in Requests \union {"watcher"}, Acquire(p), UNCHANGED <<files, snapshot, writes>>
      PROVE  TokenInv' /\ Forward
  BY <1>0, <1>6 DEF TokenInv, Acquire, Forward, NoScan
<1>7. ASSUME NEW p \in Requests \union {"watcher"}, LoadEnds(p)
      PROVE  TokenInv' /\ Forward
  <2>1. refresh' = None /\ scan' = NoScan /\ UNCHANGED <<files, writes>>
    BY <1>7 DEF LoadEnds
  <2>2. CASE UNCHANGED snapshot
    BY <1>0, <2>1, <2>2 DEF TokenInv, Forward, NoScan
  <2>3. CASE Unread(scan) = {} /\ snapshot' = scan
    <3>1. DOMAIN scan = Files
      BY <2>3 DEF Unread, TokenInv
    <3>2. snapshot' \in [Files -> FileRec]
      BY <2>3, <3>1 DEF TokenInv
    <3>3. \A f \in Files : snapshot[f].ver <= snapshot'[f].ver /\ snapshot'[f].ver <= files[f].ver
      BY <2>3, <3>1 DEF TokenInv
    <3>4. \A f \in Files : snapshot'[f].ver \in Nat
      BY <3>2 DEF FileRec
    <3>. QED
      BY <1>0, <2>1, <3>2, <3>3, <3>4 DEF TokenInv, Forward, NoScan
  <2>. QED
    BY <1>7, <2>2, <2>3 DEF LoadEnds, Publish
<1>8. ASSUME NEW p \in Waiters, Abandon(p)
      PROVE  TokenInv' /\ Forward
  BY <1>0, <1>8 DEF TokenInv, Abandon, Forward, NoScan
<1>. QED
  BY <1>1, <1>2, <1>3, <1>4, <1>5, <1>6, <1>7, <1>8, TokenMove DEF TokenMove

-----------------------------------------------------------------------------
(* The manager                                                               *)

\* What the constants' assumptions say of the set of tasks.
LEMMA Constants ==
    /\ Requests \subseteq Waiters /\ Recovery \in Waiters /\ Recovery \notin Requests
    /\ None \notin Waiters /\ "watcher" \notin Waiters /\ None # "watcher"
    /\ None \notin Ids /\ "torn" \notin Ids /\ None # "torn"
<1>1. Recovery # "watcher"
  BY DEF Recovery
<1>. QED
  BY <1>1, SandboxAssumption, TokenAssumption DEF Waiters

\* The step of a task: it is now at st with identity i and note n, and no other
\* task has moved.
Moved(w, st, i, n) ==
    /\ task' \in [Waiters -> TaskRec]
    /\ task'[w].st = st /\ task'[w].id = i /\ task'[w].note = n
    /\ \A v \in Waiters \ {w} : task'[v] = task[v]

\* What the ways to change a task do to it.
LEMMA BecomeMoves ==
    ASSUME TaskType, NEW w \in Waiters, NEW st \in States, Become(w, st)
    PROVE  Moved(w, st, task[w].id, task[w].note)
<1>1. task[w] \in TaskRec
  BY DEF TaskType
<1>2. [task[w] EXCEPT !.st = st] \in TaskRec
  BY <1>1 DEF TaskRec
<1>3. task' = [task EXCEPT ![w] = [task[w] EXCEPT !.st = st]]
  BY DEF Become
<1>. QED
  BY <1>1, <1>2, <1>3 DEF Moved, TaskType, TaskRec

\* The same for a task that ends.
LEMMA StopMoves ==
    ASSUME TaskType, NEW w \in Waiters, Stop(w)
    PROVE  Moved(w, "idle", None, FALSE)
<1>1. Idle \in TaskRec
  BY DEF TaskRec, Idle, States
<1>2. task' = [task EXCEPT ![w] = Idle]
  BY DEF Stop
<1>3. Idle.st = "idle" /\ Idle.id = None /\ Idle.note = FALSE
  BY DEF Idle
<1>4. task' \in [Waiters -> TaskRec] /\ task'[w] = Idle /\ \A v \in Waiters \ {w} : task'[v] = task[v]
  BY <1>1, <1>2 DEF TaskType
<1>. QED
  BY <1>3, <1>4 DEF Moved

\* The same for a task that begins to wait for a sandbox.
LEMMA BeginMoves ==
    ASSUME TaskType, NEW w \in Waiters, NEW i \in Ids, Begin(w, i)
    PROVE  \E st \in {"workload", "lock"} : Moved(w, st, i, FALSE)
<1> DEFINE st == IF Current(i) THEN "workload" ELSE "lock"
           t == [Idle EXCEPT !.id = i, !.st = st]
<1>1. st \in {"workload", "lock"} /\ st \in States
  BY DEF States
<1>2. task' = [task EXCEPT ![w] = t]
  BY DEF Begin
<1> HIDE DEF st
<1>3. t \in TaskRec /\ t.st = st /\ t.id = i /\ t.note = FALSE
  BY <1>1 DEF TaskRec, Idle
<1> HIDE DEF t
<1>4. task' \in [Waiters -> TaskRec] /\ task'[w] = t /\ \A v \in Waiters \ {w} : task'[v] = task[v]
  BY <1>2, <1>3 DEF TaskType
<1>5. Moved(w, st, i, FALSE)
  BY <1>3, <1>4 DEF Moved
<1>. QED
  BY <1>1, <1>5

\* The same for a task that takes fetch_lock and subscribes.
LEMMA LockedMoves ==
    ASSUME TaskType, NEW w \in Waiters, FetchLocked(w)
    PROVE  Moved(w, "look", task[w].id, FALSE)
<1> DEFINE t == [task[w] EXCEPT !.st = "look", !.note = FALSE]
<1>1. task' = [task EXCEPT ![w] = t]
  BY DEF FetchLocked
<1>2. task[w] \in TaskRec
  BY DEF TaskType
<1>3. t \in TaskRec /\ t.st = "look" /\ t.id = task[w].id /\ t.note = FALSE
  BY <1>2 DEF TaskRec, States
<1> HIDE DEF t
<1>4. task' \in [Waiters -> TaskRec] /\ task'[w] = t /\ \A v \in Waiters \ {w} : task'[v] = task[v]
  BY <1>1, <1>3 DEF TaskType
<1>. QED
  BY <1>3, <1>4 DEF Moved

\* The same for a task that the demand's answer or a change sends round the loop.
LEMMA WakesMoves ==
    ASSUME TaskType, NEW w \in Waiters, FetchWakes(w)
    PROVE  \E n \in BOOLEAN : Moved(w, "look", task[w].id, n)
<1> DEFINE t1 == [task[w] EXCEPT !.st = "look", !.responded = TRUE]
           t2 == [task[w] EXCEPT !.st = "look", !.note = FALSE]
<1>1. PICK t \in {t1, t2} : task' = [task EXCEPT ![w] = t]
  BY DEF FetchWakes
<1>2. task[w] \in TaskRec
  BY DEF TaskType
<1>3. t1 \in TaskRec /\ t1.st = "look" /\ t1.id = task[w].id
  BY <1>2 DEF TaskRec, States
<1>4. t2 \in TaskRec /\ t2.st = "look" /\ t2.id = task[w].id
  BY <1>2 DEF TaskRec, States
<1> HIDE DEF t1, t2
<1>5. t \in TaskRec /\ t.st = "look" /\ t.id = task[w].id
  BY <1>1, <1>3, <1>4
<1>6. task' \in [Waiters -> TaskRec] /\ task'[w] = t /\ \A v \in Waiters \ {w} : task'[v] = task[v]
  BY <1>1, <1>5 DEF TaskType
<1>7. t.note \in BOOLEAN
  BY <1>5 DEF TaskRec
<1>8. Moved(w, "look", task[w].id, t.note)
  BY <1>5, <1>6 DEF Moved
<1>. QED
  BY <1>7, <1>8

\* The same for a task that subscribes to the workload channel.
LEMMA SubscribeMoves ==
    ASSUME TaskType, NEW w \in Waiters, Subscribe(w)
    PROVE  Moved(w, "find", task[w].id, FALSE)
<1> DEFINE t == [task[w] EXCEPT !.note = FALSE, !.st = "find"]
<1>1. task' = [task EXCEPT ![w] = t]
  BY DEF Subscribe
<1>2. task[w] \in TaskRec
  BY DEF TaskType
<1>3. t \in TaskRec /\ t.st = "find" /\ t.id = task[w].id /\ t.note = FALSE
  BY <1>2 DEF TaskRec, States
<1> HIDE DEF t
<1>4. task' \in [Waiters -> TaskRec] /\ task'[w] = t /\ \A v \in Waiters \ {w} : task'[v] = task[v]
  BY <1>1, <1>3 DEF TaskType
<1>. QED
  BY <1>3, <1>4 DEF Moved

\* A task that moves keeps the types, and no wake-up is lost, provided that it
\* waits only for what is not there.
LEMMA MovedTyped ==
    ASSUME TaskType, NoLostWakeup, UNCHANGED <<sandbox, workload>>,
           NEW w \in Waiters, NEW st, NEW i, NEW n, Moved(w, st, i, n),
           st = "idle" \/ i \in Ids,
           st = "select" /\ Current(i) => n,
           st = "await" /\ workload => n
    PROVE  TaskType' /\ NoLostWakeup'
<1>1. TaskType'
  BY DEF TaskType, Moved, At
<1>2. \A v \in Waiters : /\ At(v, "select")' /\ Current(task'[v].id) => task'[v].note
                         /\ At(v, "await")' /\ workload => task'[v].note
  BY DEF Moved, At, NoLostWakeup
<1>. QED
  BY <1>1, <1>2 DEF NoLostWakeup, At, Current

\* A task that moves outside the registration leaves it alone.
LEMMA MovedQuietly ==
    ASSUME Exclusive, Agreed, UNCHANGED <<id, file, durable, regLock, acked, reread>>,
           NEW w \in Waiters, NEW st, NEW i, NEW n, Moved(w, st, i, n),
           st \notin Registering, task[w].st \notin Registering
    PROVE  Exclusive' /\ Agreed'
<1>1. Agreed'
  BY DEF Agreed
<1>2. \A v \in Waiters : task'[v].st \in Registering <=> regLock = v
  BY DEF Exclusive, Moved
<1>3. \A v \in Waiters : task'[v].st \in Registering => task'[v] = task[v]
  BY DEF Moved
<1>4. "dirsync" \in Registering /\ "publish" \in Registering
  BY DEF Registering
<1>. QED
  BY <1>1, <1>2, <1>3, <1>4 DEF Exclusive, At

\* A task that moves with neither lock leaves them alone.
LEMMA MovedUnlocked ==
    ASSUME FetchHeld, UNCHANGED fetchLock,
           NEW w \in Waiters, NEW st, NEW i, NEW n, Moved(w, st, i, n),
           st \notin Fetching, task[w].st \notin Fetching
    PROVE  FetchHeld'
  BY DEF FetchHeld, Moved, At

\* The same for refresh_lock.
LEMMA MovedUnrefreshed ==
    ASSUME RefreshHeld, UNCHANGED <<refresh, watcher>>,
           NEW w \in Waiters, NEW st, NEW i, NEW n, Moved(w, st, i, n),
           st # "load", task[w].st # "load"
    PROVE  RefreshHeld'
  BY DEF RefreshHeld, Moved, At

\* What every step keeps, besides types.
Core ==
    /\ TaskType /\ NoLostWakeup
    /\ Exclusive /\ Agreed
    /\ FetchHeld /\ RefreshHeld

\* States in which a task holds a lock.
Locking == Registering \union Fetching \union {"load"}

\* A task that moves and neither takes nor holds a lock.
LEMMA MovedFreely ==
    ASSUME SandboxInv,
           UNCHANGED <<sandbox, workload, id, file, durable, regLock, acked, reread, fetchLock, refresh, watcher>>,
           NEW w \in Waiters, NEW st, NEW i, NEW n, Moved(w, st, i, n),
           st = "idle" \/ i \in Ids,
           st = "await" /\ workload => n,
           st \notin Locking, task[w].st \notin Locking
    PROVE  Core'
<1>1. st \notin Fetching /\ st # "select" /\ st # "load" /\ st \notin Registering
  BY DEF Locking, Fetching
<1>2. task[w].st \notin Fetching /\ task[w].st # "load" /\ task[w].st \notin Registering
  BY DEF Locking
<1>3. TaskType' /\ NoLostWakeup'
  BY <1>1, MovedTyped DEF SandboxInv
<1>4. Exclusive' /\ Agreed'
  BY <1>1, <1>2, MovedQuietly DEF SandboxInv
<1>5. FetchHeld'
  BY <1>1, <1>2, MovedUnlocked DEF SandboxInv
<1>6. RefreshHeld'
  BY <1>1, <1>2, MovedUnrefreshed DEF SandboxInv
<1>. QED
  BY <1>3, <1>4, <1>5, <1>6 DEF Core

\* A notification changes nothing but the notes.
LEMMA NotifiedNotes ==
    ASSUME TaskType, NEW ws, Notified(ws)
    PROVE  /\ task' \in [Waiters -> TaskRec]
           /\ \A w \in Waiters : /\ task'[w].st = task[w].st /\ task'[w].id = task[w].id
                                 /\ task'[w].note = (task[w].note \/ w \in ws)
<1>1. \A w \in Waiters : task[w] \in TaskRec
  BY DEF TaskType
<1>2. \A w \in Waiters : w \in ws => task'[w] = [task[w] EXCEPT !.note = TRUE]
  BY DEF Notified
<1>3. \A w \in Waiters : w \notin ws => task'[w] = task[w]
  BY DEF Notified
<1>4. \A w \in Waiters : [task[w] EXCEPT !.note = TRUE] \in TaskRec
  BY <1>1 DEF TaskRec
<1>5. \A w \in Waiters : task'[w] \in TaskRec
  BY <1>1, <1>2, <1>3, <1>4
<1>6. task' \in [Waiters -> TaskRec]
  BY <1>5 DEF Notified
<1>7. \A w \in Waiters : task'[w].st = task[w].st /\ task'[w].id = task[w].id
  BY <1>1, <1>2, <1>3 DEF TaskRec
<1>8. \A w \in Waiters : task'[w].note = (task[w].note \/ w \in ws)
  BY <1>1, <1>2, <1>3 DEF TaskRec
<1>. QED
  BY <1>6, <1>7, <1>8

\* xDS changes the stores and tells the tasks that wait for them.
LEMMA StoresChange ==
    ASSUME SandboxInv,
           (\E i \in Ids, b \in {"absent", "unbound", "mine", "other"} : UpdateSandbox(i, b)) \/ UpdateWorkload
    PROVE  Core'
<1>1. PICK ws : /\ Notified(ws)
                /\ \A w \in Waiters :
                      /\ At(w, "select") => w \in ws \/ UNCHANGED sandbox
                      /\ At(w, "await") => w \in ws \/ ~workload' \/ UNCHANGED workload
  <2>1. ASSUME NEW i \in Ids, NEW b \in {"absent", "unbound", "mine", "other"}, UpdateSandbox(i, b)
        PROVE  /\ Notified(PolicyWatchers(i)) /\ UNCHANGED workload
               /\ \A w \in Waiters : At(w, "select") => w \in PolicyWatchers(i)
    BY <2>1 DEF UpdateSandbox, PolicyWatchers, At
  <2>2. ASSUME UpdateWorkload, workload
        PROVE  Notified({}) /\ UNCHANGED sandbox /\ ~workload'
    BY <2>2 DEF UpdateWorkload
  <2>3. ASSUME UpdateWorkload, ~workload
        PROVE  /\ Notified({w \in Waiters : task[w].st \in {"find", "await"}}) /\ UNCHANGED sandbox
               /\ \A w \in Waiters : At(w, "await") => w \in {v \in Waiters : task[v].st \in {"find", "await"}}
    BY <2>3 DEF UpdateWorkload, At
  <2>. QED
    BY <2>1, <2>2, <2>3
<1>2. UNCHANGED <<id, file, durable, regLock, acked, reread, fetchLock, refresh, watcher>>
  BY DEF UpdateSandbox, UpdateWorkload, memVars, diskVars, tokenVars
<1>3. /\ task' \in [Waiters -> TaskRec]
      /\ \A w \in Waiters : /\ task'[w].st = task[w].st /\ task'[w].id = task[w].id
                            /\ task'[w].note = (task[w].note \/ w \in ws)
  BY <1>1, NotifiedNotes DEF SandboxInv
<1>4. TaskType'
  BY <1>3 DEF SandboxInv, TaskType, At
<1>5. \A w \in Waiters : task[w].note \in BOOLEAN
  BY DEF SandboxInv, TaskType, TaskRec
<1>6. NoLostWakeup'
  <2>1. ASSUME NEW w \in Waiters, At(w, "select")', Current(task[w].id)'
        PROVE  task'[w].note
    BY <1>1, <1>3, <1>5, <2>1 DEF SandboxInv, NoLostWakeup, At, Current
  <2>2. ASSUME NEW w \in Waiters, At(w, "await")', workload'
        PROVE  task'[w].note
    BY <1>1, <1>3, <1>5, <2>2 DEF SandboxInv, NoLostWakeup, At
  <2>. QED
    BY <2>1, <2>2 DEF NoLostWakeup
<1>7. Exclusive' /\ Agreed'
  BY <1>2, <1>3 DEF SandboxInv, Exclusive, Agreed, At
<1>8. FetchHeld' /\ RefreshHeld'
  BY <1>2, <1>3 DEF SandboxInv, FetchHeld, RefreshHeld, At
<1>. QED
  BY <1>4, <1>6, <1>7, <1>8 DEF Core

\* The steps of wait_for_sandbox: the sandbox, under fetch_lock, then the workload.
LEMMA WaitSteps ==
    ASSUME SandboxInv, NEW w \in Waiters, Wait(w)
    PROVE  Core'
<1>0. /\ TaskType /\ task[w] \in TaskRec /\ w # None
      /\ At(w, "idle") \/ task[w].id \in Ids
  BY Constants DEF SandboxInv, TaskType
<1>1. CASE FetchLocked(w) \/ Look(w) \/ FetchWakes(w)
  <2>1. \E st \in {"look", "workload", "select"}, n \in BOOLEAN :
            /\ Moved(w, st, task[w].id, n)
            /\ st = "select" => ~Current(task[w].id)
            /\ fetchLock' = IF st = "workload" THEN None ELSE w
    <3>1. CASE FetchLocked(w)
      BY <1>0, <3>1, LockedMoves DEF FetchLocked
    <3>2. CASE Look(w) /\ Current(task[w].id)
      <4>1. Become(w, "workload") /\ fetchLock' = None /\ "workload" \in States /\ task[w].note \in BOOLEAN
        BY <1>0, <3>2 DEF Look, States, TaskRec
      <4>2. Moved(w, "workload", task[w].id, task[w].note)
        BY <1>0, <4>1, BecomeMoves
      <4>. QED
        BY <4>1, <4>2
    <3>3. CASE Look(w) /\ ~Current(task[w].id)
      <4>1. Become(w, "select") /\ fetchLock' = fetchLock /\ "select" \in States /\ task[w].note \in BOOLEAN
        BY <1>0, <3>3 DEF Look, States, TaskRec
      <4>2. Moved(w, "select", task[w].id, task[w].note)
        BY <1>0, <4>1, BecomeMoves
      <4>3. fetchLock = w
        BY <3>3 DEF Look, SandboxInv, FetchHeld, Fetching, At
      <4>. QED
        BY <3>3, <4>1, <4>2, <4>3
    <3>4. CASE FetchWakes(w)
      <4>1. fetchLock' = fetchLock /\ fetchLock = w
        BY <3>4 DEF FetchWakes, memVars, SandboxInv, FetchHeld, Fetching, At
      <4>. QED
        BY <1>0, <3>4, <4>1, WakesMoves
    <3>. QED
      BY <1>1, <3>1, <3>2, <3>3, <3>4
  <2>2. PICK st \in {"look", "workload", "select"}, n \in BOOLEAN :
            /\ Moved(w, st, task[w].id, n)
            /\ st = "select" => ~Current(task[w].id)
            /\ fetchLock' = IF st = "workload" THEN None ELSE w
    BY <2>1
  <2>3. st \notin Registering /\ st # "await" /\ st # "load" /\ (st \in Fetching <=> st # "workload")
    BY DEF Registering, Fetching
  <2>4. task[w].st \in {"lock", "look", "select"}
    BY <1>1 DEF FetchLocked, Look, FetchWakes, At
  <2>5. UNCHANGED <<sandbox, workload, id, file, durable, regLock, acked, reread, refresh, watcher>>
    BY <1>1 DEF FetchLocked, Look, FetchWakes, memVars, diskVars, envVars, tokenVars
  <2>6. fetchLock \in {None, w}
    BY <1>1 DEF FetchLocked, Look, FetchWakes, SandboxInv, FetchHeld, Fetching, At
  <2>7. TaskType' /\ NoLostWakeup'
    <3>1. task[w].id \in Ids
      BY <1>0, <2>4 DEF At
    <3>. QED
      BY <2>2, <2>3, <2>5, <3>1, MovedTyped DEF SandboxInv
  <2>8. Exclusive' /\ Agreed'
    <3>1. task[w].st \notin Registering
      BY <2>4 DEF Registering
    <3>. QED
      BY <2>2, <2>3, <2>5, <3>1, MovedQuietly DEF SandboxInv
  <2>9. FetchHeld'
    <3>1. ASSUME NEW v \in Waiters, v # w
          PROVE  task'[v].st \notin Fetching /\ fetchLock' # v
      BY <1>0, <2>2, <2>6, <3>1, Constants DEF FetchHeld, Moved, SandboxInv
    <3>2. task'[w].st \in Fetching <=> fetchLock' = w
      BY <1>0, <2>2, <2>3 DEF Moved
    <3>. QED
      BY <3>1, <3>2 DEF FetchHeld
  <2>10. RefreshHeld'
    BY <2>2, <2>3, <2>4, <2>5, MovedUnrefreshed DEF SandboxInv
  <2>. QED
    BY <2>7, <2>8, <2>9, <2>10 DEF Core
<1>2. CASE Subscribe(w)
  <2>1. Moved(w, "find", task[w].id, FALSE)
    BY <1>0, <1>2, SubscribeMoves
  <2>2. "find" \notin Locking
    BY DEF Locking, Registering, Fetching
  <2>3. task[w].st \notin Locking /\ task[w].id \in Ids
    BY <1>0, <1>2 DEF Subscribe, At, Locking, Registering, Fetching
  <2>4. UNCHANGED <<sandbox, workload, id, file, durable, regLock, acked, reread, fetchLock, refresh, watcher>>
    BY <1>2 DEF Subscribe, memVars, diskVars, envVars, tokenVars
  <2>. QED
    BY <2>1, <2>2, <2>3, <2>4, MovedFreely
<1>4. CASE WaitWorkload(w)
  <2>1. PICK st \in {"get", "await"} : Become(w, st) /\ ~(st = "await" /\ workload)
    BY <1>4 DEF WaitWorkload
  <2>2. st \notin Locking /\ st \in States
    BY DEF Locking, Registering, Fetching, States
  <2>3. Moved(w, st, task[w].id, task[w].note)
    BY <1>0, <2>1, <2>2, BecomeMoves
  <2>4. task[w].st \notin Locking /\ task[w].id \in Ids
    BY <1>0, <1>4 DEF WaitWorkload, At, Locking, Registering, Fetching
  <2>5. UNCHANGED <<sandbox, workload, id, file, durable, regLock, acked, reread, fetchLock, refresh, watcher>>
    BY <1>4 DEF WaitWorkload, memVars, diskVars, envVars, tokenVars
  <2>. QED
    BY <2>1, <2>2, <2>3, <2>4, <2>5, MovedFreely
<1>3. CASE GetSandbox(w)
  <2>0. PICK st \in {"sleep", "done", "token", "idle"} :
            \E n, i : Moved(w, st, i, n) /\ (st = "idle" \/ i = task[w].id)
    BY <1>0, <1>3, BecomeMoves, StopMoves DEF GetSandbox, Fail, States
  <2>1. PICK n, i : Moved(w, st, i, n) /\ (st = "idle" \/ i = task[w].id)
    BY <2>0
  <2>2. st \notin Locking /\ st # "await"
    BY DEF Locking, Registering, Fetching
  <2>3. task[w].st \notin Locking /\ task[w].id \in Ids
    BY <1>0, <1>3 DEF GetSandbox, At, Locking, Registering, Fetching
  <2>4. UNCHANGED <<sandbox, workload, id, file, durable, regLock, acked, reread, fetchLock, refresh, watcher>>
    BY <1>3 DEF GetSandbox, memVars, diskVars, envVars, tokenVars
  <2>. QED
    BY <2>1, <2>2, <2>3, <2>4, MovedFreely
<1>. QED
  BY <1>1, <1>2, <1>3, <1>4 DEF Wait

\* A preparation or the recovery begins, or the recovery begins again.
LEMMA BeginSteps ==
    ASSUME SandboxInv,
           (\E r \in Requests, i \in Ids : Prepare(r, i)) \/ Recover \/ Retry
    PROVE  Core'
<1>1. PICK w \in Waiters, i \in Ids : Begin(w, i) /\ task[w].st \in {"idle", "sleep"}
  <2>1. ASSUME NEW r \in Requests, NEW i \in Ids, Prepare(r, i)
        PROVE  r \in Waiters /\ Begin(r, i) /\ task[r].st = "idle"
    BY <2>1, Constants DEF Prepare, At
  <2>2. CASE Recover
    BY <2>2, Constants DEF Recover, At, SandboxInv, ManagerType
  <2>3. CASE Retry
    BY <2>3, Constants DEF Retry, At, SandboxInv, TaskType
  <2>. QED
    BY <2>1, <2>2, <2>3
<1>2. PICK st \in {"workload", "lock"} : Moved(w, st, i, FALSE)
  BY <1>1, BeginMoves DEF SandboxInv
<1>3. st \notin Locking /\ st # "await" /\ task[w].st \notin Locking
  BY <1>1 DEF Locking, Registering, Fetching
<1>4. UNCHANGED <<sandbox, workload, id, file, durable, regLock, acked, reread, fetchLock, refresh, watcher>>
  BY DEF Prepare, Recover, Retry, memVars, diskVars, envVars, tokenVars
<1>. QED
  BY <1>2, <1>3, <1>4, MovedFreely

\* A wait that times out or whose caller is gone releases what it holds.
LEMMA GiveUpSteps ==
    ASSUME SandboxInv, NEW w \in Waiters, GiveUp(w)
    PROVE  Core'
<1>0. TaskType /\ w # None /\ w # "watcher" /\ task[w] \in TaskRec
  BY Constants DEF SandboxInv, TaskType
<1>a. PICK st \in {"sleep", "idle"} : \E n, i : Moved(w, st, i, n) /\ (st = "idle" \/ i = task[w].id)
  BY <1>0, BecomeMoves, StopMoves DEF GiveUp, Fail, States
<1>1. PICK n, i : Moved(w, st, i, n) /\ (st = "idle" \/ i = task[w].id)
  BY <1>a
<1>2. task[w].st \in {"lock", "select", "await", "token", "load"} /\ task[w].id \in Ids
  BY <1>0 DEF GiveUp, Waiting, At, TaskType
<1>3. UNCHANGED <<sandbox, workload, id, file, durable, regLock, acked, reread>>
  BY DEF GiveUp, diskVars, envVars
<1>4. UNCHANGED watcher
  BY DEF GiveUp, Abandon, tokenVars
<1>5. TaskType' /\ NoLostWakeup'
  <2>1. st # "select" /\ st # "await" /\ (st = "idle" \/ i \in Ids)
    BY <1>1, <1>2
  <2>. QED
    BY <1>1, <1>3, <2>1, MovedTyped DEF SandboxInv
<1>6. Exclusive' /\ Agreed'
  <2>1. st \notin Registering /\ task[w].st \notin Registering
    BY <1>2 DEF Registering
  <2>. QED
    BY <1>1, <1>3, <2>1, MovedQuietly DEF SandboxInv
<1>7. FetchHeld'
  <2>1. fetchLock' = IF fetchLock = w THEN None ELSE fetchLock
    BY DEF GiveUp, Holding
  <2>2. task'[w].st \notin Fetching /\ \A v \in Waiters \ {w} : task'[v] = task[v]
    BY <1>1 DEF Moved, Fetching
  <2>. QED
    BY <1>0, <2>1, <2>2, Constants DEF FetchHeld, SandboxInv
<1>8. RefreshHeld'
  <2>1. CASE task[w].st = "load"
    <3>1. refresh = w /\ refresh' = None
      BY <2>1 DEF GiveUp, Waiting, Abandon
    <3>. QED
      BY <1>0, <1>1, <1>4, <3>1, Constants DEF RefreshHeld, Moved, At, SandboxInv
  <2>2. CASE task[w].st # "load"
    <3>1. UNCHANGED refresh
      BY <2>2 DEF GiveUp, At, tokenVars
    <3>. QED
      BY <1>1, <1>4, <2>2, <3>1, MovedUnrefreshed DEF SandboxInv
  <2>. QED
    BY <2>1, <2>2
<1>. QED
  BY <1>5, <1>6, <1>7, <1>8 DEF Core

\* A request that needs a token looks at the snapshot and may load it, under
\* refresh_lock.
LEMMA TokenSteps ==
    ASSUME SandboxInv, NEW r \in Requests, TokenReady(r) \/ TokenLoad(r)
    PROVE  Core'
<1>0. TaskType /\ r \in Waiters /\ r # None /\ r # "watcher"
  BY Constants DEF SandboxInv
<1>a. PICK st \in {"commit", "loaded", "load", "idle"} : \E n, i :
          /\ Moved(r, st, i, n) /\ (st = "idle" \/ i = task[r].id)
          /\ st = "load" => refresh = None /\ refresh' = r /\ task[r].st = "token"
  BY <1>0, BecomeMoves, StopMoves DEF TokenReady, TokenLoad, Acquire, At, States
<1>1. PICK n, i :
          /\ Moved(r, st, i, n) /\ (st = "idle" \/ i = task[r].id)
          /\ st = "load" => refresh = None /\ refresh' = r /\ task[r].st = "token"
  BY <1>a
<1>2. task[r].st \in {"token", "load", "loaded"} /\ task[r].id \in Ids
  BY <1>0 DEF TokenReady, TokenLoad, At, TaskType
<1>3. UNCHANGED <<sandbox, workload, id, file, durable, regLock, acked, reread, fetchLock>>
  BY DEF TokenReady, TokenLoad, memVars, diskVars, envVars
<1>4. UNCHANGED watcher
  BY DEF TokenReady, TokenLoad, tokenVars
<1>5. TaskType' /\ NoLostWakeup'
  <2>1. st # "select" /\ st # "await" /\ (st = "idle" \/ i \in Ids)
    BY <1>1, <1>2
  <2>. QED
    BY <1>0, <1>1, <1>3, <2>1, MovedTyped DEF SandboxInv
<1>6. Exclusive' /\ Agreed'
  <2>1. st \notin Registering /\ task[r].st \notin Registering
    BY <1>2 DEF Registering
  <2>. QED
    BY <1>0, <1>1, <1>3, <2>1, MovedQuietly DEF SandboxInv
<1>7. FetchHeld'
  <2>1. st \notin Fetching /\ task[r].st \notin Fetching
    BY <1>2 DEF Fetching
  <2>. QED
    BY <1>0, <1>1, <1>3, <2>1, MovedUnlocked DEF SandboxInv
<1>8. RefreshHeld'
  <2>1. CASE st = "load"
    BY <1>0, <1>1, <1>4, <2>1, Constants DEF RefreshHeld, Moved, At, SandboxInv
  <2>2. CASE st # "load" /\ task[r].st = "load"
    <3>1. refresh = r /\ refresh' = None
      BY <2>2 DEF TokenReady, TokenLoad, At, LoadEnds
    <3>. QED
      BY <1>0, <1>1, <1>4, <2>2, <3>1, Constants DEF RefreshHeld, Moved, At, SandboxInv
  <2>3. CASE st # "load" /\ task[r].st # "load"
    <3>1. UNCHANGED refresh
      BY <1>0, <1>1, <2>3, BecomeMoves DEF TokenReady, TokenLoad, At, tokenVars, Moved, States
    <3>. QED
      BY <1>0, <1>1, <1>4, <2>3, <3>1, MovedUnrefreshed DEF SandboxInv
  <2>. QED
    BY <2>1, <2>2, <2>3
<1>. QED
  BY <1>5, <1>6, <1>7, <1>8 DEF Core

\* The steps of register that move a request on without a lock changing hands
\* other than the registration lock: what they leave alone.
LEMMA RegistrationLeaves ==
    ASSUME SandboxInv, NEW r \in Requests, NEW st, NEW i, NEW n, Moved(r, st, i, n),
           st = "idle" \/ i \in Ids, st \in {"idle"} \union Registering,
           task[r].st \in {"commit"} \union Registering,
           UNCHANGED <<sandbox, workload, fetchLock, refresh, watcher>>
    PROVE  TaskType' /\ NoLostWakeup' /\ FetchHeld' /\ RefreshHeld'
<1>0. r \in Waiters
  BY Constants
<1>1. st # "select" /\ st # "await" /\ st # "load" /\ st \notin Fetching
  BY DEF Registering, Fetching
<1>2. task[r].st \notin Fetching /\ task[r].st # "load"
  BY DEF Registering, Fetching
<1>3. TaskType' /\ NoLostWakeup'
  BY <1>0, <1>1, MovedTyped DEF SandboxInv
<1>4. FetchHeld'
  BY <1>0, <1>1, <1>2, MovedUnlocked DEF SandboxInv
<1>5. RefreshHeld'
  BY <1>0, <1>1, <1>2, MovedUnrefreshed DEF SandboxInv
<1>. QED
  BY <1>3, <1>4, <1>5

\* register: one request at a time writes, renames, flushes and publishes; the
\* others find the identity registered.
LEMMA RegisterSteps ==
    ASSUME SandboxInv, NEW r \in Requests,
           Locked(r) \/ RegisterFails(r) \/ WriteTemporary(r) \/ Rename(r) \/ SyncDirectory(r) \/ PublishId(r)
    PROVE  Core'
<1>0. TaskType /\ r \in Waiters /\ r # None /\ task[r] \in TaskRec
  BY Constants DEF SandboxInv, TaskType
<1>1. task[r].st \in {"commit"} \union Registering
  BY <1>0 DEF Locked, RegisterFails, WriteTemporary, Rename, SyncDirectory, PublishId, At, Registering,
              SandboxInv, Exclusive
<1>2. task[r].id \in Ids
  BY <1>0, <1>1 DEF TaskType, At, Registering
<1>3. UNCHANGED <<sandbox, workload, fetchLock, refresh, watcher>>
  BY DEF Locked, RegisterFails, WriteTemporary, Rename, SyncDirectory, PublishId, memVars, envVars, tokenVars
<1>4. PICK st, i, n :
          /\ Moved(r, st, i, n) /\ st \in {"idle"} \union Registering
          /\ st = "idle" \/ i = task[r].id
          /\ st = "idle" \/ \/ st = "write" /\ Locked(r) /\ ~Registered(r)
                            \/ st = "rename" /\ WriteTemporary(r)
                            \/ st = "dirsync" /\ Rename(r)
                            \/ st = "publish" /\ SyncDirectory(r)
          /\ st = "idle" => (Locked(r) /\ Registered(r)) \/ RegisterFails(r) \/ PublishId(r)
  <2>1. CASE Stop(r) /\ ((Locked(r) /\ Registered(r)) \/ RegisterFails(r) \/ PublishId(r))
    BY <1>0, <2>1, StopMoves
  <2>2. CASE Become(r, "write") /\ Locked(r) /\ ~Registered(r)
    BY <1>0, <2>2, BecomeMoves DEF States, Registering
  <2>3. CASE Become(r, "rename") /\ WriteTemporary(r)
    BY <1>0, <2>3, BecomeMoves DEF States, Registering
  <2>4. CASE Become(r, "dirsync") /\ Rename(r)
    BY <1>0, <2>4, BecomeMoves DEF States, Registering
  <2>5. CASE Become(r, "publish") /\ SyncDirectory(r)
    BY <1>0, <2>5, BecomeMoves DEF States, Registering
  <2>. QED
    BY <2>1, <2>2, <2>3, <2>4, <2>5 DEF Locked, RegisterFails, WriteTemporary, Rename, SyncDirectory, PublishId
<1>5. TaskType' /\ NoLostWakeup' /\ FetchHeld' /\ RefreshHeld'
  BY <1>1, <1>2, <1>3, <1>4, RegistrationLeaves
<1>6. /\ task'[r].st = st /\ (st = "idle" \/ task'[r].id = task[r].id)
      /\ \A v \in Waiters : v # r => task'[v] = task[v]
  BY <1>4 DEF Moved
<1>7. /\ \A v \in Waiters : task[v].st \in Registering <=> regLock = v
      /\ regLock # None => id = None
      /\ \A v \in Waiters : /\ At(v, "dirsync") => file.id = task[v].id
                            /\ At(v, "publish") => file.id = task[v].id /\ durable.id = task[v].id
  BY DEF SandboxInv, Exclusive
<1>8. \A i_1 \in acked : id = i_1 /\ i_1 \in Ids /\ id # None
  BY Constants DEF SandboxInv, Agreed, ManagerType
<1>9. CASE st = "idle"
  <2>0. "idle" \notin Registering
    BY DEF Registering
  <2>1. CASE Locked(r) /\ Registered(r)
    <3>1. /\ UNCHANGED <<id, regLock, file, durable, reread>> /\ id # None
          /\ acked' \subseteq acked \union {task[r].id}
          /\ task[r].id \in acked' => task[r].id \in acked \/ id = task[r].id
          /\ task[r].st = "commit"
      BY <2>1, <1>2, Constants DEF Locked, Registered, CheckRegistration, diskVars, At
    <3>2. "commit" \notin Registering
      BY DEF Registering
    <3>3. Exclusive' /\ Agreed'
      <4>1. \A v \in Waiters : task'[v].st \in Registering => task'[v] = task[v]
        BY <1>6, <1>9, <2>0
      <4>2. \A v \in Waiters : task'[v].st \in Registering <=> regLock = v
        BY <1>6, <1>7, <1>9, <2>0, <3>1, <3>2
      <4>3. "dirsync" \in Registering /\ "publish" \in Registering
        BY DEF Registering
      <4>4. Exclusive'
        BY <1>7, <3>1, <4>1, <4>2, <4>3 DEF Exclusive, At
      <4>5. Agreed'
        BY <1>8, <3>1 DEF Agreed, SandboxInv
      <4>. QED
        BY <4>4, <4>5
    <3>. QED
      BY <1>5, <3>3 DEF Core
  <2>2. CASE RegisterFails(r) \/ PublishId(r)
    <3>1. regLock' = None /\ regLock = r /\ UNCHANGED <<file, durable, reread>>
      BY <1>0, <1>7, <2>2 DEF RegisterFails, PublishId, At, Registering, diskVars
    <3>2. id = None /\ acked = {}
      BY <1>0, <1>7, <1>8, <3>1
    <3>3. \A v \in Waiters : task'[v].st \notin Registering
      BY <1>6, <1>7, <1>9, <2>0, <3>1
    <3>4. Exclusive'
      BY <3>1, <3>3, Constants DEF Exclusive, At, Registering
    <3>5. Agreed'
      <4>1. CASE RegisterFails(r)
        BY <3>1, <3>2, <4>1 DEF Agreed, RegisterFails
      <4>2. CASE PublishId(r)
        <5>1. file.id = task[r].id /\ durable.id = task[r].id /\ id' = task[r].id /\ acked' = {task[r].id}
          BY <1>0, <1>7, <3>2, <4>2 DEF PublishId
        <5>. QED
          BY <3>1, <5>1 DEF Agreed
      <4>. QED
        BY <2>2, <4>1, <4>2
    <3>. QED
      BY <1>5, <3>4, <3>5 DEF Core
  <2>. QED
    BY <1>4, <1>9, <2>1, <2>2
<1>10. CASE st # "idle"
  <2>1. regLock' = r /\ id = None /\ UNCHANGED <<id, acked, reread>>
    BY <1>0, <1>4, <1>7, <1>10 DEF Locked, Registered, WriteTemporary, Rename, SyncDirectory, At, Registering, memVars
  <2>2. st \in Registering
    BY <1>4, <1>10
  <2>3. regLock \in {None, r}
    BY <1>0, <1>4, <1>7, <1>10 DEF Locked, WriteTemporary, Rename, SyncDirectory, At, Registering
  <2>4. \A v \in Waiters : v # r => task'[v].st \notin Registering
    BY <1>6, <1>7, <2>3, Constants
  <2>5. st = "dirsync" => file'.id = task[r].id
    BY <1>4 DEF Rename
  <2>6. st = "publish" => file'.id = task[r].id /\ durable'.id = task[r].id
    BY <1>0, <1>4, <1>7 DEF SyncDirectory
  <2>7. "dirsync" \in Registering /\ "publish" \in Registering
    BY DEF Registering
  <2>8. Exclusive'
    BY <1>0, <1>6, <1>10, <2>1, <2>2, <2>4, <2>5, <2>6, <2>7 DEF Exclusive, At
  <2>9. Agreed'
    BY <1>8, <2>1 DEF Agreed
  <2>. QED
    BY <1>5, <2>8, <2>9 DEF Core
<1>. QED
  BY <1>9, <1>10

\* A drain drops the recovery; the end of the server drops every task that has
\* not begun to commit.
LEMMA ServerSteps ==
    ASSUME SandboxInv, Drain \/ ServerStops
    PROVE  Core'
<1>0. TaskType /\ \A w \in Waiters : task[w] \in TaskRec
  BY DEF SandboxInv, TaskType
<1>1. /\ Idle \in TaskRec /\ Idle.st = "idle"
      /\ "idle" \notin Registering /\ "commit" \notin Registering
      /\ "dirsync" \in Registering /\ "publish" \in Registering
  BY DEF Idle, TaskRec, States, Registering
<1>2. UNCHANGED <<sandbox, workload, id, file, durable, regLock, acked, reread>>
  BY DEF Drain, ServerStops, envVars, diskVars
<1>3. /\ task' \in [Waiters -> TaskRec]
      /\ \A w \in Waiters : task'[w] = task[w] \/ (task'[w] = Idle /\ task[w].st \notin Registering)
  <2>1. CASE Drain
    <3>1. task[Recovery].st \notin Registering
      BY Constants DEF SandboxInv, Exclusive, ManagerType
    <3>2. task' = [task EXCEPT ![Recovery] = Idle]
      BY <2>1 DEF Drain
    <3>. QED
      BY <1>0, <1>1, <3>1, <3>2, Constants DEF TaskType
  <2>2. CASE ServerStops
    <3>1. task' = [w \in Waiters |-> IF Committing(w) THEN task[w] ELSE Idle]
      BY <2>2 DEF ServerStops
    <3>2. \A w \in Waiters : Committing(w) <=> task[w].st = "commit" \/ task[w].st \in Registering
      BY DEF Committing, Registering
    <3>. QED
      BY <1>0, <1>1, <3>1, <3>2
  <2>. QED
    BY <2>1, <2>2
<1>4. TaskType'
  BY <1>0, <1>1, <1>3 DEF TaskType, At
<1>5. NoLostWakeup'
  BY <1>1, <1>2, <1>3 DEF SandboxInv, NoLostWakeup, At, Current
<1>6. Exclusive' /\ Agreed'
  BY <1>1, <1>2, <1>3 DEF SandboxInv, Exclusive, Agreed, At
<1>7. FetchHeld'
  <2>1. CASE Drain
    <3>1. fetchLock' = IF fetchLock = Recovery THEN None ELSE fetchLock
      BY <2>1 DEF Drain, Holding
    <3>2. task'[Recovery].st = "idle" /\ \A w \in Waiters : w # Recovery => task'[w] = task[w]
      BY <1>0, <1>1, <2>1, Constants DEF Drain, TaskType
    <3>. QED
      BY <3>1, <3>2, Constants DEF SandboxInv, FetchHeld, Fetching
  <2>2. CASE ServerStops
    <3>1. fetchLock' = None /\ \A w \in Waiters : task'[w].st \notin Fetching
      BY <1>1, <2>2 DEF ServerStops, Committing, Fetching
    <3>. QED
      BY <3>1, Constants DEF FetchHeld
  <2>. QED
    BY <2>1, <2>2
<1>8. RefreshHeld'
  <2>1. CASE Drain
    <3>1. UNCHANGED <<refresh, watcher>>
      BY <2>1 DEF Drain, tokenVars
    <3>2. task'[Recovery].st = "idle" /\ \A w \in Waiters : w # Recovery => task'[w] = task[w]
      BY <1>0, <1>1, <2>1, Constants DEF Drain, TaskType
    <3>3. refresh # Recovery
      BY Constants DEF SandboxInv, TokenInv
    <3>. QED
      BY <3>1, <3>2, <3>3, Constants DEF SandboxInv, RefreshHeld, At
  <2>2. CASE ServerStops
    <3>1. refresh' = None /\ \A w \in Waiters : task'[w].st # "load"
      BY <1>1, <2>2 DEF ServerStops, Committing, TokenDropped
    <3>. QED
      BY <3>1, Constants DEF RefreshHeld, At
  <2>. QED
    BY <2>1, <2>2
<1>. QED
  BY <1>4, <1>5, <1>6, <1>7, <1>8 DEF Core

\* with_registration reads back what the crash has left of the file: the
\* acknowledged identity, as it was flushed.
LEMMA RestartStep ==
    ASSUME SandboxInv, Restart
    PROVE  Core' /\ TokenInv'
<1>1. file \in RegRec /\ durable \in RegRec
  BY DEF SandboxInv, ManagerType
<1>2. AfterPowerLoss(file) = file /\ AfterPowerLoss(durable) = durable
  BY <1>1 DEF AfterPowerLoss, RegRec
<1>3. /\ file' \in {file, durable} /\ id' = file'.id
      /\ file' # file => durable' = file'
      /\ durable' = durable \/ durable' = file'
  BY <1>2 DEF Restart, diskVars
<1>4. /\ \A w \in Waiters : task'[w] = Idle
      /\ task' \in [Waiters -> {Idle}]
      /\ fetchLock' = None /\ regLock' = None /\ refresh' = "watcher" /\ watcher' = "scan"
  BY DEF Restart
<1>5. Idle \in TaskRec /\ Idle.st = "idle" /\ "idle" \notin Registering
  BY DEF Idle, TaskRec, States, Registering
<1>6. TaskType' /\ NoLostWakeup' /\ FetchHeld' /\ RefreshHeld' /\ Exclusive'
  <2>1. TaskType'
    BY <1>4, <1>5 DEF TaskType, At
  <2>2. NoLostWakeup'
    BY <1>4, <1>5 DEF NoLostWakeup, At
  <2>3. FetchHeld' /\ RefreshHeld' /\ Exclusive'
    BY <1>4, <1>5, Constants DEF FetchHeld, Fetching, RefreshHeld, Exclusive, At
  <2>. QED
    BY <2>1, <2>2, <2>3
<1>7. reread' = IF file' = durable' THEN reread ELSE reread \union {file'.id}
  BY DEF Restart
<1>8. id' # None => file'.id = id' /\ (durable'.id = id' \/ id' \in reread')
  BY <1>3, <1>7
<1>9. \A i \in acked' : id' = i
  <2> SUFFICES ASSUME NEW i \in acked' PROVE id' = i
    OBVIOUS
  <2>1. acked' = IF file'.id = file.id THEN acked ELSE acked \ (reread \intersect {file.id})
    BY DEF Restart
  <2>2. id = i /\ i # None
    BY <2>1, Constants DEF SandboxInv, Agreed, ManagerType
  <2>3. file.id = i /\ (durable.id = i \/ i \in reread)
    BY <2>2 DEF SandboxInv, Agreed
  <2>. QED
    BY <1>3, <2>1, <2>2, <2>3
<1>10. Agreed'
  BY <1>8, <1>9 DEF Agreed
<1>11. TokenInv'
  <2>1. UNCHANGED <<files, writes>> /\ scan' = NoScan /\ snapshot' = [f \in Files |-> NoFile]
    BY DEF Restart
  <2>2. NoFile \in FileRec /\ NoFile.ver = 0
    BY DEF NoFile, FileRec, Kinds
  <2>3. \A f \in Files : snapshot'[f] = NoFile
    BY <2>1
  <2>4. snapshot' \in [Files -> FileRec]
    BY <2>1, <2>2
  <2>5. \A f \in Files : files[f].ver \in Nat
    BY DEF SandboxInv, TokenInv, FileRec
  <2>. QED
    BY <1>4, <2>1, <2>2, <2>3, <2>4, <2>5 DEF TokenInv, SandboxInv, NoScan
<1>. QED
  BY <1>6, <1>10, <1>11 DEF Core

\* The watcher, the producer and abandoned scans touch no task.
LEMMA TokenStoreSteps ==
    ASSUME SandboxInv, TokenStep \/ UNCHANGED vars
    PROVE  Core'
<1>1. UNCHANGED <<sandbox, workload, id, file, durable, regLock, acked, reread, fetchLock, task>>
  BY DEF TokenStep, vars, memVars, diskVars, envVars
<1>2. TaskType' /\ NoLostWakeup' /\ Exclusive' /\ Agreed' /\ FetchHeld'
  BY <1>1 DEF SandboxInv, TaskType, NoLostWakeup, Exclusive, Agreed, FetchHeld, At, Current
<1>3. RefreshHeld'
  <2>1. \/ UNCHANGED <<refresh, watcher>>
        \/ refresh # "watcher" /\ refresh' = refresh
        \/ refresh' = "watcher" /\ watcher' = "scan" /\ refresh = None
        \/ refresh' = None /\ refresh = "watcher"
    BY DEF TokenStep, Write, Watcher, Notice, WatcherAcquires, WatcherLoaded, LoadEnds, Acquire, ScanNext,
           OrphanEnds, vars, tokenVars, SandboxInv, RefreshHeld
  <2>. QED
    BY <1>1, <2>1, Constants DEF SandboxInv, RefreshHeld, At
<1>. QED
  BY <1>2, <1>3 DEF Core

-----------------------------------------------------------------------------
(* The specification                                                         *)

\* Every step but a restart is an operation of the token store, or none.
LEMMA StepIsTokenMove ==
    ASSUME [Next]_vars
    PROVE  TokenMove \/ Restart
<1>1. ASSUME NEW r \in Requests, TokenLoad(r)
      PROVE  TokenMove
  BY <1>1 DEF TokenLoad, TokenMove
<1>2. ASSUME NEW r \in Requests, Commit(r) \/ RegisterFails(r), ~TokenLoad(r)
      PROVE  TokenMove
  BY <1>2 DEF Commit, TokenReady, Locked, RegisterFails, WriteTemporary, Rename, SyncDirectory, PublishId, TokenMove
<1>3. ASSUME NEW w \in Waiters, Wait(w)
      PROVE  TokenMove
  BY <1>3 DEF Wait, FetchLocked, Look, FetchWakes, Subscribe, WaitWorkload, GetSandbox, TokenMove
<1>4. ASSUME NEW w \in Waiters, GiveUp(w)
      PROVE  TokenMove
  BY <1>4 DEF GiveUp, TokenMove
<1>5. CASE TokenStep
  BY <1>5 DEF TokenStep, Watcher, WatcherAcquires, WatcherLoaded, TokenMove
<1>6. CASE ServerStops
  BY <1>6 DEF ServerStops, TokenMove
<1>7. CASE \/ \E i \in Ids, b \in {"absent", "unbound", "mine", "other"} : UpdateSandbox(i, b)
           \/ \E r \in Requests, i \in Ids : Prepare(r, i)
           \/ UpdateWorkload \/ Recover \/ Retry \/ Drain
  BY <1>7 DEF UpdateSandbox, Prepare, UpdateWorkload, Recover, Retry, Drain, TokenMove
<1>8. CASE UNCHANGED vars
  BY <1>8 DEF vars, TokenMove
<1>. QED
  BY <1>1, <1>2, <1>3, <1>4, <1>5, <1>6, <1>7, <1>8, [Next]_vars DEF Next

\* Every step keeps the types of the manager's variables.
LEMMA ManagerTyped ==
    ASSUME SandboxInv, [Next]_vars
    PROVE  ManagerType'
<1>0. ManagerType /\ Requests \subseteq Waiters /\ Recovery \in Waiters
  BY Constants DEF SandboxInv
<1>1. ASSUME NEW i \in Ids, NEW b \in {"absent", "unbound", "mine", "other"}, UpdateSandbox(i, b)
      PROVE  ManagerType'
  BY <1>0, <1>1 DEF UpdateSandbox, ManagerType, memVars, diskVars
<1>2. CASE \/ UpdateWorkload \/ Recover \/ Retry \/ TokenStep
           \/ \E r \in Requests, i \in Ids : Prepare(r, i)
  <2>1. CASE UpdateWorkload
    BY <1>0, <2>1 DEF UpdateWorkload, ManagerType, memVars, diskVars
  <2>2. CASE Recover \/ Retry \/ TokenStep \/ \E r \in Requests, i \in Ids : Prepare(r, i)
    <3>1. UNCHANGED <<memVars, diskVars, envVars, acked, reread, crashes, failures>>
      BY <2>2 DEF Recover, Retry, TokenStep, Prepare
    <3>. QED
      BY <1>0, <3>1 DEF ManagerType, memVars, diskVars, envVars
  <2>. QED
    BY <1>2, <2>1, <2>2
<1>3. ASSUME NEW w \in Waiters, Wait(w)
      PROVE  ManagerType'
  BY <1>0, <1>3 DEF Wait, FetchLocked, Look, FetchWakes, Subscribe, WaitWorkload, GetSandbox,
                    ManagerType, memVars, diskVars, envVars
<1>4. ASSUME NEW w \in Waiters, GiveUp(w)
      PROVE  ManagerType'
  BY <1>0, <1>4 DEF GiveUp, Holding, ManagerType, diskVars, envVars
<1>5. ASSUME NEW r \in Requests, TokenReady(r) \/ TokenLoad(r) \/ WriteTemporary(r) \/ SyncDirectory(r) \/ RegisterFails(r)
      PROVE  ManagerType'
  BY <1>0, <1>5 DEF TokenReady, TokenLoad, WriteTemporary, SyncDirectory, RegisterFails, ManagerType, memVars,
                    diskVars, envVars
<1>6. ASSUME NEW r \in Requests, Locked(r) \/ Rename(r) \/ PublishId(r)
      PROVE  ManagerType'
  <2>1. task[r].id \in Ids
    <3>1. r \in Waiters /\ ~At(r, "idle")
      BY <1>0, <1>6 DEF Locked, Rename, PublishId, At
    <3>. QED
      BY <3>1 DEF SandboxInv, TaskType
  <2>2. CASE Locked(r)
    BY <1>0, <2>1, <2>2 DEF Locked, ManagerType, diskVars, envVars
  <2>3. CASE Rename(r)
    <3>1. [id |-> task[r].id, flushed |-> TRUE] \in RegRec
      BY <2>1 DEF RegRec
    <3>. QED
      BY <1>0, <2>3, <3>1 DEF Rename, ManagerType, memVars, envVars
  <2>4. CASE PublishId(r)
    BY <1>0, <2>1, <2>4 DEF PublishId, ManagerType, diskVars, envVars
  <2>. QED
    BY <1>6, <2>2, <2>3, <2>4
<1>7. CASE Drain \/ ServerStops
  BY <1>0, <1>7 DEF Drain, ServerStops, Holding, ManagerType, diskVars, envVars
<1>8. CASE Restart
  <2>1. file \in RegRec /\ durable \in RegRec
    BY <1>0 DEF ManagerType
  <2>2. AfterPowerLoss(file) = file /\ AfterPowerLoss(durable) = durable
    BY <2>1 DEF AfterPowerLoss, RegRec
  <2>3. file' \in RegRec /\ durable' \in RegRec
    BY <1>8, <2>1, <2>2 DEF Restart, diskVars
  <2>4. file'.id \in Ids \union {None}
    BY <2>3 DEF RegRec
  <2>. QED
    BY <1>0, <1>8, <2>3, <2>4 DEF Restart, ManagerType, envVars
<1>9. CASE UNCHANGED vars
  BY <1>0, <1>9 DEF vars, ManagerType, memVars, diskVars, envVars
<1>. QED
  BY <1>1, <1>2, <1>3, <1>4, <1>5, <1>6, <1>7, <1>8, <1>9, [Next]_vars DEF Next, Commit

\* The invariant holds at the start.
LEMMA SandboxStarts ==
    ASSUME Init
    PROVE  SandboxInv
<1>1. ManagerType
  BY DEF Init, ManagerType, NoReg, RegRec
<1>2. /\ Idle \in TaskRec /\ Idle.st = "idle" /\ "idle" \notin Registering
      /\ NoFile \in FileRec /\ [kind |-> "token", ver |-> 0] \in FileRec /\ NoFile.ver = 0
  BY DEF Idle, TaskRec, States, Registering, NoFile, FileRec, Kinds
<1>3. task \in [Waiters -> TaskRec] /\ \A w \in Waiters : task[w].st = "idle"
  BY <1>2 DEF Init
<1>4. TaskType /\ NoLostWakeup
  BY <1>3 DEF TaskType, NoLostWakeup, At
<1>5. Exclusive /\ Agreed /\ FetchHeld /\ RefreshHeld
  BY <1>2, <1>3, Constants DEF Init, TokenInit, Exclusive, Agreed, FetchHeld, Fetching, RefreshHeld, At
<1>6. TokenInv
  <2>1. files \in [Files -> FileRec]
    BY <1>2 DEF Init, TokenInit
  <2>2. snapshot \in [Files -> FileRec] /\ \A f \in Files : snapshot[f].ver = 0
    BY <1>2 DEF Init, TokenInit
  <2>3. \A f \in Files : files[f].ver = 0
    BY <1>2 DEF Init, TokenInit
  <2>. QED
    BY <2>1, <2>2, <2>3 DEF Init, TokenInit, TokenInv, NoScan
<1>. QED
  BY <1>1, <1>4, <1>5, <1>6 DEF SandboxInv

\* Every step keeps the invariant.
LEMMA SandboxKept ==
    ASSUME SandboxInv, [Next]_vars
    PROVE  SandboxInv'
<1>1. Core'
  BY StoresChange, WaitSteps, BeginSteps, GiveUpSteps, TokenSteps, RegisterSteps, ServerSteps, RestartStep,
     TokenStoreSteps, [Next]_vars DEF Next, Commit
<1>2. TokenInv'
  BY StepIsTokenMove, TokenKept, RestartStep DEF SandboxInv
<1>3. ManagerType'
  BY ManagerTyped
<1>. QED
  BY <1>1, <1>2, <1>3 DEF SandboxInv, Core

\* The inductive invariant of the sandbox manager: which request is inside the
\* registration and what it has put on disk so far, who holds the locks, and a
\* scan that lies between the snapshot and the directory.
THEOREM SandboxInvariant == Spec => []SandboxInv
<1>1. Init => SandboxInv
  BY SandboxStarts
<1>2. SandboxInv /\ [Next]_vars => SandboxInv'
  BY SandboxKept
<1>. QED
  BY <1>1, <1>2, PTL DEF Spec

\* Every variable of the manager and of its token store keeps its type
\* (SandboxManager, FileStore).
THEOREM TypeCorrect == Spec => [](TokenInv /\ TaskType /\ ManagerType)
<1>1. SandboxInv => TokenInv /\ TaskType /\ ManagerType
  BY DEF SandboxInv
<1>. QED
  BY <1>1, SandboxInvariant, PTL

\* An identity that register has acknowledged is the only one, and survives any
\* sequence of crashes of the process and of the node, but for one that was read
\* back before the directory was flushed.
THEOREM IdentityAlwaysKept == Spec => []IdentityKept
<1>1. SandboxInv => IdentityKept
  BY Constants DEF SandboxInv, IdentityKept, Agreed, ManagerType
<1>. QED
  BY <1>1, SandboxInvariant, PTL

\* The locks are held by tasks that will release them.
LEMMA InvHoldsLocks ==
    ASSUME SandboxInv
    PROVE  LocksHeld
<1>1. fetchLock # None => task[fetchLock].st \in {"look", "select"}
  BY DEF SandboxInv, ManagerType, FetchHeld, Fetching
<1>2. regLock # None => task[regLock].st \in {"write", "rename", "dirsync", "publish"}
  BY Constants DEF SandboxInv, ManagerType, Exclusive, Registering
<1>3. refresh \in Requests => At(refresh, "load")
  BY Constants DEF SandboxInv, RefreshHeld
<1>. QED
  BY <1>1, <1>2, <1>3 DEF LocksHeld, SandboxInv, RefreshHeld

\* No step leaves a lock behind, a task that waits for a sandbox or for the local
\* workload that is there has been told, however xDS, timeouts and drains interleave
\* with it, and no refresh of the token files publishes what is older than what is
\* there, even when requests are cancelled in its middle.
THEOREM AlwaysCoordinated == Spec => Coordinated
<1>1. SandboxInv /\ SandboxInv' /\ [Next]_vars =>
        [/\ LocksHeld' /\ NoLostWakeup'
         /\ crashes' = crashes => \A f \in Files : snapshot'[f].ver >= snapshot[f].ver]_vars
  <2> SUFFICES ASSUME SandboxInv, SandboxInv', [Next]_vars
               PROVE  /\ LocksHeld' /\ NoLostWakeup'
                      /\ crashes' = crashes => \A f \in Files : snapshot'[f].ver >= snapshot[f].ver
    OBVIOUS
  <2>1. LocksHeld' /\ NoLostWakeup'
    <3>1. LocksHeld'
      BY InvHoldsLocks, PTL
    <3>. QED
      BY <3>1 DEF SandboxInv
  <2>2. CASE TokenMove
    BY <2>1, <2>2, TokenKept DEF SandboxInv, Forward
  <2>3. CASE Restart
    <3>1. crashes' # crashes
      BY <2>3 DEF Restart, SandboxInv, ManagerType
    <3>. QED
      BY <2>1, <3>1
  <2>. QED
    BY <2>2, <2>3, StepIsTokenMove
<1>. QED
  BY <1>1, SandboxInvariant, PTL DEF Spec, Coordinated
=============================================================================
