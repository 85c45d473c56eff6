----------------------------- MODULE TokenStore ------------------------------
(***************************************************************************)
(* The directory of sandbox tokens (sandbox/token.rs) behind the file      *)
(* watcher (watcher/watcher.rs): a snapshot that is read without a lock,   *)
(* refreshes that are serialized by refresh_lock and scan the directory    *)
(* file by file, file events that only invalidate and may be missed.  The  *)
(* producer that writes the files is external.                             *)
(***************************************************************************)
EXTENDS Naturals, FiniteSets

CONSTANTS
    Files,          \* keys of token files: naturals, in key order
    Loaders,        \* tasks that may load through get_or_load
    MaxWrites,      \* bound: writes of the producer
    None

\* "invalid": does not parse, or cannot be read.
Kinds == {"absent", "empty", "token", "invalid"}

ASSUME TokenAssumption ==
    /\ Files \subseteq Nat /\ MaxWrites \in Nat
    /\ None \notin Loaders /\ "watcher" \notin Loaders

VARIABLES
    files,      \* the directory: kind and version (write) of each file
    event,      \* the channel of capacity one from the notify callback
    snapshot,   \* ArcSwap: what a scan read of each file
    refresh,    \* refresh_lock: its holder
    scan,       \* the files read so far by the holder's scan
    orphan,     \* a scan whose requester was cancelled while it ran
    watcher,    \* AsyncFileWatcher::run
    writes

tokenVars == <<files, event, snapshot, refresh, scan, orphan, watcher, writes>>

NoFile == [kind |-> "absent", ver |-> 0]
NoScan == [f \in {} |-> NoFile]

TokenInit ==
    /\ files \in [Files -> {NoFile, [kind |-> "token", ver |-> 0]}] /\ writes = 0
    /\ snapshot = [f \in Files |-> NoFile] /\ orphan = NoScan
    /\ event = FALSE /\ refresh = "watcher" /\ scan = NoScan
    /\ watcher = "scan"     \* start: the watch is installed, then the initial scan

\* first: the lowest key of the snapshot.
First ==
    LET there == {f \in Files : snapshot[f].kind # "absent"} IN
    IF there = {} THEN NoFile
    ELSE snapshot[CHOOSE f \in there : \A g \in there : f <= g]

\* The filter of get_or_load, require_ready: metadata that is not empty.
Usable == First.kind = "token"

-----------------------------------------------------------------------------
\* The producer; a notification may be missed.
Write(f, k) ==
    /\ writes < MaxWrites /\ (k # files[f].kind \/ k = "token")
    /\ files' = [files EXCEPT ![f] = [kind |-> k, ver |-> writes + 1]]
    /\ writes' = writes + 1
    /\ event' \in {TRUE, event}
    /\ UNCHANGED <<snapshot, refresh, scan, orphan, watcher>>

\* run: an event, or the tick of rescan (ticks that would find nothing new are
\* left out).
Notice ==
    /\ watcher = "idle" /\ (event \/ snapshot # files)
    /\ watcher' = "refresh"
    /\ UNCHANGED <<files, event, snapshot, refresh, scan, orphan, writes>>

Acquire(p) == refresh = None /\ refresh' = p /\ scan' = NoScan

\* The debounce is over: an event that came meanwhile is covered by the scan.
WatcherAcquires ==
    /\ watcher = "refresh" /\ Acquire("watcher") /\ watcher' = "scan" /\ event' = FALSE
    /\ UNCHANGED <<files, snapshot, orphan, writes>>

Unread(s) == Files \ DOMAIN s

\* scan: the next file in the sorted traversal.
Read(s) ==
    LET f == CHOOSE g \in Unread(s) : \A h \in Unread(s) : g <= h IN
    [g \in DOMAIN s \union {f} |-> IF g = f THEN files[f] ELSE s[g]]

Broken(s) == \E f \in DOMAIN s : s[f].kind = "invalid"

ScanNext ==
    /\ refresh # None /\ Unread(scan) # {} /\ ~Broken(scan)
    /\ scan' = Read(scan)
    /\ UNCHANGED <<files, event, snapshot, refresh, orphan, watcher, writes>>

Publish == snapshot' = scan

\* load: a complete scan is published under the lock; a failed one is dropped
\* and the previous snapshot kept.
LoadEnds(p) ==
    /\ refresh = p /\ refresh' = None /\ scan' = NoScan
    /\ \/ Unread(scan) = {} /\ ~Broken(scan) /\ Publish
       \/ Broken(scan) /\ UNCHANGED snapshot
    /\ UNCHANGED <<files, event, orphan, writes>>

WatcherLoaded == LoadEnds("watcher") /\ watcher' = "idle"

\* Drop for FileSandboxToken: the watcher's task is aborted.
TokenDropped ==
    /\ watcher' = "gone" /\ refresh' = None /\ scan' = NoScan
    /\ UNCHANGED <<files, event, snapshot, orphan, writes>>

\* The requester is dropped while the blocking scan runs on: the lock is free
\* at once and the result goes nowhere.
Abandon(p) ==
    /\ refresh = p /\ refresh' = None /\ scan' = NoScan
    /\ orphan' = IF Unread(scan) = {} /\ ~Broken(scan) THEN scan ELSE orphan
    /\ UNCHANGED <<files, event, snapshot, watcher, writes>>

\* A plausible slip: the scan publishes what it found.
OrphanPublishes ==
    /\ orphan # NoScan /\ orphan' = NoScan /\ snapshot' = orphan
    /\ UNCHANGED <<files, event, refresh, scan, watcher, writes>>

OrphanEnds ==
    /\ orphan # NoScan /\ orphan' = NoScan
    /\ UNCHANGED <<files, event, snapshot, refresh, scan, watcher, writes>>

Watcher == Notice \/ WatcherAcquires \/ WatcherLoaded
=============================================================================
