---------------------------- MODULE ServingProofs ----------------------------
(***************************************************************************)
(* Theorems about serving: the process from its start to the end of its    *)
(* drain (Lifecycle), the connections it serves and where they go          *)
(* (Requests), the bytes that they carry (DataPath), the certificates of   *)
(* both ends (Tls) and the probes of the workloads (Probes).               *)
(***************************************************************************)
EXTENDS Lifecycle, Requests, DataPath, Tls, Probes, FiniteSetTheorems, SequenceTheorems, NaturalsInduction,
        WellFoundedInduction, TLAPS

-----------------------------------------------------------------------------
(* The process                                                             *)

\* The process, with every step of its parts and its peers.
LifeSpec == LifeInit /\ [][LifeNext]_lifeVars

\* The types of the variables.
LifeType ==
    /\ lifeCfg \in LifeConfigs
    /\ life \in [stage : {"build", "failed", "run", "drain", "exited"}, step : 1..8, how : {"", "error", "killed", "drained"},
                 quit : {0, 1}, int : BOOLEAN]
    /\ synced \in BOOLEAN
    /\ comp \in [Components -> {"none", "bound", "sent", "serving", "draining", "closed"}]
    /\ lconn \in [LifeConns -> [of : Components \cup {""}, st : {"none", "request", "idle", "ended", "forced"}]]

\* build has not failed, and no signal has come.
Starting == life.stage \in {"build", "run"}

\* The state manager is told ready only after the first answer of xDS
\* (StateReady), and nothing is known before its client is built.
Told ==
    /\ life.stage = "build" /\ life.step <= 2 => ~synced
    /\ Starting /\ "state_manager" \notin pending => synced

\* The proxy task is done only once every task that is wanted was created
\* (build_with_cert).
Built ==
    /\ Starting /\ lifeCfg.proxy /\ "proxy" \notin pending => life.stage = "run" \/ life.step > 6
    /\ Starting /\ (life.stage = "run" \/ life.step > 6) => \A c \in Wanted : comp[c] # "none"
    /\ life.stage = "build" /\ life.step > 5 /\ lifeCfg.shared /\ lifeCfg.self => comp["self"] # "none"

\* No listener is there before its step of the build.
Unbuilt ==
    life.stage = "build" /\ (life.step <= 5 \/ (life.step <= 6 /\ ~lifeCfg.shared)) => \A c \in Listeners : comp[c] = "none"

\* A living connection belongs to a server that serves or drains: run_with_drain
\* does not return before its connections, or cuts them off.
Reachable ==
    \A n \in LifeConns : lconn[n].st \in {"request", "idle"} =>
        /\ lconn[n].of \in Http \cup Listeners
        /\ lconn[n].of \in Listeners /\ life.stage # "exited" => comp[lconn[n].of] \in {"serving", "draining"}

\* While our socket file is there, the admin server is there to remove it.
SocketHeld ==
    /\ sock = "mine" /\ life.stage # "exited" => comp["admin"] \in {"bound", "serving", "draining"}
    /\ life.how = "drained" => life.stage = "exited"

\* The inductive invariant.
LifeInv == LifeType /\ Told /\ Built /\ Unbuilt /\ Reachable /\ SocketHeld /\ DrainedClean

\* Which number a step of the build has, in either mode.
LEMMA StepNumbers ==
    ASSUME LifeType
    PROVE  /\ Len(BuildSteps) = 8 /\ lifeCfg.shared \in BOOLEAN /\ life.step \in Nat
           /\ At("readiness") => life.step = 1
           /\ At("state") => life.step = 2
           /\ At("admin") => life.step = 3
           /\ At("factory") => life.step = 4
           /\ At("self") => life.step = 5 /\ lifeCfg.shared
           /\ At("dns") => life.step = 5 /\ ~lifeCfg.shared
           /\ At("manager") => life.step = 6 /\ lifeCfg.shared
           /\ At("proxy") => life.step = 6 /\ ~lifeCfg.shared
           /\ At("serve_admin") => life.step = 7
           /\ At("stats") => life.step = 8
<1>1. life.step \in 1..8 /\ lifeCfg.shared \in BOOLEAN
  BY LifeAssumption DEF LifeType
<1>a. life.step \in {1, 2, 3, 4, 5, 6, 7, 8}
  BY <1>1
<1>2. CASE lifeCfg.shared
  <2> DEFINE b == <<"readiness", "state", "admin", "factory", "self", "manager", "serve_admin", "stats">>
  <2>1. /\ Len(b) = 8 /\ b[1] = "readiness" /\ b[2] = "state" /\ b[3] = "admin" /\ b[4] = "factory"
        /\ b[5] = "self" /\ b[6] = "manager" /\ b[7] = "serve_admin" /\ b[8] = "stats"
    OBVIOUS
  <2>2. BuildSteps = b
    BY <1>2 DEF BuildSteps
  <2> HIDE DEF b
  <2>. QED
    BY <1>1, <1>a, <1>2, <2>1, <2>2 DEF At, Step
<1>3. CASE ~lifeCfg.shared
  <2> DEFINE b == <<"readiness", "state", "admin", "factory", "dns", "proxy", "serve_admin", "stats">>
  <2>1. /\ Len(b) = 8 /\ b[1] = "readiness" /\ b[2] = "state" /\ b[3] = "admin" /\ b[4] = "factory"
        /\ b[5] = "dns" /\ b[6] = "proxy" /\ b[7] = "serve_admin" /\ b[8] = "stats"
    OBVIOUS
  <2>2. BuildSteps = b
    BY <1>3 DEF BuildSteps
  <2> HIDE DEF b
  <2>. QED
    BY <1>1, <1>a, <1>3, <2>1, <2>2 DEF At, Step
<1>. QED
  BY <1>1, <1>2, <1>3

\* The process starts with nothing built and every task pending.
LEMMA LifeInitial == LifeInit => LifeInv
<1>. SUFFICES ASSUME LifeInit PROVE LifeInv
  OBVIOUS
<1>1. LifeType
  <2>1. life \in [stage : {"build", "failed", "run", "drain", "exited"}, step : 1..8, how : {"", "error", "killed", "drained"},
                 quit : {0, 1}, int : BOOLEAN]
    <3>1. life = [stage |-> "build", step |-> 1, how |-> "", quit |-> 0, int |-> FALSE]
      BY DEF LifeInit
    <3>2. 1 \in 1..8
      OBVIOUS
    <3>. QED
      BY ONLY <3>1, <3>2, Zenon
  <2>. QED
    BY <2>1 DEF LifeInit, LifeType
<1>2. Told /\ Built
  <2>1. /\ life.stage = "build" /\ life.step = 1 /\ ~synced /\ "state_manager" \in pending
        /\ lifeCfg.proxy => "proxy" \in pending
    BY DEF LifeInit, RegisterTasks
  <2>. QED
    BY <2>1 DEF Told, Built, Starting
<1>3. Unbuilt /\ Reachable /\ SocketHeld /\ DrainedClean
  <2>1. sock # "mine"
    BY SocketAssumption DEF LifeInit
  <2>. QED
    BY <2>1 DEF LifeInit, Unbuilt, Listeners, Components, Reachable, SocketHeld, DrainedClean
<1>. QED
  BY <1>1, <1>2, <1>3 DEF LifeInv

\* The record of the stage of the process.
LifeRec == [stage : {"build", "failed", "run", "drain", "exited"}, step : 1..8, how : {"", "error", "killed", "drained"},
            quit : {0, 1}, int : BOOLEAN]

\* A step of build that succeeds moves on to the next, and the last to run.
LEMMA Advances ==
    ASSUME LifeType, Advance, life.stage = "build"
    PROVE  /\ life' \in LifeRec /\ life'.how = life.how /\ lifeCfg' = lifeCfg /\ lconn' = lconn
           /\ life.step = 8 => life'.stage = "run"
           /\ life.step # 8 => life'.stage = "build" /\ life'.step = life.step + 1
<1>0. life \in LifeRec
  BY DEF LifeType, LifeRec
<1>1. CASE life.step = 8
  <2>1. life' = [life EXCEPT !.stage = "run"]
    BY <1>1, StepNumbers DEF Advance
  <2>2. life' \in LifeRec /\ life'.how = life.how /\ life'.stage = "run"
    BY <1>0, <2>1 DEF LifeRec
  <2>. QED
    BY <1>1, <2>2 DEF Advance
<1>2. CASE life.step # 8
  <2>0. life.step \in 1..8
    BY <1>0 DEF LifeRec
  <2>1. PICK k \in 1..8 : k = life.step + 1
    BY <1>2, <2>0
  <2>2. life' = [life EXCEPT !.step = k]
    BY <1>2, <2>1, StepNumbers DEF Advance
  <2>3. life' \in LifeRec /\ life'.how = life.how /\ life'.stage = life.stage /\ life'.step = k
    BY <1>0, <2>2 DEF LifeRec
  <2>. QED
    BY <1>2, <2>1, <2>3 DEF Advance
<1>. QED
  BY <1>1, <1>2

\* Setting the state of some tasks leaves the others alone.
LEMMA SetTyped ==
    ASSUME LifeType, NEW cs, NEW st \in {"none", "bound", "sent", "serving", "draining", "closed"}, SetComp(cs, st)
    PROVE  /\ comp' \in [Components -> {"none", "bound", "sent", "serving", "draining", "closed"}]
           /\ \A c \in Components : comp'[c] = IF c \in cs THEN st ELSE comp[c]
BY DEF LifeType, SetComp

\* What a step of build leaves true, when no listener that is there changes.
LEMMA BuildKeeps ==
    ASSUME LifeInv, Advance, life.stage = "build",
           comp' \in [Components -> {"none", "bound", "sent", "serving", "draining", "closed"}],
           synced' \in BOOLEAN,
           \A c \in Listeners : comp[c] = "none" \/ comp[c] = comp'[c],
           sock' = "mine" => comp'["admin"] \in {"bound", "serving", "draining"}
    PROVE  LifeType' /\ Reachable' /\ SocketHeld' /\ DrainedClean'
<1>1. life' \in LifeRec /\ life'.how = life.how /\ lifeCfg' = lifeCfg /\ lconn' = lconn /\ life'.stage # "exited"
  BY Advances DEF LifeInv, LifeType
<1>2. LifeType'
  BY <1>1 DEF LifeType, LifeInv, LifeRec
<1>6. Reachable'
  BY <1>1 DEF Reachable, LifeInv
<1>7. SocketHeld' /\ DrainedClean'
  BY <1>1 DEF SocketHeld, DrainedClean, LifeInv
<1>. QED
  BY <1>2, <1>6, <1>7

\* The steps other than those that create a proxy.
LEMMA BuildSteady ==
    ASSUME LifeInv, Advance, life.stage = "build", life.step \notin {2, 5, 6, 8}, UNCHANGED <<pending, synced>>,
           comp' \in [Components -> {"none", "bound", "sent", "serving", "draining", "closed"}],
           \A c \in Components : comp[c] # "none" => comp'[c] # "none",
           \A c \in Listeners : comp[c] = comp'[c],
           sock' = "mine" => comp'["admin"] \in {"bound", "serving", "draining"}
    PROVE  LifeInv'
<1>1. /\ lifeCfg' = lifeCfg /\ life'.stage = "build" /\ life'.step = life.step + 1 /\ life.step \in 1..8
  BY Advances DEF LifeInv, LifeType
<1>2. LifeType' /\ Reachable' /\ SocketHeld' /\ DrainedClean'
  <2>1. synced' \in BOOLEAN
    BY DEF LifeInv, LifeType
  <2>. QED
    BY <2>1, BuildKeeps
<1>3. Told'
  BY <1>1 DEF Told, LifeInv, Starting
<1>4. Wanted' = Wanted /\ Wanted \subseteq Components
  BY <1>1 DEF Wanted, Components, Listeners
<1>5. Built'
  <2>1. "self" \in Components
    BY DEF Components, Listeners
  <2>. QED
    BY <1>1, <1>4, <2>1 DEF Built, LifeInv, Starting
<1>. QED
  BY <1>1, <1>2, <1>3, <1>5 DEF LifeInv, Unbuilt

\* Every step of build keeps LifeInv.
LEMMA BuildPreserves ==
    ASSUME LifeInv, BuildStep
    PROVE  LifeInv'
<1>0. /\ Advance /\ life.stage = "build" /\ LifeType
  BY DEF LifeInv, BuildStep, BuildReadiness, BuildState, BuildAdmin, BuildFactory, BuildSelf, BuildManager, BuildDns,
         BuildProxy, ServeAdmin, BuildStats, At
<1>1. /\ lifeCfg' = lifeCfg /\ lconn' = lconn /\ life.step \in 1..8
      /\ life.step = 8 => life'.stage = "run"
      /\ life.step # 8 => life'.stage = "build" /\ life'.step = life.step + 1
  BY <1>0, Advances DEF LifeType
<1>w. Wanted' = Wanted /\ Wanted \subseteq Components
  BY <1>1 DEF Wanted, Components, Listeners
<1>2. CASE BuildReadiness
  <2>1. /\ comp' \in [Components -> {"none", "bound", "sent", "serving", "draining", "closed"}]
        /\ \A c \in Components : comp'[c] = IF c \in {"readiness"} THEN "sent" ELSE comp[c]
    BY <1>0, <1>2, SetTyped DEF BuildReadiness
  <2>2. life.step = 1 /\ UNCHANGED <<pending, synced, sock>>
    BY <1>0, <1>2, StepNumbers DEF BuildReadiness
  <2>. QED
    BY <1>0, <2>1, <2>2, BuildSteady DEF Components, Http, Listeners, LifeInv, SocketHeld
<1>3. CASE BuildAdmin
  <2>1. /\ comp' \in [Components -> {"none", "bound", "sent", "serving", "draining", "closed"}]
        /\ \A c \in Components : comp'[c] = IF c \in {"admin"} THEN "bound" ELSE comp[c]
    BY <1>0, <1>3, SetTyped DEF BuildAdmin
  <2>2. life.step = 3 /\ UNCHANGED <<pending, synced>>
    BY <1>0, <1>3, StepNumbers DEF BuildAdmin
  <2>. QED
    BY <1>0, <2>1, <2>2, BuildSteady DEF Components, Http, Listeners
<1>4. CASE BuildFactory
  <2>1. comp' \in [Components -> {"none", "bound", "sent", "serving", "draining", "closed"}] /\ comp' = comp /\ sock' = sock
    BY <1>0, <1>4 DEF BuildFactory, LifeType
  <2>2. life.step = 4 /\ UNCHANGED <<pending, synced>>
    BY <1>0, <1>4, StepNumbers DEF BuildFactory
  <2>. QED
    BY <1>0, <2>1, <2>2, BuildSteady DEF LifeInv, SocketHeld
<1>5. CASE ServeAdmin
  <2>1. /\ comp' \in [Components -> {"none", "bound", "sent", "serving", "draining", "closed"}]
        /\ \A c \in Components : comp'[c] = IF c \in {"admin"} THEN "serving" ELSE comp[c]
    BY <1>0, <1>5, SetTyped DEF ServeAdmin
  <2>2. life.step = 7 /\ UNCHANGED <<pending, synced>>
    BY <1>0, <1>5, StepNumbers DEF ServeAdmin
  <2>. QED
    BY <1>0, <2>1, <2>2, BuildSteady DEF Components, Http, Listeners
<1>6. CASE BuildState
  <2>1. comp' \in [Components -> {"none", "bound", "sent", "serving", "draining", "closed"}] /\ comp' = comp /\ sock' = sock
    BY <1>0, <1>6 DEF BuildState, LifeType
  <2>2. life.step = 2 /\ pending' = pending
    BY <1>0, <1>6, StepNumbers DEF BuildState
  <2>3. synced' = ~lifeCfg.xds /\ synced' \in BOOLEAN
    BY <1>6 DEF BuildState
  <2>4. LifeType' /\ Reachable' /\ SocketHeld' /\ DrainedClean'
    BY <1>0, <2>1, <2>2, <2>3, BuildKeeps DEF LifeInv, SocketHeld
  <2>5. Told' /\ Built' /\ Unbuilt'
    BY <1>0, <1>1, <2>1, <2>2 DEF Told, Built, Unbuilt, LifeInv, Starting
  <2>. QED
    BY <2>4, <2>5 DEF LifeInv
<1>7. CASE BuildSelf
  <2>1. /\ comp' \in [Components -> {"none", "bound", "sent", "serving", "draining", "closed"}]
        /\ \A c \in Components : comp'[c] = IF c \in Wanted \cap {"self"} THEN "sent" ELSE comp[c]
    BY <1>0, <1>7, SetTyped DEF BuildSelf
  <2>2. life.step = 5 /\ lifeCfg.shared /\ UNCHANGED <<pending, synced, sock>>
    BY <1>0, <1>7, StepNumbers DEF BuildSelf
  <2>3. \A c \in Listeners : comp[c] = "none"
    BY <1>0, <2>2 DEF LifeInv, Unbuilt
  <2>4. LifeType' /\ Reachable' /\ SocketHeld' /\ DrainedClean'
    BY <1>0, <2>1, <2>2, <2>3, BuildKeeps DEF LifeInv, SocketHeld, LifeType, Components, Http
  <2>5. lifeCfg.self => comp'["self"] = "sent"
    BY <2>1, <2>2 DEF Wanted, Components, Listeners
  <2>6. Told' /\ Built' /\ Unbuilt'
    BY <1>0, <1>1, <1>w, <2>2, <2>5 DEF Told, Built, Unbuilt, LifeInv, Starting
  <2>. QED
    BY <2>4, <2>6 DEF LifeInv
<1>8. CASE BuildDns
  <2>1. /\ comp' \in [Components -> {"none", "bound", "sent", "serving", "draining", "closed"}]
        /\ \A c \in Components : comp'[c] = IF c \in Wanted \cap {"dns"} THEN "bound" ELSE comp[c]
    BY <1>0, <1>8, SetTyped DEF BuildDns
  <2>2. life.step = 5 /\ ~lifeCfg.shared /\ UNCHANGED <<pending, synced, sock>>
    BY <1>0, <1>8, StepNumbers DEF BuildDns
  <2>3. \A c \in Listeners : comp'[c] = comp[c]
    BY <2>1 DEF Components, Listeners
  <2>4. LifeType' /\ Reachable' /\ SocketHeld' /\ DrainedClean'
    BY <1>0, <2>1, <2>2, <2>3, BuildKeeps DEF LifeInv, SocketHeld, LifeType, Components, Http
  <2>6. Told' /\ Built' /\ Unbuilt'
    BY <1>0, <1>1, <1>w, <2>2, <2>3 DEF Told, Built, Unbuilt, LifeInv, Starting
  <2>. QED
    BY <2>4, <2>6 DEF LifeInv
<1>9. CASE BuildManager
  <2>1. /\ comp' \in [Components -> {"none", "bound", "sent", "serving", "draining", "closed"}]
        /\ \A c \in Components : comp'[c] = IF c \in {"manager"} THEN "sent" ELSE comp[c]
    BY <1>0, <1>9, SetTyped DEF BuildManager
  <2>2. life.step = 6 /\ lifeCfg.shared /\ UNCHANGED <<synced, sock>> /\ pending \subseteq pending'
    BY <1>0, <1>9, StepNumbers DEF BuildManager
  <2>3. \A c \in Listeners : comp'[c] = comp[c]
    BY <2>1 DEF Components, Listeners
  <2>4. LifeType' /\ Reachable' /\ SocketHeld' /\ DrainedClean'
    BY <1>0, <2>1, <2>2, <2>3, BuildKeeps DEF LifeInv, SocketHeld, LifeType, Components, Http
  <2>5. \A c \in Wanted : comp'[c] # "none"
    <3>1. lifeCfg.self => comp["self"] # "none"
      BY <1>0, <2>2 DEF LifeInv, Built
    <3>2. lifeCfg.self => comp'["self"] # "none"
      BY <2>3, <3>1 DEF Listeners
    <3>3. comp'["manager"] = "sent"
      BY <2>1 DEF Components
    <3>. QED
      BY <2>2, <3>2, <3>3 DEF Wanted
  <2>6. life'.step = 7 /\ life'.stage = "build" /\ ("state_manager" \in pending => "state_manager" \in pending')
    BY <1>0, <1>1, <2>2
  <2>a. Told'
    BY <1>0, <2>2, <2>6 DEF Told, LifeInv, Starting
  <2>b. Built'
    <3>1. lifeCfg.shared /\ lifeCfg.self => "self" \in Wanted
      BY DEF Wanted
    <3>. QED
      BY <1>1, <1>w, <2>5, <2>6, <3>1 DEF Built, Starting
  <2>c. Unbuilt'
    BY <2>6 DEF Unbuilt
  <2>7. Told' /\ Built' /\ Unbuilt'
    BY <2>a, <2>b, <2>c
  <2>. QED
    BY <2>4, <2>7 DEF LifeInv
<1>10. CASE BuildProxy
  <2>1. /\ comp' \in [Components -> {"none", "bound", "sent", "serving", "draining", "closed"}]
        /\ \A c \in Components : comp'[c] = IF c \in Wanted THEN "sent" ELSE comp[c]
    BY <1>0, <1>10, SetTyped DEF BuildProxy
  <2>2. life.step = 6 /\ ~lifeCfg.shared /\ UNCHANGED <<synced, sock>> /\ ("state_manager" \in pending => "state_manager" \in pending')
    BY <1>0, <1>10, StepNumbers DEF BuildProxy
  <2>3. \A c \in Listeners : comp[c] = "none"
    BY <1>0, <2>2 DEF LifeInv, Unbuilt
  <2>4. LifeType' /\ Reachable' /\ SocketHeld' /\ DrainedClean'
    <3>1. comp'["admin"] = comp["admin"]
      BY <2>1, <2>2 DEF Wanted, Components, Http
    <3>. QED
      BY <1>0, <2>1, <2>2, <2>3, <3>1, BuildKeeps DEF LifeInv, SocketHeld, LifeType
  <2>5. \A c \in Wanted : comp'[c] # "none"
    BY <1>w, <2>1
  <2>6. Told' /\ Built' /\ Unbuilt'
    BY <1>0, <1>1, <1>w, <2>2, <2>5 DEF Told, Built, Unbuilt, LifeInv, Starting
  <2>. QED
    BY <2>4, <2>6 DEF LifeInv
<1>11. CASE BuildStats
  <2>1. /\ comp' \in [Components -> {"none", "bound", "sent", "serving", "draining", "closed"}]
        /\ \A c \in Components : comp'[c] = IF c \in {"stats"} THEN "serving" ELSE comp[c]
    BY <1>0, <1>11, SetTyped DEF BuildStats
  <2>2. life.step = 8 /\ UNCHANGED <<synced, sock>> /\ ("state_manager" \in pending => "state_manager" \in pending')
    BY <1>0, <1>11, StepNumbers DEF BuildStats
  <2>3. \A c \in Listeners : comp'[c] = comp[c]
    BY <2>1 DEF Components, Listeners
  <2>4. LifeType' /\ Reachable' /\ SocketHeld' /\ DrainedClean'
    BY <1>0, <2>1, <2>2, <2>3, BuildKeeps DEF LifeInv, SocketHeld, LifeType, Components, Http
  <2>5. \A c \in Wanted : comp'[c] # "none"
    BY <1>0, <1>w, <2>1, <2>2 DEF LifeInv, Built, Starting
  <2>6. Told' /\ Built' /\ Unbuilt'
    BY <1>0, <1>1, <1>w, <2>2, <2>5 DEF Told, Built, Unbuilt, LifeInv, Starting
  <2>. QED
    BY <2>4, <2>6 DEF LifeInv
<1>. QED
  BY <1>2, <1>3, <1>4, <1>5, <1>6, <1>7, <1>8, <1>9, <1>10, <1>11 DEF BuildStep

\* A task moves on, without one that was never built, or a listener with
\* connections, coming to an end.
LEMMA TasksMove ==
    ASSUME LifeInv, life.stage # "exited", UNCHANGED <<lifeCfg, life, pending, synced, lconn>>,
           comp' \in [Components -> {"none", "bound", "sent", "serving", "draining", "closed"}],
           \A c \in Components : comp[c] = "none" <=> comp'[c] = "none",
           \A c \in Listeners : comp[c] \in {"serving", "draining"} =>
               comp'[c] \in {"serving", "draining"} \/ Alives(c) = {},
           sock' = "mine" => comp'["admin"] \in {"bound", "serving", "draining"}
    PROVE  LifeInv'
<1>1. LifeType'
  BY DEF LifeType, LifeInv
<1>2. Wanted' = Wanted /\ Wanted \subseteq Components /\ Listeners \subseteq Components /\ "self" \in Components
  BY DEF Wanted, Components, Listeners
<1>3. Told' /\ Unbuilt'
  BY <1>2 DEF Told, Unbuilt, LifeInv, Starting
<1>4. Built'
  BY <1>2 DEF Built, LifeInv, Starting
<1>5. Reachable'
  BY DEF Reachable, LifeInv, Alives
<1>6. SocketHeld' /\ DrainedClean'
  BY DEF SocketHeld, DrainedClean, LifeInv
<1>. QED
  BY <1>1, <1>3, <1>4, <1>5, <1>6 DEF LifeInv

\* The process drains, or ends otherwise than by a drain.
LEMMA StageMoves ==
    ASSUME LifeInv, UNCHANGED <<lifeCfg, synced, comp, lconn>>, life' \in LifeRec,
           life'.stage \in {"failed", "drain", "exited"}, life.stage # "exited", life'.how # "drained",
           sock' = sock \/ sock' # "mine"
    PROVE  LifeInv'
<1>1. LifeType'
  BY DEF LifeType, LifeInv, LifeRec
<1>2. Told' /\ Unbuilt' /\ Built'
  BY DEF Told, Unbuilt, Built, Starting
<1>3. Reachable'
  BY DEF Reachable, LifeInv
<1>4. SocketHeld' /\ DrainedClean'
  BY DEF SocketHeld, DrainedClean, LifeInv
<1>. QED
  BY <1>1, <1>2, <1>3, <1>4 DEF LifeInv

\* The record of a connection.
ConnRec == [of : Components \cup {""}, st : {"none", "request", "idle", "ended", "forced"}]

\* Connection n is now with the server of, in state st; the others are as before.
ConnMoved(n, of, st) ==
    /\ lconn' \in [LifeConns -> ConnRec]
    /\ lconn'[n].of = of /\ lconn'[n].st = st
    /\ \A m \in LifeConns \ {n} : lconn'[m] = lconn[m]

\* A connection begins at a task that serves, or one that lives changes or ends.
LEMMA ConnectionMoves ==
    ASSUME LifeInv, NEW n \in LifeConns, NEW of, NEW st, ConnMoved(n, of, st),
           UNCHANGED <<lifeCfg, life, pending, synced, comp, sock>>, life.stage # "exited",
           \/ of \in Http \cup Listeners /\ comp[of] = "serving"
           \/ of = lconn[n].of /\ (lconn[n].st \in {"request", "idle"} \/ of \in Http)
    PROVE  LifeInv'
<1>1. LifeType'
  BY DEF LifeType, LifeInv, ConnMoved, ConnRec
<1>2. Told' /\ Unbuilt' /\ Built'
  <2>1. Wanted' = Wanted
    BY DEF Wanted
  <2>. QED
    BY <2>1 DEF Told, Unbuilt, Built, Starting, LifeInv
<1>3. Reachable'
  <2>1. Http \cap Listeners = {}
    BY DEF Http, Listeners
  <2>. QED
    BY <2>1 DEF Reachable, LifeInv, LifeType, ConnMoved
<1>4. SocketHeld' /\ DrainedClean'
  BY DEF SocketHeld, DrainedClean, LifeInv
<1>. QED
  BY <1>1, <1>2, <1>3, <1>4 DEF LifeInv

\* A connection that changes its state stays with its server.
LEMMA StateMoves ==
    ASSUME LifeType, NEW n \in LifeConns, NEW st \in {"none", "request", "idle", "ended", "forced"}, lconn' = [lconn EXCEPT ![n].st = st]
    PROVE  ConnMoved(n, lconn[n].of, st)
BY DEF LifeType, ConnRec, ConnMoved

\* An HTTP server answers a request, or ends a connection without one.
LEMMA HttpPreserves ==
    ASSUME LifeInv, NEW n \in LifeConns, HttpAnswered(n) \/ HttpDrains(n)
    PROVE  LifeInv'
<1>0. LifeType /\ Components = Components'
  BY DEF LifeInv
<1>1. PICK st \in {"idle", "ended"} : lconn' = [lconn EXCEPT ![n].st = st]
  BY DEF HttpAnswered, HttpDrains
<1>2. ConnMoved(n, lconn[n].of, st)
  BY <1>0, <1>1, StateMoves
<1>3. /\ lconn[n].of \in Http /\ life.stage # "exited" /\ UNCHANGED <<lifeCfg, life, pending, synced, comp, sock>>
      /\ lconn[n].of \in Components
  BY DEF HttpAnswered, HttpDrains, GracefulShutdown, Components
<1>. QED
  BY <1>2, <1>3, ConnectionMoves

\* Every step of a drain keeps LifeInv: of the listeners, the HTTP servers, the
\* socket file and the end of the process.
LEMMA DrainPreserves ==
    ASSUME LifeInv, DrainSteps
    PROVE  LifeInv'
<1>0. LifeType /\ Components = Components'
  BY DEF LifeInv
<1>1. ASSUME NEW c \in Components, StartTask(c) \/ StopAccepting(c) \/ RunWithDrain(c) \/ SubDrained(c) \/ TaskDrains(c)
      PROVE  LifeInv'
  <2>1. PICK st \in {"serving", "draining", "closed"} : SetComp({c}, st) /\ (st = "closed" => c \notin Listeners \/ Alives(c) = {})
    BY <1>1 DEF StartTask, StopAccepting, RunWithDrain, SubDrained, TaskDrains, SubDrain, Http, Listeners
  <2>2. comp[c] # "none" /\ life.stage # "exited" /\ UNCHANGED <<lifeCfg, life, pending, synced, lconn, sock>>
    BY <1>1 DEF StartTask, StopAccepting, RunWithDrain, SubDrained, TaskDrains
  <2>3. /\ comp' \in [Components -> {"none", "bound", "sent", "serving", "draining", "closed"}]
        /\ \A d \in Components : comp'[d] = IF d \in {c} THEN st ELSE comp[d]
    BY <1>0, <2>1, SetTyped
  <2>4. \A d \in Listeners : comp[d] \in {"serving", "draining"} =>
               comp'[d] \in {"serving", "draining"} \/ Alives(d) = {}
    BY <2>1, <2>3 DEF Components, Listeners
  <2>5. sock' = "mine" => comp'["admin"] \in {"bound", "serving", "draining"}
    <3>1. c = "admin" => st = "serving"
      BY <1>1, <2>1 DEF StartTask, StopAccepting, RunWithDrain, SubDrained, TaskDrains, SetComp, Http, Listeners
    <3>. QED
      BY <2>2, <2>3, <3>1 DEF Components, Http, LifeInv, SocketHeld
  <2>. QED
    BY <2>1, <2>2, <2>3, <2>4, <2>5, TasksMove
<1>2. ASSUME NEW c \in Components, ForceShutdown(c)
      PROVE  LifeInv'
  <2>1. /\ life.stage = "drain" /\ c \in Listeners /\ SetComp({c}, "closed")
        /\ lconn' = [n \in LifeConns |-> IF n \in Alives(c) THEN [lconn[n] EXCEPT !.st = "forced"] ELSE lconn[n]]
        /\ UNCHANGED <<lifeCfg, life, pending, synced, sock>>
    BY <1>2 DEF ForceShutdown
  <2>2. /\ comp' \in [Components -> {"none", "bound", "sent", "serving", "draining", "closed"}]
        /\ \A d \in Components : comp'[d] = IF d \in {c} THEN "closed" ELSE comp[d]
    BY <1>0, <2>1, SetTyped
  <2>3. \A n \in LifeConns : lconn'[n].of = lconn[n].of /\ lconn'[n].st = IF n \in Alives(c) THEN "forced" ELSE lconn[n].st
    BY <1>0, <2>1 DEF LifeType
  <2>4. LifeType'
    <3>1. lconn' \in [LifeConns -> [of : Components \cup {""}, st : {"none", "request", "idle", "ended", "forced"}]]
      BY <1>0, <2>1 DEF LifeType
    <3>. QED
      BY <1>0, <2>1, <2>2, <3>1 DEF LifeType
  <2>5. Told' /\ Unbuilt' /\ Built' /\ DrainedClean'
    BY <2>1 DEF Told, Unbuilt, Built, Starting, DrainedClean, LifeInv, SocketHeld
  <2>6. Reachable'
    BY <2>1, <2>2, <2>3 DEF Reachable, LifeInv, Alives, Components, Listeners, Http
  <2>7. SocketHeld'
    BY <2>1, <2>2 DEF SocketHeld, LifeInv, Components, Listeners, Http
  <2>. QED
    BY <2>4, <2>5, <2>6, <2>7 DEF LifeInv
<1>3. ASSUME NEW n \in LifeConns, HttpDrains(n)
      PROVE  LifeInv'
  BY <1>3, HttpPreserves
<1>4. CASE AdminStops
  <2>1. /\ comp' \in [Components -> {"none", "bound", "sent", "serving", "draining", "closed"}]
        /\ \A d \in Components : comp'[d] = IF d \in {"admin"} THEN "draining" ELSE comp[d]
    BY <1>0, <1>4, SetTyped DEF AdminStops
  <2>. QED
    BY <1>4, <2>1, TasksMove DEF AdminStops, Components, Http, Listeners
<1>5. CASE SocketCleanup
  <2>1. /\ comp' \in [Components -> {"none", "bound", "sent", "serving", "draining", "closed"}]
        /\ \A d \in Components : comp'[d] = IF d \in {"admin"} THEN "closed" ELSE comp[d]
    BY <1>0, <1>5, SetTyped DEF SocketCleanup
  <2>2. sock' # "mine"
    BY <1>5 DEF SocketCleanup, Dropped
  <2>. QED
    BY <1>5, <2>1, <2>2, TasksMove DEF SocketCleanup, Components, Http, Listeners
<1>6. CASE DrainDone
  <2>1. /\ life.stage = "drain" /\ \A c \in Components : ~Watching(c)
        /\ life' = [life EXCEPT !.stage = "exited", !.how = "drained"]
        /\ UNCHANGED <<lifeCfg, pending, synced, comp, lconn, sock>>
    BY <1>6 DEF DrainDone
  <2>2. life' \in LifeRec /\ life'.stage = "exited"
    BY <1>0, <2>1 DEF LifeType, LifeRec
  <2>3. LifeType'
    BY <1>0, <2>1, <2>2 DEF LifeType, LifeRec
  <2>4. Told' /\ Unbuilt' /\ Built' /\ SocketHeld' /\ Reachable'
    BY <2>1, <2>2 DEF Told, Unbuilt, Built, Starting, SocketHeld, Reachable, LifeInv
  <2>5. sock # "mine"
    BY <2>1 DEF Watching, LifeInv, SocketHeld, Components, Http
  <2>6. ASSUME NEW n \in LifeConns, lconn[n].st \in {"request", "idle"}
        PROVE  FALSE
    <3>1. /\ lconn[n].of \in Http \cup Listeners
          /\ lconn[n].of \in Listeners => comp[lconn[n].of] \in {"serving", "draining"}
      BY <2>1, <2>6 DEF LifeInv, Reachable
    <3>2. n \in Alives(lconn[n].of)
      BY <2>6 DEF Alives
    <3>. QED
      BY <2>1, <3>1, <3>2 DEF Watching, Components
  <2>7. DrainedClean'
    BY <1>0, <2>1, <2>5, <2>6 DEF DrainedClean, LifeType
  <2>. QED
    BY <2>3, <2>4, <2>7 DEF LifeInv
<1>. QED
  BY <1>1, <1>2, <1>3, <1>4, <1>5, <1>6 DEF DrainSteps

\* Every step preserves the invariant.
LEMMA LifePreserved == LifeInv /\ [LifeNext]_lifeVars => LifeInv'
<1>. SUFFICES ASSUME LifeInv, [LifeNext]_lifeVars PROVE LifeInv'
  OBVIOUS
<1>0. LifeType /\ life \in LifeRec
  BY DEF LifeInv, LifeType, LifeRec
<1>1. CASE BuildStep
  BY <1>1, BuildPreserves
<1>2. CASE DrainSteps
  BY <1>2, DrainPreserves
<1>3. CASE BuildFails
  <2>1. life' = [life EXCEPT !.stage = "failed"] /\ life.stage = "build"
    BY <1>3 DEF BuildFails
  <2>2. life' \in LifeRec /\ life'.stage = "failed" /\ life'.how = life.how
    BY <1>0, <2>1 DEF LifeRec
  <2>3. life'.how # "drained"
    BY <2>1, <2>2 DEF LifeInv, SocketHeld
  <2>. QED
    BY <1>3, <2>1, <2>2, <2>3, StageMoves DEF BuildFails
<1>3a. CASE MainFails
  <2>1. life' = [life EXCEPT !.stage = "exited", !.how = "error"] /\ life.stage # "exited"
    BY <1>3a DEF MainFails
  <2>2. life' \in LifeRec /\ life'.stage = "exited" /\ life'.how = "error"
    BY <1>0, <2>1 DEF LifeRec
  <2>3. sock' = sock \/ sock' # "mine"
    BY <1>3a DEF MainFails, Dropped
  <2>. QED
    BY <1>3a, <2>1, <2>2, <2>3, StageMoves DEF MainFails
<1>4. CASE ManagerFails
  <2>1. life' = [life EXCEPT !.stage = "exited", !.how = "error"] /\ life.stage # "exited"
    BY <1>4 DEF ManagerFails
  <2>2. life' \in LifeRec /\ life'.stage = "exited" /\ life'.how = "error"
    BY <1>0, <2>1 DEF LifeRec
  <2>. QED
    BY <1>4, <2>1, <2>2, StageMoves DEF ManagerFails
<1>5. ASSUME NEW kind \in {"SIGINT", "SIGTERM"}, Signal(kind)
      PROVE  LifeInv'
  <2>1. life.stage # "exited" /\ UNCHANGED <<lifeCfg, pending, synced, comp, lconn, sock>>
    BY <1>5 DEF Signal
  <2>2. CASE life.stage = "run"
    <3>1. life' = [life EXCEPT !.stage = "drain", !.int = kind = "SIGINT"]
      BY <1>5, <2>2 DEF Signal
    <3>2. PICK b \in BOOLEAN : b = (kind = "SIGINT")
      OBVIOUS
    <3>3. life' \in LifeRec /\ life'.stage = "drain" /\ life'.how = life.how
      BY <1>0, <3>1, <3>2 DEF LifeRec
    <3>4. life'.how # "drained"
      BY <2>2, <3>3 DEF LifeInv, SocketHeld
    <3>. QED
      BY <2>1, <3>3, <3>4, StageMoves
  <2>3. CASE life.stage # "run"
    <3>1. life' = [life EXCEPT !.stage = "exited", !.how = "killed"]
      BY <1>5, <2>3 DEF Signal
    <3>2. life' \in LifeRec /\ life'.stage = "exited" /\ life'.how = "killed"
      BY <1>0, <3>1 DEF LifeRec
    <3>. QED
      BY <2>1, <3>2, StageMoves
  <2>. QED
    BY <2>2, <2>3
<1>6. CASE WaitTermination
  <2>1. life' = [life EXCEPT !.stage = "drain"] /\ life.stage = "run"
    BY <1>6 DEF WaitTermination
  <2>2. life' \in LifeRec /\ life'.stage = "drain" /\ life'.how = life.how
    BY <1>0, <2>1 DEF LifeRec
  <2>3. life'.how # "drained"
    BY <2>1, <2>2 DEF LifeInv, SocketHeld
  <2>. QED
    BY <1>6, <2>1, <2>2, <2>3, StageMoves DEF WaitTermination
<1>7. ASSUME NEW n \in LifeConns, Quit(n)
      PROVE  LifeInv'
  <2>1. life' = [life EXCEPT !.quit = 1] /\ UNCHANGED <<lifeCfg, pending, synced, comp, lconn, sock>>
    BY <1>7 DEF Quit
  <2>2. life' \in LifeRec /\ life'.stage = life.stage /\ life'.step = life.step /\ life'.how = life.how
    BY <1>0, <2>1 DEF LifeRec
  <2>3. LifeType'
    BY <1>0, <2>1, <2>2 DEF LifeType, LifeRec
  <2>4. Wanted' = Wanted
    BY <2>1 DEF Wanted
  <2>5. Told' /\ Unbuilt' /\ Built'
    BY <2>1, <2>2, <2>4 DEF Told, Unbuilt, Built, Starting, LifeInv
  <2>6. Reachable' /\ SocketHeld' /\ DrainedClean'
    BY <2>1, <2>2 DEF Reachable, SocketHeld, DrainedClean, LifeInv
  <2>. QED
    BY <2>3, <2>5, <2>6 DEF LifeInv
<1>8. CASE XdsSynced
  <2>1. UNCHANGED <<lifeCfg, life, pending, comp, lconn, sock>> /\ synced' = TRUE /\ (life.stage = "build" => life.step > 2)
    BY <1>8 DEF XdsSynced
  <2>2. LifeType' /\ Wanted' = Wanted
    BY <1>0, <2>1 DEF LifeType, Wanted
  <2>3. Told'
    <3>1. life.step \in Nat /\ (life.stage = "build" => ~(life.step <= 2))
      BY <1>0, <2>1, StepNumbers
    <3>. QED
      BY <2>1, <3>1 DEF Told
  <2>4. Unbuilt' /\ Built' /\ Reachable' /\ SocketHeld' /\ DrainedClean'
    BY <2>1, <2>2 DEF Unbuilt, Built, Starting, Reachable, SocketHeld, DrainedClean, LifeInv
  <2>. QED
    BY <2>2, <2>3, <2>4 DEF LifeInv
<1>9. CASE StateReady \/ \E ok \in BOOLEAN : ManagerReady(ok)
  <2>1. UNCHANGED <<lifeCfg, life, synced, comp, lconn, sock>>
    BY <1>9 DEF StateReady, ManagerReady
  <2>2. ("proxy" \in pending => "proxy" \in pending') /\ ("state_manager" \in pending => "state_manager" \in pending' \/ synced)
    BY <1>9 DEF StateReady, ManagerReady
  <2>3. LifeType' /\ Wanted' = Wanted
    BY <1>0, <2>1 DEF LifeType, Wanted
  <2>4. Told' /\ Unbuilt' /\ Built' /\ Reachable' /\ SocketHeld' /\ DrainedClean'
    BY <2>1, <2>2, <2>3 DEF Told, Unbuilt, Built, Starting, Reachable, SocketHeld, DrainedClean, LifeInv
  <2>. QED
    BY <2>3, <2>4 DEF LifeInv
<1>10. ASSUME NEW n \in LifeConns, NEW c \in Components, LifeAccept(n, c)
       PROVE  LifeInv'
  <2>1. ConnMoved(n, c, "request")
    BY <1>0, <1>10 DEF LifeAccept, ConnMoved, ConnRec, LifeType
  <2>. QED
    BY <1>10, <2>1, ConnectionMoves DEF LifeAccept
<1>11. ASSUME NEW n \in LifeConns, PeerActs(n)
       PROVE  LifeInv'
  <2>1. PICK st \in {"request", "ended"} : lconn' = [lconn EXCEPT ![n].st = st]
    BY <1>11 DEF PeerActs
  <2>2. ConnMoved(n, lconn[n].of, st)
    BY <1>0, <2>1, StateMoves
  <2>3. /\ lconn[n].st \in {"request", "idle"} /\ life.stage # "exited"
        /\ UNCHANGED <<lifeCfg, life, pending, synced, comp, sock>>
    BY <1>11 DEF PeerActs
  <2>. QED
    BY <2>2, <2>3, ConnectionMoves
<1>11a. ASSUME NEW n \in LifeConns, HttpAnswered(n)
        PROVE  LifeInv'
  BY <1>11a, HttpPreserves
<1>12. CASE OtherBinds
  <2>1. UNCHANGED <<lifeCfg, life, pending, synced, comp, lconn>> /\ sock' = "other"
    BY <1>12 DEF OtherBinds
  <2>2. LifeType' /\ Wanted' = Wanted
    BY <1>0, <2>1 DEF LifeType, Wanted
  <2>3. Told' /\ Unbuilt' /\ Built' /\ Reachable' /\ SocketHeld' /\ DrainedClean'
    BY <2>1, <2>2 DEF Told, Unbuilt, Built, Starting, Reachable, SocketHeld, DrainedClean, LifeInv
  <2>. QED
    BY <2>2, <2>3 DEF LifeInv
<1>13. CASE UNCHANGED lifeVars
  <2>1. UNCHANGED <<lifeCfg, life, pending, synced, comp, lconn, sock>>
    BY <1>13 DEF lifeVars
  <2>2. LifeType' /\ Wanted' = Wanted
    BY <1>0, <2>1 DEF LifeType, Wanted
  <2>3. Told' /\ Unbuilt' /\ Built' /\ Reachable' /\ SocketHeld' /\ DrainedClean'
    BY <2>1, <2>2 DEF Told, Unbuilt, Built, Starting, Reachable, SocketHeld, DrainedClean, LifeInv
  <2>. QED
    BY <2>2, <2>3 DEF LifeInv
<1>. QED
  BY <1>1, <1>2, <1>3, <1>3a, <1>4, <1>5, <1>6, <1>7, <1>8, <1>9, <1>10, <1>11, <1>11a, <1>12, <1>13 DEF LifeNext

\* LifeInv is an invariant of the process, for any configuration and any number
\* of connections.
THEOREM LifeInvariant == LifeSpec => []LifeInv
BY LifeInitial, LifePreserved, PTL DEF LifeSpec

\* Whatever order the parts start in, the readiness endpoint says ready only when
\* the state has come and every wanted task was created (ReadyIsTrue).
THEOREM ReadyMeansServing == LifeSpec => []ReadyIsTrue
<1>1. LifeInv => ReadyIsTrue
  BY DEF LifeInv, ReadyIsTrue, HandleReady, Told, Built, Starting
<1>. QED
  BY <1>1, LifeInvariant, PTL

\* A process that ends after a drain leaves no living connection and no socket file
\* of its own (DrainedClean), whatever the peers do meanwhile.
THEOREM DrainsCleanly == LifeSpec => []DrainedClean
BY LifeInvariant, PTL DEF LifeInv

-----------------------------------------------------------------------------
(* The connections                                                         *)

\* The connections, with every store, input and end.
ReqSpec == ReqInit /\ [][ReqNext]_reqVars

\* What the task of a connection holds at each stage.
TaskSound(r) ==
    /\ r.socket \in BOOLEAN /\ r.guard \in BOOLEAN /\ r.tracker \in {"none", "live", "done"}
    /\ r.stage = "idle" => ~r.socket /\ r.answer = Absent
    /\ r.stage \in {"idle", "greeting", "local", "route", "resolve", "masque", "tls", "request", "validate", "demanded", "upstream", "source"} =>
         r.tracker = "none" /\ ~r.guard
    /\ r.stage = "greeting" => r.kind = "socks"
    /\ r.stage \in {"route", "resolve"} => r.kind \in {"tcp", "udp", "socks"}
    /\ r.stage = "masque" => r.kind = "udp"
    /\ r.stage \in {"tls", "request", "validate", "demanded", "upstream", "respond"} => r.kind = "hbone"
    /\ r.stage = "source" => r.kind \in {"hbone", "plain"}
    /\ r.stage = "admit" =>
         \/ r.kind \in {"tcp", "socks"} /\ r.tracker = "none" /\ ~r.guard
         \/ r.kind \in {"hbone", "plain"} /\ r.tracker = "live" /\ ~r.guard
    /\ r.stage \in {"connect", "respond"} \/ (r.stage = "copy" /\ r.kind # "udp") => r.tracker = "live" /\ r.guard
    /\ r.stage = "connect" => r.kind # "udp"
    /\ r.stage = "copy" /\ r.kind = "udp" => r.tracker = "none" /\ ~r.guard
    /\ r.guard => r.tracker = "live"
    /\ r.stage = "end" => r.tracker # "live" /\ ~r.guard
    /\ r.kind = "hbone" /\ r.answer = 200 => r.guard \/ r.stage = "end"
    /\ r.kind = "hbone" /\ r.stage # "end" => r.answer \in {Absent, 200}
    /\ r.kind = "hbone" /\ r.stage = "copy" => r.answer = 200
    /\ r.kind = "hbone" /\ r.stage = "end" =>
         /\ r.answer = Absent => ~r.socket \/ r.why = "AuthorizationPolicyLateRejection"
         /\ r.answer \in {401, 503} /\ r.tracker = "done" => r.why # "None"

\* The connections that are counted as open.
Live == {c \in Conns : conn[c].tracker = "live"}
\* The connections with a socket.
Sockets == {c \in Conns : conn[c].socket}

\* The counters.
Counts == [opened : Int, closed : Int, failed : Int, sockets : Int]

\* The inductive invariant.
ReqInv ==
    /\ DOMAIN conn = Conns
    /\ \A c \in Conns : TaskSound(conn[c])
    /\ metrics \in Counts
    /\ metrics.opened = metrics.closed + Cardinality(Live)
    /\ metrics.sockets = Cardinality(Sockets)
    /\ metrics.failed <= metrics.closed

\* What a step of one task does to a count of the tasks.
LEMMA CountMoves ==
    ASSUME NEW A, NEW B, A \subseteq Conns, B \subseteq Conns, NEW c \in Conns, \A d \in Conns \ {c} : d \in A <=> d \in B
    PROVE  /\ Cardinality(A) \in Nat /\ Cardinality(B) \in Nat
           /\ Cardinality(B) = Cardinality(A) + (IF c \in B THEN 1 ELSE 0) - (IF c \in A THEN 1 ELSE 0)
<1>1. IsFiniteSet(A) /\ IsFiniteSet(B)
  BY RequestsAssumption, FS_Subset
<1>2. Cardinality(A) \in Nat /\ Cardinality(B) \in Nat
  BY <1>1, FS_CardinalityType
<1>3. CASE c \in A /\ c \in B
  <2>1. A = B
    BY <1>3
  <2>. QED
    BY <1>2, <1>3, <2>1
<1>4. CASE c \notin A /\ c \notin B
  <2>1. A = B
    BY <1>4
  <2>. QED
    BY <1>2, <1>4, <2>1
<1>5. CASE c \in A /\ c \notin B
  <2>1. B = A \ {c}
    BY <1>5
  <2>2. Cardinality(A \ {c}) = Cardinality(A) - 1
    BY <1>1, <1>5, FS_RemoveElement
  <2>. QED
    BY <1>2, <1>5, <2>1, <2>2
<1>6. CASE c \notin A /\ c \in B
  <2>1. B = A \cup {c}
    BY <1>6
  <2>2. Cardinality(A \cup {c}) = Cardinality(A) + 1
    BY <1>1, <1>6, FS_AddElement
  <2>. QED
    BY <1>2, <1>6, <2>1, <2>2
<1>. QED
  BY <1>3, <1>4, <1>5, <1>6

\* The step of one task, with what it does to the metrics.
LEMMA TaskMoves ==
    ASSUME ReqInv, NEW c \in Conns, DOMAIN conn' = Conns, \A d \in Conns \ {c} : conn'[d] = conn[d],
           TaskSound(conn'[c]), metrics' \in Counts,
           metrics'.opened - metrics'.closed = (metrics.opened - metrics.closed)
               + (IF conn'[c].tracker = "live" THEN 1 ELSE 0) - (IF conn[c].tracker = "live" THEN 1 ELSE 0),
           metrics'.sockets = metrics.sockets + (IF conn'[c].socket THEN 1 ELSE 0) - (IF conn[c].socket THEN 1 ELSE 0),
           metrics'.failed <= metrics'.closed
    PROVE  ReqInv'
<1>1. /\ Cardinality(Live) \in Nat /\ Cardinality(Live') \in Nat
      /\ Cardinality(Live') = Cardinality(Live) + (IF c \in Live' THEN 1 ELSE 0) - (IF c \in Live THEN 1 ELSE 0)
  <2>1. Live \subseteq Conns /\ Live' \subseteq Conns /\ \A d \in Conns \ {c} : d \in Live <=> d \in Live'
    BY DEF Live
  <2>. QED
    BY ONLY <2>1, CountMoves, c \in Conns
<1>2. /\ Cardinality(Sockets) \in Nat /\ Cardinality(Sockets') \in Nat
      /\ Cardinality(Sockets') = Cardinality(Sockets) + (IF c \in Sockets' THEN 1 ELSE 0) - (IF c \in Sockets THEN 1 ELSE 0)
  <2>1. Sockets \subseteq Conns /\ Sockets' \subseteq Conns /\ \A d \in Conns \ {c} : d \in Sockets <=> d \in Sockets'
    BY DEF Sockets
  <2>. QED
    BY ONLY <2>1, CountMoves, c \in Conns
<1>3. /\ c \in Live <=> conn[c].tracker = "live"
      /\ c \in Live' <=> conn'[c].tracker = "live"
      /\ c \in Sockets <=> conn[c].socket
      /\ c \in Sockets' <=> conn'[c].socket
  BY DEF Live, Sockets
<1>4. PICK o \in Int, k \in Int, s \in Int, o2 \in Int, k2 \in Int, s2 \in Int :
          /\ o = metrics.opened /\ k = metrics.closed /\ s = metrics.sockets
          /\ o2 = metrics'.opened /\ k2 = metrics'.closed /\ s2 = metrics'.sockets
  BY DEF ReqInv, Counts
<1>5. PICK l \in Nat, l2 \in Nat, n \in Nat, n2 \in Nat :
          l = Cardinality(Live) /\ l2 = Cardinality(Live') /\ n = Cardinality(Sockets) /\ n2 = Cardinality(Sockets')
  BY <1>1, <1>2
<1>6. o = k + l /\ s = n
  BY <1>4, <1>5 DEF ReqInv
<1>7. o2 - k2 = (o - k) + (IF c \in Live' THEN 1 ELSE 0) - (IF c \in Live THEN 1 ELSE 0)
  BY <1>3, <1>4
<1>8. o2 = k2 + l2
  BY ONLY <1>1, <1>5, <1>6, <1>7, o \in Int, k \in Int, o2 \in Int, k2 \in Int, l \in Nat, l2 \in Nat
<1>9. s2 = s + (IF c \in Sockets' THEN 1 ELSE 0) - (IF c \in Sockets THEN 1 ELSE 0)
  BY <1>3, <1>4
<1>10. s2 = n2
  BY ONLY <1>2, <1>5, <1>6, <1>9, s \in Int, n \in Nat, n2 \in Nat
<1>11. metrics'.opened = metrics'.closed + Cardinality(Live') /\ metrics'.sockets = Cardinality(Sockets')
  BY ONLY <1>4, <1>5, <1>8, <1>10, Zenon
<1>12. \A d \in Conns : TaskSound(conn'[d])
  BY DEF ReqInv
<1>. QED
  BY ONLY <1>11, <1>12, DOMAIN conn' = Conns, metrics' \in Counts, metrics'.failed <= metrics'.closed DEF ReqInv, TaskSound, Live, Sockets

\* The fields of the record of a task.
Fields == {"stage", "kind", "in", "local", "up", "hop", "checked", "sans", "proto", "tracker", "guard", "answer", "socket",
           "bound", "ds", "why", "seen"}

\* What Set leaves in the record of the task.
LEMMA Merged ==
    ASSUME ReqInv, NEW c \in Conns, NEW fields, Set(c, fields)
    PROVE  /\ DOMAIN conn' = Conns /\ \A d \in Conns \ {c} : conn'[d] = conn[d]
           /\ \A x \in Fields : conn'[c][x] = IF x \in DOMAIN fields THEN fields[x] ELSE conn[c][x]
<1>1. DOMAIN conn = Conns
  BY DEF ReqInv
<1>2. DOMAIN Idle = Fields
  BY DEF Idle, Fields
<1>3. conn'[c] = With(conn[c], fields)
  BY <1>1 DEF Set
<1>4. \A x \in Fields : With(conn[c], fields)[x] = IF x \in DOMAIN fields THEN fields[x] ELSE conn[c][x]
  BY <1>2, Zenon DEF With
<1>5. DOMAIN conn' = Conns /\ \A d \in Conns \ {c} : conn'[d] = conn[d]
  BY <1>1 DEF Set
<1>. QED
  BY <1>3, <1>4, <1>5, Zenon

\* A task goes on to another stage and touches no count.
LEMMA StageStep ==
    ASSUME ReqInv, NEW c \in Conns, NEW fields, Set(c, fields), metrics' = metrics, "stage" \in DOMAIN fields,
           \A x \in {"kind", "tracker", "guard", "socket"} : x \notin DOMAIN fields,
           \A r : /\ r.stage = fields.stage /\ r.kind = conn[c].kind /\ r.tracker = conn[c].tracker /\ r.guard = conn[c].guard
                  /\ r.socket = conn[c].socket /\ r.answer = (IF "answer" \in DOMAIN fields THEN fields.answer ELSE conn[c].answer)
                  => TaskSound(r)
    PROVE  ReqInv'
<1>1. /\ DOMAIN conn' = Conns /\ \A d \in Conns \ {c} : conn'[d] = conn[d]
      /\ \A x \in Fields : conn'[c][x] = IF x \in DOMAIN fields THEN fields[x] ELSE conn[c][x]
  BY Merged
<1>2. /\ conn'[c].stage = fields.stage /\ conn'[c].kind = conn[c].kind /\ conn'[c].tracker = conn[c].tracker
      /\ conn'[c].guard = conn[c].guard /\ conn'[c].socket = conn[c].socket
      /\ conn'[c].answer = IF "answer" \in DOMAIN fields THEN fields.answer ELSE conn[c].answer
  BY <1>1 DEF Fields
<1>3. TaskSound(conn'[c])
  BY <1>2, Zenon
<1>4. /\ metrics' \in Counts /\ metrics'.failed <= metrics'.closed
      /\ metrics.opened \in Int /\ metrics.closed \in Int /\ metrics.sockets \in Int
  BY DEF ReqInv, Counts
<1>5. /\ metrics'.opened - metrics'.closed = (metrics.opened - metrics.closed)
           + (IF conn'[c].tracker = "live" THEN 1 ELSE 0) - (IF conn[c].tracker = "live" THEN 1 ELSE 0)
      /\ metrics'.sockets = metrics.sockets + (IF conn'[c].socket THEN 1 ELSE 0) - (IF conn[c].socket THEN 1 ELSE 0)
  BY <1>2, <1>4
<1>. QED
  BY <1>1, <1>3, <1>4, <1>5, TaskMoves

\* What a task must have done when it returns.
LEMMA EndedSound ==
    ASSUME NEW r, r.stage = "end", r.guard = FALSE, r.socket \in BOOLEAN, r.tracker \in {"none", "done"},
           r.kind = "hbone" /\ r.answer = Absent => ~r.socket \/ r.why = "AuthorizationPolicyLateRejection",
           r.kind = "hbone" /\ r.answer \in {401, 503} /\ r.tracker = "done" => r.why # "None"
    PROVE  TaskSound(r)
<1>1. /\ r.socket \in BOOLEAN /\ r.guard \in BOOLEAN /\ r.tracker \in {"none", "live", "done"}
      /\ r.stage = "idle" => ~r.socket /\ r.answer = Absent
      /\ r.stage \in {"idle", "greeting", "local", "route", "resolve", "masque", "tls", "request", "validate",
                      "demanded", "upstream", "source"} => r.tracker = "none" /\ ~r.guard
  OBVIOUS
<1>2. /\ r.stage = "greeting" => r.kind = "socks"
      /\ r.stage \in {"route", "resolve"} => r.kind \in {"tcp", "udp", "socks"}
      /\ r.stage = "masque" => r.kind = "udp"
      /\ r.stage \in {"tls", "request", "validate", "demanded", "upstream", "respond"} => r.kind = "hbone"
      /\ r.stage = "source" => r.kind \in {"hbone", "plain"}
      /\ r.stage = "connect" => r.kind # "udp"
  OBVIOUS
<1>3. r.stage = "admit" =>
         \/ r.kind \in {"tcp", "socks"} /\ r.tracker = "none" /\ ~r.guard
         \/ r.kind \in {"hbone", "plain"} /\ r.tracker = "live" /\ ~r.guard
  OBVIOUS
<1>4. /\ r.stage \in {"connect", "respond"} \/ (r.stage = "copy" /\ r.kind # "udp") => r.tracker = "live" /\ r.guard
      /\ r.stage = "copy" /\ r.kind = "udp" => r.tracker = "none" /\ ~r.guard
      /\ r.guard => r.tracker = "live"
      /\ r.stage = "end" => r.tracker # "live" /\ ~r.guard
  OBVIOUS
<1>5. /\ r.kind = "hbone" /\ r.answer = 200 => r.guard \/ r.stage = "end"
      /\ r.kind = "hbone" /\ r.stage # "end" => r.answer \in {Absent, 200}
      /\ r.kind = "hbone" /\ r.stage = "copy" => r.answer = 200
  OBVIOUS
<1>6. r.kind = "hbone" /\ r.stage = "end" =>
         /\ r.answer = Absent => ~r.socket \/ r.why = "AuthorizationPolicyLateRejection"
         /\ r.answer \in {401, 503} /\ r.tracker = "done" => r.why # "None"
  OBVIOUS
<1>. QED
  BY ONLY <1>1, <1>2, <1>3, <1>4, <1>5, <1>6, Zenon DEF TaskSound

\* A task returns (Ends): its tracker is recorded once and its socket given back
\* once.
LEMMA EndStep ==
    ASSUME ReqInv, NEW c \in Conns, NEW err, NEW code, Ends(c, err, code), conn[c].stage \notin {"idle", "end"},
           conn[c].kind = "hbone" /\ conn[c].stage # "tls" =>
               code # Absent \/ conn[c].answer # Absent \/ ~conn[c].socket \/ err = "AuthorizationPolicyLateRejection",
           conn[c].kind = "hbone" /\ code \in {401, 503} /\ conn[c].tracker # "none" => err # "None"
    PROVE  ReqInv'
<1> DEFINE keeps == conn[c].kind = "hbone" /\ conn[c].stage # "tls"
           fields == [stage |-> "end", tracker |-> TrackerAfter(c), guard |-> FALSE, why |-> err,
                      answer |-> IF conn[c].answer = Absent THEN code ELSE conn[c].answer,
                      socket |-> keeps /\ conn[c].socket]
<1>f. PICK flag : flag = IF err = "None" THEN "None" ELSE FailureReason(err)
  OBVIOUS
<1>1. Set(c, fields) /\ metrics' = IF keeps THEN Recorded(c, metrics, flag) ELSE Closed(c, Recorded(c, metrics, flag))
  BY <1>f DEF Ends
<1>2. /\ DOMAIN conn' = Conns /\ \A d \in Conns \ {c} : conn'[d] = conn[d]
      /\ \A x \in Fields : conn'[c][x] = IF x \in DOMAIN fields THEN fields[x] ELSE conn[c][x]
  BY <1>1, Merged
<1>3. /\ conn'[c].stage = "end" /\ conn'[c].tracker = TrackerAfter(c) /\ conn'[c].guard = FALSE
      /\ conn'[c].answer = IF conn[c].answer = Absent THEN code ELSE conn[c].answer
      /\ conn'[c].socket = (keeps /\ conn[c].socket) /\ conn'[c].kind = conn[c].kind /\ conn'[c].why = err
  BY <1>2 DEF Fields
<1>4. TaskSound(conn[c])
  BY DEF ReqInv
<1>5. TaskSound(conn'[c])
  <2>1. conn'[c].tracker \in {"none", "done"} /\ (conn[c].tracker # "none" => conn'[c].tracker = "done")
    BY <1>3, <1>4 DEF TaskSound, TrackerAfter
  <2>2. conn'[c].socket \in BOOLEAN
    BY <1>3, <1>4 DEF TaskSound
  <2>3. conn'[c].kind = "hbone" /\ conn'[c].answer = Absent => ~conn'[c].socket \/ conn'[c].why = "AuthorizationPolicyLateRejection"
    BY <1>3
  <2>4. conn'[c].kind = "hbone" /\ conn'[c].answer \in {401, 503} => conn[c].answer = Absent /\ code \in {401, 503}
    <3>1. conn[c].kind = "hbone" => conn[c].answer \in {Absent, 200}
      BY <1>4 DEF TaskSound
    <3>. QED
      BY ONLY <1>3, <3>1
  <2>5. conn'[c].tracker = "done" => conn[c].tracker # "none"
    BY <1>3 DEF TrackerAfter
  <2>6. conn'[c].kind = "hbone" /\ conn'[c].answer \in {401, 503} /\ conn'[c].tracker = "done" => conn'[c].why # "None"
    BY <1>3, <2>4, <2>5
  <2>7. conn'[c].stage = "end" /\ conn'[c].guard = FALSE
    BY ONLY <1>3
  <2>. QED
    BY ONLY <2>1, <2>2, <2>3, <2>6, <2>7, EndedSound
<1>6. PICK m \in Counts : m = metrics
  BY DEF ReqInv
<1>7. PICK o \in Int, k \in Int, f \in Int, s \in Int : o = m.opened /\ k = m.closed /\ f = m.failed /\ s = m.sockets
  BY DEF Counts
<1>8. PICK m2 \in Counts :
         /\ m2 = Recorded(c, metrics, flag)
         /\ m2.opened = o /\ m2.sockets = s
         /\ conn[c].tracker = "live" => m2.closed = k + 1 /\ (m2.failed = f \/ m2.failed = f + 1)
         /\ conn[c].tracker # "live" => m2.closed = k /\ m2.failed = f
  <2>1. CASE conn[c].tracker # "live"
    BY <1>6, <1>7, <2>1 DEF Recorded
  <2>2. CASE conn[c].tracker = "live"
    <3>1. PICK k2 \in Int, f2 \in Int : k2 = k + 1 /\ f2 = f + (IF flag = "None" THEN 0 ELSE 1)
      OBVIOUS
    <3>2. Recorded(c, metrics, flag) = [m EXCEPT !.closed = k2, !.failed = f2]
      BY <1>6, <1>7, <2>2, <3>1 DEF Recorded
    <3>3. PICK m2 : m2 = [m EXCEPT !.closed = k2, !.failed = f2]
      OBVIOUS
    <3>4. m2 \in Counts /\ m2.opened = m.opened /\ m2.sockets = m.sockets /\ m2.closed = k2 /\ m2.failed = f2
      BY ONLY <3>3, m \in Counts, k2 \in Int, f2 \in Int DEF Counts
    <3>5. f2 = f \/ f2 = f + 1
      BY <3>1
    <3>. QED
      BY ONLY <1>7, <2>2, <3>1, <3>2, <3>3, <3>4, <3>5, Zenon
  <2>. QED
    BY <2>1, <2>2
<1>9. PICK m3 \in Counts :
         /\ metrics' = m3
         /\ m3.opened = m2.opened /\ m3.closed = m2.closed /\ m3.failed = m2.failed
         /\ m3.sockets = IF ~keeps /\ conn[c].socket THEN s - 1 ELSE s
  <2>1. CASE keeps \/ ~conn[c].socket
    BY <1>1, <1>8, <2>1 DEF Closed
  <2>2. CASE ~(keeps \/ ~conn[c].socket)
    <3>1. PICK s2 \in Int : s2 = s - 1
      OBVIOUS
    <3>2. metrics' = [m2 EXCEPT !.sockets = s2]
      BY <1>1, <1>8, <2>2, <3>1 DEF Closed
    <3>3. PICK m3 : m3 = [m2 EXCEPT !.sockets = s2]
      OBVIOUS
    <3>4. m3 \in Counts /\ m3.opened = m2.opened /\ m3.closed = m2.closed /\ m3.failed = m2.failed /\ m3.sockets = s2
      BY ONLY <3>3, m2 \in Counts, s2 \in Int DEF Counts
    <3>. QED
      BY ONLY <2>2, <3>1, <3>2, <3>3, <3>4, Zenon
  <2>. QED
    BY <2>1, <2>2
<1>10. /\ metrics'.opened - metrics'.closed = (metrics.opened - metrics.closed)
            + (IF conn'[c].tracker = "live" THEN 1 ELSE 0) - (IF conn[c].tracker = "live" THEN 1 ELSE 0)
       /\ metrics'.failed <= metrics'.closed
  <2>1. conn'[c].tracker # "live"
    BY <1>3 DEF TrackerAfter
  <2>2. f <= k
    BY <1>6, <1>7 DEF ReqInv
  <2>3. CASE conn[c].tracker = "live"
    <3>1. metrics'.opened = o /\ metrics'.closed = k + 1 /\ (metrics'.failed = f \/ metrics'.failed = f + 1)
      BY ONLY <1>8, <1>9, <2>3
    <3>. QED
      BY ONLY <1>6, <1>7, <2>1, <2>2, <2>3, <3>1, o \in Int, k \in Int, f \in Int
  <2>4. CASE conn[c].tracker # "live"
    <3>1. metrics'.opened = o /\ metrics'.closed = k /\ metrics'.failed = f
      BY ONLY <1>8, <1>9, <2>4
    <3>. QED
      BY ONLY <1>6, <1>7, <2>1, <2>2, <2>4, <3>1, o \in Int, k \in Int, f \in Int
  <2>. QED
    BY <2>3, <2>4
<1>11. metrics'.sockets = metrics.sockets + (IF conn'[c].socket THEN 1 ELSE 0) - (IF conn[c].socket THEN 1 ELSE 0)
  <2>1. conn[c].socket \in BOOLEAN /\ conn'[c].socket = (keeps /\ conn[c].socket)
    BY <1>3, <1>4 DEF TaskSound
  <2>2. CASE keeps \/ ~conn[c].socket
    <3>1. conn'[c].socket = conn[c].socket
      BY ONLY <2>1, <2>2, Zenon
    <3>2. metrics'.sockets = s /\ metrics.sockets = s
      BY ONLY <1>6, <1>7, <1>9, <2>2
    <3>. QED
      BY ONLY <3>1, <3>2, s \in Int
  <2>3. CASE ~(keeps \/ ~conn[c].socket)
    <3>1. ~conn'[c].socket /\ conn[c].socket
      BY ONLY <2>1, <2>3, Zenon
    <3>2. metrics'.sockets = s - 1 /\ metrics.sockets = s
      BY ONLY <1>6, <1>7, <1>9, <2>3
    <3>. QED
      BY ONLY <3>1, <3>2, s \in Int
  <2>. QED
    BY <2>2, <2>3
<1>. QED
  BY <1>2, <1>5, <1>9, <1>10, <1>11, TaskMoves

\* The tracker of a connection is built, and the connection counted.
LEMMA OpenStep ==
    ASSUME ReqInv, NEW c \in Conns, DOMAIN conn' = Conns, \A d \in Conns \ {c} : conn'[d] = conn[d], TaskSound(conn'[c]),
           conn[c].tracker # "live", conn'[c].tracker = "live", conn'[c].socket = conn[c].socket, metrics' = Opened(metrics)
    PROVE  ReqInv'
<1>1. PICK m \in Counts : m = metrics
  BY DEF ReqInv
<1>2. PICK o \in Int, k \in Int, f \in Int, s \in Int, o2 \in Int :
          o = m.opened /\ k = m.closed /\ f = m.failed /\ s = m.sockets /\ o2 = o + 1
  BY DEF Counts
<1>3. metrics' = [m EXCEPT !.opened = o2]
  BY <1>1, <1>2 DEF Opened
<1>4. metrics' \in Counts /\ metrics'.opened = o2 /\ metrics'.closed = k /\ metrics'.failed = f /\ metrics'.sockets = s
  BY ONLY <1>2, <1>3, m \in Counts, o2 \in Int DEF Counts
<1>5. metrics'.opened - metrics'.closed = (metrics.opened - metrics.closed)
          + (IF conn'[c].tracker = "live" THEN 1 ELSE 0) - (IF conn[c].tracker = "live" THEN 1 ELSE 0)
  BY ONLY <1>1, <1>2, <1>4, conn[c].tracker # "live", conn'[c].tracker = "live", o \in Int, k \in Int
<1>6. metrics'.sockets = metrics.sockets + (IF conn'[c].socket THEN 1 ELSE 0) - (IF conn[c].socket THEN 1 ELSE 0)
  BY ONLY <1>1, <1>2, <1>4, conn'[c].socket = conn[c].socket, s \in Int
<1>7. metrics'.failed <= metrics'.closed
  BY ONLY <1>1, <1>2, <1>4, ReqInv DEF ReqInv
<1>. QED
  BY <1>4, <1>5, <1>6, <1>7, TaskMoves

\* A connection is accepted, and its socket counted.
LEMMA AcceptSound ==
    ASSUME ReqInv, NEW c \in Conns, NEW kind \in DOMAIN Inputs, NEW in, Accept(c, kind, in)
    PROVE  ReqInv'
<1> DEFINE fields == [stage |-> FirstStage[kind], kind |-> kind, in |-> in, socket |-> kind # "udp", seen |-> {store}]
<1>0. kind \in {"tcp", "udp", "socks", "hbone", "plain"}
  BY RequestsAssumption
<1>1. Set(c, fields) /\ conn[c].stage = "idle"
  BY DEF Accept
<1>2. /\ DOMAIN conn' = Conns /\ \A d \in Conns \ {c} : conn'[d] = conn[d]
      /\ \A x \in Fields : conn'[c][x] = IF x \in DOMAIN fields THEN fields[x] ELSE conn[c][x]
  BY <1>1, Merged
<1>3. /\ conn'[c].stage = FirstStage[kind] /\ conn'[c].kind = kind /\ conn'[c].socket = (kind # "udp")
      /\ conn'[c].tracker = conn[c].tracker /\ conn'[c].guard = conn[c].guard /\ conn'[c].answer = conn[c].answer
  BY <1>2 DEF Fields
<1>4. TaskSound(conn[c])
  BY DEF ReqInv
<1>a. conn[c].tracker = "none" /\ ~conn[c].guard /\ conn[c].answer = Absent /\ ~conn[c].socket /\ Absent # 200
  BY <1>1, <1>4, RequestsAssumption DEF TaskSound
<1>b. conn[c].guard = FALSE
  BY <1>4, <1>a DEF TaskSound
<1>5. /\ FirstStage[kind] \in {"local", "greeting", "tls"}
      /\ FirstStage[kind] = "greeting" => kind = "socks"
      /\ FirstStage[kind] = "tls" => kind = "hbone"
  BY <1>0 DEF FirstStage
<1>6. TaskSound(conn'[c])
  BY ONLY <1>3, <1>5, <1>a, <1>b, ZenonT(60) DEF TaskSound
<1>7. PICK m \in Counts : m = metrics
  BY DEF ReqInv
<1>8. PICK o \in Int, k \in Int, f \in Int, s \in Int : o = m.opened /\ k = m.closed /\ f = m.failed /\ s = m.sockets
  BY DEF Counts
<1>9. /\ metrics' \in Counts /\ metrics'.opened = o /\ metrics'.closed = k /\ metrics'.failed = f
      /\ metrics'.sockets = IF kind = "udp" THEN s ELSE s + 1
  <2>1. CASE kind = "udp"
    BY <1>7, <1>8, <2>1 DEF Accept
  <2>2. CASE kind # "udp"
    <3>1. PICK s2 \in Int : s2 = s + 1
      OBVIOUS
    <3>2. metrics' = [m EXCEPT !.sockets = s2]
      BY <1>7, <1>8, <2>2, <3>1 DEF Accept
    <3>3. metrics' \in Counts /\ metrics'.opened = o /\ metrics'.closed = k /\ metrics'.failed = f /\ metrics'.sockets = s2
      BY ONLY <1>8, <3>2, m \in Counts, s2 \in Int DEF Counts
    <3>. QED
      BY ONLY <2>2, <3>1, <3>3
  <2>. QED
    BY <2>1, <2>2
<1>10. metrics'.opened - metrics'.closed = (metrics.opened - metrics.closed)
          + (IF conn'[c].tracker = "live" THEN 1 ELSE 0) - (IF conn[c].tracker = "live" THEN 1 ELSE 0)
  BY ONLY <1>3, <1>7, <1>8, <1>9, o \in Int, k \in Int
<1>11. metrics'.sockets = metrics.sockets + (IF conn'[c].socket THEN 1 ELSE 0) - (IF conn[c].socket THEN 1 ELSE 0)
  <2>1. conn'[c].socket <=> kind # "udp"
    BY <1>3
  <2>. QED
    BY ONLY <1>7, <1>8, <1>9, <1>a, <2>1, s \in Int
<1>12. metrics'.failed <= metrics'.closed
  BY ONLY <1>7, <1>8, <1>9, ReqInv DEF ReqInv
<1>. QED
  BY <1>2, <1>6, <1>9, <1>10, <1>11, <1>12, TaskMoves

\* A task that has lost its connection is as sound as before.
LEMMA SocketGone ==
    ASSUME NEW q, NEW r, TaskSound(q), r.stage = q.stage, r.kind = q.kind, r.socket = FALSE,
           r.tracker = q.tracker, r.guard = q.guard, r.answer = q.answer, r.why = q.why, q.stage # "idle"
    PROVE  TaskSound(r)
<1>1. /\ r.socket \in BOOLEAN /\ r.guard \in BOOLEAN /\ r.tracker \in {"none", "live", "done"}
      /\ r.stage = "idle" => ~r.socket /\ r.answer = Absent
      /\ r.stage \in {"idle", "greeting", "local", "route", "resolve", "masque", "tls", "request", "validate",
                      "demanded", "upstream", "source"} => r.tracker = "none" /\ ~r.guard
  BY DEF TaskSound
<1>2. /\ r.stage = "greeting" => r.kind = "socks"
      /\ r.stage \in {"route", "resolve"} => r.kind \in {"tcp", "udp", "socks"}
      /\ r.stage = "masque" => r.kind = "udp"
      /\ r.stage \in {"tls", "request", "validate", "demanded", "upstream", "respond"} => r.kind = "hbone"
      /\ r.stage = "source" => r.kind \in {"hbone", "plain"}
      /\ r.stage = "connect" => r.kind # "udp"
  BY DEF TaskSound
<1>3. r.stage = "admit" =>
         \/ r.kind \in {"tcp", "socks"} /\ r.tracker = "none" /\ ~r.guard
         \/ r.kind \in {"hbone", "plain"} /\ r.tracker = "live" /\ ~r.guard
  BY DEF TaskSound
<1>4. /\ r.stage \in {"connect", "respond"} \/ (r.stage = "copy" /\ r.kind # "udp") => r.tracker = "live" /\ r.guard
      /\ r.stage = "copy" /\ r.kind = "udp" => r.tracker = "none" /\ ~r.guard
      /\ r.guard => r.tracker = "live"
      /\ r.stage = "end" => r.tracker # "live" /\ ~r.guard
  BY DEF TaskSound
<1>5. /\ r.kind = "hbone" /\ r.answer = 200 => r.guard \/ r.stage = "end"
      /\ r.kind = "hbone" /\ r.stage # "end" => r.answer \in {Absent, 200}
      /\ r.kind = "hbone" /\ r.stage = "copy" => r.answer = 200
  BY DEF TaskSound
<1>6. r.kind = "hbone" /\ r.stage = "end" =>
         /\ r.answer = Absent => ~r.socket \/ r.why = "AuthorizationPolicyLateRejection"
         /\ r.answer \in {401, 503} /\ r.tracker = "done" => r.why # "None"
  BY DEF TaskSound
<1>. QED
  BY ONLY <1>1, <1>2, <1>3, <1>4, <1>5, <1>6, Zenon DEF TaskSound

\* The connection of an HBONE request ends under its task.
LEMMA ConnectionEndsSound ==
    ASSUME ReqInv, NEW c \in Conns, ConnectionEnds(c)
    PROVE  ReqInv'
<1> DEFINE fields == [socket |-> FALSE]
<1>1. Set(c, fields) /\ conn[c].socket /\ conn[c].stage # "idle" /\ metrics' = Closed(c, metrics)
  BY DEF ConnectionEnds
<1>2. /\ DOMAIN conn' = Conns /\ \A d \in Conns \ {c} : conn'[d] = conn[d]
      /\ \A x \in Fields : conn'[c][x] = IF x \in DOMAIN fields THEN fields[x] ELSE conn[c][x]
  BY <1>1, Merged
<1>3. /\ conn'[c].stage = conn[c].stage /\ conn'[c].kind = conn[c].kind /\ conn'[c].socket = FALSE
      /\ conn'[c].tracker = conn[c].tracker /\ conn'[c].guard = conn[c].guard /\ conn'[c].answer = conn[c].answer
      /\ conn'[c].why = conn[c].why
  BY <1>2 DEF Fields
<1>4. TaskSound(conn[c])
  BY DEF ReqInv
<1>5. TaskSound(conn'[c])
  BY <1>1, <1>3, <1>4, SocketGone
<1>6. PICK m \in Counts : m = metrics
  BY DEF ReqInv
<1>7. PICK o \in Int, k \in Int, f \in Int, s \in Int, s2 \in Int :
          o = m.opened /\ k = m.closed /\ f = m.failed /\ s = m.sockets /\ s2 = s - 1
  BY DEF Counts
<1>8. metrics' = [m EXCEPT !.sockets = s2]
  BY <1>1, <1>6, <1>7 DEF Closed
<1>9. metrics' \in Counts /\ metrics'.opened = o /\ metrics'.closed = k /\ metrics'.failed = f /\ metrics'.sockets = s2
  BY ONLY <1>7, <1>8, m \in Counts, s2 \in Int DEF Counts
<1>10. metrics'.opened - metrics'.closed = (metrics.opened - metrics.closed)
          + (IF conn'[c].tracker = "live" THEN 1 ELSE 0) - (IF conn[c].tracker = "live" THEN 1 ELSE 0)
  BY ONLY <1>3, <1>6, <1>7, <1>9, o \in Int, k \in Int
<1>11. metrics'.sockets = metrics.sockets + (IF conn'[c].socket THEN 1 ELSE 0) - (IF conn[c].socket THEN 1 ELSE 0)
  BY ONLY <1>1, <1>3, <1>6, <1>7, <1>9, s \in Int
<1>12. metrics'.failed <= metrics'.closed
  BY ONLY <1>6, <1>7, <1>9, ReqInv DEF ReqInv
<1>. QED
  BY <1>2, <1>5, <1>9, <1>10, <1>11, <1>12, TaskMoves

\* The steps of an outbound connection, and the lookup of the local workload.
LEMMA OutboundSteps ==
    ASSUME ReqInv, NEW c \in Conns,
           \/ Cancel(c) \/ GetWorkloadTimesOut(c)
           \/ Negotiate(c) \/ OutLocal(c) \/ SandboxForConnection(c) \/ BuildRequest(c) \/ Resolve(c) \/ ConnectUdp(c)
    PROVE  ReqInv'
<1>0. TaskSound(conn[c]) /\ Absent \notin Nat
  BY RequestsAssumption DEF ReqInv
<1>1. CASE Cancel(c)
  BY <1>1, EndStep DEF Cancel, Alive
<1>2. CASE GetWorkloadTimesOut(c)
  <2>1. conn[c].stage = "local" /\ Ends(c, "None", IF conn[c].kind = "hbone" THEN 503 ELSE Absent)
    BY <1>2 DEF GetWorkloadTimesOut, EarlyDeny
  <2>2. conn[c].kind = "hbone" => (IF conn[c].kind = "hbone" THEN 503 ELSE Absent) # Absent
    BY <1>0
  <2>3. conn[c].tracker = "none"
    BY <1>0, <2>1 DEF TaskSound
  <2>. QED
    BY <2>1, <2>2, <2>3, EndStep
<1>3. CASE Negotiate(c)
  <2>0. conn[c].stage = "greeting" /\ conn[c].kind = "socks" /\ conn[c].tracker = "none" /\ ~conn[c].guard
    BY <1>0, <1>3 DEF Negotiate, TaskSound
  <2>1. CASE SocksAnswer(conn[c].in) # 0
    <3>1. Ends(c, "None", SocksAnswer(conn[c].in))
      BY <1>3, <2>1 DEF Negotiate, EarlyDeny
    <3>. QED
      BY <2>0, <3>1, EndStep
  <2>2. CASE ~(SocksAnswer(conn[c].in) # 0)
    <3>1. PICK fields : fields = [stage |-> "local", answer |-> 0]
      OBVIOUS
    <3>2. Set(c, fields) /\ metrics' = metrics
      BY <1>3, <2>2, <3>1 DEF Negotiate
    <3>3. "stage" \in DOMAIN fields /\ fields.stage = "local" /\ \A x \in {"kind", "tracker", "guard", "socket"} : x \notin DOMAIN fields
      BY <3>1
    <3>4. ASSUME NEW r, r.stage = fields.stage, r.kind = conn[c].kind, r.tracker = conn[c].tracker, r.guard = conn[c].guard,
                 r.socket = conn[c].socket
          PROVE  TaskSound(r)
      BY ONLY <1>0, <2>0, <3>3, <3>4 DEF TaskSound
    <3>. QED
      BY <3>2, <3>3, <3>4, StageStep
  <2>. QED
    BY <2>1, <2>2
<1>4. CASE OutLocal(c)
  <2>0. conn[c].stage = "local" /\ conn[c].kind \in {"tcp", "udp", "socks"}
    BY <1>4 DEF OutLocal, GetWorkload
  <2>1. PICK w : Set(c, [local |-> w, stage |-> "route"]) /\ metrics' = metrics
    BY <1>4 DEF OutLocal, GetWorkload
  <2>2. PICK fields : fields = [local |-> w, stage |-> "route"]
    OBVIOUS
  <2>3. /\ "stage" \in DOMAIN fields /\ fields.stage = "route" /\ "answer" \notin DOMAIN fields
        /\ \A x \in {"kind", "tracker", "guard", "socket"} : x \notin DOMAIN fields
    BY <2>2
  <2>4. ASSUME NEW r, r.stage = fields.stage, r.kind = conn[c].kind, r.tracker = conn[c].tracker, r.guard = conn[c].guard,
               r.socket = conn[c].socket
        PROVE  TaskSound(r)
    BY ONLY <1>0, <2>0, <2>3, <2>4 DEF TaskSound
  <2>. QED
    BY <2>1, <2>2, <2>3, <2>4, StageStep
<1>5. CASE SandboxForConnection(c)
  BY <1>5, EndStep DEF SandboxForConnection, EarlyDeny
<1>6. CASE BuildRequest(c)
  <2>0. conn[c].stage = "route" /\ conn[c].kind \in {"tcp", "udp", "socks"} /\ conn[c].tracker = "none" /\ ~conn[c].guard
    BY <1>0, <1>6 DEF BuildRequest, TaskSound
  <2>1. CASE Ends(c, "None", Absent)
    BY <2>0, <2>1, EndStep
  <2>2. CASE /\ Set(c, [stage |-> "admit", proto |-> "TCP", hop |-> Target(c), checked |-> Target(c)])
             /\ metrics' = metrics /\ conn[c].kind # "udp"
    <3>2. PICK fields : fields = [stage |-> "admit", proto |-> "TCP", hop |-> Target(c), checked |-> Target(c)]
      OBVIOUS
    <3>3. /\ "stage" \in DOMAIN fields /\ fields.stage = "admit" /\ "answer" \notin DOMAIN fields
          /\ \A x \in {"kind", "tracker", "guard", "socket"} : x \notin DOMAIN fields
      BY <3>2
    <3>4. ASSUME NEW r, r.stage = fields.stage, r.kind = conn[c].kind, r.tracker = conn[c].tracker, r.guard = conn[c].guard,
                 r.socket = conn[c].socket
          PROVE  TaskSound(r)
      BY ONLY <1>0, <2>0, <2>2, <3>3, <3>4 DEF TaskSound
    <3>. QED
      BY <2>2, <3>2, <3>3, <3>4, StageStep
  <2>3. ASSUME NEW up, Set(c, [stage |-> "resolve", up |-> up, proto |-> "HBONE", checked |-> Target(c)]), metrics' = metrics
        PROVE  ReqInv'
    <3>2. PICK fields : fields = [stage |-> "resolve", up |-> up, proto |-> "HBONE", checked |-> Target(c)]
      OBVIOUS
    <3>3. /\ "stage" \in DOMAIN fields /\ fields.stage = "resolve" /\ "answer" \notin DOMAIN fields
          /\ \A x \in {"kind", "tracker", "guard", "socket"} : x \notin DOMAIN fields
      BY <3>2
    <3>4. ASSUME NEW r, r.stage = fields.stage, r.kind = conn[c].kind, r.tracker = conn[c].tracker, r.guard = conn[c].guard,
                 r.socket = conn[c].socket
          PROVE  TaskSound(r)
      BY ONLY <1>0, <2>0, <3>3, <3>4 DEF TaskSound
    <3>. QED
      BY <2>3, <3>2, <3>3, <3>4, StageStep
  <2>. QED
    BY <1>6, <2>1, <2>2, <2>3, Zenon DEF BuildRequest, EarlyDeny
<1>7. CASE Resolve(c)
  <2>0. conn[c].stage = "resolve" /\ conn[c].kind \in {"tcp", "udp", "socks"} /\ conn[c].tracker = "none" /\ ~conn[c].guard
    BY <1>0, <1>7 DEF Resolve, TaskSound
  <2>1. CASE Ends(c, "None", Absent)
    BY <2>0, <2>1, EndStep
  <2>2. ASSUME NEW hop, NEW sans, metrics' = metrics,
               Set(c, [stage |-> IF conn[c].kind = "udp" THEN "masque" ELSE "admit", hop |-> hop, sans |-> sans])
        PROVE  ReqInv'
    <3>2. PICK fields : fields = [stage |-> IF conn[c].kind = "udp" THEN "masque" ELSE "admit", hop |-> hop, sans |-> sans]
      OBVIOUS
    <3>3. /\ "stage" \in DOMAIN fields /\ fields.stage = (IF conn[c].kind = "udp" THEN "masque" ELSE "admit")
          /\ "answer" \notin DOMAIN fields
          /\ \A x \in {"kind", "tracker", "guard", "socket"} : x \notin DOMAIN fields
      BY <3>2
    <3>4. ASSUME NEW r, r.stage = fields.stage, r.kind = conn[c].kind, r.tracker = conn[c].tracker, r.guard = conn[c].guard,
                 r.socket = conn[c].socket
          PROVE  TaskSound(r)
      BY ONLY <1>0, <2>0, <3>3, <3>4 DEF TaskSound
    <3>. QED
      BY <2>2, <3>2, <3>3, <3>4, StageStep
  <2>. QED
    BY <1>7, <2>1, <2>2, Zenon DEF Resolve, EarlyDeny
<1>8. CASE ConnectUdp(c)
  <2>0. conn[c].stage = "masque" /\ conn[c].kind = "udp" /\ conn[c].tracker = "none" /\ ~conn[c].guard
    BY <1>0, <1>8 DEF ConnectUdp, TaskSound
  <2>1. CASE Ends(c, "None", Absent)
    BY <2>0, <2>1, EndStep
  <2>2. CASE Set(c, [stage |-> "copy"]) /\ metrics' = metrics
    <3>2. PICK fields : fields = [stage |-> "copy"]
      OBVIOUS
    <3>3. /\ "stage" \in DOMAIN fields /\ fields.stage = "copy" /\ "answer" \notin DOMAIN fields
          /\ \A x \in {"kind", "tracker", "guard", "socket"} : x \notin DOMAIN fields
      BY <3>2
    <3>4. ASSUME NEW r, r.stage = fields.stage, r.kind = conn[c].kind, r.tracker = conn[c].tracker, r.guard = conn[c].guard,
                 r.socket = conn[c].socket
          PROVE  TaskSound(r)
      BY ONLY <1>0, <2>0, <3>3, <3>4 DEF TaskSound
    <3>. QED
      BY <2>2, <3>2, <3>3, <3>4, StageStep
  <2>. QED
    BY <1>8, <2>1, <2>2, Zenon DEF ConnectUdp, EarlyDeny
<1>. QED
  BY <1>1, <1>2, <1>3, <1>4, <1>5, <1>6, <1>7, <1>8

\* The steps of an inbound connection up to its admission.
LEMMA InboundSteps ==
    ASSUME ReqInv, NEW c \in Conns,
           \/ \E ok \in BOOLEAN : Handshake(c, ok)
           \/ Request(c) \/ InLocal(c) \/ ValidateDestination(c) \/ FindInboundUpstream(c) \/ Plaintext(c) \/ FetchSource(c)
    PROVE  ReqInv'
<1>0. TaskSound(conn[c]) /\ Absent \notin Nat
  BY RequestsAssumption DEF ReqInv
<1>e. \A n \in {400, 401, 503} : n # Absent
  BY <1>0
<1>1. ASSUME NEW ok \in BOOLEAN, Handshake(c, ok)
      PROVE  ReqInv'
  <2>0. conn[c].stage = "tls" /\ conn[c].kind = "hbone" /\ conn[c].tracker = "none" /\ ~conn[c].guard
    BY <1>0, <1>1 DEF Handshake, TaskSound
  <2>1. CASE Ends(c, "None", Absent)
    BY <2>0, <2>1, EndStep
  <2>2. CASE Set(c, [stage |-> "request"]) /\ metrics' = metrics
    <3>2. PICK fields : fields = [stage |-> "request"]
      OBVIOUS
    <3>3. /\ "stage" \in DOMAIN fields /\ fields.stage = "request" /\ "answer" \notin DOMAIN fields
          /\ \A x \in {"kind", "tracker", "guard", "socket"} : x \notin DOMAIN fields
      BY <3>2
    <3>4. ASSUME NEW r, r.stage = fields.stage, r.kind = conn[c].kind, r.tracker = conn[c].tracker, r.guard = conn[c].guard,
                 r.socket = conn[c].socket, r.answer = IF "answer" \in DOMAIN fields THEN fields.answer ELSE conn[c].answer
          PROVE  TaskSound(r)
      BY ONLY <1>0, <2>0, <3>3, <3>4 DEF TaskSound
    <3>. QED
      BY <2>2, <3>2, <3>3, <3>4, StageStep
  <2>. QED
    BY <1>1, <2>1, <2>2, Zenon DEF Handshake, EarlyDeny
<1>2. CASE Request(c)
  <2>0. conn[c].stage = "request" /\ conn[c].kind = "hbone" /\ conn[c].tracker = "none" /\ ~conn[c].guard
    BY <1>0, <1>2 DEF Request, TaskSound
  <2>1. CASE Ends(c, "None", 400)
    BY <1>e, <2>0, <2>1, EndStep
  <2>2. CASE Set(c, [stage |-> "local"]) /\ metrics' = metrics
    <3>2. PICK fields : fields = [stage |-> "local"]
      OBVIOUS
    <3>3. /\ "stage" \in DOMAIN fields /\ fields.stage = "local" /\ "answer" \notin DOMAIN fields
          /\ \A x \in {"kind", "tracker", "guard", "socket"} : x \notin DOMAIN fields
      BY <3>2
    <3>4. ASSUME NEW r, r.stage = fields.stage, r.kind = conn[c].kind, r.tracker = conn[c].tracker, r.guard = conn[c].guard,
                 r.socket = conn[c].socket, r.answer = IF "answer" \in DOMAIN fields THEN fields.answer ELSE conn[c].answer
          PROVE  TaskSound(r)
      BY ONLY <1>0, <2>0, <3>3, <3>4 DEF TaskSound
    <3>. QED
      BY <2>2, <3>2, <3>3, <3>4, StageStep
  <2>. QED
    BY <1>2, <2>1, <2>2, Zenon DEF Request, EarlyDeny
<1>3. CASE InLocal(c)
  <2>0. conn[c].stage = "local" /\ conn[c].kind = "hbone"
    BY <1>3 DEF InLocal, GetWorkload
  <2>1. PICK w : Set(c, [local |-> w, stage |-> "validate"]) /\ metrics' = metrics
    BY <1>3 DEF InLocal, GetWorkload
  <2>2. PICK fields : fields = [local |-> w, stage |-> "validate"]
    OBVIOUS
  <2>3. /\ "stage" \in DOMAIN fields /\ fields.stage = "validate" /\ "answer" \notin DOMAIN fields
        /\ \A x \in {"kind", "tracker", "guard", "socket"} : x \notin DOMAIN fields
    BY <2>2
  <2>4. ASSUME NEW r, r.stage = fields.stage, r.kind = conn[c].kind, r.tracker = conn[c].tracker, r.guard = conn[c].guard,
               r.socket = conn[c].socket, r.answer = IF "answer" \in DOMAIN fields THEN fields.answer ELSE conn[c].answer
        PROVE  TaskSound(r)
    BY ONLY <1>0, <2>0, <2>3, <2>4 DEF TaskSound
  <2>. QED
    BY <2>1, <2>2, <2>3, <2>4, StageStep
<1>4. ASSUME NEW fields, Set(c, fields), metrics' = metrics, conn[c].tracker = "none", ~conn[c].guard,
             conn[c].kind \in {"hbone", "plain"}, conn[c].stage \notin {"idle", "copy", "end"},
             "stage" \in DOMAIN fields, fields.stage \in {"demanded", "upstream", "source"},
             fields.stage # "source" => conn[c].kind = "hbone",
             \A x \in {"kind", "tracker", "guard", "socket", "answer"} : x \notin DOMAIN fields
      PROVE  ReqInv'
  <2>1. ASSUME NEW r, r.stage = fields.stage, r.kind = conn[c].kind, r.tracker = conn[c].tracker, r.guard = conn[c].guard,
               r.socket = conn[c].socket, r.answer = IF "answer" \in DOMAIN fields THEN fields.answer ELSE conn[c].answer
        PROVE  TaskSound(r)
    <3>1. r.answer = conn[c].answer
      BY <1>4, <2>1
    <3>. QED
      BY ONLY <1>0, <1>4, <2>1, <3>1 DEF TaskSound
  <2>. QED
    BY <1>4, <2>1, StageStep
<1>5. CASE ValidateDestination(c)
  <2>0. conn[c].stage \in {"validate", "demanded"} /\ conn[c].kind = "hbone" /\ conn[c].tracker = "none" /\ ~conn[c].guard
    BY <1>0, <1>5 DEF ValidateDestination, TaskSound
  <2>1. CASE Ends(c, "None", 400)
    BY <1>e, <2>0, <2>1, EndStep
  <2>2. ASSUME NEW st \in {"upstream", "demanded"}, Set(c, [stage |-> st]), metrics' = metrics
        PROVE  ReqInv'
    <3>1. PICK fields : fields = [stage |-> st]
      OBVIOUS
    <3>2. /\ "stage" \in DOMAIN fields /\ fields.stage = st
          /\ \A x \in {"kind", "tracker", "guard", "socket", "answer"} : x \notin DOMAIN fields
      BY <3>1
    <3>. QED
      BY <1>4, <2>0, <2>2, <3>1, <3>2
  <2>. QED
    BY <1>5, <2>1, <2>2 DEF ValidateDestination, EarlyDeny
<1>6. CASE FindInboundUpstream(c)
  <2>0. conn[c].stage = "upstream" /\ conn[c].kind = "hbone" /\ conn[c].tracker = "none" /\ ~conn[c].guard
    BY <1>0, <1>6 DEF FindInboundUpstream, TaskSound
  <2>1. CASE Ends(c, "None", 503)
    BY <1>e, <2>0, <2>1, EndStep
  <2>2. ASSUME NEW up, NEW hop, NEW ds, NEW checked, metrics' = metrics,
               Set(c, [stage |-> "source", up |-> up, hop |-> hop, ds |-> ds, checked |-> checked])
        PROVE  ReqInv'
    <3>1. PICK fields : fields = [stage |-> "source", up |-> up, hop |-> hop, ds |-> ds, checked |-> checked]
      OBVIOUS
    <3>2. /\ "stage" \in DOMAIN fields /\ fields.stage = "source"
          /\ \A x \in {"kind", "tracker", "guard", "socket", "answer"} : x \notin DOMAIN fields
      BY <3>1
    <3>. QED
      BY <1>4, <2>0, <2>2, <3>1, <3>2
  <2>. QED
    BY <1>6, <2>1, <2>2, Zenon DEF FindInboundUpstream, EarlyDeny
<1>7. CASE Plaintext(c)
  <2>0. conn[c].stage = "local" /\ conn[c].kind = "plain" /\ conn[c].tracker = "none" /\ ~conn[c].guard
    BY <1>0, <1>7 DEF Plaintext, TaskSound
  <2>1. CASE Ends(c, "None", Absent)
    BY <2>0, <2>1, EndStep
  <2>2. ASSUME NEW w, NEW hop, NEW checked, NEW ds, metrics' = metrics,
               Set(c, [local |-> w, stage |-> "source", hop |-> hop, checked |-> checked, ds |-> ds])
        PROVE  ReqInv'
    <3>1. PICK fields : fields = [local |-> w, stage |-> "source", hop |-> hop, checked |-> checked, ds |-> ds]
      OBVIOUS
    <3>2. /\ "stage" \in DOMAIN fields /\ fields.stage = "source"
          /\ \A x \in {"kind", "tracker", "guard", "socket", "answer"} : x \notin DOMAIN fields
      BY <3>1
    <3>. QED
      BY <1>4, <2>0, <2>2, <3>1, <3>2
  <2>. QED
    BY <1>7, <2>1, <2>2, Zenon DEF Plaintext, EarlyDeny
<1>8. CASE FetchSource(c)
  <2>0. conn[c].stage = "source" /\ conn[c].kind \in {"hbone", "plain"} /\ conn[c].tracker = "none" /\ ~conn[c].guard
    BY <1>0, <1>8 DEF FetchSource, TaskSound
  <2>1. PICK fields : fields = [stage |-> "admit", tracker |-> "live"]
    OBVIOUS
  <2>2. Set(c, fields) /\ metrics' = Opened(metrics)
    BY <1>8, <2>1 DEF FetchSource
  <2>3. /\ DOMAIN conn' = Conns /\ \A d \in Conns \ {c} : conn'[d] = conn[d]
        /\ \A x \in Fields : conn'[c][x] = IF x \in DOMAIN fields THEN fields[x] ELSE conn[c][x]
    BY <2>2, Merged
  <2>4. /\ conn'[c].stage = "admit" /\ conn'[c].kind = conn[c].kind /\ conn'[c].socket = conn[c].socket
        /\ conn'[c].tracker = "live" /\ conn'[c].guard = conn[c].guard /\ conn'[c].answer = conn[c].answer
    BY <2>1, <2>3 DEF Fields
  <2>5. TaskSound(conn'[c])
    BY ONLY <1>0, <2>0, <2>4 DEF TaskSound
  <2>. QED
    BY <2>0, <2>2, <2>3, <2>4, <2>5, OpenStep
<1>. QED
  BY <1>1, <1>2, <1>3, <1>5, <1>6, <1>7, <1>8

\* Admission, the connection and its ends.
LEMMA AdmissionSteps ==
    ASSUME ReqInv, NEW c \in Conns,
           \/ Admit(c) \/ Deny(c) \/ Connected(c) \/ ConnectFails(c) \/ Respond(c)
           \/ \E err \in {"None", "Io"} : CopyEnds(c, err)
           \/ PolicyCloses(c)
    PROVE  ReqInv'
<1>0. TaskSound(conn[c]) /\ Absent \notin Nat
  BY RequestsAssumption DEF ReqInv
<1>e. \A n \in {400, 401, 503} : n # Absent
  BY <1>0
<1>1. CASE Admit(c)
  <2>1. PICK fields : fields = [stage |-> "connect", guard |-> TRUE, tracker |-> "live"]
    OBVIOUS
  <2>2. Set(c, fields) /\ conn[c].stage = "admit" /\ metrics' = IF Outbound(c) THEN Opened(metrics) ELSE metrics
    BY <1>1, <2>1 DEF Admit
  <2>3. /\ DOMAIN conn' = Conns /\ \A d \in Conns \ {c} : conn'[d] = conn[d]
        /\ \A x \in Fields : conn'[c][x] = IF x \in DOMAIN fields THEN fields[x] ELSE conn[c][x]
    BY <2>2, Merged
  <2>4. /\ conn'[c].stage = "connect" /\ conn'[c].kind = conn[c].kind /\ conn'[c].socket = conn[c].socket
        /\ conn'[c].tracker = "live" /\ conn'[c].guard = TRUE /\ conn'[c].answer = conn[c].answer
    BY <2>1, <2>3 DEF Fields
  <2>5. TaskSound(conn'[c])
    BY ONLY <1>0, <2>2, <2>4 DEF TaskSound
  <2>6. CASE Outbound(c)
    <3>1. conn[c].tracker # "live" /\ metrics' = Opened(metrics)
      BY <1>0, <2>2, <2>6 DEF TaskSound, Outbound
    <3>. QED
      BY <2>3, <2>4, <2>5, <3>1, OpenStep
  <2>7. CASE ~Outbound(c)
    <3>1. conn[c].tracker = "live" /\ metrics' = metrics
      BY <1>0, <2>2, <2>7 DEF TaskSound, Outbound
    <3>2. /\ metrics' \in Counts /\ metrics'.failed <= metrics'.closed
          /\ metrics.opened \in Int /\ metrics.closed \in Int /\ metrics.sockets \in Int
      BY <3>1 DEF ReqInv, Counts
    <3>3. /\ metrics'.opened - metrics'.closed = (metrics.opened - metrics.closed)
               + (IF conn'[c].tracker = "live" THEN 1 ELSE 0) - (IF conn[c].tracker = "live" THEN 1 ELSE 0)
          /\ metrics'.sockets = metrics.sockets + (IF conn'[c].socket THEN 1 ELSE 0) - (IF conn[c].socket THEN 1 ELSE 0)
      BY ONLY <2>4, <3>1, <3>2
    <3>. QED
      BY <2>3, <2>5, <3>2, <3>3, TaskMoves
  <2>. QED
    BY <2>6, <2>7
<1>2. CASE Deny(c)
  <2>1. /\ conn[c].stage = "admit"
        /\ Ends(c, "AuthorizationPolicyRejection", IF conn[c].kind = "hbone" THEN 401 ELSE Absent)
    BY <1>2 DEF Deny
  <2>2. conn[c].kind = "hbone" => (IF conn[c].kind = "hbone" THEN 401 ELSE Absent) # Absent
    BY <1>e
  <2>. QED
    BY <2>1, <2>2, EndStep
<1>3. CASE Connected(c)
  <2>0. conn[c].stage = "connect"
    BY <1>3 DEF Connected
  <2>k. conn[c].tracker = "live" /\ conn[c].guard = TRUE
    BY <1>0, <2>0 DEF TaskSound
  <2>1. CASE conn[c].kind = "hbone"
    <3>1. PICK b : Set(c, [stage |-> "respond", bound |-> b]) /\ metrics' = metrics
      BY <1>3, <2>1 DEF Connected
    <3>2. PICK fields : fields = [stage |-> "respond", bound |-> b]
      OBVIOUS
    <3>3. /\ "stage" \in DOMAIN fields /\ fields.stage = "respond" /\ "answer" \notin DOMAIN fields
          /\ \A x \in {"kind", "tracker", "guard", "socket"} : x \notin DOMAIN fields
      BY <3>2
    <3>4. ASSUME NEW r, r.stage = fields.stage, r.kind = conn[c].kind, r.tracker = conn[c].tracker, r.guard = conn[c].guard,
                 r.socket = conn[c].socket, r.answer = IF "answer" \in DOMAIN fields THEN fields.answer ELSE conn[c].answer
          PROVE  TaskSound(r)
      BY ONLY <1>0, <2>0, <2>1, <2>k, <3>3, <3>4 DEF TaskSound
    <3>. QED
      BY <3>1, <3>2, <3>3, <3>4, StageStep
  <2>2. CASE conn[c].kind # "hbone"
    <3>1. PICK b : Set(c, [stage |-> "copy", bound |-> b]) /\ metrics' = metrics
      BY <1>3, <2>2 DEF Connected
    <3>k. conn[c].kind # "udp"
      BY <1>0, <2>0 DEF TaskSound
    <3>2. PICK fields : fields = [stage |-> "copy", bound |-> b]
      OBVIOUS
    <3>3. /\ "stage" \in DOMAIN fields /\ fields.stage = "copy" /\ "answer" \notin DOMAIN fields
          /\ \A x \in {"kind", "tracker", "guard", "socket"} : x \notin DOMAIN fields
      BY <3>2
    <3>4. ASSUME NEW r, r.stage = fields.stage, r.kind = conn[c].kind, r.tracker = conn[c].tracker, r.guard = conn[c].guard,
                 r.socket = conn[c].socket, r.answer = IF "answer" \in DOMAIN fields THEN fields.answer ELSE conn[c].answer
          PROVE  TaskSound(r)
      BY ONLY <1>0, <2>0, <2>2, <2>k, <3>k, <3>3, <3>4 DEF TaskSound
    <3>. QED
      BY <3>1, <3>2, <3>3, <3>4, StageStep
  <2>. QED
    BY <2>1, <2>2
<1>4. CASE ConnectFails(c)
  <2>1. PICK err : /\ conn[c].stage = "connect" /\ err # "None"
                   /\ Ends(c, err, IF conn[c].kind = "hbone" THEN 503 ELSE Absent)
    BY <1>4 DEF ConnectFails
  <2>2. conn[c].kind = "hbone" => (IF conn[c].kind = "hbone" THEN 503 ELSE Absent) # Absent
    BY <1>e
  <2>. QED
    BY <2>1, <2>2, EndStep
<1>5. CASE Respond(c)
  <2>0. conn[c].stage = "respond" /\ conn[c].kind = "hbone"
    BY <1>0, <1>5 DEF Respond, TaskSound
  <2>k. conn[c].tracker = "live" /\ conn[c].guard = TRUE
    BY <1>0, <2>0 DEF TaskSound
  <2>1. CASE Ends(c, "H2", Absent) /\ ~conn[c].socket
    <3>1. Absent \notin {401, 503}
      BY <1>e
    <3>. QED
      BY <2>0, <2>k, <2>1, <3>1, EndStep
  <2>2. CASE Set(c, [stage |-> "copy", answer |-> 200]) /\ metrics' = metrics
    <3>2. PICK fields : fields = [stage |-> "copy", answer |-> 200]
      OBVIOUS
    <3>3. /\ "stage" \in DOMAIN fields /\ fields.stage = "copy" /\ "answer" \in DOMAIN fields /\ fields.answer = 200
          /\ \A x \in {"kind", "tracker", "guard", "socket"} : x \notin DOMAIN fields
      BY <3>2
    <3>4. ASSUME NEW r, r.stage = fields.stage, r.kind = conn[c].kind, r.tracker = conn[c].tracker, r.guard = conn[c].guard,
                 r.socket = conn[c].socket, r.answer = IF "answer" \in DOMAIN fields THEN fields.answer ELSE conn[c].answer
          PROVE  TaskSound(r)
      BY ONLY <1>0, <2>0, <2>k, <3>3, <3>4 DEF TaskSound
    <3>. QED
      BY <2>2, <3>2, <3>3, <3>4, StageStep
  <2>. QED
    BY <1>5, <2>1, <2>2, Zenon DEF Respond
<1>6. ASSUME NEW err, CopyEnds(c, err)
      PROVE  ReqInv'
  <2>1. conn[c].stage = "copy" /\ Ends(c, err, Absent)
    BY <1>6 DEF CopyEnds
  <2>2. (conn[c].kind = "hbone" => conn[c].answer = 200) /\ 200 # Absent /\ Absent \notin {401, 503}
    BY <1>0, <2>1 DEF TaskSound
  <2>. QED
    BY <2>1, <2>2, EndStep
<1>7. CASE PolicyCloses(c)
  <2>1. PICK err : /\ conn[c].guard /\ Ends(c, err, Absent)
                   /\ conn[c].kind = "hbone" => err = "AuthorizationPolicyLateRejection"
    BY <1>7 DEF PolicyCloses, Outbound
  <2>2. conn[c].stage \notin {"idle", "end"} /\ Absent \notin {401, 503}
    BY <1>0, <2>1 DEF TaskSound
  <2>. QED
    BY <2>1, <2>2, EndStep
<1>. QED
  BY <1>1, <1>2, <1>3, <1>4, <1>5, <1>6, <1>7

\* The process starts without a connection.
LEMMA ReqInitial == ReqInit => ReqInv
<1>. SUFFICES ASSUME ReqInit PROVE ReqInv
  OBVIOUS
<1>1. conn = [c \in Conns |-> Idle] /\ metrics = [opened |-> 0, closed |-> 0, failed |-> 0, sockets |-> 0]
  BY DEF ReqInit
<1>2. TaskSound(Idle) /\ Idle.tracker = "none" /\ Idle.socket = FALSE
  BY RequestsAssumption DEF Idle, TaskSound
<1>3. Live = {} /\ Sockets = {}
  BY <1>1, <1>2 DEF Live, Sockets
<1>4. Cardinality(Live) = 0 /\ Cardinality(Sockets) = 0
  BY <1>3, FS_EmptySet
<1>5. metrics \in Counts /\ metrics.opened = 0 /\ metrics.closed = 0 /\ metrics.failed = 0 /\ metrics.sockets = 0
  BY <1>1 DEF Counts
<1>6. DOMAIN conn = Conns /\ \A c \in Conns : TaskSound(conn[c])
  BY <1>1, <1>2
<1>. QED
  BY <1>4, <1>5, <1>6 DEF ReqInv

\* A change of the store is only seen by the tasks.
LEMMA UpdateSound ==
    ASSUME ReqInv, NEW st, Update(st)
    PROVE  ReqInv'
<1>1. /\ conn' = [c \in Conns |-> IF Alive(c) THEN With(conn[c], [seen |-> conn[c].seen \cup {st}]) ELSE conn[c]]
      /\ metrics' = metrics
  BY DEF Update
<1>2. ASSUME NEW c \in Conns
      PROVE  /\ conn'[c].stage = conn[c].stage /\ conn'[c].kind = conn[c].kind /\ conn'[c].tracker = conn[c].tracker
             /\ conn'[c].guard = conn[c].guard /\ conn'[c].socket = conn[c].socket /\ conn'[c].answer = conn[c].answer
             /\ conn'[c].why = conn[c].why
  <2>1. PICK fields : fields = [seen |-> conn[c].seen \cup {st}]
    OBVIOUS
  <2>2. conn'[c] = conn[c] \/ conn'[c] = With(conn[c], fields)
    BY <1>1, <2>1
  <2>3. DOMAIN Idle = Fields /\ DOMAIN fields = {"seen"}
    BY <2>1 DEF Idle, Fields
  <2>. QED
    BY ONLY <2>2, <2>3 DEF With, Fields
<1>3. \A c \in Conns : TaskSound(conn'[c])
  <2>1. SUFFICES ASSUME NEW c \in Conns PROVE TaskSound(conn'[c])
    OBVIOUS
  <2>2. TaskSound(conn[c])
    BY DEF ReqInv
  <2>. QED
    BY <1>2, <2>2 DEF TaskSound
<1>4. Live' = Live /\ Sockets' = Sockets /\ DOMAIN conn' = Conns
  BY <1>1, <1>2 DEF Live, Sockets
<1>. QED
  BY <1>1, <1>3, <1>4, Zenon DEF ReqInv, TaskSound

\* Every step keeps ReqInv.
LEMMA ReqPreserved == ReqInv /\ [ReqNext]_reqVars => ReqInv'
<1>. SUFFICES ASSUME ReqInv, [ReqNext]_reqVars PROVE ReqInv'
  OBVIOUS
<1>1. CASE ReqNext
  <2>1. CASE \E st \in Stores : Update(st)
    BY <2>1, UpdateSound
  <2>2. ASSUME NEW c \in Conns,
               \/ \E kind \in DOMAIN Inputs : \E in \in Inputs[kind] : Accept(c, kind, in)
               \/ ConnectionEnds(c)
        PROVE  ReqInv'
    BY <2>2, AcceptSound, ConnectionEndsSound, Zenon
  <2>. QED
    BY <1>1, <2>1, <2>2, OutboundSteps, InboundSteps, AdmissionSteps, Zenon DEF ReqNext
<1>2. CASE UNCHANGED reqVars
  <2>1. conn' = conn /\ metrics' = metrics
    BY <1>2 DEF reqVars
  <2>2. Live' = Live /\ Sockets' = Sockets
    BY <2>1 DEF Live, Sockets
  <2>3. \A c \in Conns : TaskSound(conn'[c])
    BY <2>1 DEF ReqInv
  <2>. QED
    BY <2>1, <2>2, <2>3, Zenon DEF ReqInv, TaskSound
<1>. QED
  BY <1>1, <1>2

\* ReqInv is an invariant of any number of connections, whatever the store does.
THEOREM ReqInvariant == ReqSpec => []ReqInv
BY ReqInitial, ReqPreserved, PTL DEF ReqSpec

\* However connections end, they are counted as closed once if they were counted as
\* opened and their sockets are given back once.  An HBONE request is left without an
\* answer only if its connection is gone or the policies close it before the answer,
\* and a refused one that was counted is counted as failed (ConnectionResult,
\* SocketCloseGuard, serve_connect): Accounted, for any number of connections at once.
THEOREM ConnectionsAccounted == ReqSpec => []Accounted
<1>1. ReqInv => Accounted
  BY DEF ReqInv, Accounted, TaskSound, Live, Sockets
<1>. QED
  BY <1>1, ReqInvariant, PTL

-----------------------------------------------------------------------------
(* Where the connections go                                               *)

\* The stages in which nothing has been chosen yet.
Early == {"idle", "greeting", "local", "route", "tls", "request", "validate", "demanded", "upstream"}
\* The next hop has been chosen.
Late == {"source", "admit", "connect", "respond", "copy"}

\* SandwichedBy, of the record of a task.
Sandwiched(r) ==
    \E st \in r.seen : \E t \in st.workloads \cup Range(st.services) :
        /\ [net |-> Network, ip |-> r.in.authority.ip] \in
               (IF IsService(t) THEN t.vips ELSE {[net |-> t.net, ip |-> a] : a \in Range(t.ips)})
        /\ t.waypoint # Absent
        /\ \/ \E s \in Range(st.services) :
                 Local \in DOMAIN s.eps /\ t.waypoint.to \in {[host |-> s.host, ns |-> s.ns]} \cup s.vips
           \/ \E w \in st.workloads :
                 /\ r.in.dst \in Range(w.ips)
                 /\ t.waypoint.to \in {[host |-> w.host, ns |-> w.ns]} \cup {[ip |-> a, net |-> w.net] : a \in Range(w.ips)}

\* The gateway that the egress policies of the workload name for the target.
GatewayOf(r) == MatchEgressPolicy(r.local.egress, r.local.ns, [ip |-> r.in.ip, port |-> r.in.port]).gateway

\* The next hop is one the store had for that gateway (CoherentHop).
Coherent(r) ==
    \E st \in r.seen : \E w \in st.workloads :
        /\ r.hop.ip \in Range(w.ips) \/ (w.host # Absent /\ \E a \in Answers : r.hop.ip \in a)
        /\ \/ r.hop.port = GatewayOf(r).port /\ r.sans = {w.id}
           \/ \E s \in Range(st.services) :
                 /\ w.uid \in DOMAIN s.eps /\ TargetPort(s, w, GatewayOf(r).port) = r.hop.port
                 /\ r.sans = {w.id} \cup s.sans

\* The address that is connected to is the one that was checked.
Checked(r, cf) ==
    /\ r.proto # "HBONE" => r.hop.port = r.checked.port /\ r.hop.ip \in {r.checked.ip, "loopback"}
    /\ r.kind \in {"tcp", "socks"} /\ r.proto = "TCP" => ~SelfCall(r.local, r.hop)
    /\ r.kind = "plain" => r.hop.port \notin IllegalPorts
    /\ r.kind = "hbone" =>
         /\ r.hop.ip = IF ToLocalhost(cf, r.up) THEN "loopback" ELSE r.in.dst
         /\ r.ds # Absent => NamedService(r)
         /\ r.hop.port \in IllegalPorts => r.local.tunnel # Absent /\ r.local.tunnel.port = r.hop.port

\* The local workload is one that some state of the store held.
LocalKnown(w) == w.uid = Local /\ \E st \in Stores : w \in st.workloads

\* An HBONE request is one of the inputs, with an authority once that was checked.
HboneAsked(r) ==
    /\ "hbone" \in DOMAIN Inputs /\ r.in \in Inputs["hbone"]
    /\ r.stage \notin {"tls", "request"} => r.in.authority # Absent
\* The authority of the request was found to be for this workload.
Addressed(r) ==
    "ip" \in DOMAIN r.in.authority => r.in.authority.ip = r.in.dst \/ r.local.tunnel # Absent \/ Sandwiched(r)

\* What a task has decided at each stage, while the store is st.
RouteSound(r, st, cf) ==
    /\ r.stage \notin {"idle", "end"} => st \in r.seen /\ r.seen \subseteq Stores
    /\ r.stage \notin {"idle", "end"} /\ r.kind = "hbone" => HboneAsked(r)
    /\ r.stage \in Early \/ (r.stage # "end" /\ r.kind \in {"hbone", "plain"}) => r.proto # "HBONE"
    /\ r.stage \in {"resolve", "masque"} => r.proto = "HBONE"
    /\ r.stage \in {"validate", "demanded", "upstream"} => LocalKnown(r.local)
    /\ r.stage \in Late \cup {"upstream"} /\ r.kind = "hbone" => Addressed(r)
    /\ r.stage \in Late => Checked(r, cf)
    /\ r.stage \in {"respond", "copy"} /\ r.kind = "hbone" /\ r.hop.ip = "loopback" => r.bound # "client"
    /\ r.stage = "resolve" => \E s \in r.seen : r.up \in Waypoints(s, GatewayOf(r), r.local)
    /\ r.stage \in Late \cup {"masque"} /\ r.proto = "HBONE" => Coherent(r)

\* The inductive invariant of the routing.
RouteInv == ReqInv /\ store \in Stores /\ \A c \in Conns : RouteSound(conn[c], store, cfg)

-----------------------------------------------------------------------------
\* A set of numbers that is not empty has a smallest one.
LEMMA SmallestIndex ==
    ASSUME NEW S \in SUBSET Nat, S # {}
    PROVE  Min(S) \in S
<1> DEFINE R == {ss \in Nat \X Nat : ss[1] < ss[2]}
<1>1. IsWellFoundedOn(R, Nat)
  BY NatLessThanWellFounded DEF OpToRel
<1>2. \A n, m \in Nat : n < m => <<n, m>> \in R
  OBVIOUS
<1> HIDE DEF R
<1>3. PICK m \in S : \A n \in S : ~ (<<n, m>> \in R)
  BY <1>1, WFMin
<1>4. \A n \in S : m =< n
  <2>1. \A n \in S : ~ (n < m)
    BY <1>2, <1>3
  <2>. QED
    BY <2>1
<1>5. \E x \in S : \A y \in S : x =< y
  BY <1>4
<1>. QED
  BY <1>5, Zenon DEF Min

\* pick_workload_destination_or_resolve takes an address of the workload.
LEMMA PickedAddress ==
    ASSUME NEW up, NEW ip, up.w.ips \in Seq(Range(up.w.ips)), PickAddress(up, ip) # Absent
    PROVE  PickAddress(up, ip) \in Range(up.w.ips)
<1> DEFINE family == IF up.svc = Absent THEN Absent ELSE up.svc.family
           usable == {i \in DOMAIN up.w.ips : Accepts(family, up.w.ips[i])}
           same   == {i \in usable : SameFamily(up.w.ips[i], ip)}
<1>1. DOMAIN up.w.ips \subseteq Nat
  OBVIOUS
<1>2. usable \in SUBSET Nat /\ same \in SUBSET Nat
  BY <1>1
<1>3. \A i \in DOMAIN up.w.ips : up.w.ips[i] \in Range(up.w.ips)
  BY DEF Range
<1>4. same # {} => Min(same) \in same
  BY <1>2, SmallestIndex
<1>5. usable # {} => Min(usable) \in usable
  BY <1>2, SmallestIndex
<1>6. (same # {} => up.w.ips[Min(same)] \in Range(up.w.ips)) /\ (usable # {} => up.w.ips[Min(usable)] \in Range(up.w.ips))
  BY <1>3, <1>4, <1>5
<1>. QED
  BY <1>6 DEF PickAddress

\* What fetch_waypoint finds: a workload of the store with the port of the gateway,
\* or an endpoint of a service with the port that it maps to.
LEMMA WaypointsShape ==
    ASSUME NEW st \in Stores, NEW gateway, NEW src, NEW up \in Waypoints(st, gateway, src)
    PROVE  /\ up.w \in st.workloads
           /\ \/ up.svc = Absent /\ up.port = gateway.port
              \/ /\ up.svc \in Range(st.services) /\ up.w.uid \in DOMAIN up.svc.eps
                 /\ up.port = TargetPort(up.svc, up.w, gateway.port)
<1>1. ASSUME NEW svc \in Range(st.services), up \in UpstreamsOfService(st, src, gateway.port, svc)
      PROVE  up.w \in st.workloads /\ up.svc = svc /\ up.w.uid \in DOMAIN svc.eps /\ up.port = TargetPort(svc, up.w, gateway.port)
  <2>1. PICK w \in LoadBalance(st, src, svc, gateway.port) : up = [w |-> w, port |-> TargetPort(svc, w, gateway.port), svc |-> svc]
    BY <1>1 DEF UpstreamsOfService
  <2>2. w \in Endpoints(st, svc, gateway.port)
    BY DEF LoadBalance
  <2>. QED
    BY <2>1, <2>2 DEF Endpoints
<1>2. ASSUME NEW w \in st.workloads, up = [w |-> w, port |-> gateway.port, svc |-> Absent]
      PROVE  up.w \in st.workloads /\ up.svc = Absent /\ up.port = gateway.port
  BY <1>2
<1>3. CASE "ip" \in DOMAIN gateway.to
  <2>1. up \in FindUpstream(st, src, gateway.to, gateway.port)
    BY <1>3 DEF Waypoints
  <2>2. \/ \E svc \in ByVip(st, gateway.to) : up \in UpstreamsOfService(st, src, gateway.port, svc)
        \/ \E w \in WorkloadsAt(st, gateway.to) : up = [w |-> w, port |-> gateway.port, svc |-> Absent]
    BY <2>1 DEF FindUpstream
  <2>. QED
    BY <1>1, <1>2, <2>2 DEF ByVip, WorkloadsAt
<1>4. CASE "ip" \notin DOMAIN gateway.to
  <2>1. PICK x \in FindHostname(st, gateway.to.host, gateway.to.ns) :
           up \in IF IsService(x) THEN UpstreamsOfService(st, src, gateway.port, x)
                  ELSE {[w |-> x, port |-> gateway.port, svc |-> Absent]}
    BY <1>4 DEF Waypoints, FindDestination
  <2>2. x \in Range(st.services) \/ x \in st.workloads
    BY DEF FindHostname, ByNamespacedHost
  <2>3. (x \in Range(st.services) => IsService(x)) /\ (x \in st.workloads => ~IsService(x))
    BY StoresAssumption
  <2>4. CASE x \in Range(st.services)
    BY <1>1, <2>1, <2>3, <2>4
  <2>5. CASE x \in st.workloads
    BY <1>2, <2>1, <2>3, <2>5
  <2>. QED
    BY <2>2, <2>4, <2>5
<1>. QED
  BY <1>3, <1>4

\* lookup_is_destination_this_waypoint holds only of a target that names this workload
\* as its waypoint.
LEMMA WaypointNamesUs ==
    ASSUME NEW st \in Stores, NEW r, st \in r.seen, r.local.uid = Local,
           IsWaypointOf(st, r.local, r.in.dst, [net |-> Network, ip |-> r.in.authority.ip])
    PROVE  Sandwiched(r)
<1>1. PICK na : na = [net |-> Network, ip |-> r.in.authority.ip] /\ na.net = Network /\ na.ip = r.in.authority.ip
  OBVIOUS
<1>2. PICK t \in FindAddress(st, na) :
         /\ t.waypoint # Absent
         /\ \E y \in FindDestination(st, t.waypoint.to) :
               IF IsService(y) THEN Local \in DOMAIN y.eps ELSE r.in.dst \in Range(y.ips)
  BY <1>1 DEF IsWaypointOf
<1>3. /\ t \in st.workloads \cup Range(st.services)
      /\ na \in IF IsService(t) THEN t.vips ELSE {[net |-> t.net, ip |-> a] : a \in Range(t.ips)}
  <2>1. CASE t \in WorkloadsAt(st, na)
    <3>1. t \in st.workloads /\ na.ip \in Range(t.ips) /\ na.net = t.net
      BY <2>1 DEF WorkloadsAt
    <3>2. ~IsService(t)
      BY <3>1, StoresAssumption
    <3>3. na = [net |-> t.net, ip |-> na.ip]
      BY <1>1, <3>1
    <3>. QED
      BY <3>1, <3>2, <3>3
  <2>2. CASE t \in ByVip(st, na)
    <3>1. t \in Range(st.services) /\ na \in t.vips
      BY <2>2 DEF ByVip
    <3>. QED
      BY <3>1, StoresAssumption
  <2>. QED
    BY <2>1, <2>2 DEF FindAddress
<1>4. PICK d : d = t.waypoint.to
  OBVIOUS
<1>5. d = IF "ip" \in DOMAIN d THEN [ip |-> d.ip, net |-> d.net] ELSE [host |-> d.host, ns |-> d.ns]
  BY <1>2, <1>3, <1>4, StoresAssumption
<1>6. PICK y \in FindDestination(st, d) : IF IsService(y) THEN Local \in DOMAIN y.eps ELSE r.in.dst \in Range(y.ips)
  BY <1>2, <1>4
<1>7. \/ /\ y \in Range(st.services)
         /\ d \in {[host |-> y.host, ns |-> y.ns]} \cup y.vips
      \/ /\ y \in st.workloads
         /\ d \in {[host |-> y.host, ns |-> y.ns]} \cup {[ip |-> a, net |-> y.net] : a \in Range(y.ips)}
  <2>1. CASE "ip" \in DOMAIN d
    <3>1. y \in FindAddress(st, d) /\ d = [ip |-> d.ip, net |-> d.net]
      BY <1>5, <2>1 DEF FindDestination
    <3>2. \/ y \in Range(st.services) /\ d \in y.vips
          \/ y \in st.workloads /\ d.ip \in Range(y.ips) /\ d.net = y.net
      BY <3>1 DEF FindAddress, WorkloadsAt, ByVip
    <3>. QED
      BY <3>1, <3>2
  <2>2. CASE "ip" \notin DOMAIN d
    <3>1. y \in FindHostname(st, d.host, d.ns) /\ d = [host |-> d.host, ns |-> d.ns]
      BY <1>5, <2>2 DEF FindDestination
    <3>2. (y \in Range(st.services) \/ y \in st.workloads) /\ y.host = d.host /\ y.ns = d.ns
      BY <3>1 DEF FindHostname, ByNamespacedHost
    <3>. QED
      BY <3>1, <3>2
  <2>. QED
    BY <2>1, <2>2
<1>8. (y \in Range(st.services) => IsService(y)) /\ (y \in st.workloads => ~IsService(y))
  BY StoresAssumption
<1>9. \/ \E s \in Range(st.services) : Local \in DOMAIN s.eps /\ d \in {[host |-> s.host, ns |-> s.ns]} \cup s.vips
      \/ \E w \in st.workloads :
            /\ r.in.dst \in Range(w.ips)
            /\ d \in {[host |-> w.host, ns |-> w.ns]} \cup {[ip |-> a, net |-> w.net] : a \in Range(w.ips)}
  BY <1>6, <1>7, <1>8
<1>. QED
  BY <1>1, <1>2, <1>3, <1>4, <1>9 DEF Sandwiched

\* The upstream of an inbound request stays on the address it arrived at, and its
\* port is one of ztunnel only where the workload's own tunnel is.
LEMMA InboundUpstreamsShape ==
    ASSUME NEW st, NEW local, NEW dst, NEW authority, NEW up \in InboundUpstreams(st, local, dst, authority), "err" \notin DOMAIN up
    PROVE  up.ip = dst /\ (up.port \in IllegalPorts => local.tunnel # Absent /\ local.tunnel.port = up.port)
<1> DEFINE svc == IF "ip" \in DOMAIN authority THEN Absent ELSE GetBestByHost(st, authority.host, local.ns)
           port == InboundPort(svc, local, authority)
           tunnelled == IF local.tunnel.port = Absent THEN port ELSE local.tunnel.port
           targets == IF svc = Absent THEN {authority}
                      ELSE {[ip |-> v.ip, port |-> authority.port] : v \in TunnelVips(svc)}
<1> HIDE DEF svc, port, targets
<1>1. ASSUME NEW e, up \in {[err |-> e]}
      PROVE  FALSE
  BY <1>1
<1>2. up \in (IF "host" \in DOMAIN authority /\ svc = Absent THEN {[err |-> "NoHostname"]}
             ELSE IF "host" \in DOMAIN authority /\ port = 0 THEN {[err |-> "NoPort"]}
             ELSE IF port \in IllegalPorts THEN {[err |-> "SelfCall"]}
             ELSE IF local.tunnel = Absent THEN {[ip |-> dst, port |-> port, tunnel |-> Absent]}
             ELSE IF targets = {} THEN {[err |-> "NoIP"]}
             ELSE {[ip |-> dst, port |-> tunnelled, tunnel |-> [target |-> t, proxy |-> local.tunnel.proxy]] : t \in targets})
  BY DEF InboundUpstreams, svc, port, targets
<1>3. /\ port \notin IllegalPorts
      /\ \/ local.tunnel = Absent /\ up = [ip |-> dst, port |-> port, tunnel |-> Absent]
         \/ /\ local.tunnel # Absent
            /\ \E t \in targets : up = [ip |-> dst, port |-> tunnelled, tunnel |-> [target |-> t, proxy |-> local.tunnel.proxy]]
  BY ONLY <1>1, <1>2
<1>4. up.ip = dst /\ (local.tunnel = Absent => up.port = port) /\ (local.tunnel # Absent => up.port = tunnelled)
  BY <1>3
<1>. QED
  BY <1>3, <1>4

\* The step of one task leaves the routes of the others alone.
LEMMA RouteMoves ==
    ASSUME RouteInv, ReqInv', NEW c \in Conns, \A d \in Conns \ {c} : conn'[d] = conn[d], store' = store, cfg' = cfg,
           RouteSound(conn'[c], store, cfg)
    PROVE  RouteInv'
<1>1. \A d \in Conns : RouteSound(conn'[d], store', cfg')
  BY DEF RouteInv
<1>. QED
  BY <1>1 DEF RouteInv

\* What the route of a task depends on.
SameRoute(r, q) ==
    /\ q.kind = r.kind /\ q.in = r.in /\ q.local = r.local /\ q.up = r.up /\ q.hop = r.hop /\ q.checked = r.checked
    /\ q.sans = r.sans /\ q.proto = r.proto /\ q.ds = r.ds /\ q.bound = r.bound /\ q.seen = r.seen

\* A task goes on with the route it has.
LEMMA RouteStays ==
    ASSUME NEW r, NEW q, NEW st, NEW cf, RouteSound(r, st, cf), SameRoute(r, q),
           \/ q.stage = r.stage \/ q.stage = "end"
           \/ r.stage = "greeting" /\ q.stage = "local" /\ r.kind = "socks"
           \/ r.stage = "tls" /\ q.stage = "request"
           \/ r.stage = "request" /\ q.stage = "local" /\ r.in.authority # Absent
           \/ r.stage = "validate" /\ q.stage = "demanded"
           \/ r.stage \in {"validate", "demanded"} /\ q.stage = "upstream" /\ Addressed(r)
           \/ r.stage = "source" /\ q.stage = "admit"
           \/ r.stage = "admit" /\ q.stage = "connect"
           \/ r.stage = "respond" /\ q.stage = "copy"
           \/ r.stage = "masque" /\ q.stage = "copy" /\ r.kind = "udp"
    PROVE  RouteSound(q, st, cf)
<1>1. Sandwiched(q) <=> Sandwiched(r)
  BY DEF Sandwiched, SameRoute
<1>2. Addressed(q) <=> Addressed(r)
  BY <1>1 DEF Addressed, SameRoute
<1>3. GatewayOf(q) = GatewayOf(r)
  BY DEF GatewayOf, SameRoute
<1>4. Coherent(q) <=> Coherent(r)
  BY <1>3 DEF Coherent, SameRoute
<1>n. NamedService(q) <=> NamedService(r)
  BY DEF NamedService, SameRoute
<1>5. Checked(q, cf) <=> Checked(r, cf)
  BY <1>n DEF Checked, SameRoute
<1>6. q.kind = "hbone" /\ q.stage \notin {"idle", "end"} => HboneAsked(q)
  BY DEF HboneAsked, SameRoute, RouteSound
<1>7. q.stage \in Late => Checked(q, cf)
  <2>1. r.stage = "masque" => (r.kind = "udp" /\ r.proto = "HBONE") \/ q.stage \notin Late
    BY DEF RouteSound, Late
  <2>2. r.kind = "udp" /\ r.proto = "HBONE" => Checked(r, cf)
    BY DEF Checked
  <2>. QED
    BY <1>5, <2>1, <2>2 DEF RouteSound, Late
<1>8. q.stage \in Late \cup {"masque"} /\ q.proto = "HBONE" => Coherent(q)
  BY <1>4 DEF RouteSound, SameRoute, Late
<1>9. q.stage \in Late \cup {"upstream"} /\ q.kind = "hbone" => Addressed(q)
  BY <1>2 DEF RouteSound, SameRoute, Late
<1>10. q.stage = "resolve" => \E s \in q.seen : q.up \in Waypoints(s, GatewayOf(q), q.local)
  BY <1>3 DEF RouteSound, SameRoute
<1>11. /\ q.stage \notin {"idle", "end"} => st \in q.seen /\ q.seen \subseteq Stores
       /\ q.stage \in Early \/ (q.stage # "end" /\ q.kind \in {"hbone", "plain"}) => q.proto # "HBONE"
       /\ q.stage \in {"resolve", "masque"} => q.proto = "HBONE"
       /\ q.stage \in {"validate", "demanded", "upstream"} => LocalKnown(q.local)
       /\ q.stage \in {"respond", "copy"} /\ q.kind = "hbone" /\ q.hop.ip = "loopback" => q.bound # "client"
  BY DEF RouteSound, SameRoute, Early
<1>. QED
  BY <1>6, <1>7, <1>8, <1>9, <1>10, <1>11 DEF RouteSound

\* get_workload
LEMMA RouteLocal ==
    ASSUME NEW r, NEW q, NEW st \in Stores, NEW cf, RouteSound(r, st, cf), r.stage = "local", q.stage \in {"route", "validate"},
           q.kind = r.kind, q.in = r.in, q.proto = r.proto, q.seen = r.seen, q.local \in st.workloads, q.local.uid = Local
    PROVE  RouteSound(q, st, cf)
<1>1. LocalKnown(q.local)
  BY DEF LocalKnown
<1>2. q.kind = "hbone" => HboneAsked(q)
  BY DEF HboneAsked, RouteSound
<1>3. st \in q.seen /\ q.seen \subseteq Stores /\ q.proto # "HBONE"
  BY DEF RouteSound, Early
<1>. QED
  BY ONLY <1>1, <1>2, <1>3, q.stage \in {"route", "validate"} DEF RouteSound, Late, Early

\* build_request for a target without a gateway.
LEMMA RoutePassthrough ==
    ASSUME NEW r, NEW q, NEW st, NEW cf, RouteSound(r, st, cf), r.stage = "route", q.stage = "admit",
           q.kind = r.kind, r.kind \in {"tcp", "socks"}, q.seen = r.seen, q.proto = "TCP", q.checked = q.hop, ~SelfCall(q.local, q.hop)
    PROVE  RouteSound(q, st, cf)
<1>1. Checked(q, cf)
  BY DEF Checked
<1>2. st \in q.seen /\ q.seen \subseteq Stores
  BY DEF RouteSound
<1>. QED
  BY ONLY <1>1, <1>2, q.stage = "admit", q.kind = r.kind, r.kind \in {"tcp", "socks"}, q.proto = "TCP" DEF RouteSound, Late, Early

\* build_request for a target with a gateway.
LEMMA RouteGateway ==
    ASSUME NEW r, NEW q, NEW st, NEW cf, RouteSound(r, st, cf), r.stage = "route", q.stage = "resolve",
           q.kind = r.kind, r.kind \in {"tcp", "udp", "socks"}, q.seen = r.seen, q.proto = "HBONE",
           q.up \in Waypoints(st, GatewayOf(q), q.local)
    PROVE  RouteSound(q, st, cf)
<1>1. st \in q.seen /\ q.seen \subseteq Stores
  BY DEF RouteSound
<1>2. \E s \in q.seen : q.up \in Waypoints(s, GatewayOf(q), q.local)
  BY <1>1
<1>. QED
  BY ONLY <1>1, <1>2, q.stage = "resolve", q.kind = r.kind, r.kind \in {"tcp", "udp", "socks"}, q.proto = "HBONE" DEF RouteSound, Late, Early

\* finalize_upstream
LEMMA RouteResolved ==
    ASSUME NEW r, NEW q, NEW st, NEW cf, RouteSound(r, st, cf), r.stage = "resolve", q.stage \in {"masque", "admit"},
           q.kind = r.kind, r.kind \in {"tcp", "udp", "socks"}, q.seen = r.seen, q.proto = r.proto, q.in = r.in, q.local = r.local,
           NEW family, q.hop.port = r.up.port, q.sans = Sans(r.up),
           \/ PickAddress(r.up, family) # Absent /\ q.hop.ip = PickAddress(r.up, family)
           \/ r.up.w.host # Absent /\ \E a \in Answers : q.hop.ip \in a
    PROVE  RouteSound(q, st, cf)
<1>1. st \in q.seen /\ q.seen \subseteq Stores /\ q.proto = "HBONE" /\ GatewayOf(q) = GatewayOf(r)
  BY DEF RouteSound, GatewayOf
<1>2. PICK s \in q.seen : r.up \in Waypoints(s, GatewayOf(q), q.local)
  BY <1>1 DEF RouteSound
<1>3. s \in Stores
  BY <1>1
<1>4. /\ r.up.w \in s.workloads
      /\ \/ r.up.svc = Absent /\ r.up.port = GatewayOf(q).port
         \/ /\ r.up.svc \in Range(s.services) /\ r.up.w.uid \in DOMAIN r.up.svc.eps
            /\ r.up.port = TargetPort(r.up.svc, r.up.w, GatewayOf(q).port)
  BY ONLY <1>2, <1>3, WaypointsShape
<1>5. q.hop.ip \in Range(r.up.w.ips) \/ (r.up.w.host # Absent /\ \E a \in Answers : q.hop.ip \in a)
  <2>1. r.up.w.ips \in Seq(Range(r.up.w.ips))
    BY <1>3, <1>4, StoresAssumption
  <2>. QED
    BY <2>1, PickedAddress
<1>6. \/ q.hop.port = GatewayOf(q).port /\ q.sans = {r.up.w.id}
      \/ \E x \in Range(s.services) :
            /\ r.up.w.uid \in DOMAIN x.eps /\ TargetPort(x, r.up.w, GatewayOf(q).port) = q.hop.port
            /\ q.sans = {r.up.w.id} \cup x.sans
  <2>1. CASE r.up.svc = Absent
    <3>1. Absent \notin Range(s.services)
      BY <1>3, StoresAssumption
    <3>. QED
      BY <1>4, <2>1, <3>1 DEF Sans
  <2>2. CASE r.up.svc # Absent
    <3>1. q.sans = {r.up.w.id} \cup r.up.svc.sans
      BY <2>2 DEF Sans
    <3>. QED
      BY <1>4, <2>2, <3>1
  <2>. QED
    BY <2>1, <2>2
<1>7. Coherent(q)
  BY <1>4, <1>5, <1>6 DEF Coherent
<1>8. Checked(q, cf)
  BY <1>1 DEF Checked
<1>. QED
  BY ONLY <1>1, <1>7, <1>8, q.stage \in {"masque", "admit"}, q.kind = r.kind, r.kind \in {"tcp", "udp", "socks"}
     DEF RouteSound, Late, Early

\* guess_inbound_service names the service of the hostname, or one that the workload
\* lists.
LEMMA GuessedService ==
    ASSUME NEW st, NEW w, LocalKnown(w), NEW authority, NEW host, NEW port,
           NEW ds \in Guesses(InboundServices(st, w, authority), w, host, port), ds # Absent
    PROVE  IF "host" \in DOMAIN authority
           THEN LET s == GetBestByHost(st, authority.host, w.ns) IN s # Absent /\ ds = [host |-> s.host, ns |-> s.ns]
           ELSE ds \in w.services
<1>1. PICK s \in InboundServices(st, w, authority) : ds = [host |-> s.host, ns |-> s.ns]
  BY DEF Guesses, GuessInboundService
<1>2. CASE "host" \in DOMAIN authority
  <2>1. s = GetBestByHost(st, authority.host, w.ns) /\ s # Absent
    BY <1>2 DEF InboundServices
  <2>. QED
    BY <1>1, <1>2, <2>1
<1>3. CASE "host" \notin DOMAIN authority
  <2>1. s \in ServicesOf(st, w)
    BY <1>3 DEF InboundServices
  <2>2. PICK n \in w.services : s.host = n.host /\ s.ns = n.ns
    BY <2>1 DEF ServicesOf, ByNamespacedHost
  <2>3. n = [host |-> n.host, ns |-> n.ns]
    BY StoresAssumption DEF LocalKnown
  <2>. QED
    BY <1>1, <1>3, <2>2, <2>3
<1>. QED
  BY <1>2, <1>3

\* find_inbound_upstream
LEMMA RouteInbound ==
    ASSUME NEW r, NEW q, NEW st, NEW cf, RouteSound(r, st, cf), r.stage = "upstream", q.stage = "source",
           q.kind = r.kind, r.kind = "hbone", q.seen = r.seen, q.proto = r.proto, q.in = r.in, q.local = r.local,
           q.up.ip = q.in.dst, q.checked.ip = q.up.ip, q.checked.port = q.up.port, q.hop.port = q.up.port,
           q.hop.ip = IF ToLocalhost(cf, q.up) THEN "loopback" ELSE q.up.ip,
           q.ds # Absent => NamedService(q),
           q.up.port \in IllegalPorts => q.local.tunnel # Absent /\ q.local.tunnel.port = q.up.port
    PROVE  RouteSound(q, st, cf)
<1>1. st \in q.seen /\ q.seen \subseteq Stores /\ q.proto # "HBONE"
  BY DEF RouteSound, Early
<1>2. HboneAsked(q)
  BY DEF RouteSound, HboneAsked
<1>3. Sandwiched(q) <=> Sandwiched(r)
  BY DEF Sandwiched
<1>4. Addressed(q)
  BY <1>3 DEF RouteSound, Addressed
<1>5. Checked(q, cf)
  BY DEF Checked
<1>. QED
  BY ONLY <1>1, <1>2, <1>4, <1>5, q.stage = "source" DEF RouteSound, Late, Early

\* proxy_inbound_plaintext
LEMMA RoutePlain ==
    ASSUME NEW r, NEW q, NEW st, NEW cf, RouteSound(r, st, cf), r.stage = "local", q.stage = "source",
           q.kind = r.kind, r.kind = "plain", q.seen = r.seen, q.proto = r.proto, q.checked = q.hop, q.hop.port \notin IllegalPorts
    PROVE  RouteSound(q, st, cf)
<1>1. st \in q.seen /\ q.seen \subseteq Stores /\ q.proto # "HBONE"
  BY DEF RouteSound, Early
<1>2. Checked(q, cf)
  BY DEF Checked
<1>. QED
  BY ONLY <1>1, <1>2, q.stage = "source", q.kind = r.kind, r.kind = "plain" DEF RouteSound, Late, Early

\* freebind_connect: what goes to the loopback address is not bound to the client's.
LEMMA RouteBound ==
    ASSUME NEW r, NEW q, NEW st, NEW cf, RouteSound(r, st, cf), r.stage = "connect", q.stage \in {"respond", "copy"},
           q.kind = r.kind, q.in = r.in, q.local = r.local, q.up = r.up, q.hop = r.hop, q.checked = r.checked,
           q.sans = r.sans, q.proto = r.proto, q.ds = r.ds, q.seen = r.seen,
           q.kind = "hbone" => q.bound \in FreebindConnect(InboundSource(cf, q.up, "client"), q.hop.ip)
    PROVE  RouteSound(q, st, cf)
<1>1. Sandwiched(q) <=> Sandwiched(r)
  BY DEF Sandwiched
<1>2. Addressed(q) <=> Addressed(r)
  BY <1>1 DEF Addressed
<1>3. GatewayOf(q) = GatewayOf(r)
  BY DEF GatewayOf
<1>4. Coherent(q) <=> Coherent(r)
  BY <1>3 DEF Coherent
<1>n. NamedService(q) <=> NamedService(r)
  BY DEF NamedService
<1>5. Checked(q, cf) <=> Checked(r, cf)
  BY <1>n DEF Checked
<1>6. q.kind = "hbone" => HboneAsked(q)
  BY DEF HboneAsked, RouteSound
<1>7. q.kind = "hbone" /\ q.hop.ip = "loopback" => q.bound # "client"
  <2>. SUFFICES ASSUME q.kind = "hbone", q.hop.ip = "loopback" PROVE q.bound # "client"
    OBVIOUS
  <2>1. Checked(q, cf)
    BY <1>5 DEF RouteSound, Late
  <2>2. q.in.dst # "loopback"
    BY <1>6, RequestsAssumption DEF HboneAsked
  <2>3. ToLocalhost(cf, q.up)
    BY <2>1, <2>2 DEF Checked
  <2>4. q.bound \in FreebindConnect("loopback", "loopback")
    BY <2>3 DEF InboundSource
  <2>5. Absent # "client"
    BY RequestsAssumption
  <2>. QED
    BY <2>4, <2>5 DEF FreebindConnect
<1>8. /\ st \in q.seen /\ q.seen \subseteq Stores
      /\ q.kind \in {"hbone", "plain"} => q.proto # "HBONE"
      /\ q.kind = "hbone" => Addressed(q)
      /\ Checked(q, cf)
      /\ q.proto = "HBONE" => Coherent(q)
  BY <1>2, <1>4, <1>5 DEF RouteSound, Late
<1>. QED
  BY ONLY <1>6, <1>7, <1>8, q.stage \in {"respond", "copy"} DEF RouteSound, Late, Early

\* A connection is accepted.
LEMMA RouteAccepted ==
    ASSUME NEW r, NEW q, NEW st \in Stores, NEW cf, RouteSound(r, st, cf), r.stage = "idle", q.stage \in {"local", "greeting", "tls"},
           q.kind \in DOMAIN Inputs, q.in \in Inputs[q.kind], q.seen = {st}, q.proto = r.proto, q.kind = "hbone" <=> q.stage = "tls"
    PROVE  RouteSound(q, st, cf)
<1>1. st \in q.seen /\ q.seen \subseteq Stores /\ q.proto # "HBONE"
  BY DEF RouteSound, Early
<1>2. q.kind = "hbone" => HboneAsked(q)
  BY DEF HboneAsked
<1>. QED
  BY ONLY <1>1, <1>2, q.stage \in {"local", "greeting", "tls"} DEF RouteSound, Late, Early

\* The store changes: what a task has decided stays true of what it has seen.
LEMMA RouteSeen ==
    ASSUME NEW r, NEW q, NEW st, NEW now \in Stores, NEW cf, RouteSound(r, st, cf), r.stage \notin {"idle", "end"}, q.stage = r.stage,
           q.kind = r.kind, q.in = r.in, q.local = r.local, q.up = r.up, q.hop = r.hop, q.checked = r.checked,
           q.sans = r.sans, q.proto = r.proto, q.ds = r.ds, q.bound = r.bound, q.seen = r.seen \cup {now}
    PROVE  RouteSound(q, now, cf)
<1>1. Sandwiched(r) => Sandwiched(q)
  BY DEF Sandwiched
<1>2. Addressed(r) => Addressed(q)
  BY <1>1 DEF Addressed
<1>3. GatewayOf(q) = GatewayOf(r)
  BY DEF GatewayOf
<1>4. Coherent(r) => Coherent(q)
  BY <1>3 DEF Coherent
<1>n. NamedService(r) => NamedService(q)
  BY DEF NamedService
<1>5. Checked(r, cf) => Checked(q, cf)
  BY <1>n DEF Checked
<1>6. q.kind = "hbone" => HboneAsked(q)
  BY DEF HboneAsked, RouteSound
<1>7. now \in q.seen /\ q.seen \subseteq Stores
  BY DEF RouteSound
<1>8. q.stage = "resolve" => \E s \in q.seen : q.up \in Waypoints(s, GatewayOf(q), q.local)
  BY <1>3 DEF RouteSound
<1>9. /\ q.stage \in Late \cup {"upstream"} /\ q.kind = "hbone" => Addressed(q)
      /\ q.stage \in Late => Checked(q, cf)
      /\ q.stage \in Late \cup {"masque"} /\ q.proto = "HBONE" => Coherent(q)
  BY <1>2, <1>4, <1>5 DEF RouteSound
<1>10. /\ q.stage \in Early \/ (q.stage # "end" /\ q.kind \in {"hbone", "plain"}) => q.proto # "HBONE"
       /\ q.stage \in {"resolve", "masque"} => q.proto = "HBONE"
       /\ q.stage \in {"validate", "demanded", "upstream"} => LocalKnown(q.local)
       /\ q.stage \in {"respond", "copy"} /\ q.kind = "hbone" /\ q.hop.ip = "loopback" => q.bound # "client"
  BY DEF RouteSound
<1>. QED
  BY ONLY <1>6, <1>7, <1>8, <1>9, <1>10 DEF RouteSound

\* A step that sets fields of one task, with the route of that task.
LEMMA SetRoutes ==
    ASSUME RouteInv, ReqInv', NEW c \in Conns, NEW fields, Set(c, fields), store' = store, cfg' = cfg,
           \A q : (\A x \in Fields : q[x] = IF x \in DOMAIN fields THEN fields[x] ELSE conn[c][x]) => RouteSound(q, store, cfg)
    PROVE  RouteInv'
<1>1. ReqInv
  BY DEF RouteInv
<1>2. /\ DOMAIN conn' = Conns /\ \A d \in Conns \ {c} : conn'[d] = conn[d]
      /\ \A x \in Fields : conn'[c][x] = IF x \in DOMAIN fields THEN fields[x] ELSE conn[c][x]
  BY <1>1, Merged
<1>3. RouteSound(conn'[c], store, cfg)
  BY <1>2, Zenon
<1>. QED
  BY <1>2, <1>3, RouteMoves

\* A task whose route stays.
LEMMA StageRoutes ==
    ASSUME RouteInv, ReqInv', NEW c \in Conns, NEW fields, Set(c, fields), store' = store, cfg' = cfg,
           \A x \in {"kind", "in", "local", "up", "hop", "checked", "sans", "proto", "ds", "bound", "seen"} : x \notin DOMAIN fields,
           LET r == conn[c]
               stage == IF "stage" \in DOMAIN fields THEN fields.stage ELSE r.stage
           IN \/ stage = r.stage \/ stage = "end"
              \/ r.stage = "greeting" /\ stage = "local" /\ r.kind = "socks"
              \/ r.stage = "tls" /\ stage = "request"
              \/ r.stage = "request" /\ stage = "local" /\ r.in.authority # Absent
              \/ r.stage = "validate" /\ stage = "demanded"
              \/ r.stage \in {"validate", "demanded"} /\ stage = "upstream" /\ Addressed(r)
              \/ r.stage = "source" /\ stage = "admit"
              \/ r.stage = "admit" /\ stage = "connect"
              \/ r.stage = "respond" /\ stage = "copy"
              \/ r.stage = "masque" /\ stage = "copy" /\ r.kind = "udp"
    PROVE  RouteInv'
<1>1. PICK r, stage : r = conn[c] /\ stage = IF "stage" \in DOMAIN fields THEN fields.stage ELSE r.stage
  OBVIOUS
<1>2. RouteSound(r, store, cfg)
  BY <1>1 DEF RouteInv
<1>3. ASSUME NEW q, \A x \in Fields : q[x] = IF x \in DOMAIN fields THEN fields[x] ELSE r[x]
      PROVE  RouteSound(q, store, cfg)
  <2>1. SameRoute(r, q) /\ q.stage = stage
    BY ONLY <1>1, <1>3, \A x \in {"kind", "in", "local", "up", "hop", "checked", "sans", "proto", "ds", "bound", "seen"} : x \notin DOMAIN fields
       DEF Fields, SameRoute
  <2>2. \/ stage = r.stage \/ stage = "end"
        \/ r.stage = "greeting" /\ stage = "local" /\ r.kind = "socks"
        \/ r.stage = "tls" /\ stage = "request"
        \/ r.stage = "request" /\ stage = "local" /\ r.in.authority # Absent
        \/ r.stage = "validate" /\ stage = "demanded"
        \/ r.stage \in {"validate", "demanded"} /\ stage = "upstream" /\ Addressed(r)
        \/ r.stage = "source" /\ stage = "admit"
        \/ r.stage = "admit" /\ stage = "connect"
        \/ r.stage = "respond" /\ stage = "copy"
        \/ r.stage = "masque" /\ stage = "copy" /\ r.kind = "udp"
    BY <1>1
  <2>. QED
    BY ONLY <1>2, <2>1, <2>2, RouteStays
<1>. QED
  BY ONLY <1>1, <1>3, SetRoutes, RouteInv, ReqInv', c \in Conns, Set(c, fields), store' = store, cfg' = cfg

\* A task that returns has no route any more.
LEMMA EndRoutes ==
    ASSUME RouteInv, ReqInv', NEW c \in Conns, NEW err, NEW code, Ends(c, err, code)
    PROVE  RouteInv'
<1>1. PICK tracker, answer, socket : /\ Set(c, [stage |-> "end", tracker |-> tracker, guard |-> FALSE, why |-> err, answer |-> answer,
                                                 socket |-> socket])
                                     /\ store' = store /\ cfg' = cfg
  BY DEF Ends
<1>2. PICK fields : fields = [stage |-> "end", tracker |-> tracker, guard |-> FALSE, why |-> err, answer |-> answer, socket |-> socket]
  OBVIOUS
<1>3. /\ "stage" \in DOMAIN fields /\ fields.stage = "end"
      /\ \A x \in {"kind", "in", "local", "up", "hop", "checked", "sans", "proto", "ds", "bound", "seen"} : x \notin DOMAIN fields
  BY <1>2
<1>. QED
  BY <1>1, <1>2, <1>3, StageRoutes

\* The steps of an outbound connection up to its admission.
LEMMA OutboundRoutes ==
    ASSUME RouteInv, ReqInv', NEW c \in Conns,
           \/ Cancel(c) \/ GetWorkloadTimesOut(c)
           \/ Negotiate(c) \/ OutLocal(c) \/ SandboxForConnection(c) \/ BuildRequest(c) \/ Resolve(c) \/ ConnectUdp(c)
    PROVE  RouteInv'
<1>0. PICK r : r = conn[c]
  OBVIOUS
<1>1. RouteSound(r, store, cfg) /\ TaskSound(r) /\ store \in Stores
  BY <1>0 DEF RouteInv, ReqInv
<1>2. CASE \E err, code : Ends(c, err, code)
  BY <1>2, EndRoutes
<1>3. CASE Negotiate(c)
  <2>1. CASE SocksAnswer(conn[c].in) # 0
    BY <1>2, <1>3, <2>1 DEF Negotiate, EarlyDeny
  <2>2. CASE ~(SocksAnswer(conn[c].in) # 0)
    <3>1. PICK fields : fields = [stage |-> "local", answer |-> 0]
      OBVIOUS
    <3>2. Set(c, fields) /\ store' = store /\ cfg' = cfg /\ conn[c].stage = "greeting" /\ conn[c].kind = "socks"
      BY <1>0, <1>1, <1>3, <2>2, <3>1 DEF Negotiate, TaskSound
    <3>3. /\ "stage" \in DOMAIN fields /\ fields.stage = "local"
          /\ \A x \in {"kind", "in", "local", "up", "hop", "checked", "sans", "proto", "ds", "bound", "seen"} : x \notin DOMAIN fields
      BY <3>1
    <3>. QED
      BY <3>2, <3>3, StageRoutes
  <2>. QED
    BY <2>1, <2>2
<1>4. CASE OutLocal(c)
  <2>1. PICK w \in LocalWorkloads : Set(c, [local |-> w, stage |-> "route"]) /\ store' = store /\ cfg' = cfg /\ r.stage = "local"
    BY <1>0, <1>4 DEF OutLocal, GetWorkload
  <2>2. PICK fields : fields = [local |-> w, stage |-> "route"]
    OBVIOUS
  <2>3. ASSUME NEW q, \A x \in Fields : q[x] = IF x \in DOMAIN fields THEN fields[x] ELSE r[x]
        PROVE  RouteSound(q, store, cfg)
    <3>1. q.stage = "route" /\ q.local = w /\ q.kind = r.kind /\ q.in = r.in /\ q.proto = r.proto /\ q.seen = r.seen
      BY ONLY <2>2, <2>3 DEF Fields
    <3>2. w \in store.workloads /\ w.uid = Local
      BY DEF LocalWorkloads
    <3>. QED
      BY ONLY <1>1, <2>1, <3>1, <3>2, RouteLocal
  <2>. QED
    BY <1>0, <2>1, <2>2, <2>3, SetRoutes
<1>5. CASE BuildRequest(c)
  <2>0. /\ r.stage = "route" /\ r.kind \in {"tcp", "udp", "socks"}
        /\ GatewayOf(r) = MatchEgressPolicy(conn[c].local.egress, conn[c].local.ns, Target(c)).gateway
        /\ Target(c) = [ip |-> r.in.ip, port |-> r.in.port]
    BY <1>0, <1>1, <1>5 DEF BuildRequest, TaskSound, GatewayOf, Target
  <2>1. \/ \E err, code : Ends(c, err, code)
        \/ /\ EgressDecision(r.local, Target(c)) = "Passthrough" /\ r.kind # "udp"
           /\ Set(c, [stage |-> "admit", proto |-> "TCP", hop |-> Target(c), checked |-> Target(c)])
           /\ store' = store /\ cfg' = cfg
        \/ \E up \in Waypoints(store, GatewayOf(r), r.local) :
              /\ Set(c, [stage |-> "resolve", up |-> up, proto |-> "HBONE", checked |-> Target(c)])
              /\ store' = store /\ cfg' = cfg
    BY <1>0, <1>5, <2>0, Zenon DEF BuildRequest, EarlyDeny
  <2>2. ASSUME EgressDecision(r.local, Target(c)) = "Passthrough", r.kind # "udp", store' = store, cfg' = cfg,
               Set(c, [stage |-> "admit", proto |-> "TCP", hop |-> Target(c), checked |-> Target(c)])
        PROVE  RouteInv'
    <3>1. PICK fields, t : fields = [stage |-> "admit", proto |-> "TCP", hop |-> t, checked |-> t] /\ t = Target(c)
      OBVIOUS
    <3>2. ~SelfCall(r.local, t)
      BY <2>2, <3>1 DEF EgressDecision
    <3>3. ASSUME NEW q, \A x \in Fields : q[x] = IF x \in DOMAIN fields THEN fields[x] ELSE r[x]
          PROVE  RouteSound(q, store, cfg)
      <4>1. q.stage = "admit" /\ q.proto = "TCP" /\ q.hop = t /\ q.checked = t /\ q.local = r.local /\ q.kind = r.kind /\ q.seen = r.seen
        BY ONLY <3>1, <3>3 DEF Fields
      <4>2. r.kind \in {"tcp", "socks"}
        BY <2>0, <2>2
      <4>. QED
        BY ONLY <1>1, <2>0, <3>2, <4>1, <4>2, RoutePassthrough
    <3>. QED
      BY <1>0, <2>2, <3>1, <3>3, SetRoutes
  <2>3. ASSUME NEW up \in Waypoints(store, GatewayOf(r), r.local), store' = store, cfg' = cfg,
               Set(c, [stage |-> "resolve", up |-> up, proto |-> "HBONE", checked |-> Target(c)])
        PROVE  RouteInv'
    <3>1. PICK fields, t : fields = [stage |-> "resolve", up |-> up, proto |-> "HBONE", checked |-> t] /\ t = Target(c)
      OBVIOUS
    <3>2. ASSUME NEW q, \A x \in Fields : q[x] = IF x \in DOMAIN fields THEN fields[x] ELSE r[x]
          PROVE  RouteSound(q, store, cfg)
      <4>1. q.stage = "resolve" /\ q.proto = "HBONE" /\ q.up = up /\ q.local = r.local /\ q.in = r.in /\ q.kind = r.kind /\ q.seen = r.seen
        BY ONLY <3>1, <3>2 DEF Fields
      <4>2. GatewayOf(q) = GatewayOf(r)
        BY ONLY <4>1 DEF GatewayOf
      <4>3. q.up \in Waypoints(store, GatewayOf(q), q.local)
        BY <4>1, <4>2
      <4>. QED
        BY ONLY <1>1, <2>0, <4>1, <4>3, RouteGateway
    <3>. QED
      BY <1>0, <2>3, <3>1, <3>2, SetRoutes
  <2>. QED
    BY <1>2, <2>1, <2>2, <2>3
<1>6. CASE Resolve(c)
  <2>0. r.stage = "resolve" /\ r.kind \in {"tcp", "udp", "socks"}
    BY <1>0, <1>1, <1>6 DEF Resolve, TaskSound
  <2>1. CASE EarlyDeny(c, Absent)
    BY <1>2, <2>1 DEF EarlyDeny
  <2>2. ASSUME NEW ip, store' = store, cfg' = cfg,
               ip \in (IF PickAddress(r.up, FamilyOf(c)) # Absent THEN {PickAddress(r.up, FamilyOf(c))}
                      ELSE IF r.up.w.host = Absent THEN {}
                      ELSE UNION {Resolved(a, FamilyOf(c)) : a \in Answers}),
               Set(c, [stage |-> IF conn[c].kind = "udp" THEN "masque" ELSE "admit",
                       hop |-> [ip |-> ip, port |-> r.up.port], sans |-> Sans(r.up)])
        PROVE  RouteInv'
    <3>1. PICK fields, hop, stage, sans :
             /\ fields = [stage |-> stage, hop |-> hop, sans |-> sans]
             /\ hop = [ip |-> ip, port |-> r.up.port] /\ stage = (IF conn[c].kind = "udp" THEN "masque" ELSE "admit") /\ sans = Sans(r.up)
      OBVIOUS
    <3>2. stage \in {"masque", "admit"} /\ hop.ip = ip /\ hop.port = r.up.port
      BY <3>1
    <3>3. PICK family : family = FamilyOf(c)
      OBVIOUS
    <3>4. \/ PickAddress(r.up, family) # Absent /\ ip = PickAddress(r.up, family)
          \/ r.up.w.host # Absent /\ \E a \in Answers : ip \in a
      BY <2>2, <3>3 DEF Resolved
    <3>5. ASSUME NEW q, \A x \in Fields : q[x] = IF x \in DOMAIN fields THEN fields[x] ELSE r[x]
          PROVE  RouteSound(q, store, cfg)
      <4>1. /\ q.stage = stage /\ q.hop = hop /\ q.sans = sans /\ q.proto = r.proto /\ q.local = r.local /\ q.in = r.in
            /\ q.kind = r.kind /\ q.seen = r.seen
        BY ONLY <3>1, <3>5 DEF Fields
      <4>2. q.stage \in {"masque", "admit"} /\ q.hop.ip = ip /\ q.hop.port = r.up.port /\ q.sans = Sans(r.up)
        BY ONLY <3>1, <3>2, <4>1
      <4>. QED
        BY ONLY <1>1, <2>0, <3>4, <4>1, <4>2, RouteResolved
    <3>. QED
      BY <1>0, <2>2, <3>1, <3>5, SetRoutes
  <2>. QED
    BY <1>0, <1>6, <2>1, <2>2, Zenon DEF Resolve, Chosen
<1>7. CASE ConnectUdp(c)
  <2>1. CASE EarlyDeny(c, Absent)
    BY <1>2, <2>1 DEF EarlyDeny
  <2>2. CASE Set(c, [stage |-> "copy"]) /\ store' = store /\ cfg' = cfg
    <3>1. PICK fields : fields = [stage |-> "copy"]
      OBVIOUS
    <3>2. conn[c].stage = "masque" /\ conn[c].kind = "udp"
      BY <1>0, <1>1, <1>7 DEF ConnectUdp, TaskSound
    <3>3. /\ "stage" \in DOMAIN fields /\ fields.stage = "copy"
          /\ \A x \in {"kind", "in", "local", "up", "hop", "checked", "sans", "proto", "ds", "bound", "seen"} : x \notin DOMAIN fields
      BY <3>1
    <3>. QED
      BY <2>2, <3>1, <3>2, <3>3, StageRoutes
  <2>. QED
    BY <1>7, <2>1, <2>2, Zenon DEF ConnectUdp
<1>. QED
  BY <1>2, <1>3, <1>4, <1>5, <1>6, <1>7 DEF Cancel, GetWorkloadTimesOut, SandboxForConnection, EarlyDeny

\* The steps of an inbound connection up to its admission.
LEMMA InboundRoutes ==
    ASSUME RouteInv, ReqInv', NEW c \in Conns,
           \/ \E ok \in BOOLEAN : Handshake(c, ok)
           \/ Request(c) \/ InLocal(c) \/ ValidateDestination(c) \/ FindInboundUpstream(c) \/ Plaintext(c) \/ FetchSource(c)
    PROVE  RouteInv'
<1>0. PICK r : r = conn[c]
  OBVIOUS
<1>1. RouteSound(r, store, cfg) /\ TaskSound(r) /\ store \in Stores
  BY <1>0 DEF RouteInv, ReqInv
<1>2. CASE \E err, code : Ends(c, err, code)
  BY <1>2, EndRoutes
<1>3. ASSUME NEW stage, Set(c, [stage |-> stage]), store' = store, cfg' = cfg,
             \/ r.stage = "tls" /\ stage = "request"
             \/ r.stage = "request" /\ stage = "local" /\ r.in.authority # Absent
             \/ r.stage = "validate" /\ stage = "demanded"
             \/ r.stage \in {"validate", "demanded"} /\ stage = "upstream" /\ Addressed(r)
      PROVE  RouteInv'
  <2>1. PICK fields : fields = [stage |-> stage]
    OBVIOUS
  <2>2. /\ "stage" \in DOMAIN fields /\ fields.stage = stage
        /\ \A x \in {"kind", "in", "local", "up", "hop", "checked", "sans", "proto", "ds", "bound", "seen"} : x \notin DOMAIN fields
    BY <2>1
  <2>. QED
    BY <1>0, <1>3, <2>1, <2>2, StageRoutes
<1>4. CASE \E ok \in BOOLEAN : Handshake(c, ok)
  BY <1>0, <1>2, <1>3, <1>4, Zenon DEF Handshake, EarlyDeny
<1>5. CASE Request(c)
  BY <1>0, <1>2, <1>3, <1>5, Zenon DEF Request, EarlyDeny
<1>6. CASE InLocal(c)
  <2>1. PICK w \in LocalWorkloads : Set(c, [local |-> w, stage |-> "validate"]) /\ store' = store /\ cfg' = cfg /\ r.stage = "local"
    BY <1>0, <1>6 DEF InLocal, GetWorkload
  <2>2. PICK fields : fields = [local |-> w, stage |-> "validate"]
    OBVIOUS
  <2>3. ASSUME NEW q, \A x \in Fields : q[x] = IF x \in DOMAIN fields THEN fields[x] ELSE r[x]
        PROVE  RouteSound(q, store, cfg)
    <3>1. q.stage = "validate" /\ q.local = w /\ q.kind = r.kind /\ q.in = r.in /\ q.proto = r.proto /\ q.seen = r.seen
      BY ONLY <2>2, <2>3 DEF Fields
    <3>2. w \in store.workloads /\ w.uid = Local
      BY DEF LocalWorkloads
    <3>. QED
      BY ONLY <1>1, <2>1, <3>1, <3>2, RouteLocal
  <2>. QED
    BY <1>0, <2>1, <2>2, <2>3, SetRoutes
<1>7. CASE ValidateDestination(c)
  <2>0. r.stage \in {"validate", "demanded"} /\ r.kind = "hbone"
    BY <1>0, <1>1, <1>7 DEF ValidateDestination, TaskSound
  <2>1. CASE EarlyDeny(c, 400)
    BY <1>2, <2>1 DEF EarlyDeny
  <2>2. CASE ValidDestination(store, r.local, r.in.dst, r.in.authority) /\ Set(c, [stage |-> "upstream"]) /\ store' = store /\ cfg' = cfg
    <3>2. LocalKnown(r.local) /\ HboneAsked(r) /\ store \in r.seen
      BY <1>1, <2>0 DEF RouteSound
    <3>3. r.in.authority # Absent /\ ("ip" \in DOMAIN r.in.authority <=> "host" \notin DOMAIN r.in.authority)
      BY <2>0, <3>2, RequestsAssumption DEF HboneAsked
    <3>4. IsWaypointOf(store, r.local, r.in.dst, [net |-> Network, ip |-> r.in.authority.ip]) => Sandwiched(r)
      BY <1>1, <3>2, WaypointNamesUs DEF LocalKnown
    <3>5. Addressed(r)
      BY <2>2, <3>3, <3>4 DEF ValidDestination, Addressed
    <3>. QED
      BY <1>3, <2>0, <2>2, <3>5
  <2>3. CASE r.stage = "validate" /\ Set(c, [stage |-> "demanded"]) /\ store' = store /\ cfg' = cfg
    BY <1>3, <2>3
  <2>. QED
    BY <1>0, <1>7, <2>1, <2>2, <2>3 DEF ValidateDestination
<1>8. CASE FindInboundUpstream(c)
  <2>1. PICK up \in InboundUpstreams(store, r.local, r.in.dst, r.in.authority) :
           IF "err" \in DOMAIN up THEN EarlyDeny(c, 503)
           ELSE /\ \E host \in {Absent} \cup {s.host : s \in Range(store.services)} :
                     \E ds \in Guesses(InboundServices(store, r.local, r.in.authority), r.local, host, up.port) :
                       Set(c, [stage |-> "source", up |-> up, hop |-> InboundHop(up), ds |-> ds,
                               checked |-> InboundChecked(r.in, up)])
                /\ store' = store /\ cfg' = cfg
    BY <1>0, <1>8, Zenon DEF FindInboundUpstream
  <2>2. CASE "err" \in DOMAIN up
    BY <1>2, <2>1, <2>2 DEF EarlyDeny
  <2>3. CASE "err" \notin DOMAIN up
    <3>1. PICK host \in {Absent} \cup {s.host : s \in Range(store.services)} : \E ds \in Guesses(InboundServices(store, r.local, r.in.authority), r.local, host, up.port) :
             Set(c, [stage |-> "source", up |-> up, hop |-> InboundHop(up), ds |-> ds,
                     checked |-> InboundChecked(r.in, up)])
      BY <2>1, <2>3
    <3>2. PICK ds \in Guesses(InboundServices(store, r.local, r.in.authority), r.local, host, up.port) :
             Set(c, [stage |-> "source", up |-> up, hop |-> InboundHop(up), ds |-> ds,
                     checked |-> InboundChecked(r.in, up)])
      BY <3>1
    <3>3. PICK fields, hop, checked :
             /\ fields = [stage |-> "source", up |-> up, hop |-> hop, ds |-> ds, checked |-> checked]
             /\ hop = InboundHop(up) /\ checked = InboundChecked(r.in, up)
      OBVIOUS
    <3>4. /\ hop.ip = (IF ToLocalhost(cfg, up) THEN "loopback" ELSE up.ip) /\ hop.port = up.port
          /\ checked.ip = up.ip /\ checked.port = up.port
      BY <3>3 DEF InboundHop, InboundChecked
    <3>5. r.stage = "upstream" /\ r.kind = "hbone"
      BY <1>0, <1>1, <1>8 DEF FindInboundUpstream, TaskSound
    <3>6. LocalKnown(r.local) /\ store \in r.seen
      BY <1>1, <3>5 DEF RouteSound
    <3>n. ds # Absent =>
             IF "host" \in DOMAIN r.in.authority
             THEN LET s == GetBestByHost(store, r.in.authority.host, r.local.ns) IN s # Absent /\ ds = [host |-> s.host, ns |-> s.ns]
             ELSE ds \in r.local.services
      BY ONLY <3>6, ds \in Guesses(InboundServices(store, r.local, r.in.authority), r.local, host, up.port), GuessedService
    <3>7. up.ip = r.in.dst /\ (up.port \in IllegalPorts => r.local.tunnel # Absent /\ r.local.tunnel.port = up.port)
      BY ONLY <2>3, up \in InboundUpstreams(store, r.local, r.in.dst, r.in.authority), InboundUpstreamsShape
    <3>8. ASSUME NEW q, \A x \in Fields : q[x] = IF x \in DOMAIN fields THEN fields[x] ELSE r[x]
          PROVE  RouteSound(q, store, cfg)
      <4>1. /\ q.stage = "source" /\ q.up = up /\ q.hop = hop /\ q.ds = ds /\ q.checked = checked /\ q.kind = r.kind
            /\ q.seen = r.seen /\ q.proto = r.proto /\ q.in = r.in /\ q.local = r.local
        BY ONLY <3>3, <3>8 DEF Fields
      <4>2. /\ q.up.ip = q.in.dst /\ q.checked.ip = q.up.ip /\ q.checked.port = q.up.port /\ q.hop.port = q.up.port
            /\ q.hop.ip = (IF ToLocalhost(cfg, q.up) THEN "loopback" ELSE q.up.ip)
            /\ q.up.port \in IllegalPorts => q.local.tunnel # Absent /\ q.local.tunnel.port = q.up.port
        BY ONLY <3>4, <3>7, <4>1
      <4>3. q.ds # Absent => NamedService(q)
        BY ONLY <3>6, <3>n, <4>1 DEF NamedService
      <4>. QED
        BY ONLY <1>1, <3>5, <4>1, <4>2, <4>3, RouteInbound
    <3>9. Set(c, fields) /\ store' = store /\ cfg' = cfg
      BY <2>1, <2>3, <3>2, <3>3
    <3>. QED
      BY <1>0, <3>8, <3>9, SetRoutes
  <2>. QED
    BY <2>2, <2>3
<1>9. CASE Plaintext(c)
  <2>1. CASE EarlyDeny(c, Absent)
    BY <1>2, <2>1 DEF EarlyDeny
  <2>2. ASSUME NEW w, NEW ds, r.in.port \notin IllegalPorts, store' = store, cfg' = cfg,
               Set(c, [local |-> w, stage |-> "source", hop |-> Target(c), checked |-> Target(c), ds |-> ds])
        PROVE  RouteInv'
    <3>1. PICK fields, t :
             /\ fields = [local |-> w, stage |-> "source", hop |-> t, checked |-> t, ds |-> ds]
             /\ t = Target(c)
      OBVIOUS
    <3>2. t.port \notin IllegalPorts /\ r.stage = "local" /\ r.kind = "plain"
      BY <1>0, <1>9, <2>2, <3>1 DEF Target, Plaintext
    <3>3. ASSUME NEW q, \A x \in Fields : q[x] = IF x \in DOMAIN fields THEN fields[x] ELSE r[x]
          PROVE  RouteSound(q, store, cfg)
      <4>1. q.stage = "source" /\ q.hop = t /\ q.checked = t /\ q.kind = r.kind /\ q.seen = r.seen /\ q.proto = r.proto
        BY ONLY <3>1, <3>3 DEF Fields
      <4>. QED
        BY ONLY <1>1, <3>2, <4>1, RoutePlain
    <3>. QED
      BY <1>0, <2>2, <3>1, <3>3, SetRoutes
  <2>. QED
    BY <1>0, <1>9, <2>1, <2>2, Zenon DEF Plaintext
<1>10. CASE FetchSource(c)
  <2>1. PICK fields : fields = [stage |-> "admit", tracker |-> "live"]
    OBVIOUS
  <2>2. /\ "stage" \in DOMAIN fields /\ fields.stage = "admit"
        /\ \A x \in {"kind", "in", "local", "up", "hop", "checked", "sans", "proto", "ds", "bound", "seen"} : x \notin DOMAIN fields
    BY <2>1
  <2>3. Set(c, fields) /\ conn[c].stage = "source" /\ store' = store /\ cfg' = cfg
    BY <1>10, <2>1 DEF FetchSource
  <2>. QED
    BY <2>2, <2>3, StageRoutes
<1>. QED
  BY <1>4, <1>5, <1>6, <1>7, <1>8, <1>9, <1>10

\* Admission, the connection to the next hop, and its ends.
LEMMA AdmissionRoutes ==
    ASSUME RouteInv, ReqInv', NEW c \in Conns,
           \/ Admit(c) \/ Deny(c) \/ Connected(c) \/ ConnectFails(c) \/ Respond(c) \/ ConnectionEnds(c)
           \/ \E err \in {"None", "Io"} : CopyEnds(c, err)
           \/ PolicyCloses(c)
    PROVE  RouteInv'
<1>0. PICK r : r = conn[c]
  OBVIOUS
<1>1. RouteSound(r, store, cfg) /\ TaskSound(r) /\ store \in Stores
  BY <1>0 DEF RouteInv, ReqInv
<1>2. CASE \E err, code : Ends(c, err, code)
  BY <1>2, EndRoutes
<1>3. CASE Admit(c)
  <2>1. PICK fields : fields = [stage |-> "connect", guard |-> TRUE, tracker |-> "live"]
    OBVIOUS
  <2>2. /\ "stage" \in DOMAIN fields /\ fields.stage = "connect"
        /\ \A x \in {"kind", "in", "local", "up", "hop", "checked", "sans", "proto", "ds", "bound", "seen"} : x \notin DOMAIN fields
    BY <2>1
  <2>3. Set(c, fields) /\ conn[c].stage = "admit" /\ store' = store /\ cfg' = cfg
    BY <1>3, <2>1 DEF Admit
  <2>. QED
    BY <2>2, <2>3, StageRoutes
<1>4. CASE Connected(c)
  <2>1. PICK b \in FreebindConnect(SourceOf(c), r.hop.ip) :
           /\ Set(c, [stage |-> IF r.kind = "hbone" THEN "respond" ELSE "copy", bound |-> b])
           /\ store' = store /\ cfg' = cfg /\ r.stage = "connect"
    BY <1>0, <1>4 DEF Connected
  <2>2. PICK fields, stage : fields = [stage |-> stage, bound |-> b] /\ stage = (IF r.kind = "hbone" THEN "respond" ELSE "copy")
    OBVIOUS
  <2>3. r.kind = "hbone" => b \in FreebindConnect(InboundSource(cfg, r.up, "client"), r.hop.ip)
    BY <1>0 DEF SourceOf
  <2>4. ASSUME NEW q, \A x \in Fields : q[x] = IF x \in DOMAIN fields THEN fields[x] ELSE r[x]
        PROVE  RouteSound(q, store, cfg)
    <3>1. /\ q.stage = stage /\ q.bound = b /\ q.kind = r.kind /\ q.in = r.in /\ q.local = r.local /\ q.up = r.up /\ q.hop = r.hop
          /\ q.checked = r.checked /\ q.sans = r.sans /\ q.proto = r.proto /\ q.ds = r.ds /\ q.seen = r.seen
      BY ONLY <2>2, <2>4 DEF Fields
    <3>2. /\ q.stage \in {"respond", "copy"}
          /\ q.kind = "hbone" => q.bound \in FreebindConnect(InboundSource(cfg, q.up, "client"), q.hop.ip)
      BY ONLY <2>2, <2>3, <3>1
    <3>. QED
      BY ONLY <1>1, <2>1, <3>1, <3>2, RouteBound
  <2>. QED
    BY <1>0, <2>1, <2>2, <2>4, SetRoutes
<1>5. CASE Respond(c)
  <2>1. CASE Set(c, [stage |-> "copy", answer |-> 200]) /\ store' = store /\ cfg' = cfg
    <3>1. PICK fields : fields = [stage |-> "copy", answer |-> 200]
      OBVIOUS
    <3>2. /\ "stage" \in DOMAIN fields /\ fields.stage = "copy" /\ conn[c].stage = "respond"
          /\ \A x \in {"kind", "in", "local", "up", "hop", "checked", "sans", "proto", "ds", "bound", "seen"} : x \notin DOMAIN fields
      BY <1>5, <3>1 DEF Respond
    <3>. QED
      BY <2>1, <3>1, <3>2, StageRoutes
  <2>. QED
    BY <1>2, <1>5, <2>1 DEF Respond
<1>6. CASE ConnectionEnds(c)
  <2>1. PICK fields : fields = [socket |-> FALSE]
    OBVIOUS
  <2>2. /\ "stage" \notin DOMAIN fields
        /\ \A x \in {"kind", "in", "local", "up", "hop", "checked", "sans", "proto", "ds", "bound", "seen"} : x \notin DOMAIN fields
    BY <2>1
  <2>3. Set(c, fields) /\ store' = store /\ cfg' = cfg
    BY <1>6, <2>1 DEF ConnectionEnds
  <2>. QED
    BY <2>2, <2>3, StageRoutes
<1>. QED
  BY <1>2, <1>3, <1>4, <1>5, <1>6 DEF Deny, ConnectFails, CopyEnds, PolicyCloses

\* A connection is accepted.
LEMMA AcceptRoutes ==
    ASSUME RouteInv, ReqInv', NEW c \in Conns, NEW kind \in DOMAIN Inputs, NEW in \in Inputs[kind], Accept(c, kind, in)
    PROVE  RouteInv'
<1>0. PICK r : r = conn[c]
  OBVIOUS
<1>1. RouteSound(r, store, cfg) /\ store \in Stores /\ r.stage = "idle"
  BY <1>0 DEF RouteInv, Accept
<1>2. kind \in {"tcp", "udp", "socks", "hbone", "plain"}
  BY RequestsAssumption
<1>3. PICK fields, stage, socket, seen :
         /\ fields = [stage |-> stage, kind |-> kind, in |-> in, socket |-> socket, seen |-> seen]
         /\ stage = FirstStage[kind] /\ socket = (kind # "udp") /\ seen = {store}
  OBVIOUS
<1>4. stage \in {"local", "greeting", "tls"} /\ (kind = "hbone" <=> stage = "tls")
  BY <1>2, <1>3 DEF FirstStage
<1>5. Set(c, fields) /\ store' = store /\ cfg' = cfg
  BY <1>3 DEF Accept
<1>6. ASSUME NEW q, \A x \in Fields : q[x] = IF x \in DOMAIN fields THEN fields[x] ELSE r[x]
      PROVE  RouteSound(q, store, cfg)
  <2>1. q.stage = stage /\ q.kind = kind /\ q.in = in /\ q.seen = seen /\ q.proto = r.proto
    BY ONLY <1>3, <1>6 DEF Fields
  <2>2. /\ q.stage \in {"local", "greeting", "tls"} /\ q.kind \in DOMAIN Inputs /\ q.in \in Inputs[q.kind]
        /\ q.seen = {store} /\ (q.kind = "hbone" <=> q.stage = "tls")
    BY <1>3, <1>4, <2>1
  <2>. QED
    BY ONLY <1>1, <2>1, <2>2, RouteAccepted
<1>. QED
  BY <1>0, <1>5, <1>6, SetRoutes

\* The store changes under every task.
LEMMA UpdateRoutes ==
    ASSUME RouteInv, ReqInv', NEW now \in Stores, Update(now)
    PROVE  RouteInv'
<1>1. ASSUME NEW c \in Conns
      PROVE  RouteSound(conn'[c], now, cfg)
  <2>1. PICK r, q : r = conn[c] /\ q = conn'[c]
    OBVIOUS
  <2>2. RouteSound(r, store, cfg)
    BY <2>1 DEF RouteInv
  <2>3. CASE r.stage \notin {"idle", "end"}
    <3>1. PICK fields, seen : fields = [seen |-> seen] /\ seen = r.seen \cup {now}
      OBVIOUS
    <3>2. q = With(r, fields)
      BY <2>1, <2>3, <3>1 DEF Update, Alive
    <3>3. DOMAIN Idle = Fields
      BY DEF Idle, Fields
    <3>4. \A x \in Fields : q[x] = IF x \in DOMAIN fields THEN fields[x] ELSE r[x]
      BY <3>2, <3>3, Zenon DEF With
    <3>5. /\ q.stage = r.stage /\ q.kind = r.kind /\ q.in = r.in /\ q.local = r.local /\ q.up = r.up /\ q.hop = r.hop
          /\ q.checked = r.checked /\ q.sans = r.sans /\ q.proto = r.proto /\ q.ds = r.ds /\ q.bound = r.bound /\ q.seen = seen
      BY ONLY <3>1, <3>4 DEF Fields
    <3>6. q.seen = r.seen \cup {now}
      BY <3>1, <3>5
    <3>. QED
      BY ONLY <2>1, <2>2, <2>3, <3>5, <3>6, now \in Stores, RouteSeen
  <2>4. CASE r.stage \in {"idle", "end"}
    <3>1. q = r
      BY <2>1, <2>4 DEF Update, Alive
    <3>2. RouteSound(r, now, cfg)
      BY ONLY <2>2, <2>4 DEF RouteSound, Late, Early
    <3>. QED
      BY <2>1, <3>1, <3>2
  <2>. QED
    BY <2>3, <2>4
<1>2. store' = now /\ cfg' = cfg
  BY DEF Update
<1>. QED
  BY <1>1, <1>2 DEF RouteInv

\* Every step keeps RouteInv.
LEMMA RoutePreserved == RouteInv /\ [ReqNext]_reqVars => RouteInv'
<1>. SUFFICES ASSUME RouteInv, [ReqNext]_reqVars PROVE RouteInv'
  OBVIOUS
<1>1. ReqInv'
  BY ReqPreserved DEF RouteInv
<1>2. CASE ReqNext
  <2>1. CASE \E st \in Stores : Update(st)
    BY <1>1, <2>1, UpdateRoutes
  <2>2. ASSUME NEW c \in Conns, \E kind \in DOMAIN Inputs : \E in \in Inputs[kind] : Accept(c, kind, in)
        PROVE  RouteInv'
    BY <1>1, <2>2, AcceptRoutes
  <2>. QED
    BY <1>1, <1>2, <2>1, <2>2, OutboundRoutes, InboundRoutes, AdmissionRoutes, Zenon DEF ReqNext
<1>3. CASE UNCHANGED reqVars
  <2>1. conn' = conn /\ store' = store /\ cfg' = cfg
    BY <1>3 DEF reqVars
  <2>. QED
    BY <1>1, <2>1 DEF RouteInv
<1>. QED
  BY <1>2, <1>3

\* Nothing is routed at the start.
LEMMA RouteInitial == ReqInit => RouteInv
<1>. SUFFICES ASSUME ReqInit PROVE RouteInv
  OBVIOUS
<1>1. ReqInv /\ store \in Stores /\ conn = [c \in Conns |-> Idle]
  BY ReqInitial DEF ReqInit
<1>2. Idle.stage = "idle" /\ Idle.proto = Absent /\ Idle.kind = Absent
  BY DEF Idle
<1>3. Absent # "HBONE"
  BY RequestsAssumption
<1>4. RouteSound(Idle, store, cfg)
  BY ONLY <1>2, <1>3 DEF RouteSound, Early, Late
<1>. QED
  BY <1>1, <1>4 DEF RouteInv

\* RouteInv is an invariant, whatever the store does while connections are routed.
THEOREM RouteInvariant == ReqSpec => []RouteInv
BY RouteInitial, RoutePreserved, PTL DEF ReqSpec

\* A connection ends where the policies were asked about, on an address and a port it
\* may reach and in the name of nobody else (EndsWhereChecked: serve_connect, proxy_to,
\* proxy_inbound_plaintext), for any contents of the store and however it changes
\* between the lookups.
THEOREM AlwaysEndsWhereChecked == ReqSpec => []EndsWhereChecked
<1>1. RouteInv => EndsWhereChecked
  <2>. SUFFICES ASSUME RouteInv, NEW c \in Conns, Reached(c)
       PROVE  LET x == conn[c]
              IN /\ x.proto # "HBONE" => x.hop.port = x.checked.port /\ x.hop.ip \in {x.checked.ip, "loopback"}
                 /\ x.kind \in {"tcp", "socks"} /\ x.proto = "TCP" => ~SelfCall(x.local, x.hop)
                 /\ x.kind = "plain" => x.hop.port \notin IllegalPorts
                 /\ x.kind = "hbone" =>
                      /\ x.hop.ip \in {x.in.dst, "loopback"}
                      /\ x.hop.ip = "loopback" => x.bound # "client"
                      /\ x.ds # Absent => NamedService(x)
                      /\ x.hop.port \in IllegalPorts => x.local.tunnel # Absent /\ x.local.tunnel.port = x.hop.port
                      /\ "ip" \in DOMAIN x.in.authority =>
                           x.in.authority.ip = x.in.dst \/ x.local.tunnel # Absent \/ SandwichedBy(c)
    BY DEF EndsWhereChecked
  <2>1. RouteSound(conn[c], store, cfg) /\ conn[c].stage \in {"respond", "copy"}
    BY DEF RouteInv, Reached
  <2>2. Checked(conn[c], cfg) /\ (conn[c].kind = "hbone" => Addressed(conn[c]))
        /\ (conn[c].kind = "hbone" /\ conn[c].hop.ip = "loopback" => conn[c].bound # "client")
    BY <2>1 DEF RouteSound, Late
  <2>3. SandwichedBy(c) <=> Sandwiched(conn[c])
    BY DEF SandwichedBy, Sandwiched
  <2>. QED
    BY <2>2, <2>3 DEF Checked, Addressed
<1>. QED
  BY <1>1, RouteInvariant, PTL

\* The next hop behind a gateway, its port and the identities accepted there come from
\* one state of the store (CoherentHop: fetch_waypoint, finalize_upstream), for any
\* sequence of changes while the name of the gateway is resolved.
THEOREM HopsAreCoherent == ReqSpec => []CoherentHop
<1>1. RouteInv => CoherentHop
  <2>. SUFFICES ASSUME RouteInv, NEW c \in Conns, conn[c].proto = "HBONE", Reached(c) PROVE Coherent(conn[c])
    BY Zenon DEF CoherentHop, Coherent, GatewayOf, Target
  <2>1. RouteSound(conn[c], store, cfg) /\ conn[c].stage \in {"respond", "copy"}
    BY DEF RouteInv, Reached
  <2>. QED
    BY <2>1 DEF RouteSound, Late
<1>. QED
  BY <1>1, RouteInvariant, PTL

-----------------------------------------------------------------------------
(* The bytes                                                               *)

\* The copy of one connection, with any peers.
CopySpec == CopyInit /\ [][CopyNext]_copyVars

\* How a direction may end.
CopyResults == {"", "Ok", "ShutdownError", "WriteZero", "BrokenPipe", "Other"} \cup TcpErrors \cup H2Reasons

\* The record of a direction.
CopyRec == [sent : Nat, in : Seq(Nat), buf : Seq(Nat), out : Seq(Nat), counted : Nat,
            st : {"copy", "shutdown", "done"}, res : CopyResults, shut : BOOLEAN]

\* What is known of a peer.
PeerRec == [rx : {"open", "fin"} \cup TcpErrors \cup H2Reasons, tx : {"open"} \cup TcpErrors \cup H2Reasons]

\* The types of the variables.
CopyType ==
    /\ ckind \in [down : {"tcp", "h2"}, up : {"tcp", "h2"}]
    /\ cpeer \in [{"down", "up"} -> PeerRec]
    /\ cdir \in [CopyDirs -> CopyRec]

\* The number of units read so far.
Taken(c) == Len(c.out) + Len(c.buf)

\* What was read is what comes next, and what was written is counted.
Consecutive(c) ==
    /\ \A k \in 1..Len(c.out) : c.out[k] = k
    /\ \A k \in 1..Len(c.buf) : c.buf[k] = Len(c.out) + k
    /\ c.counted = Len(c.out)

\* Nothing of what the peer sent is lost before it is read.
Whole(c, rx) == rx \in {"open", "fin"} \/ c.in # <<>>

\* What arrived over TCP is what follows the units taken, up to the last one sent.
ArrivedTcp(in, taken, sent, whole) ==
    /\ \A k \in 1..Len(in) : in[k] = taken + k
    /\ whole => sent = taken + Len(in)

\* The same over HTTP/2, among frames without data.
ArrivedH2(in, taken, sent, whole) ==
    /\ taken <= sent
    /\ \A i \in 1..Len(in) : in[i] = 0 \/ (taken < in[i] /\ in[i] <= sent)
    /\ \A i, j \in 1..Len(in) : i < j /\ in[i] # 0 /\ in[j] # 0 => in[i] < in[j]
    /\ whole => \A v \in Nat : taken < v /\ v <= sent => \E i \in 1..Len(in) : in[i] = v

\* What has arrived and is not read, by the kind of the source.
Arrived(c, kind, rx) ==
    IF kind = "tcp" THEN ArrivedTcp(c.in, Taken(c), c.sent, Whole(c, rx)) ELSE ArrivedH2(c.in, Taken(c), c.sent, Whole(c, rx))

\* What is owed once a direction has stopped copying: everything, unless a peer
\* went away.
Ended(c, rx, tx) ==
    /\ c.st # "copy" => (rx # "open" \/ tx # "open") /\ c.buf = <<>>
    /\ c.st # "copy" /\ rx = "fin" /\ tx = "open" => c.res = "Ok" /\ Len(c.out) = c.sent
    /\ c.st = "done" => c.shut

\* What holds of one direction, given the ends of its peers.
DirSound(c, kind, rx, tx) ==
    /\ Consecutive(c)
    /\ c.st = "copy" => Arrived(c, kind, rx)
    /\ Ended(c, rx, tx)

\* The inductive invariant.
CopyInv ==
    /\ CopyType
    /\ \A d \in CopyDirs : DirSound(cdir[d], ckind[From(d)], cpeer[From(d)].rx, cpeer[Into(d)].tx)

\* The copy starts with nothing sent.
LEMMA CopyInitial == CopyInit => CopyInv
<1>. SUFFICES ASSUME CopyInit PROVE CopyInv
  OBVIOUS
<1> DEFINE e == [sent |-> 0, in |-> <<>>, buf |-> <<>>, out |-> <<>>, counted |-> 0, st |-> "copy", res |-> "", shut |-> FALSE]
<1>0. <<>> \in Seq(Nat) /\ Len(<<>>) = 0 /\ 0 \in Nat
  OBVIOUS
<1>1. PICK q \in Seq(Nat) : q = <<>>
  BY <1>0
<1>2. e = [sent |-> 0, in |-> q, buf |-> q, out |-> q, counted |-> 0, st |-> "copy", res |-> "", shut |-> FALSE]
  BY <1>1
<1>3. e \in CopyRec
  BY <1>0, <1>2 DEF CopyRec, CopyResults
<1>4. cdir = [d \in CopyDirs |-> e]
  BY DEF CopyInit
<1>5. CopyType
  BY <1>3, <1>4, CopyAssumption DEF CopyInit, CopyType, PeerRec
<1>6. e.out = q /\ e.buf = q /\ e.in = q /\ Len(q) = 0 /\ e.sent = 0 /\ e.st = "copy" /\ e.counted = 0
  BY <1>0, <1>1, <1>2
<1> HIDE DEF e
<1>7. \A kind, rx, tx : DirSound(e, kind, rx, tx)
  BY <1>6 DEF DirSound, Consecutive, Arrived, ArrivedTcp, ArrivedH2, Whole, Ended, Taken
<1>. QED
  BY <1>4, <1>5, <1>7 DEF CopyInv

\* The next unit arrives over TCP.
LEMMA TcpAppend ==
    ASSUME NEW in \in Seq(Nat), NEW taken \in Nat, NEW sent \in Nat, ArrivedTcp(in, taken, sent, TRUE)
    PROVE  ArrivedTcp(Append(in, sent + 1), taken, sent + 1, TRUE)
<1>0. Len(in) \in Nat /\ sent + 1 \in Nat
  OBVIOUS
<1>a. Append(in, sent + 1) \in Seq(Nat)
  BY <1>0, AppendProperties
<1>1. PICK n \in Nat, in2 \in Seq(Nat) : n = Len(in) /\ in2 = Append(in, sent + 1)
  BY <1>0, <1>a
<1>2. Len(in2) = n + 1 /\ in2[n + 1] = sent + 1 /\ \A k \in 1..n : in2[k] = in[k]
  BY <1>1
<1>3. sent = taken + n /\ \A k \in 1..n : in[k] = taken + k
  BY <1>1 DEF ArrivedTcp
<1>4. ASSUME NEW k \in 1..(n + 1) PROVE in2[k] = taken + k
  <2>1. CASE k \in 1..n
    BY ONLY <1>2, <1>3, <2>1
  <2>2. CASE k \notin 1..n
    <3>1. k = n + 1
      BY ONLY <2>2, n \in Nat, k \in 1..(n + 1)
    <3>2. in2[k] = sent + 1 /\ sent = taken + n
      BY ONLY <1>2, <1>3, <3>1
    <3>. QED
      BY ONLY <3>1, <3>2, n \in Nat, taken \in Nat
  <2>. QED
    BY <2>1, <2>2
<1>. QED
  BY <1>1, <1>2, <1>3, <1>4 DEF ArrivedTcp

\* The next unit, or a frame without data, arrives over HTTP/2.
LEMMA H2Append ==
    ASSUME NEW in \in Seq(Nat), NEW taken \in Nat, NEW sent \in Nat, NEW unit \in Nat, NEW sent2 \in Nat,
           ArrivedH2(in, taken, sent, TRUE),
           (unit = 0 /\ sent2 = sent) \/ (unit = sent + 1 /\ sent2 = sent + 1)
    PROVE  ArrivedH2(Append(in, unit), taken, sent2, TRUE)
<1>0. Len(in) \in Nat /\ Append(in, unit) \in Seq(Nat)
  BY AppendProperties
<1>1. PICK n \in Nat, in2 \in Seq(Nat) : n = Len(in) /\ in2 = Append(in, unit)
  BY <1>0
<1>2. Len(in2) = n + 1 /\ in2[n + 1] = unit /\ \A k \in 1..n : in2[k] = in[k] /\ in[k] \in Nat
  BY <1>1
<1>3. /\ taken <= sent
      /\ \A i \in 1..n : in[i] = 0 \/ (taken < in[i] /\ in[i] <= sent)
      /\ \A i, j \in 1..n : i < j /\ in[i] # 0 /\ in[j] # 0 => in[i] < in[j]
      /\ \A v \in Nat : taken < v /\ v <= sent => \E i \in 1..n : in[i] = v
  BY <1>1 DEF ArrivedH2
<1>4. taken <= sent2 /\ \A i \in 1..(n + 1) : in2[i] = 0 \/ (taken < in2[i] /\ in2[i] <= sent2)
  BY ONLY SMTT(30), <1>2, <1>3, n \in Nat, taken \in Nat, sent \in Nat,
          (unit = 0 /\ sent2 = sent) \/ (unit = sent + 1 /\ sent2 = sent + 1)
<1>5. ASSUME NEW i \in 1..(n + 1), NEW j \in 1..(n + 1), i < j, in2[i] # 0, in2[j] # 0
      PROVE  in2[i] < in2[j]
  <2>1. i \in 1..n /\ in2[i] = in[i] /\ in[i] <= sent /\ in[i] \in Nat
    BY ONLY <1>2, <1>3, <1>5, n \in Nat, i \in 1..(n + 1), j \in 1..(n + 1)
  <2>2. CASE j = n + 1
    BY ONLY <1>2, <1>5, <2>1, <2>2, sent \in Nat, (unit = 0 /\ sent2 = sent) \/ (unit = sent + 1 /\ sent2 = sent + 1)
  <2>3. CASE j # n + 1
    <3>1. j \in 1..n
      BY ONLY <2>3, n \in Nat, j \in 1..(n + 1)
    <3>2. in2[j] = in[j]
      BY ONLY <1>2, <3>1
    <3>. QED
      BY ONLY <1>3, <1>5, <2>1, <3>1, <3>2
  <2>. QED
    BY <2>2, <2>3
<1>6. ASSUME NEW v \in Nat, taken < v, v <= sent2
      PROVE  \E i \in 1..(n + 1) : in2[i] = v
  <2>1. CASE v <= sent
    <3>1. PICK i \in 1..n : in[i] = v
      BY ONLY <1>3, <1>6, <2>1
    <3>. QED
      BY ONLY <1>2, <3>1, n \in Nat, i \in 1..n
  <2>2. CASE ~(v <= sent)
    <3>1. v = unit /\ n + 1 \in 1..(n + 1)
      BY ONLY <1>6, <2>2, n \in Nat, sent \in Nat, v \in Nat, (unit = 0 /\ sent2 = sent) \/ (unit = sent + 1 /\ sent2 = sent + 1)
    <3>. QED
      BY ONLY <1>2, <3>1
  <2>. QED
    BY <2>1, <2>2
<1>. QED
  BY <1>1, <1>2, <1>4, <1>5, <1>6 DEF ArrivedH2

\* A read over TCP takes the next n units, and skips nothing.
LEMMA TcpRead ==
    ASSUME NEW in \in Seq(Nat), NEW taken \in Nat, NEW sent \in Nat, NEW k \in Nat, NEW n \in Nat \ {0},
           ArrivedTcp(in, taken, sent, TRUE), \A j \in 1..k : in[j] = 0, k + n <= Len(in)
    PROVE  /\ \A j \in 1..n : in[k + j] = taken + j
           /\ ArrivedTcp(SubSeq(in, k + n + 1, Len(in)), taken + n, sent, TRUE)
<1>0. Len(in) \in Nat /\ SubSeq(in, k + n + 1, Len(in)) \in Seq(Nat)
  <2>1. \A i \in (k + n + 1)..Len(in) : in[i] \in Nat
    OBVIOUS
  <2>. QED
    BY <2>1
<1>1. PICK m \in Nat, in2 \in Seq(Nat) : m = Len(in) /\ in2 = SubSeq(in, k + n + 1, Len(in))
  BY <1>0
<1>2. sent = taken + m /\ \A j \in 1..m : in[j] = taken + j
  BY <1>1 DEF ArrivedTcp
<1>3. k = 0
  <2>1. SUFFICES ASSUME k # 0 PROVE FALSE
    OBVIOUS
  <2>2. 1 \in 1..k /\ 1 \in 1..m
    BY <1>1, <2>1
  <2>3. in[1] = 0 /\ in[1] = taken + 1
    BY <1>2, <2>2
  <2>. QED
    BY ONLY <2>3, taken \in Nat
<1>4. \A j \in 1..n : in[k + j] = taken + j
  BY <1>1, <1>2, <1>3
<1>5. Len(in2) = m - n /\ \A j \in 1..(m - n) : in2[j] = in[n + j]
  BY <1>1, <1>3
<1>6. ASSUME NEW j \in 1..(m - n) PROVE in2[j] = (taken + n) + j
  <2>1. n + j \in 1..m
    BY ONLY m \in Nat, n \in Nat \ {0}, j \in 1..(m - n)
  <2>2. in2[j] = taken + (n + j)
    BY ONLY <1>2, <1>5, <2>1, j \in 1..(m - n)
  <2>. QED
    BY ONLY <2>2, taken \in Nat, m \in Nat, n \in Nat \ {0}, j \in 1..(m - n)
<1>7. sent = (taken + n) + Len(in2)
  BY ONLY <1>2, <1>5, taken \in Nat, m \in Nat, n \in Nat \ {0}
<1>8. \A j \in 1..Len(in2) : in2[j] = (taken + n) + j
  BY ONLY <1>5, <1>6, Zenon
<1>. QED
  BY <1>1, <1>4, <1>7, <1>8, Zenon DEF ArrivedTcp

\* A read over HTTP/2 takes the next unit, after the frames without data.
LEMMA H2Read ==
    ASSUME NEW in \in Seq(Nat), NEW taken \in Nat, NEW sent \in Nat, NEW k \in Nat,
           ArrivedH2(in, taken, sent, TRUE), \A j \in 1..k : in[j] = 0, k + 1 <= Len(in), in[k + 1] # 0
    PROVE  /\ in[k + 1] = taken + 1
           /\ ArrivedH2(SubSeq(in, k + 2, Len(in)), taken + 1, sent, TRUE)
<1>0. Len(in) \in Nat /\ SubSeq(in, k + 2, Len(in)) \in Seq(Nat)
  <2>1. \A i \in (k + 2)..Len(in) : in[i] \in Nat
    OBVIOUS
  <2>. QED
    BY <2>1
<1>1. PICK m \in Nat, in2 \in Seq(Nat) : m = Len(in) /\ in2 = SubSeq(in, k + 2, Len(in))
  BY <1>0
<1>2. /\ taken <= sent
      /\ \A i \in 1..m : in[i] = 0 \/ (taken < in[i] /\ in[i] <= sent)
      /\ \A i, j \in 1..m : i < j /\ in[i] # 0 /\ in[j] # 0 => in[i] < in[j]
      /\ \A v \in Nat : taken < v /\ v <= sent => \E i \in 1..m : in[i] = v
      /\ \A i \in 1..m : in[i] \in Nat
  BY <1>1 DEF ArrivedH2
<1>3. k + 1 \in 1..m /\ taken < in[k + 1] /\ in[k + 1] <= sent /\ in[k + 1] \in Nat
  BY <1>1, <1>2
<1>4. in[k + 1] = taken + 1
  <2>1. PICK i \in 1..m : in[i] = taken + 1
    BY <1>2, <1>3
  <2>2. ~(i < k + 1)
    BY <2>1, <1>1
  <2>3. ~(k + 1 < i)
    <3>0. PICK a \in 1..m : a = k + 1
      BY <1>3
    <3>a. in[i] # 0 /\ in[a] # 0
      BY ONLY <2>1, <1>3, <3>0, taken \in Nat
    <3>1. k + 1 < i => in[k + 1] < in[i]
      BY ONLY <1>2, <3>0, <3>a, i \in 1..m, a \in 1..m
    <3>. QED
      BY ONLY <1>3, <2>1, <3>1, taken \in Nat
  <2>. QED
    BY <2>1, <2>2, <2>3
<1>5. Len(in2) = m - (k + 1) /\ \A j \in 1..(m - (k + 1)) : in2[j] = in[k + 1 + j] /\ k + 1 + j \in 1..m
  BY <1>1
<1>6. ASSUME NEW j \in 1..(m - (k + 1)), in2[j] # 0 PROVE taken + 1 < in2[j] /\ in2[j] <= sent
  <2>1. PICK i \in 1..m : i = k + 1 + j /\ in2[j] = in[i]
    BY ONLY <1>5, j \in 1..(m - (k + 1))
  <2>2. k + 1 < i
    BY ONLY <2>1, k \in Nat, m \in Nat, j \in 1..(m - (k + 1))
  <2>a. in[i] # 0 /\ in[k + 1] # 0
    BY ONLY <1>3, <1>6, <2>1, taken \in Nat
  <2>3. in[k + 1] < in[i] /\ in[i] <= sent
    BY ONLY <1>2, <1>3, <2>2, <2>a, i \in 1..m, SMTT(30)
  <2>. QED
    BY ONLY <1>4, <2>1, <2>3
<1>7. ASSUME NEW i \in 1..(m - (k + 1)), NEW j \in 1..(m - (k + 1)), i < j, in2[i] # 0, in2[j] # 0
      PROVE  in2[i] < in2[j]
  <2>1. PICK a \in 1..m, b \in 1..m : a = k + 1 + i /\ in2[i] = in[a] /\ b = k + 1 + j /\ in2[j] = in[b]
    BY ONLY <1>5, i \in 1..(m - (k + 1)), j \in 1..(m - (k + 1))
  <2>2. a < b
    BY ONLY <1>7, <2>1, k \in Nat, m \in Nat, i \in 1..(m - (k + 1)), j \in 1..(m - (k + 1))
  <2>. QED
    BY ONLY <1>2, <1>7, <2>1, <2>2, a \in 1..m, b \in 1..m
<1>8. ASSUME NEW v \in Nat, taken + 1 < v, v <= sent
      PROVE  \E j \in 1..(m - (k + 1)) : in2[j] = v
  <2>1. PICK i \in 1..m : in[i] = v
    BY <1>2, <1>8
  <2>2. k + 1 < i
    <3>1. i # k + 1
      BY ONLY <1>4, <1>8, <2>1, taken \in Nat
    <3>2. i \notin 1..k
      BY <1>8, <2>1
    <3>. QED
      BY ONLY <3>1, <3>2, i \in 1..m, k \in Nat, m \in Nat
  <2>3. PICK j \in 1..(m - (k + 1)) : i = k + 1 + j
    <3>1. i - (k + 1) \in 1..(m - (k + 1)) /\ i = k + 1 + (i - (k + 1))
      BY ONLY <2>2, i \in 1..m, k \in Nat, m \in Nat
    <3>. QED
      BY ONLY <3>1
  <2>. QED
    BY ONLY <1>5, <2>1, <2>3, j \in 1..(m - (k + 1))
<1>. QED
  BY <1>1, <1>3, <1>4, <1>5, <1>6, <1>7, <1>8 DEF ArrivedH2

\* A unit arrives.
LEMMA SendSound ==
    ASSUME NEW c \in CopyRec, NEW c2 \in CopyRec, NEW kind \in {"tcp", "h2"}, NEW tx, NEW unit \in Nat,
           DirSound(c, kind, "open", tx),
           c2.in = Append(c.in, unit), c2.sent = (IF unit = 0 THEN c.sent ELSE c.sent + 1),
           unit = c.sent + 1 \/ (kind = "h2" /\ unit = 0),
           c2.buf = c.buf, c2.out = c.out, c2.counted = c.counted, c2.st = c.st, c2.res = c.res, c2.shut = c.shut
    PROVE  DirSound(c2, kind, "open", tx)
<1>1. /\ c.in \in Seq(Nat) /\ c.sent \in Nat /\ c2.sent \in Nat
      /\ Taken(c) \in Nat /\ Taken(c2) = Taken(c)
  BY DEF CopyRec, Taken
<1>2. Consecutive(c2)
  BY DEF DirSound, Consecutive
<1>3. Ended(c2, "open", tx)
  BY DEF DirSound, Ended
<1>4. Whole(c, "open") = TRUE /\ Whole(c2, "open") = TRUE
  BY DEF Whole
<1>5. ASSUME c.st = "copy" PROVE Arrived(c2, kind, "open")
  <2>1. CASE kind = "tcp"
    <3>1. ArrivedTcp(c.in, Taken(c), c.sent, TRUE)
      BY <1>4, <1>5, <2>1, Zenon DEF DirSound, Arrived
    <3>2. ArrivedTcp(Append(c.in, c.sent + 1), Taken(c), c.sent + 1, TRUE)
      BY ONLY <1>1, <3>1, TcpAppend
    <3>3. c2.in = Append(c.in, c.sent + 1) /\ c2.sent = c.sent + 1
      BY <1>1, <2>1
    <3>. QED
      BY ONLY <1>1, <1>4, <2>1, <3>2, <3>3, Zenon DEF Arrived
  <2>2. CASE kind = "h2"
    <3>0. kind # "tcp"
      BY <2>2
    <3>1. ArrivedH2(c.in, Taken(c), c.sent, TRUE)
      BY <1>4, <1>5, <3>0, Zenon DEF DirSound, Arrived
    <3>2. (unit = 0 /\ c2.sent = c.sent) \/ (unit = c.sent + 1 /\ c2.sent = c.sent + 1)
      BY <1>1
    <3>3. ArrivedH2(Append(c.in, unit), Taken(c), c2.sent, TRUE)
      BY ONLY <1>1, <3>1, <3>2, H2Append, unit \in Nat
    <3>. QED
      BY <1>1, <1>4, <3>0, <3>3, Zenon DEF Arrived
  <2>. QED
    BY <2>1, <2>2
<1>. QED
  BY <1>2, <1>3, <1>5 DEF DirSound

\* A read takes the next units.
LEMMA ReadSound ==
    ASSUME NEW c \in CopyRec, NEW c2 \in CopyRec, NEW kind \in {"tcp", "h2"}, NEW rx, NEW tx, NEW n \in Nat \ {0}, NEW k \in Nat,
           DirSound(c, kind, rx, tx), c.st = "copy", c.buf = <<>>, kind = "h2" => n = 1,
           \A j \in 1..k : c.in[j] = 0, k + n <= Len(c.in), \A j \in (k + 1)..(k + n) : c.in[j] # 0,
           c2.buf = SubSeq(c.in, k + 1, k + n), c2.in = SubSeq(c.in, k + n + 1, Len(c.in)),
           c2.sent = c.sent, c2.out = c.out, c2.counted = c.counted, c2.st = c.st, c2.res = c.res, c2.shut = c.shut
    PROVE  DirSound(c2, kind, rx, tx)
<1>1. PICK in \in Seq(Nat), t \in Nat, s \in Nat, m \in Nat : in = c.in /\ t = Len(c.out) /\ s = c.sent /\ m = Len(in)
  BY DEF CopyRec
<1>2. Taken(c) = t /\ in # <<>>
  <2>1. Len(c.buf) = 0
    OBVIOUS
  <2>2. in # <<>>
    BY <1>1
  <2>. QED
    BY <1>1, <2>1, <2>2 DEF Taken
<1>3. Whole(c, rx) = TRUE
  BY <1>1, <1>2 DEF Whole
<1>4. Len(c2.buf) = n /\ \A j \in 1..n : c2.buf[j] = in[k + j]
  BY <1>1
<1>5. Taken(c2) = t + n
  BY <1>1, <1>4 DEF Taken
<1>6. /\ \A j \in 1..n : in[k + j] = t + j
      /\ Arrived(c2, kind, rx)
  <2>1. CASE kind = "tcp"
    <3>1. ArrivedTcp(in, t, s, TRUE)
      BY <1>1, <1>2, <1>3, <2>1, Zenon DEF DirSound, Arrived
    <3>2. (\A j \in 1..k : in[j] = 0) /\ k + n <= Len(in)
      BY <1>1
    <3>3. /\ \A j \in 1..n : in[k + j] = t + j
          /\ ArrivedTcp(SubSeq(in, k + n + 1, Len(in)), t + n, s, TRUE)
      BY ONLY <3>1, <3>2, TcpRead, in \in Seq(Nat), t \in Nat, s \in Nat, k \in Nat, n \in Nat \ {0}
    <3>4. ArrivedTcp(c2.in, Taken(c2), c2.sent, TRUE)
      BY <1>1, <1>5, <3>3, Zenon
    <3>5. ArrivedTcp(c2.in, Taken(c2), c2.sent, Whole(c2, rx))
      BY ONLY <3>4 DEF ArrivedTcp
    <3>. QED
      BY <2>1, <3>3, <3>5 DEF Arrived
  <2>2. CASE kind = "h2"
    <3>0. kind # "tcp" /\ n = 1
      BY <2>2
    <3>1. ArrivedH2(in, t, s, TRUE)
      BY <1>1, <1>2, <1>3, <3>0, Zenon DEF DirSound, Arrived
    <3>2. (\A j \in 1..k : in[j] = 0) /\ k + 1 <= Len(in) /\ in[k + 1] # 0
      BY <1>1, <3>0
    <3>3. in[k + 1] = t + 1 /\ ArrivedH2(SubSeq(in, k + 2, Len(in)), t + 1, s, TRUE)
      BY ONLY <3>1, <3>2, H2Read, in \in Seq(Nat), t \in Nat, s \in Nat, k \in Nat
    <3>a. k + n + 1 = k + 2
      BY <3>0
    <3>4. ArrivedH2(c2.in, Taken(c2), c2.sent, TRUE)
      BY <1>1, <1>5, <3>0, <3>3, <3>a, Zenon
    <3>5. ArrivedH2(c2.in, Taken(c2), c2.sent, Whole(c2, rx))
      BY ONLY <3>4 DEF ArrivedH2
    <3>6. \A j \in 1..n : in[k + j] = t + j
      BY ONLY <3>0, <3>3, k \in Nat, t \in Nat
    <3>. QED
      BY <3>0, <3>5, <3>6 DEF Arrived
  <2>. QED
    BY <2>1, <2>2
<1>7. Consecutive(c2)
  BY <1>1, <1>4, <1>6 DEF DirSound, Consecutive
<1>8. Ended(c2, rx, tx)
  BY DEF Ended
<1>. QED
  BY <1>6, <1>7, <1>8 DEF DirSound

\* A write takes the first i of the buffer.
LEMMA WriteSound ==
    ASSUME NEW c \in CopyRec, NEW c2 \in CopyRec, NEW kind \in {"tcp", "h2"}, NEW rx, NEW tx, NEW i \in 1..Len(c.buf),
           DirSound(c, kind, rx, tx), c.st = "copy",
           c2.out = c.out \o SubSeq(c.buf, 1, i), c2.buf = SubSeq(c.buf, i + 1, Len(c.buf)), c2.counted = c.counted + i,
           c2.in = c.in, c2.sent = c.sent, c2.st = c.st, c2.res = c.res, c2.shut = c.shut
    PROVE  DirSound(c2, kind, rx, tx)
<1>1. PICK out \in Seq(Nat), buf \in Seq(Nat), o \in Nat, b \in Nat : out = c.out /\ buf = c.buf /\ o = Len(out) /\ b = Len(buf)
  BY DEF CopyRec
<1>2. i \in 1..b
  BY <1>1
<1>3. PICK w : w = SubSeq(buf, 1, i)
  OBVIOUS
<1>4. w \in Seq(Nat) /\ Len(w) = i /\ \A j \in 1..i : w[j] = buf[j]
  <2>1. \A j \in 1..b : buf[j] \in Nat
    BY ONLY <1>1, buf \in Seq(Nat)
  <2>. QED
    BY ONLY <1>1, <1>2, <1>3, <2>1, buf \in Seq(Nat), b \in Nat
<1>5. PICK r : r = SubSeq(buf, i + 1, b)
  OBVIOUS
<1>6. r \in Seq(Nat) /\ Len(r) = b - i /\ \A j \in 1..(b - i) : r[j] = buf[i + j]
  <2>1. \A j \in 1..b : buf[j] \in Nat
    BY ONLY <1>1, buf \in Seq(Nat)
  <2>. QED
    BY ONLY <1>1, <1>2, <1>5, <2>1, buf \in Seq(Nat), b \in Nat, SMTT(30)
<1>7. PICK out2 : out2 = out \o w
  OBVIOUS
<1>8. Len(out2) = o + i /\ (\A j \in 1..o : out2[j] = out[j]) /\ \A j \in 1..i : out2[o + j] = w[j]
  <2>1. /\ Len(out2) = Len(out) + Len(w)
        /\ \A j \in 1..(Len(out) + Len(w)) : out2[j] = IF j <= Len(out) THEN out[j] ELSE w[j - Len(out)]
    BY ONLY <1>4, <1>7, ConcatProperties, out \in Seq(Nat)
  <2>2. /\ Len(out2) = o + i
        /\ \A j \in 1..(o + i) : out2[j] = IF j <= o THEN out[j] ELSE w[j - o]
    BY ONLY <1>1, <1>4, <2>1, Zenon
  <2>3. ASSUME NEW j \in 1..i PROVE out2[o + j] = w[j]
    <3>1. o + j \in 1..(o + i) /\ ~(o + j <= o) /\ (o + j) - o = j
      BY ONLY <1>2, o \in Nat, b \in Nat, j \in 1..i
    <3>. QED
      BY ONLY <2>2, <3>1
  <2>4. ASSUME NEW j \in 1..o PROVE out2[j] = out[j]
    BY ONLY <1>2, <2>2, o \in Nat, b \in Nat, j \in 1..o
  <2>. QED
    BY <2>2, <2>3, <2>4
<1>9. c2.out = out2 /\ c2.buf = r
  BY <1>1, <1>3, <1>5, <1>7, Zenon
<1>10. (\A k \in 1..o : out[k] = k) /\ (\A k \in 1..b : buf[k] = o + k) /\ c.counted = o
  BY <1>1 DEF DirSound, Consecutive
<1>11. ASSUME NEW k \in 1..(o + i) PROVE out2[k] = k
  <2>1. CASE k \in 1..o
    BY ONLY <1>8, <1>10, <2>1
  <2>2. CASE k \notin 1..o
    <3>1. PICK j \in 1..i : k = o + j
      BY ONLY <1>2, <2>2, o \in Nat, b \in Nat, k \in 1..(o + i)
    <3>2. out2[k] = buf[j] /\ j \in 1..b
      BY ONLY <1>2, <1>4, <1>8, <3>1, j \in 1..i, b \in Nat
    <3>. QED
      BY ONLY <1>10, <3>1, <3>2
  <2>. QED
    BY <2>1, <2>2
<1>12. ASSUME NEW k \in 1..(b - i) PROVE r[k] = (o + i) + k
  <2>1. i + k \in 1..b
    BY ONLY <1>2, b \in Nat, k \in 1..(b - i)
  <2>2. r[k] = o + (i + k)
    BY ONLY <1>6, <1>10, <2>1, k \in 1..(b - i)
  <2>. QED
    BY ONLY <1>2, <2>2, o \in Nat, b \in Nat, k \in 1..(b - i)
<1>13. c2.counted = o + i
  BY <1>10
<1>14. Consecutive(c2)
  BY ONLY <1>6, <1>8, <1>9, <1>11, <1>12, <1>13 DEF Consecutive
<1>15. Taken(c2) = Taken(c)
  <2>1. Taken(c) = o + b
    BY <1>1 DEF Taken
  <2>2. Taken(c2) = (o + i) + (b - i)
    BY ONLY <1>6, <1>8, <1>9 DEF Taken
  <2>. QED
    BY ONLY <1>2, <2>1, <2>2, o \in Nat, b \in Nat
<1>16. Arrived(c2, kind, rx)
  <2>1. Whole(c2, rx) = Whole(c, rx)
    BY DEF Whole
  <2>2. Arrived(c, kind, rx)
    BY DEF DirSound
  <2>. QED
    BY <1>15, <2>1, <2>2, Zenon DEF Arrived
<1>17. Ended(c2, rx, tx)
  BY DEF Ended
<1>. QED
  BY <1>14, <1>16, <1>17 DEF DirSound

\* A direction whose copy is over: the peers' ends decide what is owed.
LEMMA EndSound ==
    ASSUME NEW c \in CopyRec, NEW c2 \in CopyRec, NEW kind \in {"tcp", "h2"}, NEW rx, NEW tx,
           DirSound(c, kind, rx, tx), c.st = "copy",
           c2.st = "shutdown", c2.buf = <<>>, c2.out = c.out, c2.counted = c.counted, c2.sent = c.sent,
           rx # "open" \/ tx # "open",
           rx = "fin" /\ tx = "open" => c2.res = "Ok" /\ c.buf = <<>> /\ \A j \in 1..Len(c.in) : c.in[j] = 0
    PROVE  DirSound(c2, kind, rx, tx)
<1>1. Consecutive(c2)
  BY DEF DirSound, Consecutive
<1>2. ASSUME rx = "fin", tx = "open" PROVE Len(c.out) = c.sent
  <2>1. PICK in \in Seq(Nat), t \in Nat, s \in Nat, m \in Nat : in = c.in /\ t = Len(c.out) /\ s = c.sent /\ m = Len(in)
    BY DEF CopyRec
  <2>a. Len(c.buf) = 0
    BY <1>2
  <2>2. Taken(c) = t
    BY <2>1, <2>a DEF Taken
  <2>3. Whole(c, rx) = TRUE /\ \A j \in 1..m : in[j] = 0
    BY <1>2, <2>1 DEF Whole
  <2>4. CASE kind = "tcp"
    <3>1. ArrivedTcp(in, t, s, TRUE)
      BY <2>1, <2>2, <2>3, <2>4, Zenon DEF DirSound, Arrived
    <3>2. s = t + m /\ \A j \in 1..m : in[j] = t + j
      BY <2>1, <3>1 DEF ArrivedTcp
    <3>3. m = 0
      <4>1. SUFFICES ASSUME m # 0 PROVE FALSE
        OBVIOUS
      <4>2. 1 \in 1..m
        BY <4>1
      <4>3. in[1] = 0 /\ in[1] = t + 1
        BY ONLY <2>3, <3>2, <4>2
      <4>. QED
        BY ONLY <4>3, t \in Nat
    <3>. QED
      BY ONLY <2>1, <3>2, <3>3, t \in Nat
  <2>5. CASE kind = "h2"
    <3>0. kind # "tcp"
      BY <2>5
    <3>1. ArrivedH2(in, t, s, TRUE)
      BY <2>1, <2>2, <2>3, <3>0, Zenon DEF DirSound, Arrived
    <3>2. t <= s /\ (t < s => \E i \in 1..m : in[i] = s)
      BY <2>1, <3>1 DEF ArrivedH2
    <3>3. ~(t < s)
      BY ONLY <2>3, <3>2, t \in Nat, s \in Nat
    <3>. QED
      BY ONLY <2>1, <3>2, <3>3, t \in Nat, s \in Nat
  <2>. QED
    BY <2>4, <2>5
<1>3. Ended(c2, rx, tx)
  BY <1>2 DEF Ended
<1>. QED
  BY <1>1, <1>3 DEF DirSound

\* The peers' ends move on: what arrived stays, or is lost with a reset.
LEMMA PeerSound ==
    ASSUME NEW c \in CopyRec, NEW c2 \in CopyRec, NEW kind \in {"tcp", "h2"}, NEW rx, NEW tx, NEW rx2, NEW tx2,
           DirSound(c, kind, rx, tx),
           c2.out = c.out, c2.buf = c.buf, c2.counted = c.counted, c2.sent = c.sent, c2.st = c.st, c2.res = c.res, c2.shut = c.shut,
           c2.in = c.in \/ (c2.in = <<>> /\ rx2 \notin {"open", "fin"}),
           rx2 \in {"open", "fin"} => rx \in {"open", "fin"},
           c.st # "copy" /\ rx2 = "fin" /\ tx2 = "open" => rx = "fin" /\ tx = "open",
           rx2 = "open" => rx = "open", tx2 = "open" => tx = "open"
    PROVE  DirSound(c2, kind, rx2, tx2)
<1>1. Consecutive(c2)
  BY DEF DirSound, Consecutive
<1>2. Ended(c2, rx2, tx2)
  BY DEF DirSound, Ended
<1>3. Taken(c2) = Taken(c)
  BY DEF Taken
<1>4. ASSUME c.st = "copy" PROVE Arrived(c2, kind, rx2)
  <2>0. Arrived(c, kind, rx)
    BY <1>4 DEF DirSound
  <2>1. CASE c2.in = c.in
    <3>1. Whole(c2, rx2) => Whole(c, rx)
      BY <2>1 DEF Whole
    <3>2. kind = "tcp" => ArrivedTcp(c2.in, Taken(c2), c2.sent, Whole(c2, rx2))
      BY <1>3, <2>0, <2>1, <3>1 DEF Arrived, ArrivedTcp
    <3>3. kind # "tcp" => ArrivedH2(c2.in, Taken(c2), c2.sent, Whole(c2, rx2))
      BY <1>3, <2>0, <2>1, <3>1 DEF Arrived, ArrivedH2
    <3>. QED
      BY <3>2, <3>3 DEF Arrived
  <2>2. CASE c2.in = <<>> /\ rx2 \notin {"open", "fin"}
    <3>1. ~Whole(c2, rx2) /\ Len(c2.in) = 0
      BY <2>2 DEF Whole
    <3>2. kind = "tcp" => ArrivedTcp(c2.in, Taken(c2), c2.sent, Whole(c2, rx2))
      BY <3>1 DEF ArrivedTcp
    <3>3. kind # "tcp" => ArrivedH2(c2.in, Taken(c2), c2.sent, Whole(c2, rx2))
      BY <1>3, <2>0, <3>1 DEF Arrived, ArrivedH2
    <3>. QED
      BY <3>2, <3>3 DEF Arrived
  <2>. QED
    BY <2>1, <2>2
<1>. QED
  BY <1>1, <1>2, <1>4 DEF DirSound

\* A step that changes one direction and no peer.
LEMMA OneDirection ==
    ASSUME CopyInv, NEW d \in CopyDirs, NEW c2 \in CopyRec, cdir' = [cdir EXCEPT ![d] = c2], UNCHANGED <<ckind, cpeer>>,
           DirSound(c2, ckind[From(d)], cpeer[From(d)].rx, cpeer[Into(d)].tx)
    PROVE  CopyInv'
<1>1. CopyType'
  BY DEF CopyInv, CopyType
<1>2. ASSUME NEW e \in CopyDirs
      PROVE  DirSound(cdir[e], ckind[From(e)], cpeer[From(e)].rx, cpeer[Into(e)].tx)'
  <2>1. CASE e = d
    <3>1. cdir'[e] = c2
      BY <2>1 DEF CopyInv, CopyType
    <3>. QED
      BY <2>1, <3>1, Zenon DEF From, Into
  <2>2. CASE e # d
    <3>1. cdir'[e] = cdir[e]
      BY <2>2 DEF CopyInv, CopyType
    <3>2. DirSound(cdir[e], ckind[From(e)], cpeer[From(e)].rx, cpeer[Into(e)].tx)
      BY DEF CopyInv
    <3>. QED
      BY <3>1, <3>2, Zenon DEF From, Into
  <2>. QED
    BY <2>1, <2>2
<1>. QED
  BY <1>1, <1>2 DEF CopyInv

\* A part of a sequence of numbers is one.
LEMMA PartTyped ==
    ASSUME NEW s \in Seq(Nat), NEW a \in Nat \ {0}, NEW b \in Nat, b <= Len(s)
    PROVE  \E q \in Seq(Nat) : q = SubSeq(s, a, b)
<1>1. \A i \in a..b : s[i] \in Nat
  <2>1. SUFFICES ASSUME NEW i \in a..b PROVE s[i] \in Nat
    OBVIOUS
  <2>2. i \in 1..Len(s)
    BY <2>1
  <2>. QED
    BY <2>2
<1>2. SubSeq(s, a, b) \in Seq(Nat)
  BY <1>1, SubSeqProperties
<1>. QED
  BY <1>2

\* Every step of a direction keeps CopyInv: a unit arrives, is read, is written,
\* and the direction ends.
LEMMA DirectionSteps ==
    ASSUME CopyInv, NEW d \in CopyDirs,
           \/ \E unit \in 0..CopyUnits : PeerSends(d, unit)
           \/ \E n \in 1..CopyUnits : PollBytes(d, n) \/ PollWriteBuf(d, n)
           \/ \E e \in {"WriteZero", "BrokenPipe", "Other", "TimedOut"} : PollWriteFails(d, e)
           \/ PollEnd(d) \/ PollShutdown(d)
    PROVE  CopyInv'
<1>1. PICK c \in CopyRec : c = cdir[d]
  BY DEF CopyInv, CopyType
<1>2. PICK kind \in {"tcp", "h2"} : kind = ckind[From(d)]
  BY DEF CopyInv, CopyType, From
<1>a. PICK rx, tx : rx = cpeer[From(d)].rx /\ tx = cpeer[Into(d)].tx
  OBVIOUS
<1>b. rx \in {"open", "fin"} \cup TcpErrors \cup H2Reasons
  BY <1>a DEF CopyInv, CopyType, From, PeerRec
<1>c. cdir \in [CopyDirs -> CopyRec]
  BY DEF CopyInv, CopyType
<1>3. DirSound(c, kind, rx, tx)
  BY <1>1, <1>2, <1>a, Zenon DEF CopyInv
<1>4. ASSUME NEW c2 \in CopyRec, cdir' = [cdir EXCEPT ![d] = c2], DirSound(c2, kind, rx, tx), UNCHANGED <<ckind, cpeer>>
      PROVE  CopyInv'
  BY <1>2, <1>4, <1>a, OneDirection
<1>5. ASSUME NEW unit \in 0..CopyUnits, PeerSends(d, unit)
      PROVE  CopyInv'
  <2>1. PICK q \in Seq(Nat), s \in Nat : q = Append(c.in, unit) /\ s = IF unit = 0 THEN c.sent ELSE c.sent + 1
    <3>1. c.in \in Seq(Nat) /\ unit \in Nat /\ c.sent \in Nat
      BY CopyAssumption DEF CopyRec
    <3>2. Append(c.in, unit) \in Seq(Nat)
      BY <3>1, AppendProperties
    <3>3. (IF unit = 0 THEN c.sent ELSE c.sent + 1) \in Nat
      BY ONLY <3>1
    <3>. QED
      BY ONLY <3>2, <3>3, Zenon
  <2>2. PICK c2 : c2 = [c EXCEPT !.in = q, !.sent = s]
    OBVIOUS
  <2>3. /\ c2 \in CopyRec /\ c2.in = q /\ c2.sent = s /\ c2.buf = c.buf /\ c2.out = c.out /\ c2.counted = c.counted
        /\ c2.st = c.st /\ c2.res = c.res /\ c2.shut = c.shut
    BY ONLY <2>2, c \in CopyRec, q \in Seq(Nat), s \in Nat DEF CopyRec
  <2>4. cdir' = [cdir EXCEPT ![d].in = q, ![d].sent = s] /\ UNCHANGED <<ckind, cpeer>>
    BY <1>1, <1>5, <2>1 DEF PeerSends
  <2>5. cdir' = [cdir EXCEPT ![d] = c2]
    BY ONLY <1>1, <1>c, <2>2, <2>4, d \in CopyDirs
  <2>6. rx = "open" /\ (unit = c.sent + 1 \/ (kind = "h2" /\ unit = 0)) /\ unit \in Nat
    BY <1>1, <1>2, <1>5, <1>a, CopyAssumption DEF PeerSends
  <2>7. DirSound(c2, kind, rx, tx)
    BY ONLY <1>3, <2>1, <2>3, <2>6, SendSound, c \in CopyRec, kind \in {"tcp", "h2"}
  <2>. QED
    BY <1>4, <2>3, <2>4, <2>5, <2>7
<1>6. ASSUME NEW n \in 1..CopyUnits, PollBytes(d, n)
      PROVE  CopyInv'
  <2>1. PICK k \in 0..Len(c.in) :
            /\ SkipEmpty(c.in, k) /\ k + n <= Len(c.in) /\ \A j \in (k + 1)..(k + n) : c.in[j] # 0
            /\ cdir' = [cdir EXCEPT ![d].buf = SubSeq(c.in, k + 1, k + n), ![d].in = SubSeq(c.in, k + n + 1, Len(c.in))]
    BY <1>1, <1>6, Zenon DEF PollBytes
  <2>2. c.in \in Seq(Nat) /\ n \in Nat \ {0} /\ k \in Nat /\ \A j \in 1..Len(c.in) : c.in[j] \in Nat
    BY CopyAssumption DEF CopyRec
  <2>a. k + 1 \in Nat \ {0} /\ k + n \in Nat /\ k + n + 1 \in Nat \ {0} /\ Len(c.in) \in Nat /\ Len(c.in) <= Len(c.in) /\ k + n <= Len(c.in)
    <3>1. k + n <= Len(c.in)
      BY ONLY <2>1
    <3>2. Len(c.in) \in Nat
      BY ONLY <2>2
    <3>. QED
      BY ONLY <2>2, <3>1, <3>2
  <2>3. PICK b \in Seq(Nat) : b = SubSeq(c.in, k + 1, k + n)
    BY ONLY <2>2, <2>a, PartTyped
  <2>4. PICK q \in Seq(Nat) : q = SubSeq(c.in, k + n + 1, Len(c.in))
    BY ONLY <2>2, <2>a, PartTyped
  <2>5. PICK c2 : c2 = [c EXCEPT !.buf = b, !.in = q]
    OBVIOUS
  <2>6. /\ c2 \in CopyRec /\ c2.in = q /\ c2.buf = b /\ c2.sent = c.sent /\ c2.out = c.out /\ c2.counted = c.counted
        /\ c2.st = c.st /\ c2.res = c.res /\ c2.shut = c.shut
    BY ONLY <2>5, c \in CopyRec, q \in Seq(Nat), b \in Seq(Nat) DEF CopyRec
  <2>7. cdir' = [cdir EXCEPT ![d].buf = b, ![d].in = q] /\ UNCHANGED <<ckind, cpeer>>
    BY <1>6, <2>1, <2>3, <2>4, Zenon DEF PollBytes
  <2>8. cdir' = [cdir EXCEPT ![d] = c2]
    BY ONLY <1>1, <1>c, <2>5, <2>7, d \in CopyDirs
  <2>9. c.st = "copy" /\ c.buf = <<>> /\ (kind = "h2" => n = 1)
    BY <1>1, <1>2, <1>6 DEF PollBytes
  <2>10. (\A j \in 1..k : c.in[j] = 0) /\ k + n <= Len(c.in) /\ \A j \in (k + 1)..(k + n) : c.in[j] # 0
    BY <2>1 DEF SkipEmpty
  <2>11. DirSound(c2, kind, rx, tx)
    BY ONLY <1>3, <2>2, <2>3, <2>4, <2>6, <2>9, <2>10, ReadSound, c \in CopyRec, kind \in {"tcp", "h2"}
  <2>. QED
    BY <1>4, <2>6, <2>7, <2>8, <2>11
<1>7. ASSUME NEW i \in 1..CopyUnits, PollWriteBuf(d, i)
      PROVE  CopyInv'
  <2>1. c.st = "copy" /\ i \in 1..Len(c.buf) /\ UNCHANGED <<ckind, cpeer>>
    BY <1>1, <1>7 DEF PollWriteBuf
  <2>2. c.out \in Seq(Nat) /\ c.buf \in Seq(Nat) /\ c.counted \in Nat /\ \A j \in 1..Len(c.buf) : c.buf[j] \in Nat
    BY DEF CopyRec
  <2>a. 1 \in Nat \ {0} /\ i \in Nat /\ i + 1 \in Nat \ {0} /\ Len(c.buf) \in Nat /\ Len(c.buf) <= Len(c.buf) /\ i <= Len(c.buf)
    BY <2>1, <2>2
  <2>3. PICK w \in Seq(Nat) : w = SubSeq(c.buf, 1, i)
    BY ONLY <2>2, <2>a, PartTyped
  <2>4. PICK o \in Seq(Nat) : o = c.out \o w
    BY <2>2, ConcatProperties
  <2>5. PICK b \in Seq(Nat) : b = SubSeq(c.buf, i + 1, Len(c.buf))
    BY ONLY <2>2, <2>a, PartTyped
  <2>6. PICK n \in Nat : n = c.counted + i
    BY <2>2
  <2>7. PICK c2 : c2 = [c EXCEPT !.out = o, !.buf = b, !.counted = n]
    OBVIOUS
  <2>8. /\ c2 \in CopyRec /\ c2.out = o /\ c2.buf = b /\ c2.counted = n /\ c2.sent = c.sent /\ c2.in = c.in
        /\ c2.st = c.st /\ c2.res = c.res /\ c2.shut = c.shut
    BY ONLY <2>7, c \in CopyRec, o \in Seq(Nat), b \in Seq(Nat), n \in Nat DEF CopyRec
  <2>9. cdir' = [cdir EXCEPT ![d].out = o, ![d].buf = b, ![d].counted = n]
    BY <1>1, <1>7, <2>3, <2>4, <2>5, <2>6 DEF PollWriteBuf, Rest
  <2>10. cdir' = [cdir EXCEPT ![d] = c2]
    BY ONLY <1>1, <1>c, <2>7, <2>9, d \in CopyDirs
  <2>11. DirSound(c2, kind, rx, tx)
    BY ONLY <1>3, <2>1, <2>3, <2>4, <2>5, <2>6, <2>8, WriteSound, c \in CopyRec, kind \in {"tcp", "h2"}
  <2>. QED
    BY <1>4, <2>1, <2>8, <2>10, <2>11
<1>8. ASSUME NEW e, CopyEnd(d, e), UNCHANGED <<ckind, cpeer>>, c.st = "copy", IgnoreIoErrors(e) \in CopyResults,
             rx # "open" \/ tx # "open",
             rx = "fin" /\ tx = "open" => IgnoreIoErrors(e) = "Ok" /\ c.buf = <<>> /\ \A j \in 1..Len(c.in) : c.in[j] = 0
      PROVE  CopyInv'
  <2>1. PICK r \in CopyResults : r = IgnoreIoErrors(e)
    BY <1>8
  <2>a. <<>> \in Seq(Nat)
    BY ONLY Nat = Nat
  <2>2. PICK q \in Seq(Nat) : q = <<>>
    BY ONLY <2>a, Zenon
  <2>3. PICK c2 : c2 = [c EXCEPT !.st = "shutdown", !.res = r, !.buf = q]
    OBVIOUS
  <2>4. /\ c2 \in CopyRec /\ c2.st = "shutdown" /\ c2.buf = q /\ c2.res = r /\ c2.out = c.out /\ c2.counted = c.counted
        /\ c2.sent = c.sent
    BY ONLY <2>3, c \in CopyRec, q \in Seq(Nat), r \in CopyResults DEF CopyRec
  <2>5. cdir' = [cdir EXCEPT ![d].st = "shutdown", ![d].res = r, ![d].buf = q]
    BY <1>8, <2>1, <2>2 DEF CopyEnd
  <2>6. cdir' = [cdir EXCEPT ![d] = c2]
    BY ONLY <1>1, <1>c, <2>3, <2>5, d \in CopyDirs
  <2>7. DirSound(c2, kind, rx, tx)
    BY ONLY <1>3, <1>8, <2>1, <2>2, <2>4, EndSound, c \in CopyRec, kind \in {"tcp", "h2"}
  <2>. QED
    BY <1>4, <1>8, <2>4, <2>6, <2>7
<1>9. ASSUME NEW e \in {"WriteZero", "BrokenPipe", "Other", "TimedOut"}, PollWriteFails(d, e)
      PROVE  CopyInv'
  <2>1. CopyEnd(d, e) /\ c.st = "copy" /\ tx # "open" /\ UNCHANGED <<ckind, cpeer>>
    BY <1>1, <1>9, <1>a DEF PollWriteFails
  <2>2. IgnoreIoErrors(e) \in CopyResults
    BY DEF IgnoreIoErrors, CopyResults, TcpErrors
  <2>. QED
    BY <1>8, <2>1, <2>2
<1>10. CASE PollEnd(d)
  <2>1. /\ CopyEnd(d, ReadEnd(kind, rx)) /\ c.st = "copy" /\ c.buf = <<>> /\ rx # "open" /\ UNCHANGED <<ckind, cpeer>>
        /\ \A j \in 1..Len(c.in) : c.in[j] = 0
    BY <1>1, <1>2, <1>10, <1>a DEF PollEnd, SkipEmpty
  <2>2. IgnoreIoErrors(ReadEnd(kind, rx)) \in CopyResults
    <3>1. rx \in {"fin"} \cup TcpErrors \cup H2Reasons
      BY <1>b, <2>1
    <3>2. ReadEnd(kind, rx) \in {"eof", "BrokenPipe", "Other"} \cup TcpErrors \cup H2Reasons
      BY ONLY <3>1, kind \in {"tcp", "h2"} DEF ReadEnd
    <3>. QED
      BY ONLY <3>2 DEF IgnoreIoErrors, CopyResults
  <2>3. rx = "fin" => IgnoreIoErrors(ReadEnd(kind, rx)) = "Ok"
    BY DEF IgnoreIoErrors, ReadEnd
  <2>. QED
    BY <1>8, <2>1, <2>2, <2>3
<1>11. CASE PollShutdown(d)
  <2>1. PICK r \in CopyResults : /\ cdir' = [cdir EXCEPT ![d].st = "done", ![d].shut = TRUE, ![d].res = r]
                                 /\ tx = "open" => r = c.res
    <3>1. c.res \in CopyResults /\ "ShutdownError" \in CopyResults
      BY DEF CopyRec, CopyResults
    <3>2. tx = "open" => ShutdownError(ckind[Into(d)], cpeer[Into(d)].tx) = "Ok"
      BY <1>a DEF ShutdownError
    <3>. QED
      BY <1>1, <1>11, <3>1, <3>2 DEF PollShutdown
  <2>2. c.st = "shutdown" /\ UNCHANGED <<ckind, cpeer>>
    BY <1>1, <1>11 DEF PollShutdown
  <2>3. PICK c2 : c2 = [c EXCEPT !.st = "done", !.shut = TRUE, !.res = r]
    OBVIOUS
  <2>4. /\ c2 \in CopyRec /\ c2.st = "done" /\ c2.buf = c.buf /\ c2.res = r /\ c2.out = c.out /\ c2.counted = c.counted
        /\ c2.sent = c.sent /\ c2.shut = TRUE
    BY ONLY <2>3, c \in CopyRec, r \in CopyResults DEF CopyRec
  <2>5. cdir' = [cdir EXCEPT ![d] = c2]
    BY ONLY <1>1, <1>c, <2>1, <2>3, d \in CopyDirs
  <2>6. DirSound(c2, kind, rx, tx)
    BY <1>3, <2>1, <2>2, <2>4 DEF DirSound, Consecutive, Ended
  <2>. QED
    BY <1>4, <2>2, <2>4, <2>5, <2>6
<1>. QED
  BY <1>5, <1>6, <1>7, <1>9, <1>10, <1>11

\* A peer ends its sending, or resets: both directions see it.
LEMMA PeerSteps ==
    ASSUME CopyInv, NEW s \in {"down", "up"},
           \/ PeerEnds(s)
           \/ \E why \in TcpErrors \cup H2Reasons, keep \in BOOLEAN : PeerResets(s, why, keep)
    PROVE  CopyInv'
<1>0. CopyType /\ ckind' = ckind
  BY DEF CopyInv, PeerEnds, PeerResets
<1>1. PICK p \in PeerRec :
          /\ cpeer' = [cpeer EXCEPT ![s] = p]
          /\ \/ p.rx = "fin" /\ cpeer[s].rx = "open" /\ p.tx = cpeer[s].tx
             \/ /\ (p.rx = "fin" /\ cpeer[s].rx = "fin") \/ p.rx \notin {"open", "fin"}
                /\ p.tx # "open"
  <2>0. cpeer[s] \in PeerRec
    BY <1>0 DEF CopyType
  <2>1. CASE PeerEnds(s)
    <3>1. PICK p : p = [cpeer[s] EXCEPT !.rx = "fin"]
      OBVIOUS
    <3>2. p \in PeerRec /\ p.rx = "fin" /\ p.tx = cpeer[s].tx
      BY <2>0, <3>1 DEF PeerRec
    <3>3. cpeer' = [cpeer EXCEPT ![s] = p]
      BY <1>0, <2>1, <3>1 DEF PeerEnds, CopyType
    <3>. QED
      BY <2>1, <3>2, <3>3 DEF PeerEnds
  <2>2. ASSUME NEW why \in TcpErrors \cup H2Reasons, NEW keep \in BOOLEAN, PeerResets(s, why, keep)
        PROVE  \E p \in PeerRec :
                  /\ cpeer' = [cpeer EXCEPT ![s] = p]
                  /\ (p.rx = "fin" /\ cpeer[s].rx = "fin") \/ p.rx \notin {"open", "fin"}
                  /\ p.tx # "open"
    <3>1. PICK p : p = [rx |-> IF cpeer[s].rx = "fin" /\ ckind[s] = "tcp" THEN "fin" ELSE why, tx |-> why]
      OBVIOUS
    <3>2. why \notin {"open", "fin"}
      BY DEF TcpErrors, H2Reasons
    <3>3. p \in PeerRec /\ p.tx # "open" /\ ((p.rx = "fin" /\ cpeer[s].rx = "fin") \/ p.rx \notin {"open", "fin"})
      BY <3>1, <3>2 DEF PeerRec
    <3>4. cpeer' = [cpeer EXCEPT ![s] = p]
      BY <1>0, <2>2, <3>1 DEF PeerResets, CopyType
    <3>. QED
      BY <3>3, <3>4
  <2>. QED
    BY <2>1, <2>2
<1>2. \A x \in {"down", "up"} : cpeer'[x] = IF x = s THEN p ELSE cpeer[x]
  BY <1>0, <1>1 DEF CopyType
<1>3. ASSUME NEW d \in CopyDirs
      PROVE  \E c2 \in CopyRec :
                /\ cdir'[d] = c2
                /\ c2.out = cdir[d].out /\ c2.buf = cdir[d].buf /\ c2.counted = cdir[d].counted /\ c2.sent = cdir[d].sent
                /\ c2.st = cdir[d].st /\ c2.res = cdir[d].res /\ c2.shut = cdir[d].shut
                /\ c2.in = cdir[d].in \/ (c2.in = <<>> /\ From(d) = s /\ p.rx \notin {"open", "fin"})
  <2>0. cdir[d] \in CopyRec /\ cdir \in [CopyDirs -> CopyRec]
    BY <1>0 DEF CopyType
  <2>1. CASE cdir' = cdir
    BY <2>0, <2>1
  <2>2. ASSUME NEW why \in TcpErrors \cup H2Reasons, NEW keep \in BOOLEAN, PeerResets(s, why, keep), cdir' # cdir
        PROVE  \E c2 \in CopyRec :
                  /\ cdir'[d] = c2
                  /\ c2.out = cdir[d].out /\ c2.buf = cdir[d].buf /\ c2.counted = cdir[d].counted /\ c2.sent = cdir[d].sent
                  /\ c2.st = cdir[d].st /\ c2.res = cdir[d].res /\ c2.shut = cdir[d].shut
                  /\ c2.in = cdir[d].in \/ (c2.in = <<>> /\ From(d) = s /\ p.rx \notin {"open", "fin"})
    <3>1. PICK e \in CopyDirs : e = IF s = "down" THEN "send" ELSE "recv"
      BY DEF CopyDirs
    <3>2. From(e) = s
      BY <3>1 DEF From
    <3>a. <<>> \in Seq(Nat)
      BY ONLY Nat = Nat
    <3>b. PICK q \in Seq(Nat) : q = <<>>
      BY ONLY <3>a, Zenon
    <3>c. cdir' = IF keep \/ cpeer[s].rx = "fin" THEN cdir ELSE [cdir EXCEPT ![e].in = <<>>]
      BY <2>2, <3>1 DEF PeerResets
    <3>d. cpeer[s].rx # "fin" /\ cdir' = [cdir EXCEPT ![e].in = <<>>]
      BY ONLY <2>2, <3>c, Zenon
    <3>3. cdir' = [cdir EXCEPT ![e].in = q]
      BY ONLY <3>b, <3>d, Zenon
    <3>4. p.rx \notin {"open", "fin"}
      BY <1>1, <2>2, <3>d, <1>2 DEF PeerResets, TcpErrors, H2Reasons
    <3>5. CASE e = d
      <4>1. PICK c2 : c2 = [cdir[d] EXCEPT !.in = q]
        OBVIOUS
      <4>2. c2 \in CopyRec /\ c2.in = q /\ c2.out = cdir[d].out /\ c2.buf = cdir[d].buf /\ c2.counted = cdir[d].counted
            /\ c2.sent = cdir[d].sent /\ c2.st = cdir[d].st /\ c2.res = cdir[d].res /\ c2.shut = cdir[d].shut
        BY ONLY <2>0, <4>1, q \in Seq(Nat) DEF CopyRec
      <4>3. cdir'[d] = c2
        BY ONLY <2>0, <3>3, <3>5, <4>1, d \in CopyDirs
      <4>. QED
        BY ONLY <3>2, <3>4, <3>5, <3>b, <4>2, <4>3, Zenon
    <3>6. CASE e # d
      BY <2>0, <3>3, <3>6
    <3>. QED
      BY <3>5, <3>6
  <2>. QED
    BY <2>1, <2>2 DEF PeerEnds
<1>4. cdir' \in [CopyDirs -> CopyRec]
  <2>1. \A d \in CopyDirs : cdir'[d] \in CopyRec
    BY <1>3
  <2>2. \E f \in [CopyDirs -> CopyRec] : \E d \in CopyDirs : \E x : cdir' = f \/ cdir' = [f EXCEPT ![d] = x]
    BY <1>0 DEF CopyType, PeerEnds, PeerResets, CopyDirs
  <2>. QED
    BY <2>1, <2>2
<1>5. CopyType'
  BY <1>0, <1>1, <1>4 DEF CopyType
<1>6. ASSUME NEW d \in CopyDirs
      PROVE  DirSound(cdir[d], ckind[From(d)], cpeer[From(d)].rx, cpeer[Into(d)].tx)'
  <2>1. PICK c \in CopyRec : c = cdir[d]
    BY <1>0 DEF CopyType
  <2>2. PICK kind \in {"tcp", "h2"} : kind = ckind[From(d)]
    BY <1>0 DEF CopyType, From
  <2>3. PICK rx, tx, rx2, tx2 : /\ rx = cpeer[From(d)].rx /\ tx = cpeer[Into(d)].tx
                                /\ rx2 = cpeer'[From(d)].rx /\ tx2 = cpeer'[Into(d)].tx
    OBVIOUS
  <2>4. PICK c2 \in CopyRec :
            /\ cdir'[d] = c2
            /\ c2.out = c.out /\ c2.buf = c.buf /\ c2.counted = c.counted /\ c2.sent = c.sent
            /\ c2.st = c.st /\ c2.res = c.res /\ c2.shut = c.shut
            /\ c2.in = c.in \/ (c2.in = <<>> /\ From(d) = s /\ p.rx \notin {"open", "fin"})
    BY <1>3, <2>1
  <2>5. DirSound(c, kind, rx, tx)
    BY <2>1, <2>2, <2>3, Zenon DEF CopyInv
  <2>6. From(d) \in {"down", "up"} /\ Into(d) \in {"down", "up"} /\ From(d) # Into(d)
    BY DEF From, Into
  <2>7. /\ From(d) = s => rx2 = p.rx /\ rx = cpeer[s].rx /\ tx2 = tx
        /\ From(d) # s => tx2 = p.tx /\ tx = cpeer[s].tx /\ rx2 = rx
    <3>1. From(d) = s => rx2 = p.rx /\ rx = cpeer[s].rx /\ Into(d) # s
      BY <1>2, <2>3, <2>6
    <3>2. From(d) # s => tx2 = p.tx /\ tx = cpeer[s].tx /\ Into(d) = s
      BY <1>2, <2>3, <2>6
    <3>. QED
      BY <1>2, <2>3, <2>6, <3>1, <3>2
  <2>8. c.st # "copy" => rx # "open" \/ tx # "open"
    BY <2>5 DEF DirSound, Ended
  <2>9. /\ c2.in = c.in \/ (c2.in = <<>> /\ rx2 \notin {"open", "fin"})
        /\ rx2 \in {"open", "fin"} => rx \in {"open", "fin"}
        /\ c.st # "copy" /\ rx2 = "fin" /\ tx2 = "open" => rx = "fin" /\ tx = "open"
        /\ rx2 = "open" => rx = "open"
        /\ tx2 = "open" => tx = "open"
    <3>1. CASE From(d) = s
      BY ONLY <1>1, <2>4, <2>7, <2>8, <3>1
    <3>2. CASE From(d) # s
      BY ONLY <1>1, <2>4, <2>7, <2>8, <3>2
    <3>. QED
      BY <3>1, <3>2
  <2>10. DirSound(c2, kind, rx2, tx2)
    BY ONLY <2>4, <2>5, <2>9, PeerSound, c \in CopyRec, kind \in {"tcp", "h2"}
  <2>. QED
    BY <1>0, <2>2, <2>3, <2>4, <2>10, Zenon DEF From, Into
<1>. QED
  BY <1>5, <1>6 DEF CopyInv

\* Every step of copy_bidirectional and of the peers keeps CopyInv.
LEMMA CopyPreserved == CopyInv /\ [CopyNext]_copyVars => CopyInv'
<1>. SUFFICES ASSUME CopyInv, [CopyNext]_copyVars PROVE CopyInv'
  OBVIOUS
<1>1. CASE CopyNext
  BY <1>1, DirectionSteps, PeerSteps, Zenon DEF CopyNext
<1>2. CASE UNCHANGED copyVars
  BY <1>2, Zenon DEF copyVars, CopyInv, CopyType, From, Into
<1>. QED
  BY <1>1, <1>2

\* CopyInv is an invariant of the copy, for any number of units.
THEOREM CopyInvariant == CopySpec => []CopyInv
<1>. QED
  BY CopyInitial, CopyPreserved, PTL DEF CopySpec

\* The invariant says what StreamIntact promises: the units are consecutive.
LEMMA IntactFollows == CopyInv => StreamIntact
<1>. SUFFICES ASSUME CopyInv, NEW d \in CopyDirs
              PROVE  LET c == cdir[d]
                     IN /\ c.out \o c.buf = [k \in 1..Len(c.out \o c.buf) |-> k]
                        /\ c.counted = Len(c.out)
                        /\ c.st = "done" /\ cpeer[From(d)].rx = "fin" /\ cpeer[Into(d)].tx = "open" =>
                             c.shut /\ c.res = "Ok" /\ Len(c.out) = c.sent
  BY Zenon DEF StreamIntact
<1>1. PICK c \in CopyRec : c = cdir[d]
  BY DEF CopyInv, CopyType
<1>2. Consecutive(c) /\ Ended(c, cpeer[From(d)].rx, cpeer[Into(d)].tx)
  BY <1>1 DEF CopyInv, DirSound
<1>3. PICK out \in Seq(Nat), buf \in Seq(Nat), o \in Nat, b \in Nat :
          out = c.out /\ buf = c.buf /\ o = Len(out) /\ b = Len(buf)
  BY DEF CopyRec
<1>4. (\A k \in 1..o : out[k] = k) /\ \A k \in 1..b : buf[k] = o + k
  BY <1>2, <1>3 DEF Consecutive
<1>5. /\ out \o buf \in Seq(Nat) /\ Len(out \o buf) = o + b
      /\ \A i \in 1..(o + b) : (out \o buf)[i] = IF i <= o THEN out[i] ELSE buf[i - o]
  <2>1. /\ out \o buf \in Seq(Nat) /\ Len(out \o buf) = Len(out) + Len(buf)
        /\ \A i \in 1..(Len(out) + Len(buf)) : (out \o buf)[i] = IF i <= Len(out) THEN out[i] ELSE buf[i - Len(out)]
    BY ONLY ConcatProperties, out \in Seq(Nat), buf \in Seq(Nat)
  <2>. QED
    BY ONLY <1>3, <2>1, Zenon
<1>6. PICK q \in Seq(Nat) : q = out \o buf
  BY ONLY <1>5, Zenon
<1>7. Len(q) = o + b /\ \A i \in 1..(o + b) : q[i] = IF i <= o THEN out[i] ELSE buf[i - o]
  BY ONLY <1>5, <1>6, Zenon
<1>8. ASSUME NEW i \in 1..(o + b) PROVE q[i] = i
  <2>1. CASE i <= o
    <3>1. i \in 1..o
      BY ONLY <2>1, o \in Nat, b \in Nat, i \in 1..(o + b)
    <3>. QED
      BY ONLY <1>4, <1>7, <2>1, <3>1, i \in 1..(o + b)
  <2>2. CASE ~(i <= o)
    <3>1. i - o \in 1..b
      BY ONLY <2>2, o \in Nat, b \in Nat, i \in 1..(o + b)
    <3>2. q[i] = o + (i - o)
      BY ONLY <1>4, <1>7, <2>2, <3>1, i \in 1..(o + b)
    <3>. QED
      BY ONLY <3>2, o \in Nat, b \in Nat, i \in 1..(o + b)
  <2>. QED
    BY <2>1, <2>2
<1>9. q = [k \in 1..Len(q) |-> k]
  <2>1. q = [k \in 1..Len(q) |-> q[k]]
    BY ONLY q \in Seq(Nat)
  <2>. QED
    BY ONLY <1>7, <1>8, <2>1, Zenon
<1>10. c.out \o c.buf = [k \in 1..Len(c.out \o c.buf) |-> k]
  BY ONLY <1>3, <1>6, <1>9, Zenon
<1>. QED
  BY ONLY <1>1, <1>2, <1>10 DEF Consecutive, Ended

\* What a writer has taken is what its source sent, for any number of units, any
\* partial writes, empty frames and resets (copy_bidirectional).
THEOREM StreamsIntact == CopySpec => []StreamIntact
<1>. QED
  BY CopyInvariant, IntactFollows, PTL

-----------------------------------------------------------------------------
(* Certificates, handshakes and revocation                                 *)

\* Certificates, with every step of the CA's clients, of the files and of peers.
TlsSpec == TlsInit /\ [][CaNext \/ PeersNext]_tlsVars

\* The certificates that the CA may issue.
Issued == UNION {Range(chain) : chain \in Responses}

\* A fetch has a certificate only when it is over, and then one that passed the
\* checks of the answer for the identity that was asked for.
FetchSound(r, impersonate) ==
    /\ DOMAIN r = {"stage", "id", "read", "via", "cert"}
    /\ r.stage # "idle" => r.id \in Requested
    /\ r.stage # "done" => r.cert = NoValue
    /\ r.cert # NoValue /\ ~r.cert.err => r.cert.leaf \in Issued /\ (impersonate => CertIdentity(r.cert.leaf) = r.id)

\* The root that a single rebuild has read is that of the file, as long as no event
\* and no flag say otherwise: what RootCurrent needs one step earlier.
RootSound ==
    ~ca.told /\ ~ca.dirty /\ ~ca.gap =>
        /\ Rebuilding = {} => ca.ok /\ ca.channel = ca.file
        /\ \A f \in Fetches : Rebuilding = {f} /\ fetch[f].stage = "store" => ca.ok /\ fetch[f].read = ca.file

\* The lists in use hold all that was last read without error.
CrlSound ==
    /\ DOMAIN crl = {"file", "on", "event", "ders", "good"}
    /\ crl.file \in CrlFiles
    /\ crl.good \subseteq Lists(crl.ders)

\* A handshake that is up has passed its verifier, with the lists that were due.
PeerVerified(r) ==
    CASE r.side = "inbound" -> r.peer.serial \notin r.crls /\ VerifyTrustDomain(r.peer)
      [] r.side = "outbound" -> VerifyFullSan(r.peer, r.want)
      [] OTHER -> AuthorizeCertificate(r.peer)

HsSound(r) ==
    /\ DOMAIN r = {"stage", "side", "peer", "want", "crls", "src", "due"}
    /\ r.stage # "idle" => r.peer \in Peers
    /\ r.due \subseteq r.crls
    /\ r.stage = "up" => r.src = IdentityFromConnection(r.peer) /\ PeerVerified(r)

\* The inductive invariant.
TlsInv ==
    /\ DOMAIN fetch = Fetches /\ DOMAIN hs = Handshakes
    /\ DOMAIN ca = {"file", "ok", "told", "dirty", "channel", "gap"}
    /\ \A f \in Fetches : FetchSound(fetch[f], tlsCfg.impersonate)
    /\ RootSound
    /\ CrlSound
    /\ \A h \in Handshakes : HsSound(hs[h])

\* The smallest number of a set with one is not above the others.
LEMMA SmallestBounds ==
    ASSUME NEW S \in SUBSET Nat, NEW n \in S
    PROVE  Min(S) \in S /\ Min(S) =< n
<1> DEFINE R == {ss \in Nat \X Nat : ss[1] < ss[2]}
<1>1. IsWellFoundedOn(R, Nat)
  BY NatLessThanWellFounded DEF OpToRel
<1>2. \A i, j \in Nat : i < j => <<i, j>> \in R
  OBVIOUS
<1> HIDE DEF R
<1>3. PICK m \in S : \A i \in S : ~ (<<i, m>> \in R)
  BY <1>1, WFMin
<1>4. \A i \in S : ~ (i < m)
  BY <1>2, <1>3
<1>5. \A i \in S : m =< i
  BY <1>4
<1>6. \E x \in S : \A y \in S : x =< y
  BY <1>5
<1>7. Min(S) \in S /\ \A y \in S : Min(S) =< y
  BY <1>6, Zenon DEF Min
<1>. QED
  BY <1>7

\* The identity of a connection is one of the certificate's (identity_from_connection).
LEMMA FirstIsNamed ==
    ASSUME NEW cert, cert.sans \in Seq(Range(cert.sans)), Identities(cert) # {}
    PROVE  IdentityFromConnection(cert) \in Identities(cert)
<1>1. IdNames(cert) \in SUBSET Nat /\ IdNames(cert) # {}
  BY DEF IdNames, UriNames, Identities
<1>2. Min(IdNames(cert)) \in IdNames(cert)
  BY <1>1, SmallestIndex
<1>. QED
  BY <1>1, <1>2 DEF IdentityFromConnection, FirstId, Identities

\* When the first URI name of a certificate is an identity it is the first identity
\* too: Certificate::identity and identity_from_connection agree.
LEMMA FirstsAgree ==
    ASSUME NEW cert, cert.sans \in Seq(Range(cert.sans)), CertIdentity(cert) # NoValue
    PROVE  IdentityFromConnection(cert) = CertIdentity(cert)
<1>. DEFINE U == UriNames(cert)
            I == IdNames(cert)
<1>1. U \in SUBSET Nat /\ I \in SUBSET Nat /\ I \subseteq U
  BY DEF IdNames, UriNames
<1>2. U # {} /\ cert.sans[Min(U)].id # NoValue
  BY DEF CertIdentity, FirstId
<1>3. Min(U) \in U
  BY <1>1, <1>2, SmallestIndex
<1>4. Min(U) \in I
  BY <1>2, <1>3 DEF IdNames
<1>5. Min(I) \in I /\ Min(I) =< Min(U)
  BY <1>1, <1>4, SmallestBounds
<1>6. Min(I) \in U
  BY <1>1, <1>5
<1>7. Min(U) =< Min(I)
  BY <1>1, <1>6, SmallestBounds
<1>8. Min(U) \in Nat /\ Min(I) \in Nat
  BY <1>1, <1>3, <1>5
<1>9. Min(U) = Min(I)
  BY ONLY <1>5, <1>7, <1>8
<1>. QED
  BY <1>2, <1>4, <1>9 DEF CertIdentity, IdentityFromConnection, FirstId

\* What Updated leaves in a record.
LEMMA UpdatedFields ==
    ASSUME NEW r, NEW fields
    PROVE  /\ DOMAIN Updated(r, fields) = DOMAIN r
           /\ \A x \in DOMAIN r : Updated(r, fields)[x] = IF x \in DOMAIN fields THEN fields[x] ELSE r[x]
BY DEF Updated

\* One fetch takes a step.
LEMMA OneFetch ==
    ASSUME TlsInv, NEW f \in Fetches, NEW fields, SetFetch(f, fields)
    PROVE  /\ DOMAIN fetch' = Fetches
           /\ \A g \in Fetches \ {f} : fetch'[g] = fetch[g]
           /\ DOMAIN fetch'[f] = {"stage", "id", "read", "via", "cert"}
           /\ \A x \in {"stage", "id", "read", "via", "cert"} :
                 fetch'[f][x] = IF x \in DOMAIN fields THEN fields[x] ELSE fetch[f][x]
<1>1. DOMAIN fetch = Fetches /\ DOMAIN fetch[f] = {"stage", "id", "read", "via", "cert"}
  BY DEF TlsInv, FetchSound
<1>2. fetch'[f] = Updated(fetch[f], fields)
  BY <1>1 DEF SetFetch
<1>3. DOMAIN fetch' = Fetches /\ \A g \in Fetches \ {f} : fetch'[g] = fetch[g]
  BY <1>1 DEF SetFetch
<1>4. /\ DOMAIN Updated(fetch[f], fields) = DOMAIN fetch[f]
      /\ \A x \in DOMAIN fetch[f] : Updated(fetch[f], fields)[x] = IF x \in DOMAIN fields THEN fields[x] ELSE fetch[f][x]
  BY UpdatedFields, Zenon
<1>. QED
  BY ONLY <1>1, <1>2, <1>3, <1>4

\* A fetch that leaves the certificate, the root and the peers alone.
LEMMA FetchKeeps ==
    ASSUME TlsInv, NEW f \in Fetches, NEW fields, SetFetch(f, fields), tlsCfg' = tlsCfg, crl' = crl, hs' = hs,
           DOMAIN ca' = DOMAIN ca, RootSound',
           FetchSound(fetch'[f], tlsCfg.impersonate)
    PROVE  TlsInv'
<1>1. DOMAIN fetch' = Fetches /\ \A g \in Fetches \ {f} : fetch'[g] = fetch[g]
  BY OneFetch
<1>2. \A g \in Fetches : FetchSound(fetch'[g], tlsCfg'.impersonate)
  BY <1>1 DEF TlsInv
<1>3. CrlSound' /\ DOMAIN hs' = Handshakes /\ DOMAIN ca' = {"file", "ok", "told", "dirty", "channel", "gap"}
  BY DEF TlsInv, CrlSound, Lists
<1>4. \A h \in Handshakes : HsSound(hs[h])'
  BY DEF TlsInv, HsSound, PeerVerified, VerifyTrustDomain, AuthorizeCertificate, VerifyFullSan
<1>. QED
  BY <1>1, <1>2, <1>3, <1>4 DEF TlsInv

\* A step of the CA's file only.
LEMMA CaKeeps ==
    ASSUME TlsInv, UNCHANGED <<tlsCfg, fetch, crl, hs>>, DOMAIN ca' = DOMAIN ca, RootSound'
    PROVE  TlsInv'
<1>1. CrlSound'
  BY DEF TlsInv, CrlSound, Lists
<1>2. \A h \in Handshakes : HsSound(hs[h])'
  BY DEF TlsInv, HsSound, PeerVerified, VerifyTrustDomain, AuthorizeCertificate, VerifyFullSan
<1>. QED
  BY <1>1, <1>2 DEF TlsInv

\* A step of the lists only.
LEMMA CrlKeeps ==
    ASSUME TlsInv, UNCHANGED <<tlsCfg, ca, fetch, hs>>, CrlSound'
    PROVE  TlsInv'
<1>1. RootSound'
  BY DEF TlsInv, RootSound, Rebuilding
<1>2. \A h \in Handshakes : HsSound(hs[h])'
  BY DEF TlsInv, HsSound, PeerVerified, VerifyTrustDomain, AuthorizeCertificate, VerifyFullSan
<1>. QED
  BY <1>1, <1>2 DEF TlsInv

\* Which fetches rebuild the channel after one of them took a step.
LEMMA RebuildingMoves ==
    ASSUME NEW f \in Fetches, \A g \in Fetches \ {f} : fetch'[g] = fetch[g]
    PROVE  /\ \A g \in Fetches \ {f} : g \in Rebuilding' <=> g \in Rebuilding
           /\ f \in Rebuilding' <=> fetch'[f].stage \in {"rebuild", "store"}
           /\ Rebuilding \subseteq Fetches /\ Rebuilding' \subseteq Fetches
BY DEF Rebuilding

\* A fetch whose stage is no part of a rebuild before and after.
LEMMA RootStays ==
    ASSUME TlsInv, NEW f \in Fetches, \A g \in Fetches \ {f} : fetch'[g] = fetch[g], ca' = ca,
           fetch[f].stage \notin {"rebuild", "store"}, fetch'[f].stage \notin {"rebuild", "store"}
    PROVE  RootSound'
<1>1. Rebuilding' = Rebuilding
  BY DEF Rebuilding
<1>2. \A g \in Fetches : fetch'[g].stage = "store" => fetch'[g] = fetch[g]
  OBVIOUS
<1>. QED
  BY <1>1, <1>2 DEF TlsInv, RootSound

\* fetch_certificate takes the flag and rebuilds, or goes on.
LEMMA FetchStarts ==
    ASSUME TlsInv, NEW f \in Fetches, NEW id \in Requested, FetchCertificate(f, id)
    PROVE  TlsInv'
<1>. DEFINE next == IF ca.dirty THEN "rebuild" ELSE "clone"
            fields == [stage |-> next, id |-> id]
<1>1. /\ fetch[f].stage = "idle" /\ SetFetch(f, fields) /\ ca' = [ca EXCEPT !.dirty = FALSE]
      /\ tlsCfg' = tlsCfg /\ crl' = crl /\ hs' = hs
  BY DEF FetchCertificate
<1>2. /\ fetch'[f].stage = next /\ fetch'[f].id = id /\ fetch'[f].cert = fetch[f].cert
      /\ DOMAIN fetch'[f] = {"stage", "id", "read", "via", "cert"} /\ \A g \in Fetches \ {f} : fetch'[g] = fetch[g]
  BY <1>1, OneFetch
<1>3. fetch[f].cert = NoValue
  BY <1>1 DEF TlsInv, FetchSound
<1>4. FetchSound(fetch'[f], tlsCfg.impersonate)
  BY <1>2, <1>3 DEF FetchSound
<1>5. DOMAIN ca' = DOMAIN ca /\ ca'.dirty = FALSE /\ \A x \in {"file", "ok", "told", "channel", "gap"} : ca'[x] = ca[x]
  BY <1>1 DEF TlsInv
<1>6. RootSound'
  <2>1. CASE ca.dirty
    <3>1. f \in Rebuilding' /\ fetch'[f].stage = "rebuild"
      BY <1>2, <2>1, RebuildingMoves
    <3>2. \A g \in Fetches : Rebuilding' = {g} => g = f
      BY <3>1
    <3>3. Rebuilding' # {}
      BY <3>1
    <3>. QED
      BY <3>1, <3>2, <3>3 DEF RootSound
  <2>2. CASE ~ca.dirty
    <3>1. fetch'[f].stage = "clone"
      BY <1>2, <2>2
    <3>2. Rebuilding' = Rebuilding
      BY <1>1, <1>2, <3>1 DEF Rebuilding
    <3>3. \A g \in Fetches : fetch'[g].stage = "store" => fetch'[g] = fetch[g]
      BY <1>2, <3>1
    <3>. QED
      BY <1>5, <2>2, <3>2, <3>3 DEF TlsInv, RootSound
  <2>. QED
    BY <2>1, <2>2
<1>. QED
  BY <1>1, <1>4, <1>5, <1>6, FetchKeeps

\* rebuild_channel reads the root, or sets the flag again.
LEMMA ChannelRebuilds ==
    ASSUME TlsInv, NEW f \in Fetches, RebuildChannel(f)
    PROVE  TlsInv'
<1>1. fetch[f].stage = "rebuild" /\ tlsCfg' = tlsCfg /\ crl' = crl /\ hs' = hs
  BY DEF RebuildChannel
<1>2. fetch[f].cert = NoValue /\ fetch[f].id \in Requested
  BY <1>1 DEF TlsInv, FetchSound
<1>3. CASE ca.ok
  <2>. DEFINE fields == [stage |-> "store", read |-> ca.file]
  <2>1. SetFetch(f, fields) /\ ca' = ca
    BY <1>3 DEF RebuildChannel
  <2>2. /\ fetch'[f].stage = "store" /\ fetch'[f].id = fetch[f].id /\ fetch'[f].cert = fetch[f].cert /\ fetch'[f].read = ca.file
        /\ DOMAIN fetch'[f] = {"stage", "id", "read", "via", "cert"} /\ \A g \in Fetches \ {f} : fetch'[g] = fetch[g]
    BY <2>1, OneFetch
  <2>3. FetchSound(fetch'[f], tlsCfg.impersonate)
    BY <1>2, <2>2 DEF FetchSound
  <2>4. f \in Rebuilding'
    BY <2>2, RebuildingMoves
  <2>5. RootSound'
    <3>1. Rebuilding' # {} /\ \A g \in Fetches : Rebuilding' = {g} => g = f
      BY <2>4
    <3>. QED
      BY <1>3, <2>1, <2>2, <3>1 DEF RootSound
  <2>. QED
    BY <1>1, <2>1, <2>3, <2>5, FetchKeeps
<1>4. CASE ~ca.ok
  <2>. DEFINE fields == [stage |-> "clone"]
  <2>1. SetFetch(f, fields) /\ ca' = [ca EXCEPT !.dirty = TRUE]
    BY <1>4 DEF RebuildChannel, MarkDirty
  <2>2. /\ fetch'[f].stage = "clone" /\ fetch'[f].id = fetch[f].id /\ fetch'[f].cert = fetch[f].cert
        /\ DOMAIN fetch'[f] = {"stage", "id", "read", "via", "cert"}
    BY <2>1, OneFetch
  <2>3. FetchSound(fetch'[f], tlsCfg.impersonate)
    BY <1>2, <2>2 DEF FetchSound
  <2>4. DOMAIN ca' = DOMAIN ca /\ ca'.dirty
    BY <2>1 DEF TlsInv
  <2>5. RootSound'
    BY <2>4 DEF RootSound
  <2>. QED
    BY <1>1, <2>1, <2>3, <2>4, <2>5, FetchKeeps
<1>. QED
  BY <1>3, <1>4

\* The rebuilt client takes the place of the old one; of two, the gap is known.
LEMMA ClientStored ==
    ASSUME TlsInv, NEW f \in Fetches, StoreClient(f)
    PROVE  TlsInv'
<1>. DEFINE fields == [stage |-> "clone", read |-> NoValue]
<1>1. /\ fetch[f].stage = "store" /\ SetFetch(f, fields) /\ tlsCfg' = tlsCfg /\ crl' = crl /\ hs' = hs
      /\ ca' = [ca EXCEPT !.channel = fetch[f].read, !.gap = ca.gap \/ Rebuilding # {f}]
  BY DEF StoreClient
<1>2. fetch[f].cert = NoValue /\ fetch[f].id \in Requested
  BY <1>1 DEF TlsInv, FetchSound
<1>3. /\ fetch'[f].stage = "clone" /\ fetch'[f].id = fetch[f].id /\ fetch'[f].cert = fetch[f].cert
      /\ DOMAIN fetch'[f] = {"stage", "id", "read", "via", "cert"} /\ \A g \in Fetches \ {f} : fetch'[g] = fetch[g]
  BY <1>1, OneFetch
<1>4. FetchSound(fetch'[f], tlsCfg.impersonate)
  BY <1>2, <1>3 DEF FetchSound
<1>5. /\ DOMAIN ca' = DOMAIN ca /\ ca'.channel = fetch[f].read /\ (ca'.gap <=> ca.gap \/ Rebuilding # {f})
      /\ ca'.file = ca.file /\ ca'.ok = ca.ok /\ ca'.told = ca.told /\ ca'.dirty = ca.dirty
  BY <1>1 DEF TlsInv
<1>6. RootSound'
  <2>1. CASE Rebuilding # {f}
    BY <1>5, <2>1 DEF RootSound
  <2>2. CASE Rebuilding = {f}
    <3>1. Rebuilding' = {}
      BY <1>3, <2>2, RebuildingMoves
    <3>2. ~ca.told /\ ~ca.dirty /\ ~ca.gap => ca.ok /\ fetch[f].read = ca.file
      BY <1>1, <2>2 DEF TlsInv, RootSound
    <3>. QED
      BY <1>5, <3>1, <3>2 DEF RootSound
  <2>. QED
    BY <2>1, <2>2
<1>. QED
  BY <1>1, <1>4, <1>5, <1>6, FetchKeeps

\* The answer of the CA is checked before it is handed on (fetch_certificate).
LEMMA AnswerChecked ==
    ASSUME TlsInv, NEW f \in Fetches, NEW serving, NEW chain \in Responses, CaResponds(f, serving, chain)
    PROVE  TlsInv'
<1>. DEFINE c == NewWorkloadCertificate(chain)
            got == IF AcceptedFor(c, fetch[f].id) THEN c ELSE [err |-> TRUE]
            fields == [stage |-> "done", via |-> NoValue, cert |-> got]
<1>1. fetch[f].stage = "request" /\ SetFetch(f, fields) /\ tlsCfg' = tlsCfg /\ crl' = crl /\ hs' = hs /\ ca' = ca
  BY DEF CaResponds
<1>2. fetch[f].id \in Requested
  BY <1>1 DEF TlsInv, FetchSound
<1>3. AcceptedFor(c, fetch[f].id) => c.leaf \in Issued /\ (tlsCfg.impersonate => CertIdentity(c.leaf) = fetch[f].id)
  <2>. SUFFICES ASSUME AcceptedFor(c, fetch[f].id)
                PROVE  c.leaf \in Issued /\ (tlsCfg.impersonate => CertIdentity(c.leaf) = fetch[f].id)
    OBVIOUS
  <2>1. ~c.err /\ (tlsCfg.impersonate => CertIdentity(c.leaf) = fetch[f].id)
    BY DEF AcceptedFor
  <2>2. chain # <<>> /\ c.leaf = chain[1]
    BY <2>1 DEF NewWorkloadCertificate
  <2>3. chain \in Seq(Range(chain))
    BY TlsAssumption
  <2>4. chain[1] \in Range(chain)
    BY <2>2, <2>3
  <2>. QED
    BY <2>1, <2>2, <2>4 DEF Issued
<1>. HIDE DEF c
<1>4. got # NoValue /\ ~got.err => got.leaf \in Issued /\ (tlsCfg.impersonate => CertIdentity(got.leaf) = fetch[f].id)
  BY <1>3
<1>. HIDE DEF got
<1>5. /\ fetch'[f].stage = "done" /\ fetch'[f].id = fetch[f].id /\ fetch'[f].cert = got
      /\ DOMAIN fetch'[f] = {"stage", "id", "read", "via", "cert"} /\ \A g \in Fetches \ {f} : fetch'[g] = fetch[g]
  BY <1>1, OneFetch
<1>6. FetchSound(fetch'[f], tlsCfg.impersonate)
  BY <1>2, <1>4, <1>5 DEF FetchSound
<1>7. RootSound'
  BY <1>1, <1>5, RootStays
<1>. QED
  BY <1>1, <1>6, <1>7, FetchKeeps

\* Every step of the CA's clients and of its file preserves the invariant.
LEMMA CaPreserves == TlsInv /\ CaNext => TlsInv'
<1>. SUFFICES ASSUME TlsInv, CaNext PROVE TlsInv'
  OBVIOUS
<1>1. ASSUME NEW v, NEW ok, RotateRoot(v, ok) PROVE TlsInv'
  <2>1. ca' = [ca EXCEPT !.file = v, !.ok = ok, !.told = TRUE] /\ UNCHANGED <<tlsCfg, fetch, crl, hs>>
    BY <1>1 DEF RotateRoot
  <2>2. DOMAIN ca' = DOMAIN ca /\ ca'.told
    BY <2>1 DEF TlsInv
  <2>3. RootSound'
    BY <2>2 DEF RootSound
  <2>. QED
    BY <2>1, <2>2, <2>3, CaKeeps
<1>2. CASE RootWatcher
  <2>1. ca' = [ca EXCEPT !.told = FALSE, !.dirty = TRUE, !.gap = FALSE] /\ UNCHANGED <<tlsCfg, fetch, crl, hs>>
    BY <1>2 DEF RootWatcher
  <2>2. DOMAIN ca' = DOMAIN ca /\ ca'.dirty
    BY <2>1 DEF TlsInv
  <2>3. RootSound'
    BY <2>2 DEF RootSound
  <2>. QED
    BY <2>1, <2>2, <2>3, CaKeeps
<1>3. ASSUME NEW f \in Fetches, CloneClient(f) PROVE TlsInv'
  <2>. DEFINE fields == [stage |-> "request", via |-> ca.channel]
  <2>1. fetch[f].stage = "clone" /\ SetFetch(f, fields) /\ UNCHANGED <<tlsCfg, ca, crl, hs>>
    BY <1>3 DEF CloneClient
  <2>2. fetch[f].cert = NoValue /\ fetch[f].id \in Requested
    BY <2>1 DEF TlsInv, FetchSound
  <2>3. /\ fetch'[f].stage = "request" /\ fetch'[f].id = fetch[f].id /\ fetch'[f].cert = fetch[f].cert
        /\ DOMAIN fetch'[f] = {"stage", "id", "read", "via", "cert"} /\ \A g \in Fetches \ {f} : fetch'[g] = fetch[g]
    BY <2>1, OneFetch
  <2>4. FetchSound(fetch'[f], tlsCfg.impersonate)
    BY <2>2, <2>3 DEF FetchSound
  <2>5. RootSound'
    BY <2>1, <2>3, RootStays
  <2>. QED
    BY <2>1, <2>4, <2>5, FetchKeeps
<1>4. ASSUME NEW f \in Fetches, CaFails(f) PROVE TlsInv'
  <2>. DEFINE failed == [err |-> TRUE]
              fields == [stage |-> "done", via |-> NoValue, cert |-> failed]
  <2>1. fetch[f].stage = "request" /\ SetFetch(f, fields) /\ UNCHANGED <<tlsCfg, ca, crl, hs>>
    BY <1>4 DEF CaFails
  <2>. HIDE DEF failed
  <2>2. fetch[f].id \in Requested
    BY <2>1 DEF TlsInv, FetchSound
  <2>3. /\ fetch'[f].stage = "done" /\ fetch'[f].id = fetch[f].id /\ fetch'[f].cert = failed
        /\ DOMAIN fetch'[f] = {"stage", "id", "read", "via", "cert"} /\ \A g \in Fetches \ {f} : fetch'[g] = fetch[g]
    BY <2>1, OneFetch
  <2>4. FetchSound(fetch'[f], tlsCfg.impersonate)
    BY <2>2, <2>3 DEF FetchSound, failed
  <2>5. RootSound'
    BY <2>1, <2>3, RootStays
  <2>. QED
    BY <2>1, <2>4, <2>5, FetchKeeps
<1>5. ASSUME NEW f \in Fetches, FetchAgain(f) PROVE TlsInv'
  <2>. DEFINE fields == [stage |-> "idle", cert |-> NoValue, id |-> NoValue]
  <2>1. fetch[f].stage = "done" /\ SetFetch(f, fields) /\ UNCHANGED <<tlsCfg, ca, crl, hs>>
    BY <1>5 DEF FetchAgain
  <2>2. /\ fetch'[f].stage = "idle" /\ fetch'[f].id = NoValue /\ fetch'[f].cert = NoValue
        /\ DOMAIN fetch'[f] = {"stage", "id", "read", "via", "cert"} /\ \A g \in Fetches \ {f} : fetch'[g] = fetch[g]
    BY <2>1, OneFetch
  <2>3. FetchSound(fetch'[f], tlsCfg.impersonate)
    BY <2>2 DEF FetchSound
  <2>4. RootSound'
    BY <2>1, <2>2, RootStays
  <2>. QED
    BY <2>1, <2>3, <2>4, FetchKeeps
<1>. QED
  BY <1>1, <1>2, <1>3, <1>4, <1>5, FetchStarts, ChannelRebuilds, ClientStored, AnswerChecked DEF CaNext

\* What Verified(h) checked stays true of the record once it is up.
LEMMA OneHandshake ==
    ASSUME TlsInv, NEW h \in Handshakes, NEW fields, SetHs(h, fields), UNCHANGED <<tlsCfg, ca, fetch>>, CrlSound', HsSound(hs'[h])
    PROVE  TlsInv'
<1>1. DOMAIN hs' = Handshakes /\ \A g \in Handshakes \ {h} : hs'[g] = hs[g]
  BY DEF TlsInv, SetHs
<1>2. \A g \in Handshakes : HsSound(hs'[g])
  BY <1>1 DEF TlsInv
<1>3. \A g \in Handshakes : HsSound(hs[g])'
  BY <1>2 DEF HsSound, PeerVerified, VerifyTrustDomain, AuthorizeCertificate, VerifyFullSan
<1>4. RootSound'
  BY DEF TlsInv, RootSound, Rebuilding
<1>. QED
  BY <1>1, <1>3, <1>4 DEF TlsInv

\* The fields of a handshake after SetHs.
LEMMA HandshakeFields ==
    ASSUME TlsInv, NEW h \in Handshakes, NEW fields, SetHs(h, fields)
    PROVE  /\ DOMAIN hs'[h] = {"stage", "side", "peer", "want", "crls", "src", "due"}
           /\ \A x \in {"stage", "side", "peer", "want", "crls", "src", "due"} :
                 hs'[h][x] = IF x \in DOMAIN fields THEN fields[x] ELSE hs[h][x]
<1>1. DOMAIN hs = Handshakes /\ DOMAIN hs[h] = {"stage", "side", "peer", "want", "crls", "src", "due"}
  BY DEF TlsInv, HsSound
<1>2. hs'[h] = Updated(hs[h], fields)
  BY <1>1 DEF SetHs
<1>3. /\ DOMAIN Updated(hs[h], fields) = DOMAIN hs[h]
      /\ \A x \in DOMAIN hs[h] : Updated(hs[h], fields)[x] = IF x \in DOMAIN fields THEN fields[x] ELSE hs[h][x]
  BY UpdatedFields, Zenon
<1>. QED
  BY ONLY <1>1, <1>2, <1>3

\* Every step of a peer and of the file of lists preserves the invariant.
LEMMA PeersPreserve == TlsInv /\ PeersNext => TlsInv'
<1>. SUFFICES ASSUME TlsInv, PeersNext PROVE TlsInv'
  OBVIOUS
<1>1. ASSUME NEW file \in CrlFiles, ReplaceCrl(file) PROVE TlsInv'
  <2>1. crl' = [crl EXCEPT !.file = file, !.event = TRUE] /\ UNCHANGED <<tlsCfg, ca, fetch, hs>>
    BY <1>1 DEF ReplaceCrl
  <2>2. CrlSound'
    BY <2>1 DEF TlsInv, CrlSound, Lists
  <2>. QED
    BY <2>1, <2>2, CrlKeeps
<1>2. CASE CrlWatcher
  <2>1. /\ crl' = [crl EXCEPT !.event = FALSE, !.ders = LoadCrl(crl.ders, crl.file),
                              !.good = IF crl.file.kind = "list" THEN crl.file.revoked ELSE crl.good]
        /\ UNCHANGED <<tlsCfg, ca, fetch, hs>>
    BY <1>2 DEF CrlWatcher
  <2>2. /\ DOMAIN crl' = DOMAIN crl /\ crl'.file = crl.file /\ crl'.ders = LoadCrl(crl.ders, crl.file)
        /\ crl'.good = IF crl.file.kind = "list" THEN crl.file.revoked ELSE crl.good
    BY <2>1 DEF TlsInv, CrlSound
  <2>3. crl.file \in CrlFiles /\ crl.good \subseteq Lists(crl.ders) /\ crl.file.revoked # NoValue
    BY TlsAssumption DEF TlsInv, CrlSound
  <2>4. CrlSound'
    <3>1. CASE crl.file.kind = "list"
      BY <2>2, <2>3, <3>1 DEF TlsInv, CrlSound, Lists, LoadCrl
    <3>2. CASE crl.file.kind # "list"
      BY <2>2, <2>3, <3>2 DEF TlsInv, CrlSound, Lists, LoadCrl
    <3>. QED
      BY <3>1, <3>2
  <2>. QED
    BY <2>1, <2>4, CrlKeeps
<1>3. ASSUME NEW h \in Handshakes, NEW peer \in Peers, AcceptInbound(h, peer) PROVE TlsInv'
  <2>. DEFINE ders == IF crl.ders = NoValue THEN LoadCrl(NoValue, crl.file) ELSE crl.ders
              used == IF crl.on THEN Lists(ders) ELSE {}
              due == IF crl.on /\ ~crl.event THEN crl.good ELSE {}
              fields == [stage |-> "verify", side |-> "inbound", peer |-> peer, crls |-> used, due |-> due]
  <2>1. SetHs(h, fields) /\ crl' = [crl EXCEPT !.ders = IF crl.on THEN ders ELSE crl.ders] /\ UNCHANGED <<tlsCfg, ca, fetch>>
    BY <1>3 DEF AcceptInbound
  <2>2. crl.good \subseteq Lists(ders)
    BY DEF TlsInv, CrlSound, Lists
  <2>3. CrlSound'
    BY <2>1, <2>2 DEF TlsInv, CrlSound
  <2>4. due \subseteq used
    BY <2>2
  <2>. HIDE DEF used, due
  <2>5. /\ hs'[h].stage = "verify" /\ hs'[h].peer = peer /\ hs'[h].crls = used /\ hs'[h].due = due
        /\ DOMAIN hs'[h] = {"stage", "side", "peer", "want", "crls", "src", "due"}
    BY <2>1, HandshakeFields
  <2>6. HsSound(hs'[h])
    BY <2>4, <2>5 DEF HsSound
  <2>. QED
    BY <2>1, <2>3, <2>6, OneHandshake
<1>4. ASSUME NEW h \in Handshakes, NEW peer \in Peers, NEW want, ConnectOutbound(h, peer, want) PROVE TlsInv'
  <2>. DEFINE fields == [stage |-> "verify", side |-> "outbound", peer |-> peer, want |-> want]
  <2>1. SetHs(h, fields) /\ UNCHANGED <<tlsCfg, ca, fetch, crl>>
    BY <1>4 DEF ConnectOutbound
  <2>2. /\ hs'[h].stage = "verify" /\ hs'[h].peer = peer /\ hs'[h].crls = hs[h].crls /\ hs'[h].due = hs[h].due
        /\ DOMAIN hs'[h] = {"stage", "side", "peer", "want", "crls", "src", "due"}
    BY <2>1, HandshakeFields
  <2>3. HsSound(hs'[h])
    BY <2>2 DEF TlsInv, HsSound
  <2>4. CrlSound'
    BY <2>1 DEF TlsInv, CrlSound, Lists
  <2>. QED
    BY <2>1, <2>3, <2>4, OneHandshake
<1>5. ASSUME NEW h \in Handshakes, NEW peer \in Peers, ManagementCall(h, peer) PROVE TlsInv'
  <2>. DEFINE fields == [stage |-> "verify", side |-> "management", peer |-> peer]
  <2>1. SetHs(h, fields) /\ UNCHANGED <<tlsCfg, ca, fetch, crl>>
    BY <1>5 DEF ManagementCall
  <2>2. /\ hs'[h].stage = "verify" /\ hs'[h].peer = peer /\ hs'[h].crls = hs[h].crls /\ hs'[h].due = hs[h].due
        /\ DOMAIN hs'[h] = {"stage", "side", "peer", "want", "crls", "src", "due"}
    BY <2>1, HandshakeFields
  <2>3. HsSound(hs'[h])
    BY <2>2 DEF TlsInv, HsSound
  <2>4. CrlSound'
    BY <2>1 DEF TlsInv, CrlSound, Lists
  <2>. QED
    BY <2>1, <2>3, <2>4, OneHandshake
<1>6. ASSUME NEW h \in Handshakes, Verify(h) PROVE TlsInv'
  <2>1. hs[h].stage = "verify" /\ UNCHANGED <<tlsCfg, ca, fetch, crl>>
    BY <1>6 DEF Verify
  <2>2. CrlSound'
    BY <2>1 DEF TlsInv, CrlSound, Lists
  <2>3. HsSound(hs[h])
    BY DEF TlsInv
  <2>4. CASE Verified(h)
    <3>. DEFINE src == IdentityFromConnection(hs[h].peer)
                fields == [stage |-> "up", src |-> src]
    <3>1. SetHs(h, fields)
      BY <1>6, <2>4 DEF Verify
    <3>. HIDE DEF src
    <3>2. /\ hs'[h].stage = "up" /\ hs'[h].side = hs[h].side /\ hs'[h].peer = hs[h].peer /\ hs'[h].want = hs[h].want
          /\ hs'[h].crls = hs[h].crls /\ hs'[h].due = hs[h].due /\ hs'[h].src = src
          /\ DOMAIN hs'[h] = {"stage", "side", "peer", "want", "crls", "src", "due"}
      BY <3>1, HandshakeFields
    <3>3. PeerVerified(hs[h])
      BY <2>4, Zenon DEF Verified, PeerVerified
    <3>4. PeerVerified(hs'[h])
      BY <3>2, <3>3, Zenon DEF PeerVerified
    <3>5. HsSound(hs'[h])
      BY <2>1, <2>3, <3>2, <3>4 DEF HsSound, src
    <3>. QED
      BY <2>1, <2>2, <3>1, <3>5, OneHandshake
  <2>5. CASE ~Verified(h)
    <3>. DEFINE fields == [stage |-> "refused"]
    <3>1. SetHs(h, fields)
      BY <1>6, <2>5 DEF Verify
    <3>2. /\ hs'[h].stage = "refused" /\ hs'[h].peer = hs[h].peer /\ hs'[h].crls = hs[h].crls /\ hs'[h].due = hs[h].due
          /\ DOMAIN hs'[h] = {"stage", "side", "peer", "want", "crls", "src", "due"}
      BY <3>1, HandshakeFields
    <3>3. HsSound(hs'[h])
      BY <2>1, <2>3, <3>2 DEF HsSound
    <3>. QED
      BY <2>1, <2>2, <3>1, <3>3, OneHandshake
  <2>. QED
    BY <2>4, <2>5
<1>. QED
  BY <1>1, <1>2, <1>3, <1>4, <1>5, <1>6 DEF PeersNext

\* The invariant holds at the start (CaClient::new, CrlManager::new).
LEMMA TlsInitial == TlsInit => TlsInv
<1>. SUFFICES ASSUME TlsInit PROVE TlsInv
  OBVIOUS
<1>1. DOMAIN fetch = Fetches /\ \A f \in Fetches : fetch[f] = [stage |-> "idle", id |-> NoValue, read |-> NoValue, via |-> NoValue, cert |-> NoValue]
  BY DEF TlsInit
<1>2. \A f \in Fetches : FetchSound(fetch[f], tlsCfg.impersonate)
  BY <1>1 DEF FetchSound
<1>3. PICK v \in {0, 1} : ca = [file |-> v, ok |-> TRUE, told |-> FALSE, dirty |-> FALSE, channel |-> 0, gap |-> v # 0]
  BY DEF TlsInit
<1>4. Rebuilding = {}
  BY <1>1 DEF Rebuilding
<1>5. RootSound
  BY <1>1, <1>3, <1>4 DEF RootSound
<1>6. PICK file \in CrlFiles : crl = [file |-> file, on |-> file.kind # "broken", event |-> FALSE,
                 ders |-> IF file.kind = "list" THEN file.revoked ELSE NoValue,
                 good |-> IF file.kind = "list" THEN file.revoked ELSE {}]
  BY DEF TlsInit
<1>7. file.revoked # NoValue
  BY TlsAssumption
<1>8. CrlSound
  BY <1>6, <1>7 DEF CrlSound, Lists
<1>9. DOMAIN hs = Handshakes /\ \A h \in Handshakes : hs[h] = [stage |-> "idle", side |-> NoValue, peer |-> NoValue, want |-> {}, crls |-> {},
                                   src |-> NoValue, due |-> {}]
  BY DEF TlsInit
<1>10. \A h \in Handshakes : HsSound(hs[h])
  BY <1>9 DEF HsSound
<1>. QED
  BY <1>1, <1>2, <1>3, <1>5, <1>8, <1>9, <1>10 DEF TlsInv

\* The inductive invariant holds throughout (CaClient, CrlManager, the verifiers).
THEOREM TlsInvariant == TlsSpec => []TlsInv
<1>1. TlsInv /\ [CaNext \/ PeersNext]_tlsVars => TlsInv'
  <2>. SUFFICES ASSUME TlsInv, UNCHANGED tlsVars PROVE TlsInv'
    BY CaPreserves, PeersPreserve
  <2>. QED
    BY DEF TlsInv, tlsVars, RootSound, Rebuilding, CrlSound, Lists, HsSound, PeerVerified, VerifyTrustDomain, AuthorizeCertificate, VerifyFullSan
<1>. QED
  BY <1>1, TlsInitial, PTL DEF TlsSpec

\* The moment of the refresh lies in the validity of a certificate, and what is left
\* until then is counted the same way from it and from the validity (refresh_at,
\* get_duration_until_refresh).
LEMMA RefreshInTime ==
    ASSUME NEW c, c.nb \in Nat, c.na \in Nat
    PROVE  /\ c.nb <= c.na => RefreshAt(c) \in c.nb..c.na
           /\ \A now \in 0..c.na : DurationUntilRefresh(c, now) = IF now < c.nb \/ now > RefreshAt(c) THEN 0 ELSE RefreshAt(c) - now
<1>1. ASSUME NEW nb \in Nat, NEW na \in Nat, nb <= na
      PROVE  (na - nb) \div 2 \in Nat /\ nb + (na - nb) \div 2 <= na
  BY <1>1
<1>2. CASE c.nb <= c.na
  <2>1. PICK half \in Nat : half = (c.na - c.nb) \div 2 /\ c.nb + half <= c.na
    BY <1>1, <1>2
  <2>2. RefreshAt(c) = c.nb + half
    BY <1>2, <2>1 DEF RefreshAt
  <2>3. ASSUME NEW now \in 0..c.na
        PROVE  DurationUntilRefresh(c, now) = IF now < c.nb \/ now > RefreshAt(c) THEN 0 ELSE RefreshAt(c) - now
    BY <1>2, <2>1, <2>2 DEF DurationUntilRefresh
  <2>. QED
    BY <2>1, <2>2, <2>3
<1>3. CASE c.na < c.nb
  BY <1>3 DEF DurationUntilRefresh, RefreshAt
<1>. QED
  BY <1>2, <1>3

\* Credentials prove what was asked of them, through rotations of the root, failed
\* rebuilds, broken lists and whatever peers present (CaClient::fetch_certificate,
\* CrlManager, the verifiers of tls/workload.rs and tls/management.rs).
THEOREM CredentialsAreSound == TlsSpec => []CredentialsSound
<1>1. TlsInv => RootCurrent
  BY DEF TlsInv, RootSound, RootCurrent
<1>2. TlsInv => CertificatesSound
  <2>. SUFFICES ASSUME TlsInv, NEW f \in Fetches, fetch[f].cert # NoValue, ~fetch[f].cert.err
                PROVE  LET c == fetch[f].cert.leaf
                       IN /\ tlsCfg.impersonate => IdentityFromConnection(c) = fetch[f].id
                          /\ c.nb <= c.na => RefreshAt(c) \in c.nb..c.na
                          /\ \A now \in 0..c.na : DurationUntilRefresh(c, now) = IF now < c.nb \/ now > RefreshAt(c) THEN 0 ELSE RefreshAt(c) - now
    BY DEF CertificatesSound
  <2>. DEFINE c == fetch[f].cert.leaf
  <2>1. /\ c \in Issued /\ (tlsCfg.impersonate => CertIdentity(c) = fetch[f].id)
        /\ fetch[f].stage = "done" /\ fetch[f].id \in Requested
    BY DEF TlsInv, FetchSound
  <2>2. c.sans \in Seq(Range(c.sans)) /\ c.nb \in Nat /\ c.na \in Nat
    BY <2>1, TlsAssumption DEF Issued
  <2>3. tlsCfg.impersonate => IdentityFromConnection(c) = fetch[f].id
    BY <2>1, <2>2, TlsAssumption, FirstsAgree
  <2>. HIDE DEF c
  <2>. QED
    BY <2>2, <2>3, RefreshInTime DEF c
<1>3. TlsInv => PeersSound
  <2>. SUFFICES ASSUME TlsInv, NEW h \in Handshakes, hs[h].stage = "up"
                PROVE  LET ids == Identities(hs[h].peer)
                           single == \A i, j \in ids : i = j
                       IN CASE hs[h].side = "inbound" ->
                                 /\ tlsCfg.ownDomain # NoValue => hs[h].src \in ids /\ \E i \in ids : i.td = tlsCfg.ownDomain
                                 /\ tlsCfg.ownDomain # NoValue /\ single => hs[h].src.td = tlsCfg.ownDomain
                                 /\ hs[h].peer.serial \notin hs[h].due
                            [] hs[h].side = "outbound" ->
                                 hs[h].src \in ids /\ (single => hs[h].src \in hs[h].want) /\ ids \cap hs[h].want # {}
                            [] OTHER -> \E n \in Range(hs[h].peer.sans) : n.text \in tlsCfg.allowed
    BY DEF PeersSound
  <2>. DEFINE ids == Identities(hs[h].peer)
  <2>1. /\ hs[h].peer \in Peers /\ hs[h].due \subseteq hs[h].crls
        /\ hs[h].src = IdentityFromConnection(hs[h].peer) /\ PeerVerified(hs[h])
    BY DEF TlsInv, HsSound
  <2>2. hs[h].peer.sans \in Seq(Range(hs[h].peer.sans))
    BY <2>1, TlsAssumption
  <2>3. ids # {} => hs[h].src \in ids
    BY <2>1, <2>2, FirstIsNamed
  <2>4. CASE hs[h].side = "inbound"
    <3>1. hs[h].peer.serial \notin hs[h].crls /\ VerifyTrustDomain(hs[h].peer)
      BY <2>1, <2>4 DEF PeerVerified
    <3>2. tlsCfg.ownDomain # NoValue => \E i \in ids : i.td = tlsCfg.ownDomain
      BY <3>1 DEF VerifyTrustDomain
    <3>. HIDE DEF ids
    <3>. QED
      BY <2>1, <2>3, <2>4, <3>1, <3>2 DEF ids
  <2>5. CASE hs[h].side = "outbound"
    <3>1. \E i \in ids : i \in hs[h].want
      BY <2>1, <2>5 DEF PeerVerified, VerifyFullSan
    <3>. QED
      BY <2>3, <2>5, <3>1
  <2>6. CASE hs[h].side \notin {"inbound", "outbound"}
    <3>1. \E n \in Range(hs[h].peer.sans) : n.text \in tlsCfg.allowed
      BY <2>1, <2>6 DEF PeerVerified, AuthorizeCertificate
    <3>. QED
      BY <2>6, <3>1
  <2>. QED
    BY <2>4, <2>5, <2>6
<1>. QED
  BY <1>1, <1>2, <1>3, TlsInvariant, PTL DEF CredentialsSound

-----------------------------------------------------------------------------
(* Probes                                                                  *)

\* The probes, with what the application and the kubelets do.
ProbesSpec == ProbesInit /\ [][ProbesNext]_probeVars

\* The fields of a probe.
ProbeFields == {"stage", "kind", "port", "host", "hops", "status", "seen"}

\* A probe on its way knows the present condition of the application among those
\* that it has lived in, has no answer yet, and a health check has a port.
ProbeSound(r, now) ==
    /\ r = [x \in ProbeFields |-> r[x]]
    /\ r.stage \in {"connecting", "checking", "answered"}
    /\ r.stage # "answered" => r.status = 0 /\ r.kind \in {"http", "tcp", "grpc"} /\ now \in r.seen
    /\ r.stage = "checking" => r.kind = "grpc" /\ r.port # 0
    /\ r.status = 200 => r.kind # Nil /\ r.port # 0 /\ r.seen \cap Passes[r.kind] # {}
    /\ r.host # Nil /\ r.host.port = StatusPort => r.port = StatusPort
    /\ r.hops \in Nat /\ r.hops < MaxRedirects

\* The inductive invariant.
ProbesInv ==
    /\ app \in AppStates
    /\ DOMAIN inflight = Kubelets
    /\ inflight = [k \in Kubelets |-> inflight[k]]
    /\ \A k \in Kubelets : inflight[k] # Nil => ProbeSound(inflight[k], app)

\* It holds before the first probe (Server::new).
LEMMA ProbesInitial == ProbesInit => ProbesInv
BY DEF ProbesInit, ProbesInv

\* An answer to a probe is sound if a success is one.
LEMMA AnsweredSound ==
    ASSUME ProbesInv, NEW k \in Kubelets, inflight[k] # Nil, NEW status, app' = app,
           ProbeAnswer(k, status),
           status = 200 => inflight[k].kind # Nil /\ inflight[k].port # 0 /\ inflight[k].seen \cap Passes[inflight[k].kind] # {}
    PROVE  ProbesInv'
<1>. DEFINE r == inflight[k]
            q == inflight'[k]
<1>1. ProbeSound(r, app)
  BY DEF ProbesInv
<1>2. q = [[r EXCEPT !.stage = "answered"] EXCEPT !.status = status]
  BY DEF ProbesInv, ProbeAnswer
<1>3. r = [x \in ProbeFields |-> r[x]]
  BY <1>1 DEF ProbeSound
<1>4. /\ q = [x \in ProbeFields |-> q[x]]
      /\ q.stage = "answered" /\ q.status = status /\ q.kind = r.kind /\ q.port = r.port /\ q.host = r.host
      /\ q.hops = r.hops /\ q.seen = r.seen
  BY <1>2, <1>3 DEF ProbeFields
<1>5. ProbeSound(q, app')
  BY <1>1, <1>4 DEF ProbeSound
<1>6. \A j \in Kubelets \ {k} : inflight'[j] = inflight[j]
  BY DEF ProbesInv, ProbeAnswer
<1>7. DOMAIN inflight' = Kubelets /\ inflight' = [j \in Kubelets |-> inflight'[j]]
  BY DEF ProbesInv, ProbeAnswer
<1>. QED
  BY <1>5, <1>6, <1>7 DEF ProbesInv

\* A probe that goes on is sound.
LEMMA OneProbe ==
    ASSUME ProbesInv, NEW k \in Kubelets, NEW r, app' = app, inflight' = [inflight EXCEPT ![k] = r], r # Nil => ProbeSound(r, app)
    PROVE  ProbesInv'
<1>1. inflight'[k] = r /\ \A j \in Kubelets \ {k} : inflight'[j] = inflight[j]
  BY DEF ProbesInv
<1>2. DOMAIN inflight' = Kubelets /\ inflight' = [j \in Kubelets |-> inflight'[j]]
  BY DEF ProbesInv
<1>. QED
  BY <1>1, <1>2 DEF ProbesInv

\* A probe that is taken is refused, or on its way to the port of its prober, with
\* the port of the stats server replaced in its Host header (handle_app_probe).
LEMMA HandledSound ==
    ASSUME ProbesInv, NEW k \in Kubelets, NEW path, NEW host \in Hosts, HandleAppProbe(k, path, host)
    PROVE  ProbesInv'
<1>. DEFINE Refuse(status) == [stage |-> "answered", kind |-> Nil, port |-> 0, host |-> Nil, hops |-> 0, status |-> status, seen |-> {}]
            p == probers[path]
            port == IntValue(p[Kind(p)].port)
            h == IF Kind(p) = "http" THEN FinalHost(host, port) ELSE Nil
            ahead == [stage |-> "connecting", kind |-> Kind(p), port |-> port, host |-> h, hops |-> 0, status |-> 0, seen |-> {app}]
<1>1. app' = app
  BY DEF HandleAppProbe
<1>2. ASSUME NEW status, status # 200 PROVE ProbeSound(Refuse(status), app)
  <2>. PICK q : q = [stage |-> "answered", kind |-> Nil, port |-> 0, host |-> Nil, hops |-> 0, status |-> status, seen |-> {}]
    OBVIOUS
  <2>1. q.stage = "answered" /\ q.status # 200 /\ q.host = Nil /\ q.hops = 0
    BY <1>2
  <2>2. q = [x \in ProbeFields |-> q[x]]
    BY DEF ProbeFields
  <2>3. ProbeSound(q, app)
    BY ONLY <2>1, <2>2, ProbesAssumption DEF ProbeSound
  <2>. QED
    BY <2>3
<1>3. ASSUME Kind(p) # Nil PROVE ProbeSound(ahead, app)
  <2>1. Kind(p) \in {"http", "tcp", "grpc"}
    BY <1>3 DEF Kind
  <2>2. h # Nil /\ h.port = StatusPort => port = StatusPort
    <3>1. CASE Kind(p) # "http"
      BY <3>1
    <3>2. CASE Kind(p) = "http" /\ host = Nil
      BY <3>2 DEF FinalHost
    <3>3. CASE Kind(p) = "http" /\ host # Nil /\ host.port = StatusPort
      <4>1. h = [host EXCEPT !.port = port]
        BY <3>3 DEF FinalHost
      <4>2. "port" \in DOMAIN host
        BY <3>3, ProbesAssumption
      <4>. QED
        BY <4>1, <4>2
    <3>4. CASE Kind(p) = "http" /\ host # Nil /\ host.port # StatusPort
      BY <3>4 DEF FinalHost
    <3>. QED
      BY <3>1, <3>2, <3>3, <3>4
  <2>. HIDE DEF h, port, p
  <2>3. ahead = [x \in ProbeFields |-> ahead[x]]
    BY DEF ProbeFields
  <2>. QED
    BY <2>1, <2>2, <2>3, ProbesAssumption DEF ProbeSound
<1>4. \/ \E status \in {400, 404, 500} : inflight' = [inflight EXCEPT ![k] = Refuse(status)]
      \/ Kind(p) # Nil /\ inflight' = [inflight EXCEPT ![k] = ahead]
  <2>1. CASE probers = Nil
    BY <2>1, inflight' = [inflight EXCEPT ![k] = Refuse(404)] DEF HandleAppProbe
  <2>2. CASE probers # Nil /\ path \notin DOMAIN probers
    BY <2>2, inflight' = [inflight EXCEPT ![k] = Refuse(400)] DEF HandleAppProbe
  <2>3. CASE probers # Nil /\ path \in DOMAIN probers /\ Kind(p) = Nil
    BY <2>3, inflight' = [inflight EXCEPT ![k] = Refuse(500)] DEF HandleAppProbe
  <2>4. CASE probers # Nil /\ path \in DOMAIN probers /\ Kind(p) # Nil
    BY <2>4 DEF HandleAppProbe
  <2>. QED
    BY <2>1, <2>2, <2>3, <2>4
<1>. HIDE DEF Refuse, ahead
<1>. QED
  BY <1>1, <1>2, <1>3, <1>4, OneProbe

\* Every step of a probe, of a kubelet or of the application preserves it.
LEMMA ProbesPreserved == ProbesInv /\ [ProbesNext]_probeVars => ProbesInv'
<1>. SUFFICES ASSUME ProbesInv, [ProbesNext]_probeVars PROVE ProbesInv'
  OBVIOUS
<1>1. CASE UNCHANGED probeVars
  BY <1>1 DEF ProbesInv, probeVars
<1>2. CASE ServerNew
  BY <1>2 DEF ServerNew, ProbesInv
<1>3. ASSUME NEW k \in Kubelets, NEW path, NEW host \in Hosts, HandleAppProbe(k, path, host)
      PROVE  ProbesInv'
  BY <1>3, HandledSound
<1>4. ASSUME NEW k \in Kubelets, ProbeConnectFails(k) PROVE ProbesInv'
  BY <1>4, AnsweredSound DEF ProbeConnectFails
<1>5. ASSUME NEW k \in Kubelets, TcpSocket(k) PROVE ProbesInv'
  <2>1. inflight[k] # Nil /\ inflight[k].kind = "tcp" /\ inflight[k].stage = "connecting" /\ app' = app
    BY <1>5 DEF TcpSocket
  <2>2. ProbeAnswer(k, TcpStatus(Connects(k)))
    BY <1>5 DEF TcpSocket
  <2>3. app \in inflight[k].seen /\ app \in AppStates
    BY <2>1 DEF ProbesInv, ProbeSound
  <2>4. TcpStatus(Connects(k)) = 200 => app # "down" /\ inflight[k].port # 0
    BY DEF TcpStatus, Connects
  <2>5. app # "down" => app \in Passes["tcp"]
    BY <2>3 DEF Passes
  <2>6. inflight[k].kind # Nil
    BY <2>1, ProbesAssumption
  <2>. QED
    BY <2>1, <2>2, <2>3, <2>4, <2>5, <2>6, AnsweredSound
<1>6. ASSUME NEW k \in Kubelets, HttpGet(k) PROVE ProbesInv'
  <2>1. inflight[k] # Nil /\ inflight[k].kind = "http" /\ inflight[k].stage = "connecting" /\ app' = app
    BY <1>6 DEF HttpGet
  <2>2. inflight[k].port # 0
    BY <1>6 DEF HttpGet, Connects
  <2>3. ProbeSound(inflight[k], app)
    BY <2>1 DEF ProbesInv
  <2>4. inflight[k].kind # Nil /\ app \in inflight[k].seen
    BY <2>1, <2>3, ProbesAssumption DEF ProbeSound
  <2>5. CASE app \in DOMAIN HttpStatus /\ ProbeAnswer(k, HttpStatus[app])
    <3>1. app \in {"healthy", "sick", "moved"}
      BY <2>5 DEF HttpStatus
    <3>2. HttpStatus[app] = 200 => app \in Passes["http"]
      BY <3>1 DEF HttpStatus, Passes
    <3>. QED
      BY <2>1, <2>2, <2>4, <2>5, <3>2, AnsweredSound
  <2>6. CASE inflight[k].hops + 1 < MaxRedirects /\ inflight' = [inflight EXCEPT ![k].hops = @ + 1]
    <3>. DEFINE r == inflight[k]
                q == [r EXCEPT !.hops = r.hops + 1]
    <3>1. r = [x \in ProbeFields |-> r[x]]
      BY <2>3 DEF ProbeSound
    <3>2. /\ q = [x \in ProbeFields |-> q[x]]
          /\ q.stage = r.stage /\ q.status = r.status /\ q.kind = r.kind /\ q.port = r.port /\ q.host = r.host
          /\ q.hops = r.hops + 1 /\ q.seen = r.seen
      BY <3>1 DEF ProbeFields
    <3>3. r.hops \in Nat
      BY <2>3 DEF ProbeSound
    <3>4. ProbeSound(q, app)
      BY <2>3, <2>6, <3>2, <3>3 DEF ProbeSound
    <3>5. inflight' = [inflight EXCEPT ![k] = q]
      BY <2>6
    <3>. QED
      BY <2>1, <3>4, <3>5, OneProbe
  <2>7. CASE ProbeAnswer(k, 500)
    BY <2>1, <2>7, AnsweredSound
  <2>8. ASSUME app = "detours", NEW status \in {200, 500, 503}, ProbeAnswer(k, status)
        PROVE  ProbesInv'
    <3>1. app \in Passes["http"]
      BY <2>8 DEF Passes
    <3>. QED
      BY <2>1, <2>2, <2>4, <2>8, <3>1, AnsweredSound
  <2>. QED
    BY <1>6, <2>5, <2>6, <2>7, <2>8 DEF HttpGet
<1>7. ASSUME NEW k \in Kubelets, GrpcConnect(k) PROVE ProbesInv'
  <2>. DEFINE r == inflight[k]
              q == [r EXCEPT !.stage = "checking"]
  <2>1. r # Nil /\ r.kind = "grpc" /\ r.stage = "connecting" /\ app' = app /\ r.port # 0
    BY <1>7 DEF GrpcConnect, Connects
  <2>2. ProbeSound(r, app)
    BY <2>1 DEF ProbesInv
  <2>3. r = [x \in ProbeFields |-> r[x]]
    BY <2>2 DEF ProbeSound
  <2>4. /\ q = [x \in ProbeFields |-> q[x]]
        /\ q.stage = "checking" /\ q.status = r.status /\ q.kind = r.kind /\ q.port = r.port /\ q.host = r.host
        /\ q.hops = r.hops /\ q.seen = r.seen
    BY <2>3 DEF ProbeFields
  <2>5. ProbeSound(q, app)
    BY <2>1, <2>2, <2>4 DEF ProbeSound
  <2>6. inflight' = [inflight EXCEPT ![k] = q]
    BY <1>7 DEF GrpcConnect
  <2>. QED
    BY <2>1, <2>5, <2>6, OneProbe
<1>8. ASSUME NEW k \in Kubelets, GrpcCheck(k) PROVE ProbesInv'
  <2>1. inflight[k] # Nil /\ inflight[k].stage = "checking" /\ app' = app
    BY <1>8 DEF GrpcCheck
  <2>2. ProbeAnswer(k, IF app = "healthy" THEN 200 ELSE 500)
    BY <1>8 DEF GrpcCheck
  <2>3. inflight[k].kind = "grpc" /\ inflight[k].port # 0 /\ app \in inflight[k].seen
    BY <2>1 DEF ProbesInv, ProbeSound
  <2>4. "healthy" \in Passes["grpc"]
    BY DEF Passes
  <2>5. inflight[k].kind # Nil
    BY <2>3, ProbesAssumption
  <2>6. (IF app = "healthy" THEN 200 ELSE 500) = 200 => app = "healthy"
    OBVIOUS
  <2>. QED
    BY <2>1, <2>2, <2>3, <2>4, <2>5, <2>6, AnsweredSound
<1>9. ASSUME NEW k \in Kubelets, KubeletLeaves(k) PROVE ProbesInv'
  BY <1>9, OneProbe DEF KubeletLeaves
<1>10. ASSUME NEW k \in Kubelets, TaskEnds(k) PROVE ProbesInv'
  BY <1>10 DEF TaskEnds, ProbesInv
<1>11. ASSUME NEW new \in AppStates, AppChanges(new) PROVE ProbesInv'
  <2>1. app' = new /\ DOMAIN inflight' = Kubelets /\ inflight' = [j \in Kubelets |-> inflight'[j]]
    BY <1>11 DEF AppChanges
  <2>2. ASSUME NEW k \in Kubelets, inflight'[k] # Nil
        PROVE  ProbeSound(inflight'[k], new)
    <3>. DEFINE r == inflight[k]
                q == inflight'[k]
    <3>1. CASE r = Nil \/ r.stage = "answered"
      <4>1. q = r
        BY <1>11, <3>1 DEF AppChanges
      <4>2. ProbeSound(r, app) /\ r.stage = "answered"
        BY <2>2, <3>1, <4>1 DEF ProbesInv
      <4>. QED
        BY <4>1, <4>2 DEF ProbeSound
    <3>2. CASE r # Nil /\ r.stage # "answered"
      <4>1. q = [r EXCEPT !.seen = r.seen \cup {new}]
        BY <1>11, <3>2 DEF AppChanges
      <4>2. ProbeSound(r, app)
        BY <3>2 DEF ProbesInv
      <4>3. r = [x \in ProbeFields |-> r[x]]
        BY <4>2 DEF ProbeSound
      <4>4. /\ q = [x \in ProbeFields |-> q[x]]
            /\ q.stage = r.stage /\ q.status = r.status /\ q.kind = r.kind /\ q.port = r.port /\ q.host = r.host
            /\ q.hops = r.hops /\ q.seen = r.seen \cup {new}
        BY <4>1, <4>3 DEF ProbeFields
      <4>. QED
        BY <3>2, <4>2, <4>4 DEF ProbeSound
    <3>. QED
      BY <3>1, <3>2
  <2>. QED
    BY <2>1, <2>2 DEF ProbesInv
<1>. QED
  BY <1>1, <1>2, <1>3, <1>4, <1>5, <1>6, <1>7, <1>8, <1>9, <1>10, <1>11 DEF ProbesNext

\* The inductive invariant holds throughout (handle_app_probe and its handlers).
THEOREM ProbesInvariant == ProbesSpec => []ProbesInv
BY ProbesInitial, ProbesPreserved, PTL DEF ProbesSpec

\* A success that the kubelet is told is one of the application, under a port of its
\* own, whatever the application does while the probe is on its way (handle_app_probe).
THEOREM ProbesAreTruthful == ProbesSpec => []ProbesTruthful
<1>1. ProbesInv => ProbesTruthful
  BY DEF ProbesInv, ProbeSound, ProbesTruthful
<1>. QED
  BY <1>1, ProbesInvariant, PTL
=============================================================================
