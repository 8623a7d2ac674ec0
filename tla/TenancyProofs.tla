----------------------------- MODULE TenancyProofs ------------------------------
(***************************************************************************)
(* One `run` process per device, while no supervisor panics and no unit    *)
(* vanishes from the detect replies; and, through any number of crashes,   *)
(* vanished and returning units and supervisor panics, the orchestrator    *)
(* implements the safety of Tenancy.                                       *)
(***************************************************************************)
EXTENDS OrchestratorProofs, OrchestratorTenancy

-----------------------------------------------------------------------------
(* One process per device.                                                 *)

UnitsStable == Detections \subseteq [Id -> {1}]

\* The module whose supervisor spawned w.
ModuleOf(w) == key[w][1]

\* An incarnation that is being published or started has just its child.
OnlyChild ==
  \A m \in Module : Up /\ spc[m] \in {"publish", "thread"} => wpc[cur[m]] = "child"

\* A live child is the one its supervisor runs or has in hand, until the
\* supervisor has returned at shutdown.
ChildHeld ==
  \A w \in Inc : Up /\ Alive(w) =>
    LET m == ModuleOf(w)
    IN \/ spc[m] = "exited"
       \/ running[key[w]] = w
       \/ spc[m] \in {"publish", "thread"} /\ cur[m] = w

\* Nothing that runs or is to be spawned ever vanishes.
NeverVanished ==
  \A m \in Module :
    /\ spc[m] # "remove"
    /\ \A i \in Id : running[<<m, i>>] # None => lastFound[m][i] = 1
    /\ \A i \in Id : spc[m] \in {"spawn", "publish", "thread"} /\ todo[m][i] > 0
                       => lastFound[m][i] = 1
    /\ spc[m] \in {"publish", "thread"} => lastFound[m][key[cur[m]][2]] = 1

Processes == OnlyChild /\ ChildHeld /\ NeverVanished /\ OneProcessPerDevice

ProcessInv == OwnerInv /\ Processes

LEMMA StableOnce == UnitsStable => UnitsOnce
BY DEF UnitsStable, UnitsOnce

LEMMA ProcessInit == Init => ProcessInv
<1> SUFFICES ASSUME Init PROVE Processes
  BY OwnerInit DEF ProcessInv
<1>1. \A w \in Inc : ~Alive(w)
  BY DEF Init, Alive, AliveIn
<1>2. OnlyChild /\ ChildHeld /\ OneProcessPerDevice
  BY <1>1 DEF Init, OnlyChild, ChildHeld, OneProcessPerDevice
<1>3. NeverVanished
  BY KeyFacts DEF Init, NeverVanished
<1> QED BY <1>2, <1>3 DEF Processes

\* A step of the main loop changes at most whether the process is up.
LEMMA ProcessMain ==
  ASSUME ProcessInv, MainStep PROVE Processes'
<1>1. \A m \in Module : ~Respawn(m)
  BY DEF ProcessInv, OwnerInv, Owners, Steady, Respawn
<1>2. UNCHANGED <<supVars, key, wpc>> /\ (Up' => Up)
  BY <1>1 DEF MainStep, Wake, Reap, ApplyReport, Dispatch, StartShutdown, ExitClean,
              ExitForced,
         SendTick, shared, supVars, workVars, Up
<1> QED BY <1>2 DEF ProcessInv, Processes, OnlyChild, ChildHeld, NeverVanished,
     OneProcessPerDevice, ModuleOf, Alive, supVars

\* A step of a worker or of its child can only end a child.
LEMMA ProcessWorker ==
  ASSUME ProcessInv, NEW w \in Inc, WorkerStep(w) \/ ChildEof(w) PROVE Processes'
<1>1. /\ UNCHANGED <<supVars, key, mpc>>
      /\ \A v \in Inc : Alive(v)' => Alive(v)
      /\ \A v \in Inc : Up /\ wpc[v] = "child" => wpc'[v] = "child"
  <2>1. wpc \in [Inc -> WorkPc]
    BY DEF ProcessInv, OwnerInv, OrphanInv, TypeOK
  <2>2. UNCHANGED <<supVars, key, mpc>>
    BY DEF WorkerStep, ChildEof, Begin, TakeTick, TakeShutdown, Disconnected, ChildGone,
       Discarded, EndThread, Post, mainVars
  <2>3. \/ \E p \in WorkPc : wpc[w] \in AliveIn /\ wpc' = [wpc EXCEPT ![w] = p]
                            /\ (Up => wpc[w] # "child")
        \/ wpc[w] = "ending" /\ wpc' = [wpc EXCEPT ![w] = "gone"]
    BY DEF WorkerStep, ChildEof, Begin, TakeTick, TakeShutdown, Disconnected, ChildGone,
       Discarded, EndThread, Post, Alive, AliveIn, WorkPc
  <2> QED BY <2>1, <2>2, <2>3 DEF Alive, AliveIn
<1>2. Up' <=> Up
  BY <1>1 DEF Up
<1>3. OnlyChild'
  <2>1. \A m \in Module : spc[m] \in {"publish", "thread"} => cur[m] \in Inc
    BY DEF ProcessInv, OwnerInv, Owners, KeyedRight, Born
  <2> QED BY <1>1, <1>2, <2>1 DEF ProcessInv, Processes, OnlyChild, supVars
<1> QED BY <1>1, <1>2, <1>3 DEF ProcessInv, Processes, ChildHeld, NeverVanished,
     OneProcessPerDevice, ModuleOf, supVars

\* A supervisor's step keeps what it knows of its units.
LEMMA KeepsUnits ==
  ASSUME UnitsStable, ProcessInv, NEW m \in Module, SupervisorStep(m) PROVE NeverVanished'
<1> DEFINE NV(n) ==
      /\ spc[n] # "remove"
      /\ \A i \in Id : running[<<n, i>>] # None => lastFound[n][i] = 1
      /\ \A i \in Id : spc[n] \in {"spawn", "publish", "thread"} /\ todo[n][i] > 0
                         => lastFound[n][i] = 1
      /\ spc[n] \in {"publish", "thread"} => lastFound[n][key[cur[n]][2]] = 1
<1>1. \A n \in Module : NV(n)
  BY DEF ProcessInv, Processes, NeverVanished
<1>2. ASSUME NEW n \in Module, n # m PROVE NV(n)'
  <2>1. /\ spc'[n] = spc[n] /\ cur'[n] = cur[n] /\ todo'[n] = todo[n]
        /\ lastFound'[n] = lastFound[n]
        /\ \A k \in KeysOf(n) : running'[k] = running[k]
    BY <1>2, OthersAlone, OwnerHasGen DEF ProcessInv
  <2>2. spc[n] \in {"publish", "thread"} => key'[cur[n]] = key[cur[n]]
    BY GenerationsStep, OwnerHasGen DEF ProcessInv, OwnerInv, Owners, KeyedRight, Born
  <2>3. \A i \in Id : <<n, i>> \in KeysOf(n)
    BY DEF KeysOf
  <2> QED BY <1>1, <2>1, <2>2, <2>3
<1>3. NV(m)'
  <2>1. /\ spc \in [Module -> SupPc] /\ cur \in [Module -> Inc \cup {None}]
        /\ lastFound \in [Module -> [Id -> Nat]] /\ todo \in [Module -> [Id -> Nat]]
        /\ running \in [Key -> Inc \cup {None}] /\ key \in [Inc -> Key \cup {NoKey}]
        /\ None \notin Inc /\ \A i \in Id : <<m, i>> \in Key
    BY KeyFacts DEF ProcessInv, OwnerInv, OrphanInv, TypeOK
  <2>2. /\ spc[m] \notin {"remove", "unwind", "drop", "dropRemove", "dead"}
        /\ spc[m] \in {"publish", "thread"} =>
             /\ cur[m] \in Inc /\ key[cur[m]] \in KeysOf(m)
             /\ key[cur[m]][2] \in Id /\ key[cur[m]] = <<m, key[cur[m]][2]>>
    BY DEF ProcessInv, Processes, NeverVanished, OwnerInv, Owners, KeyedRight, Steady, Born,
       KeysOf
  <2>3. CASE DetectKeep(m) \/ Awake(m) \/ ReapedAll(m)
    BY <1>1, <2>1, <2>3 DEF DetectKeep, Awake, ReapedAll
  <2>4. ASSUME NEW units \in Detections, DetectOk(m, units) PROVE NV(m)'
    <3>1. \A i \in Id : units[i] = 1
      BY DEF UnitsStable
    <3>2. lastFound'[m] = units /\ spc'[m] \notin {"remove", "spawn", "publish", "thread"}
      BY <2>1, <2>4 DEF DetectOk
    <3> QED BY <3>1, <3>2
  <2>5. ASSUME NEW expired \in SUBSET Id, CollectToSpawn(m, expired) PROVE NV(m)'
    <3>1. /\ UNCHANGED <<lastFound, running>> /\ spc'[m] \in {"spawn", "sleep"}
          /\ \A i \in Id : todo'[m][i] \in {0, lastFound[m][i]}
      BY <2>1, <2>5 DEF CollectToSpawn, NextSpawn
    <3>2. \A i \in Id : lastFound[m][i] <= 1 /\ lastFound[m][i] \in Nat
      BY <2>1 DEF ProcessInv, OwnerInv, Owners, SpawnsOnce
    <3> QED BY <1>1, <3>1, <3>2
  <2>6. ASSUME NEW i \in Id, SpawnNothing(m, i) PROVE NV(m)'
    <3>1. /\ UNCHANGED <<lastFound, running>> /\ spc'[m] \in {"spawn", "sleep"} /\ spc[m] = "spawn"
          /\ todo' = [todo EXCEPT ![m][i] = @ - 1]
      BY <2>1, <2>6 DEF SpawnNothing, NextSpawn
    <3>2. \A x \in Id : todo'[m][x] > 0 => todo[m][x] > 0
      BY <2>1, <3>1
    <3> QED BY <1>1, <3>1, <3>2
  <2>7. ASSUME NEW i \in Id, NEW w \in Inc, SpawnChild(m, i, w) PROVE NV(m)'
    <3>1. /\ UNCHANGED <<lastFound, running>> /\ spc'[m] = "publish" /\ spc[m] = "spawn"
          /\ todo[m][i] > 0 /\ todo' = [todo EXCEPT ![m][i] = @ - 1]
          /\ cur'[m] = w /\ key'[w] = <<m, i>>
      BY <2>1, <2>7 DEF SpawnChild, Pending
    <3>2. \A x \in Id : todo'[m][x] > 0 => todo[m][x] > 0
      BY <2>1, <3>1
    <3> QED BY <1>1, <3>1, <3>2
  <2>8. CASE Publish(m)
    <3>1. UNCHANGED <<lastFound, running, todo, cur, key>> /\ spc[m] = "publish"
          /\ spc'[m] = "thread"
      BY <2>1, <2>8 DEF Publish, workVars
    <3> QED BY <1>1, <3>1
  <2>9. CASE StartThread(m)
    <3>1. /\ UNCHANGED <<lastFound, todo>> /\ spc[m] = "thread" /\ spc'[m] \in {"spawn", "sleep"}
          /\ running' = [running EXCEPT ![key[cur[m]]] = cur[m]]
      BY <2>1, <2>9 DEF StartThread, NextSpawn
    <3> QED BY <1>1, <2>1, <2>2, <3>1
  <2>10. CASE Return(m) \/ \E k \in KeysOf(m) : ReapDead(m, k)
    <3>1. /\ UNCHANGED lastFound /\ spc'[m] \in {"exited", "reap"}
          /\ \A k \in Key : running'[k] # None => running[k] # None
      BY <2>1, <2>10 DEF Return, ReapDead
    <3> QED BY <1>1, <2>1, <3>1
  <2>11. ~RemoveState(m) /\ ~Unwind(m) /\ ~EndDrop(m)
    BY <2>2 DEF RemoveState, Unwind, EndDrop
  <2>12. \A k \in KeysOf(m) : ~ForgetVanished(m, k) /\ ~DropRunning(m, k)
    BY <1>1, <2>2 DEF ForgetVanished, DropRunning, Vanished, KeysOf
  <2> QED BY <2>3, <2>4, <2>5, <2>6, <2>7, <2>8, <2>9, <2>10, <2>11, <2>12 DEF SupervisorStep
<1> QED BY <1>2, <1>3 DEF NeverVanished

\* A supervisor's step starts a child only where none is alive.
LEMMA KeepsChildren ==
  ASSUME UnitsStable, ProcessInv, NEW m \in Module, SupervisorStep(m)
  PROVE  OnlyChild' /\ ChildHeld' /\ OneProcessPerDevice'
<1>1. /\ spc \in [Module -> SupPc] /\ cur \in [Module -> Inc \cup {None}]
      /\ running \in [Key -> Inc \cup {None}] /\ key \in [Inc -> Key \cup {NoKey}]
      /\ wpc \in [Inc -> WorkPc] /\ None \notin Inc /\ KeysOf(m) \subseteq Key
  BY KeyFacts DEF ProcessInv, OwnerInv, OrphanInv, TypeOK
<1>2. /\ spc[m] \notin {"remove", "unwind", "drop", "dropRemove", "dead"}
      /\ spc[m] \in {"publish", "thread"} => cur[m] \in Inc /\ key[cur[m]] \in KeysOf(m)
      /\ \A n \in Module : spc[n] \in {"publish", "thread"} =>
           cur[n] \in Inc /\ key[cur[n]] \in KeysOf(n)
      /\ \A w \in Inc : Alive(w) => /\ key[w] \in Key /\ ModuleOf(w) \in Module
                                    /\ key[w] \in KeysOf(ModuleOf(w))
  BY DEF ProcessInv, Processes, NeverVanished, OwnerInv, Owners, KeyedRight, Steady, Born,
     Alive, AliveIn, ModuleOf, Key, KeysOf
<1>3. Up /\ Up'
  BY DEF SupervisorStep, Up, DetectKeep, RemoveState, Publish, StartThread, Return, Awake,
         ReapedAll, ReapDead,
     Unwind, EndDrop, DetectOk, ForgetVanished, DropRunning, CollectToSpawn, SpawnNothing,
     SpawnChild, mainVars
<1>4. \A n \in Module : n # m => /\ spc'[n] = spc[n] /\ cur'[n] = cur[n]
                                 /\ \A k \in KeysOf(n) : running'[k] = running[k]
  BY OthersAlone, OwnerHasGen DEF ProcessInv
<1>5. ASSUME NEW i \in Id, NEW w \in Inc, SpawnChild(m, i, w)
      PROVE  OnlyChild' /\ ChildHeld' /\ OneProcessPerDevice'
  <2>1. /\ spc[m] = "spawn" /\ spc' = [spc EXCEPT ![m] = "publish"]
        /\ cur' = [cur EXCEPT ![m] = w] /\ todo[m][i] > 0 /\ UNCHANGED running
        /\ wpc[w] = "unborn" /\ wpc' = [wpc EXCEPT ![w] = "child"]
        /\ key' = [key EXCEPT ![w] = <<m, i>>]
    BY <1>5 DEF SpawnChild, Pending
  <2>2. running[<<m, i>>] = None
    <3>1. todo[m][i] \in Nat /\ todo[m][i] <= 1 /\ (todo[m][i] = 1 => running[<<m, i>>] = None)
      BY <2>1 DEF ProcessInv, OwnerInv, OrphanInv, TypeOK, Owners, SpawnsOnce
    <3> QED BY <2>1, <3>1
  <2>3. \A v \in Inc : Alive(v)' /\ v # w => Alive(v) /\ key'[v] = key[v] /\ wpc'[v] = wpc[v]
    BY <1>1, <2>1 DEF Alive
  <2>4. \A n \in Module : spc'[n] \in {"publish", "thread"} /\ n # m =>
          cur'[n] = cur[n] /\ cur[n] # w /\ wpc'[cur[n]] = wpc[cur[n]]
    <3>1. \A n \in Module : spc[n] \in {"publish", "thread"} => wpc[cur[n]] = "child"
      BY <1>3 DEF ProcessInv, Processes, OnlyChild
    <3> QED BY <1>1, <1>2, <1>4, <2>1, <3>1
  <2>5. OnlyChild'
    <3> SUFFICES ASSUME NEW n \in Module, spc'[n] \in {"publish", "thread"}
                 PROVE  wpc'[cur'[n]] = "child"
      BY DEF OnlyChild
    <3>1. CASE n = m
      BY <1>1, <2>1, <3>1
    <3>2. CASE n # m
      BY <1>3, <1>4, <2>4, <3>2 DEF ProcessInv, Processes, OnlyChild
    <3> QED BY <3>1, <3>2
  <2>6. ChildHeld'
    <3> SUFFICES ASSUME NEW v \in Inc, Alive(v)'
                 PROVE  LET n == key'[v][1]
                        IN \/ spc'[n] = "exited"
                           \/ running'[key'[v]] = v
                           \/ spc'[n] \in {"publish", "thread"} /\ cur'[n] = v
      BY DEF ChildHeld, ModuleOf
    <3>1. CASE v = w
      <4>1. key'[v] = <<m, i>> /\ cur'[m] = v /\ spc'[m] = "publish"
        BY <1>1, <2>1, <3>1
      <4> QED BY <4>1
    <3>2. CASE v # w
      <4>1. Alive(v) /\ key'[v] = key[v] /\ running'[key'[v]] = running[key[v]]
        BY <2>1, <2>3, <3>2
      <4>2. \/ spc[key[v][1]] = "exited"
            \/ running[key[v]] = v
            \/ spc[key[v][1]] \in {"publish", "thread"} /\ cur[key[v][1]] = v
        BY <1>3, <4>1 DEF ProcessInv, Processes, ChildHeld, ModuleOf
      <4>3. key[v][1] \in Module
        BY <1>2, <4>1 DEF ModuleOf
      <4> QED BY <1>4, <2>1, <4>1, <4>2, <4>3
    <3> QED BY <3>1, <3>2
  <2>7. \A v \in Inc : Alive(v) => key[v] # <<m, i>>
    BY <1>3, <2>1, <2>2, KeyFacts DEF ProcessInv, Processes, ChildHeld, ModuleOf
  <2>8. \A u, v \in Inc : u # v /\ Alive(u) /\ Alive(v) => key[u] # key[v]
    BY DEF ProcessInv, Processes, OneProcessPerDevice
  <2>9. key'[w] = <<m, i>>
    BY <1>1, <2>1
  <2>10. OneProcessPerDevice'
    BY <2>3, <2>7, <2>8, <2>9 DEF OneProcessPerDevice
  <2> QED BY <2>5, <2>6, <2>10
<1>6. CASE StartThread(m)
  <2> DEFINE w == cur[m]
  <2>1. /\ spc[m] = "thread" /\ w \in Inc /\ key[w] \in KeysOf(m) /\ wpc[w] = "child"
        /\ wpc' = [wpc EXCEPT ![w] = "started"] /\ UNCHANGED key
        /\ running' = [running EXCEPT ![key[w]] = w] /\ spc'[m] \in {"spawn", "sleep"}
    BY <1>1, <1>2, <1>3, <1>6 DEF StartThread, NextSpawn, ProcessInv, Processes, OnlyChild
  <2>2. \A v \in Inc : Alive(v)' <=> Alive(v)
    BY <1>1, <2>1 DEF Alive, AliveIn
  <2>3. OneProcessPerDevice'
    BY <2>1, <2>2 DEF ProcessInv, Processes, OneProcessPerDevice
  <2>4. \A n \in Module : n # m /\ spc[n] \in {"publish", "thread"} => cur[n] # w
    BY <1>2, <2>1 DEF KeysOf
  <2>5. OnlyChild'
    BY <1>1, <1>2, <1>3, <1>4, <2>1, <2>4 DEF ProcessInv, Processes, OnlyChild
  <2>6. ChildHeld'
    <3> SUFFICES ASSUME NEW v \in Inc, Alive(v)
                 PROVE  LET n == key[v][1]
                        IN \/ spc'[n] = "exited"
                           \/ running'[key[v]] = v
                           \/ spc'[n] \in {"publish", "thread"} /\ cur'[n] = v
      BY <2>1, <2>2 DEF ChildHeld, ModuleOf
    <3>1. \/ spc[key[v][1]] = "exited"
          \/ running[key[v]] = v
          \/ spc[key[v][1]] \in {"publish", "thread"} /\ cur[key[v][1]] = v
      BY <1>3 DEF ProcessInv, Processes, ChildHeld, ModuleOf
    <3>2. key[v] \in Key /\ key[v][1] \in Module /\ key[v] \in KeysOf(key[v][1])
      BY <1>2 DEF ModuleOf
    <3>3. CASE v = w
      BY <1>1, <2>1, <3>2, <3>3
    <3>4. CASE v # w
      <4>1. key[v] # key[w]
        BY <2>1, <3>4 DEF ProcessInv, Processes, OneProcessPerDevice, Alive, AliveIn
      <4>2. running'[key[v]] = running[key[v]]
        BY <1>1, <2>1, <4>1
      <4>3. key[v][1] = m => spc[m] = "thread" /\ cur[m] # v
        BY <2>1, <3>4
      <4> QED BY <1>4, <3>1, <3>2, <4>2, <4>3, <2>1
    <3> QED BY <3>3, <3>4
  <2> QED BY <2>3, <2>5, <2>6
<1>7. CASE Publish(m)
  <2>1. UNCHANGED <<running, cur, key, wpc>> /\ spc[m] = "publish" /\ spc'[m] = "thread"
    BY <1>1, <1>7 DEF Publish, workVars
  <2> QED BY <1>2, <1>3, <1>4, <2>1
     DEF ProcessInv, Processes, OnlyChild, ChildHeld, OneProcessPerDevice, Alive, ModuleOf
<1>8. CASE Return(m)
  <2>1. /\ UNCHANGED <<cur, key, wpc>> /\ spc'[m] = "exited"
    BY <1>1, <1>8 DEF Return, workVars
  <2>2. OnlyChild' /\ OneProcessPerDevice'
    BY <1>3, <1>4, <2>1 DEF ProcessInv, Processes, OnlyChild, OneProcessPerDevice, Alive
  <2>3. ChildHeld'
    BY <1>2, <1>3, <1>4, <2>1 DEF ProcessInv, Processes, ChildHeld, Alive, ModuleOf
  <2> QED BY <2>2, <2>3
<1>9. ASSUME NEW x \in KeysOf(m), ReapDead(m, x)
      PROVE  OnlyChild' /\ ChildHeld' /\ OneProcessPerDevice'
  <2>1. /\ UNCHANGED <<cur, key, wpc>> /\ spc[m] = "reap" /\ spc'[m] = "reap"
        /\ \A k \in Key : running'[k] # running[k] => running[k] # None /\ wpc[running[k]] = "gone"
    BY <1>1, <1>9 DEF ReapDead, workVars, Finished
  <2>2. OnlyChild' /\ OneProcessPerDevice'
    BY <1>3, <1>4, <2>1 DEF ProcessInv, Processes, OnlyChild, OneProcessPerDevice, Alive
  <2>3. ChildHeld'
    BY <1>2, <1>3, <1>4, <2>1 DEF ProcessInv, Processes, ChildHeld, Alive, AliveIn, ModuleOf
  <2> QED BY <2>2, <2>3
<1>10. CASE \/ DetectKeep(m) \/ Awake(m) \/ ReapedAll(m)
            \/ (\E units \in Detections : DetectOk(m, units))
            \/ \E expired \in SUBSET Id : CollectToSpawn(m, expired)
            \/ \E i \in Id : SpawnNothing(m, i)
  <2>1. /\ UNCHANGED <<running, cur, key, wpc>> /\ spc[m] \notin {"publish", "thread", "exited"}
        /\ spc'[m] \notin {"publish", "thread"}
    BY <1>1, <1>10 DEF DetectKeep, Awake, ReapedAll, DetectOk, CollectToSpawn, SpawnNothing,
       NextSpawn, workVars
  <2> QED BY <1>2, <1>3, <1>4, <2>1
     DEF ProcessInv, Processes, OnlyChild, ChildHeld, OneProcessPerDevice, Alive, ModuleOf
<1>11. ~RemoveState(m) /\ ~Unwind(m) /\ ~EndDrop(m)
  BY <1>2 DEF RemoveState, Unwind, EndDrop
<1>12. \A k \in KeysOf(m) : ~ForgetVanished(m, k) /\ ~DropRunning(m, k)
  BY <1>2 DEF ProcessInv, Processes, NeverVanished, ForgetVanished, DropRunning, Vanished,
              KeysOf
<1> QED BY <1>5, <1>6, <1>7, <1>8, <1>9, <1>10, <1>11, <1>12 DEF SupervisorStep

LEMMA ProcessStep ==
  ASSUME NoPanics, UnitsStable PROVE ProcessInv /\ [Next]_vars => ProcessInv'
<1> SUFFICES ASSUME ProcessInv, [Next]_vars PROVE Processes'
  BY OwnerStep, StableOnce DEF ProcessInv
<1>1. CASE Signal \/ Terminated \/ UNCHANGED vars
  BY <1>1 DEF Signal, Terminated, vars, ProcessInv, Processes, OnlyChild, ChildHeld,
     NeverVanished, OneProcessPerDevice, Alive, Up, ModuleOf, mainVars, supVars, workVars
<1>2. ASSUME NEW m \in Module, Panic(m) PROVE FALSE
  BY <1>2 DEF Panic, NoPanics, ProcessInv, OwnerInv, OrphanInv, TypeOK
<1>3. ASSUME NEW m \in Module, SupervisorStep(m) PROVE Processes'
  BY <1>3, KeepsUnits, KeepsChildren DEF Processes
<1> QED BY <1>1, <1>2, <1>3, ProcessMain, ProcessWorker DEF Next

\* Two children of one key are never alive together, through any number of
\* crashes, fatal reports and respawns, as long as no supervisor panics and no
\* unit vanishes from a detect reply.
THEOREM OneProcess ==
  ASSUME NoPanics, UnitsStable PROVE Spec => []OneProcessPerDevice
<1>1. ProcessInv => OneProcessPerDevice
  BY DEF ProcessInv, Processes
<1> QED BY <1>1, ProcessInit, ProcessStep, PTL DEF Spec

-----------------------------------------------------------------------------
(* One tenant per device.                                                  *)

\* A supervisor that is neither spawning nor removing has nothing in hand.
AtRest ==
  \A m \in Module :
    spc[m] \notin {"remove", "dropRemove", "publish", "thread", "unwind"} => cur[m] = None

\* Nothing is sent to an incarnation before it is spawned.
UnbornQuiet ==
  /\ \A w \in Inc : wpc[w] = "unborn" => cmds[w] = <<>>
  /\ \A t \in toSend : wpc[t.inc] # "unborn"

\* A dead supervisor has told all it ran, or leaves them to the shutdown.
DeadRunsNothing ==
  \A m \in Module : spc[m] = "dead" /\ ~flag => \A k \in KeysOf(m) : running[k] = None

\* A tenant is one its supervisor runs or is starting, until the shutdown.
TenantHeld ==
  \A w \in Inc : IsTenant(w) =>
    \/ flag
    \/ running[key[w]] = w
    \/ spc[key[w][1]] \in {"publish", "thread"} /\ cur[key[w][1]] = w

OneTenant ==
  \A v, w \in Inc : IsTenant(v) /\ IsTenant(w) /\ key[v] = key[w] => v = w

Holding == SpawnsOnce /\ AtRest /\ DeadRunsNothing /\ OnlyChild /\ UnbornQuiet

TenantInv == TypeOK /\ KeyedRight /\ Holding /\ TenantHeld /\ OneTenant

\* A singleton has one element to choose.
LEMMA TheOne ==
  ASSUME NEW S, NEW w \in S, \A v \in S : v = w
  PROVE  OneOf(S) = w
BY DEF OneOf

-----------------------------------------------------------------------------
(* What a step does to the tenants.                                        *)

\* Who was told to stop is a tenant no more, and nobody becomes one.
LEMMA Told ==
  ASSUME TypeOK, NEW w \in Inc, cmds' = Sent(w, "Shutdown"), UNCHANGED <<mpc, wpc>>
  PROVE  ~IsTenant(w)' /\ \A v \in Inc : v # w => (IsTenant(v)' <=> IsTenant(v))
<1>1. \A v \in Inc : v # w => cmds'[v] = cmds[v]
  BY DEF Sent, TypeOK
<1>2. CASE Finished(w)
  BY <1>1, <1>2 DEF Finished, IsTenant, Up
<1>3. CASE ~Finished(w)
  <2>1. cmds[w] \in Seq(Cmd) /\ cmds'[w] = Append(cmds[w], "Shutdown")
    BY <1>3 DEF Sent, TypeOK
  <2>2. Len(cmds[w]) + 1 \in DOMAIN cmds'[w] /\ cmds'[w][Len(cmds[w]) + 1] = "Shutdown"
    BY <2>1
  <2> QED BY <1>1, <2>2 DEF IsTenant, Up
<1> QED BY <1>2, <1>3

\* A supervisor's step that spawns nothing may dismiss tenants, and that is all.
LEMMA SupervisorTenants ==
  ASSUME TypeOK, KeyedRight, OnlyChild, NEW m \in Module, SupervisorStep(m),
         \A i \in Id, w \in Inc : ~SpawnChild(m, i, w)
  PROVE  /\ UNCHANGED <<flag, mpc, key, toSend>>
         /\ \A w \in Inc : /\ IsTenant(w)' => IsTenant(w)
                           /\ Alive(w)' <=> Alive(w)
                           /\ wpc'[w] = "unborn" <=> wpc[w] = "unborn"
                           /\ wpc[w] = "unborn" => cmds'[w] = cmds[w]
<1>1. UNCHANGED <<flag, mpc, key, toSend>>
  BY DEF SupervisorStep, DetectKeep, RemoveState, Publish, StartThread, Return, Awake,
     ReapedAll, ReapDead, Unwind, EndDrop, DetectOk, ForgetVanished, DropRunning,
     CollectToSpawn, SpawnNothing, mainVars, workVars
<1>2. ASSUME NEW k \in KeysOf(m), ForgetVanished(m, k) \/ DropRunning(m, k)
      PROVE  \A w \in Inc : /\ IsTenant(w)' => IsTenant(w)
                            /\ Alive(w)' <=> Alive(w)
                            /\ wpc'[w] = "unborn" <=> wpc[w] = "unborn"
                            /\ wpc[w] = "unborn" => cmds'[w] = cmds[w]
  <2>1. running[k] # None /\ cmds' = Sent(running[k], "Shutdown") /\ UNCHANGED <<mpc, wpc>>
    BY <1>2 DEF ForgetVanished, DropRunning, Vanished, mainVars
  <2>2. running[k] \in Inc /\ wpc[running[k]] # "unborn"
    BY <2>1, KeyFacts DEF KeyedRight, Born
  <2>3. \A w \in Inc : wpc[w] = "unborn" => cmds'[w] = cmds[w]
    BY <2>1, <2>2 DEF Sent, TypeOK
  <2> QED BY <2>1, <2>2, <2>3, Told DEF Alive
<1>3. CASE StartThread(m)
  <2>1. /\ spc[m] = "thread" /\ cur[m] \in Inc /\ wpc[cur[m]] = "child"
        /\ wpc' = [wpc EXCEPT ![cur[m]] = "started"] /\ UNCHANGED cmds
    BY <1>3 DEF StartThread, OnlyChild, KeyedRight, Born, SupervisorStep
  <2>2. wpc'[cur[m]] = "started" /\ \A w \in Inc : w # cur[m] => wpc'[w] = wpc[w]
    BY <2>1 DEF TypeOK
  <2> QED BY <1>1, <2>1, <2>2 DEF IsTenant, Up, Alive, AliveIn
<1>4. CASE UNCHANGED <<wpc, cmds>>
  BY <1>1, <1>4 DEF IsTenant, Up, Alive
<1> QED BY <1>1, <1>2, <1>3, <1>4
  DEF SupervisorStep, DetectKeep, RemoveState, Publish, Return, Awake, ReapedAll, ReapDead,
      Unwind, EndDrop, DetectOk, CollectToSpawn, SpawnNothing, workVars

\* A spawn adds one tenant, of a key that has none.
LEMMA SpawnTenants ==
  ASSUME TypeOK, UnbornQuiet, NEW m \in Module, SupervisorStep(m),
         NEW i \in Id, NEW w \in Inc, SpawnChild(m, i, w)
  PROVE  /\ UNCHANGED <<flag, mpc, toSend, cmds, running>> /\ ~flag
         /\ wpc[w] = "unborn" /\ wpc'[w] = "child" /\ key'[w] = <<m, i>>
         /\ IsTenant(w)' /\ Alive(w)' /\ ~Alive(w) /\ ~IsTenant(w)
         /\ \A v \in Inc : v # w => /\ wpc'[v] = wpc[v] /\ key'[v] = key[v]
                                    /\ IsTenant(v)' <=> IsTenant(v)
                                    /\ Alive(v)' <=> Alive(v)
<1>1. /\ UNCHANGED <<flag, mpc, toSend, cmds, running>> /\ ~flag
      /\ wpc[w] = "unborn" /\ wpc'[w] = "child" /\ key'[w] = <<m, i>>
      /\ \A v \in Inc : v # w => wpc'[v] = wpc[v] /\ key'[v] = key[v]
  BY DEF SpawnChild, mainVars, TypeOK
<1>2. cmds'[w] = <<>> /\ Up'
  BY <1>1 DEF UnbornQuiet, SupervisorStep, Up
<1> QED BY <1>1, <1>2 DEF IsTenant, Up, Alive, AliveIn

-----------------------------------------------------------------------------
(* The invariant.                                                          *)

LEMMA HoldingSupervisor ==
  ASSUME UnitsOnce, TypeOK, KeyedRight, Holding, NEW m \in Module, SupervisorStep(m)
  PROVE  Holding'
<1>1. /\ spc \in [Module -> SupPc] /\ cur \in [Module -> Inc \cup {None}]
      /\ running \in [Key -> Inc \cup {None}] /\ wpc \in [Inc -> WorkPc]
  BY DEF TypeOK
<1>2. SpawnsOnce'
  BY OnceStep DEF Holding
<1>3. \A n \in Module : n # m => /\ spc'[n] = spc[n] /\ cur'[n] = cur[n]
                                 /\ \A k \in KeysOf(n) : running'[k] = running[k]
  BY OthersRun
<1>4. spc'[m] \notin {"remove", "dropRemove", "publish", "thread", "unwind"} => cur'[m] = None
  BY <1>1 DEF Holding, AtRest, SupervisorStep, DetectKeep, RemoveState, Publish, StartThread,
     Return, Awake, ReapedAll, ReapDead, Unwind, EndDrop, DetectOk, ForgetVanished,
     DropRunning, CollectToSpawn, SpawnNothing, SpawnChild, NextSpawn
<1>5. AtRest'
  BY <1>3, <1>4 DEF Holding, AtRest
<1>6. UNCHANGED <<flag, mpc, toSend>>
  BY DEF SupervisorStep, DetectKeep, RemoveState, Publish, StartThread, Return, Awake,
     ReapedAll, ReapDead, Unwind, EndDrop, DetectOk, ForgetVanished, DropRunning,
     CollectToSpawn, SpawnNothing, SpawnChild, mainVars
<1>7. spc'[m] = "dead" /\ ~flag => UNCHANGED running /\ \A k \in KeysOf(m) : running[k] = None
  BY <1>1 DEF Holding, DeadRunsNothing, SupervisorStep, DetectKeep, RemoveState, Publish, StartThread,
     Return, Awake, ReapedAll, ReapDead, Unwind, EndDrop, DetectOk, ForgetVanished,
     DropRunning, CollectToSpawn, SpawnNothing, SpawnChild, NextSpawn
<1>8. DeadRunsNothing'
  BY <1>3, <1>6, <1>7 DEF Holding, DeadRunsNothing
<1>9. OnlyChild' /\ UnbornQuiet'
  <2>1. \A n \in Module : spc[n] \in {"publish", "thread"} =>
          cur[n] \in Inc /\ wpc[cur[n]] = "child" /\ key[cur[n]][1] = n
    BY DEF Holding, OnlyChild, KeyedRight, Born, SupervisorStep, KeysOf
  <2>2. ASSUME NEW i \in Id, NEW w \in Inc, SpawnChild(m, i, w) PROVE OnlyChild' /\ UnbornQuiet'
    <3>1. spc'[m] = "publish" /\ cur'[m] = w
      BY <1>1, <2>2 DEF SpawnChild
    <3>2. /\ UNCHANGED cmds /\ wpc[w] = "unborn" /\ wpc'[w] = "child"
          /\ \A v \in Inc : v # w => wpc'[v] = wpc[v]
      BY <2>2, SpawnTenants DEF Holding
    <3>3. \A n \in Module : n # m /\ spc[n] \in {"publish", "thread"} =>
            cur'[n] = cur[n] /\ cur[n] # w /\ wpc'[cur[n]] = "child"
      BY <1>3, <2>1, <3>2
    <3>4. OnlyChild'
      BY <1>3, <3>1, <3>2, <3>3 DEF OnlyChild
    <3>5. \A t \in toSend : t.inc \in Inc
      BY DEF TypeOK, Send
    <3>6. UnbornQuiet'
      BY <1>6, <3>2, <3>5 DEF Holding, UnbornQuiet
    <3> QED BY <3>4, <3>6
  <2>3. CASE \A i \in Id, w \in Inc : ~SpawnChild(m, i, w)
    <3>1. UnbornQuiet'
      <4>1. /\ toSend' = toSend
            /\ \A w \in Inc : wpc'[w] = "unborn" <=> wpc[w] = "unborn"
            /\ \A w \in Inc : wpc[w] = "unborn" => cmds'[w] = cmds[w]
        BY <2>3, SupervisorTenants DEF Holding
      <4>2. UnbornQuiet /\ \A t \in toSend : t.inc \in Inc
        BY DEF Holding, TypeOK, Send
      <4> QED BY <4>1, <4>2 DEF UnbornQuiet
    <3>2. spc'[m] \in {"publish", "thread"} =>
            spc[m] = "publish" /\ cur'[m] = cur[m] /\ UNCHANGED wpc
      BY <1>1, <2>3 DEF SupervisorStep, DetectKeep, RemoveState, Publish, StartThread,
         Return, Awake, ReapedAll, ReapDead, Unwind, EndDrop, DetectOk, ForgetVanished,
         DropRunning, CollectToSpawn, SpawnNothing, NextSpawn, workVars
    <3>3. \A w \in Inc : w # cur[m] \/ ~StartThread(m) => wpc'[w] = wpc[w]
      BY <1>1, <2>3 DEF SupervisorStep, DetectKeep, RemoveState, Publish, StartThread,
         Return, Awake, ReapedAll, ReapDead, Unwind, EndDrop, DetectOk, ForgetVanished,
         DropRunning, CollectToSpawn, SpawnNothing, workVars
    <3>4. \A n \in Module : n # m /\ spc[n] \in {"publish", "thread"} =>
            cur[n] # cur[m] \/ ~StartThread(m)
      BY <2>1 DEF StartThread
    <3>5. OnlyChild'
      BY <1>3, <2>1, <3>2, <3>3, <3>4 DEF OnlyChild
    <3> QED BY <3>1, <3>5
  <2> QED BY <2>2, <2>3
<1> QED BY <1>2, <1>5, <1>8, <1>9 DEF Holding

LEMMA TenantsSupervisor ==
  ASSUME TenantInv, NEW m \in Module, SupervisorStep(m)
  PROVE  TenantHeld' /\ OneTenant'
<1>1. /\ spc \in [Module -> SupPc] /\ cur \in [Module -> Inc \cup {None}]
      /\ running \in [Key -> Inc \cup {None}] /\ None \notin Inc
      /\ TypeOK /\ KeyedRight /\ Holding
  BY KeyFacts DEF TenantInv, TypeOK
<1>2. \A n \in Module : n # m => /\ spc'[n] = spc[n] /\ cur'[n] = cur[n]
                                 /\ \A k \in KeysOf(n) : running'[k] = running[k]
  BY <1>1, OthersRun
<1>3. \A w \in Inc : IsTenant(w) => key[w] \in KeysOf(key[w][1]) /\ key[w][1] \in Module
                                    /\ key[w] \in Key
  BY <1>1 DEF KeyedRight, IsTenant, Key, KeysOf
<1>4. \A w \in Inc : IsTenant(w) =>
        \/ flag
        \/ running[key[w]] = w
        \/ spc[key[w][1]] \in {"publish", "thread"} /\ cur[key[w][1]] = w
  BY DEF TenantInv, TenantHeld
<1>5. \A v, w \in Inc : IsTenant(v) /\ IsTenant(w) /\ key[v] = key[w] => v = w
  BY DEF TenantInv, OneTenant
<1>6. ASSUME NEW i \in Id, NEW w \in Inc, SpawnChild(m, i, w) PROVE TenantHeld' /\ OneTenant'
  <2>1. /\ UNCHANGED <<flag, running>> /\ ~flag /\ key'[w] = <<m, i>> /\ ~IsTenant(w)
        /\ \A v \in Inc : v # w => key'[v] = key[v] /\ (IsTenant(v)' <=> IsTenant(v))
    BY <1>1, <1>6, SpawnTenants DEF Holding
  <2>2. spc[m] = "spawn" /\ spc'[m] = "publish" /\ cur'[m] = w /\ todo[m][i] > 0
    BY <1>1, <1>6 DEF SpawnChild, Pending
  <2>3. running[<<m, i>>] = None
    <3>1. todo[m][i] \in Nat /\ todo[m][i] <= 1 /\ (todo[m][i] = 1 => running[<<m, i>>] = None)
      BY <1>1, <2>2 DEF Holding, SpawnsOnce, TypeOK
    <3> QED BY <2>2, <3>1
  <2>4. \A v \in Inc : IsTenant(v) => key[v] # <<m, i>>
    BY <1>1, <1>4, <2>1, <2>2, <2>3
  <2>5. OneTenant'
    BY <1>5, <2>1, <2>4 DEF OneTenant
  <2>6. TenantHeld'
    <3> SUFFICES ASSUME NEW v \in Inc, IsTenant(v)'
                 PROVE  \/ running'[key'[v]] = v
                        \/ /\ spc'[key'[v][1]] \in {"publish", "thread"}
                           /\ cur'[key'[v][1]] = v
      BY DEF TenantHeld
    <3>1. CASE v = w
      BY <2>1, <2>2, <3>1
    <3>2. CASE v # w
      BY <1>2, <1>3, <1>4, <2>1, <2>2, <3>2
    <3> QED BY <3>1, <3>2
  <2> QED BY <2>5, <2>6
<1>7. CASE \A i \in Id, w \in Inc : ~SpawnChild(m, i, w)
  <2>1. /\ UNCHANGED <<flag, mpc, key>>
        /\ \A w \in Inc : IsTenant(w)' => IsTenant(w)
    BY <1>1, <1>7, SupervisorTenants DEF Holding
  <2>2. OneTenant'
    BY <1>5, <2>1 DEF OneTenant
  <2> SUFFICES ASSUME NEW w \in Inc, IsTenant(w)', ~flag, key[w][1] = m
               PROVE  \/ running'[key[w]] = w
                      \/ spc'[m] \in {"publish", "thread"} /\ cur'[m] = w
    BY <1>2, <1>3, <1>4, <2>1, <2>2 DEF TenantHeld
  <2>3. /\ IsTenant(w) /\ key[w] \in KeysOf(m) /\ key[w] \in Key
        /\ \/ running[key[w]] = w
           \/ spc[m] \in {"publish", "thread"} /\ cur[m] = w
    BY <1>3, <1>4, <2>1
  <2>4. ASSUME NEW k \in KeysOf(m), ForgetVanished(m, k) \/ DropRunning(m, k)
        PROVE  running'[key[w]] = w
    <3>1. /\ running[k] # None /\ cmds' = Sent(running[k], "Shutdown") /\ UNCHANGED <<mpc, wpc>>
          /\ running' = [running EXCEPT ![k] = None] /\ spc[m] \in {"reconcile", "drop"}
      BY <2>4 DEF ForgetVanished, DropRunning, Vanished, mainVars
    <3>2. running[k] \in Inc
      BY <1>1, <3>1 DEF KeyedRight, Born, KeysOf, Key
    <3>3. running[k] # w
      BY <1>1, <3>1, <3>2, Told
    <3> QED BY <1>1, <2>3, <3>1, <3>3
  <2>5. CASE StartThread(m)
    <3>1. /\ spc[m] = "thread" /\ running' = [running EXCEPT ![key[cur[m]]] = cur[m]]
          /\ running[key[cur[m]]] = None
      BY <1>1, <2>5 DEF StartThread, Holding, SpawnsOnce
    <3> QED BY <1>1, <2>3, <3>1
  <2>6. ASSUME NEW k \in KeysOf(m), ReapDead(m, k) PROVE running'[key[w]] = w
    <3>1. spc[m] = "reap" /\ running' = [running EXCEPT ![k] = None] /\ wpc[running[k]] = "gone"
      BY <2>6 DEF ReapDead, Finished
    <3>2. running[k] # w
      BY <2>3, <3>1 DEF IsTenant
    <3> QED BY <1>1, <2>3, <3>1, <3>2
  <2>7. CASE Publish(m)
    BY <1>1, <2>3, <2>7 DEF Publish
  <2>8. CASE Unwind(m)
    BY <1>1, <2>3, <2>8 DEF Unwind
  <2>9. ~Return(m)
    BY DEF Return
  <2>10. CASE \/ DetectKeep(m) \/ RemoveState(m) \/ Awake(m) \/ ReapedAll(m) \/ EndDrop(m)
              \/ (\E units \in Detections : DetectOk(m, units))
              \/ \E expired \in SUBSET Id : CollectToSpawn(m, expired)
              \/ \E i \in Id : SpawnNothing(m, i)
    BY <2>3, <2>10 DEF DetectKeep, RemoveState, Awake, ReapedAll, EndDrop, DetectOk,
       CollectToSpawn, SpawnNothing
  <2> QED BY <1>7, <2>4, <2>5, <2>6, <2>7, <2>8, <2>9, <2>10 DEF SupervisorStep
<1> QED BY <1>6, <1>7

LEMMA TenancyPanic ==
  ASSUME TenantInv, NEW m \in Module, Up, Panic(m)
  PROVE  KeyedRight' /\ Holding' /\ TenantHeld' /\ OneTenant'
<1>1. /\ spc \in [Module -> SupPc] /\ cur \in [Module -> Inc \cup {None}]
      /\ wpc \in [Inc -> WorkPc] /\ None \notin Inc
      /\ TypeOK /\ KeyedRight /\ Holding
  BY KeyFacts DEF TenantInv, TypeOK
<1>2. /\ UNCHANGED <<flag, mpc, toSend, instances, cur, running, lastFound, todo, key, cmds>>
      /\ spc[m] \in {"detect", "publish", "thread"} /\ spc' = [spc EXCEPT ![m] = "unwind"]
      /\ wpc' = IF cur[m] = None THEN wpc ELSE [wpc EXCEPT ![cur[m]] = "discard"]
  BY DEF Panic, shared, mainVars
<1>3. spc'[m] = "unwind" /\ \A n \in Module : n # m => spc'[n] = spc[n]
  BY <1>1, <1>2
<1>4. \A w \in Inc : w # cur[m] => wpc'[w] = wpc[w]
  BY <1>1, <1>2
<1>5. cur[m] # None => /\ spc[m] \in {"publish", "thread"} /\ cur[m] \in Inc
                       /\ wpc[cur[m]] = "child" /\ key[cur[m]][1] = m
                       /\ wpc'[cur[m]] = "discard"
  BY <1>1, <1>2 DEF Holding, AtRest, OnlyChild, KeyedRight, Born, KeysOf
<1>6. \A w \in Inc : /\ wpc'[w] = "unborn" <=> wpc[w] = "unborn"
                     /\ IsTenant(w)' => IsTenant(w) /\ w # cur[m]
  BY <1>1, <1>2, <1>4, <1>5 DEF IsTenant, Up
<1>7. KeyedRight'
  BY <1>1, <1>2, <1>3, <1>6 DEF KeyedRight, Born
<1>8. SpawnsOnce' /\ AtRest' /\ DeadRunsNothing'
  BY <1>1, <1>2, <1>3 DEF Holding, SpawnsOnce, AtRest, DeadRunsNothing
<1>9. \A n \in Module : n # m /\ spc[n] \in {"publish", "thread"} =>
        cur[n] \in Inc /\ key[cur[n]][1] = n /\ wpc[cur[n]] = "child"
  BY <1>1 DEF Holding, OnlyChild, KeyedRight, Born, KeysOf
<1>10. OnlyChild'
  BY <1>1, <1>2, <1>3, <1>4, <1>5, <1>9 DEF OnlyChild
<1>11. \A t \in toSend : t.inc \in Inc
  BY <1>1 DEF TypeOK, Send
<1>12. UnbornQuiet'
  BY <1>1, <1>2, <1>6, <1>11 DEF Holding, UnbornQuiet
<1>13. OneTenant'
  BY <1>2, <1>6 DEF TenantInv, OneTenant
<1>14. TenantHeld'
  <2> SUFFICES ASSUME NEW w \in Inc, IsTenant(w)', ~flag
               PROVE  \/ running[key[w]] = w
                      \/ spc'[key[w][1]] \in {"publish", "thread"} /\ cur[key[w][1]] = w
    BY <1>2 DEF TenantHeld
  <2>1. /\ w # cur[m] /\ key[w][1] \in Module
        /\ \/ running[key[w]] = w
           \/ spc[key[w][1]] \in {"publish", "thread"} /\ cur[key[w][1]] = w
    BY <1>1, <1>6 DEF TenantInv, TenantHeld, KeyedRight, IsTenant, Key
  <2> QED BY <1>3, <2>1
<1> QED BY <1>7, <1>8, <1>10, <1>12, <1>13, <1>14 DEF Holding

\* A step of the main loop starts nothing and ends nothing; it may dismiss.
LEMMA MainTenants ==
  ASSUME TypeOK, KeyedRight, UnbornQuiet, MainStep
  PROVE  /\ UNCHANGED <<flag, key, wpc>> /\ (Up' => Up)
         /\ \A w \in Inc : IsTenant(w)' => IsTenant(w)
         /\ UnbornQuiet'
<1>1. UNCHANGED <<flag, key, wpc>> /\ (Up' => Up)
  BY DEF MainStep, Wake, Reap, ApplyReport, Dispatch, StartShutdown, ExitClean, ExitForced,
     SendTick, Respawn, workVars, Up
<1>2. CASE UNCHANGED <<cmds, toSend>>
  BY <1>1, <1>2 DEF IsTenant, UnbornQuiet
<1>3. CASE Dispatch
  <2>1. UNCHANGED cmds /\ \A t \in toSend' : \E k \in Key : instances[k] # None /\ t.inc = instances[k]
    BY <1>3 DEF Dispatch, workVars
  <2>2. \A t \in toSend' : wpc[t.inc] # "unborn"
    BY <2>1 DEF KeyedRight, Born
  <2> QED BY <1>1, <2>1, <2>2 DEF IsTenant, UnbornQuiet
<1>4. ASSUME NEW t \in toSend, SendTick(t)
      PROVE  (\A w \in Inc : IsTenant(w)' => IsTenant(w)) /\ UnbornQuiet'
  <2>1. /\ t.inc \in Inc /\ wpc[t.inc] # "unborn" /\ cmds \in [Inc -> Seq(Cmd)]
        /\ cmds' = Sent(t.inc, "Tick") /\ toSend' \subseteq toSend
    BY <1>4 DEF TypeOK, Send, UnbornQuiet, SendTick
  <2>2. /\ \A w \in Inc : w # t.inc => cmds'[w] = cmds[w]
        /\ cmds'[t.inc] \in {cmds[t.inc], Append(cmds[t.inc], "Tick")}
    BY <2>1 DEF Sent
  <2>3. \A i \in DOMAIN cmds[t.inc] : i \in DOMAIN cmds'[t.inc] /\ cmds'[t.inc][i] = cmds[t.inc][i]
    <3>1. cmds[t.inc] \in Seq(Cmd) /\ "Tick" \in Cmd
      BY <2>1 DEF Cmd
    <3> QED BY <2>2, <3>1
  <2>4. \A w \in Inc : IsTenant(w)' => IsTenant(w)
    BY <1>1, <2>2, <2>3 DEF IsTenant
  <2> QED BY <1>1, <2>1, <2>2, <2>4 DEF UnbornQuiet
<1>5. CASE StartShutdown
  <2>1. /\ UNCHANGED toSend
        /\ \A w \in Inc : cmds'[w] = IF (\E k \in Key : instances[k] = w) /\ ~Finished(w)
                                     THEN Append(cmds[w], "Shutdown") ELSE cmds[w]
    BY <1>5 DEF StartShutdown
  <2>2. \A w \in Inc : (\E k \in Key : instances[k] = w) => wpc[w] # "unborn"
    BY KeyFacts DEF KeyedRight, Born
  <2>3. ASSUME NEW w \in Inc, NEW i \in DOMAIN cmds[w]
        PROVE  i \in DOMAIN cmds'[w] /\ cmds'[w][i] = cmds[w][i]
    <3>1. cmds[w] \in Seq(Cmd) /\ "Shutdown" \in Cmd
      BY DEF TypeOK, Cmd
    <3>2. cmds'[w] = cmds[w] \/ cmds'[w] = Append(cmds[w], "Shutdown")
      BY <2>1
    <3> QED BY <3>1, <3>2
  <2>4. \A w \in Inc : IsTenant(w)' => IsTenant(w)
    BY <1>1, <2>3 DEF IsTenant
  <2> QED BY <1>1, <2>1, <2>2, <2>4 DEF UnbornQuiet
<1> QED BY <1>1, <1>2, <1>3, <1>4, <1>5
  DEF MainStep, Wake, Reap, ApplyReport, ExitClean, ExitForced, Respawn, workVars

LEMMA TenancyMain ==
  ASSUME TenantInv, MainStep PROVE KeyedRight' /\ Holding' /\ TenantHeld' /\ OneTenant'
<1>1. /\ spc \in [Module -> SupPc] /\ cur \in [Module -> Inc \cup {None}]
      /\ running \in [Key -> Inc \cup {None}] /\ None \notin Inc
      /\ lastFound \in [Module -> [Id -> Nat]]
      /\ TypeOK /\ KeyedRight /\ Holding
  BY KeyFacts DEF TenantInv, TypeOK
<1>2. /\ UNCHANGED <<flag, key, wpc, instances>> /\ (Up' => Up) /\ UnbornQuiet'
      /\ \A w \in Inc : IsTenant(w)' => IsTenant(w)
  BY <1>1, MainTenants
     DEF Holding, MainStep, Wake, Reap, ApplyReport, Dispatch, StartShutdown, ExitClean,
         ExitForced, SendTick, Respawn, shared
<1>3. OneTenant'
  BY <1>2 DEF TenantInv, OneTenant
<1>4. CASE UNCHANGED supVars
  BY <1>1, <1>2, <1>3, <1>4
     DEF TenantInv, TenantHeld, Holding, KeyedRight, Born, SpawnsOnce, AtRest, OnlyChild,
         DeadRunsNothing, supVars
<1>5. ASSUME NEW m \in Module, Respawn(m) PROVE KeyedRight' /\ Holding' /\ TenantHeld'
  <2>1. /\ spc[m] = "dead" /\ spc'[m] = "detect" /\ cur'[m] = None
        /\ lastFound'[m] = [i \in Id |-> 0]
        /\ \A n \in Module : n # m => /\ spc'[n] = spc[n] /\ cur'[n] = cur[n]
                                      /\ lastFound'[n] = lastFound[n] /\ todo'[n] = todo[n]
        /\ \A k \in Key : running'[k] = IF k[1] = m THEN None ELSE running[k]
    BY <1>1, <1>5 DEF Respawn, TypeOK
  <2>2. KeyedRight'
    BY <1>1, <1>2, <2>1 DEF KeyedRight, Born
  <2>3. SpawnsOnce'
    BY <1>1, <1>2, <2>1, KeyFacts DEF Holding, SpawnsOnce, KeyedRight, KeysOf
  <2>4. AtRest' /\ OnlyChild'
    BY <1>1, <1>2, <2>1 DEF Holding, AtRest, OnlyChild
  <2>5. DeadRunsNothing'
    BY <1>1, <1>2, <2>1, KeyFacts DEF Holding, DeadRunsNothing
  <2>6. \A w \in Inc : IsTenant(w) => key[w] \in Key /\ key[w][1] \in Module
                                      /\ key[w] \in KeysOf(key[w][1])
    BY <1>1 DEF KeyedRight, IsTenant, Key, KeysOf
  <2>7. TenantHeld'
    <3> SUFFICES ASSUME NEW w \in Inc, IsTenant(w), ~flag
                 PROVE  \/ running'[key[w]] = w
                        \/ spc'[key[w][1]] \in {"publish", "thread"} /\ cur'[key[w][1]] = w
      BY <1>2 DEF TenantHeld
    <3>1. \/ running[key[w]] = w
          \/ spc[key[w][1]] \in {"publish", "thread"} /\ cur[key[w][1]] = w
      BY DEF TenantInv, TenantHeld
    <3>2. key[w][1] # m
      BY <1>1, <2>1, <2>6, <3>1 DEF Holding, DeadRunsNothing
    <3> QED BY <2>1, <2>6, <3>1, <3>2
  <2> QED BY <1>2, <2>2, <2>3, <2>4, <2>5, <2>7 DEF Holding
<1> QED BY <1>3, <1>4, <1>5
  DEF MainStep, Wake, Reap, ApplyReport, Dispatch, StartShutdown, ExitClean, ExitForced,
      SendTick

\* A step of a worker, or of its child, concerns that one.
LEMMA WorkerTenants ==
  ASSUME TypeOK, NEW w \in Inc, WorkerStep(w) \/ ChildEof(w)
  PROVE  /\ UNCHANGED <<flag, mpc, toSend, instances, supVars, key>>
         /\ wpc[w] # "unborn" /\ wpc'[w] # "unborn" /\ (Up => wpc[w] # "child")
         /\ (IsTenant(w)' => IsTenant(w)) /\ (Alive(w)' => Alive(w))
         /\ \A v \in Inc : v # w => /\ wpc'[v] = wpc[v] /\ cmds'[v] = cmds[v]
                                    /\ IsTenant(v)' <=> IsTenant(v)
                                    /\ Alive(v)' <=> Alive(v)
<1>1. wpc \in [Inc -> WorkPc] /\ cmds \in [Inc -> Seq(Cmd)]
  BY DEF TypeOK
<1>2. UNCHANGED <<flag, mpc, toSend, instances, supVars, key>>
  BY DEF WorkerStep, ChildEof, Begin, TakeTick, TakeShutdown, Disconnected, ChildGone,
     Discarded, EndThread, Post, mainVars, shared
<1>3. /\ \/ wpc' = wpc
         \/ \E p \in WorkPc \ {"unborn"} : wpc' = [wpc EXCEPT ![w] = p]
      /\ \/ cmds' = cmds
         \/ \E c : cmds' = [cmds EXCEPT ![w] = c]
      /\ wpc[w] # "unborn" /\ (Up => wpc[w] # "child")
  BY DEF WorkerStep, ChildEof, Begin, TakeTick, TakeShutdown, Disconnected, ChildGone,
     Discarded, EndThread, Post, Alive, AliveIn, WorkPc
<1>4. /\ wpc'[w] # "unborn"
      /\ \A v \in Inc : v # w => wpc'[v] = wpc[v] /\ cmds'[v] = cmds[v]
  BY <1>1, <1>3
<1>5. Alive(w)' => Alive(w)
  BY <1>1 DEF WorkerStep, ChildEof, Begin, TakeTick, TakeShutdown, Disconnected, ChildGone,
     Discarded, EndThread, Post, Alive, AliveIn
<1>6. IsTenant(w)' => IsTenant(w)
  <2>1. CASE TakeTick(w)
    <3>1. /\ cmds[w] \in Seq(Cmd) /\ cmds[w] # <<>> /\ Head(cmds[w]) = "Tick"
          /\ cmds'[w] = Tail(cmds[w]) /\ wpc[w] = "recv"
      BY <1>1, <2>1 DEF TakeTick
    <3>2. \A i \in DOMAIN cmds[w] : cmds[w][i] = "Tick" \/ \E j \in DOMAIN cmds'[w] :
                                      cmds'[w][j] = cmds[w][i]
      <4> SUFFICES ASSUME NEW i \in DOMAIN cmds[w], i # 1
                   PROVE  \E j \in DOMAIN cmds'[w] : cmds'[w][j] = cmds[w][i]
        BY <3>1
      <4>1. i - 1 \in DOMAIN cmds'[w] /\ cmds'[w][i - 1] = cmds[w][i]
        BY <3>1
      <4> QED BY <4>1
    <3> QED BY <1>2, <3>1, <3>2 DEF IsTenant, Up
  <2>2. CASE Begin(w) \/ \E s \in Outcomes : Post(w, s)
    <3>1. UNCHANGED cmds /\ wpc[w] \in {"started", "apply"}
      BY <2>2 DEF Begin, Post
    <3> QED BY <1>2, <3>1 DEF IsTenant, Up
  <2>3. CASE TakeShutdown(w) \/ Disconnected(w) \/ ChildGone(w) \/ Discarded(w)
             \/ EndThread(w) \/ ChildEof(w)
    <3>1. wpc'[w] \in {"shutdown", "drop", "ending", "gone"}
      BY <1>1, <2>3 DEF TakeShutdown, Disconnected, ChildGone, Discarded, EndThread, ChildEof
    <3> QED BY <3>1 DEF IsTenant
  <2> QED BY <2>1, <2>2, <2>3 DEF WorkerStep
<1> QED BY <1>2, <1>3, <1>4, <1>5, <1>6 DEF IsTenant, Up, Alive

LEMMA TenancyWorker ==
  ASSUME TenantInv, NEW w \in Inc, WorkerStep(w) \/ ChildEof(w)
  PROVE  KeyedRight' /\ Holding' /\ TenantHeld' /\ OneTenant'
<1>1. TypeOK /\ KeyedRight /\ Holding
  BY DEF TenantInv
<1>2. /\ UNCHANGED <<flag, mpc, toSend, instances, supVars, key>>
      /\ \A v \in Inc : /\ wpc'[v] = "unborn" <=> wpc[v] = "unborn"
                        /\ wpc[v] = "unborn" => cmds'[v] = cmds[v]
                        /\ IsTenant(v)' => IsTenant(v)
                        /\ Up /\ wpc[v] = "child" => wpc'[v] = "child"
  BY <1>1, WorkerTenants
<1>3. KeyedRight' /\ OneTenant' /\ TenantHeld'
  BY <1>2 DEF TenantInv, KeyedRight, Born, OneTenant, TenantHeld, supVars
<1>4. (\A t \in toSend : t.inc \in Inc)
      /\ \A n \in Module : spc[n] \in {"publish", "thread"} => cur[n] \in Inc
  BY <1>1 DEF TypeOK, Send, KeyedRight, Born
<1>5. Holding'
  BY <1>1, <1>2, <1>4 DEF Holding, SpawnsOnce, AtRest, DeadRunsNothing, OnlyChild, UnbornQuiet,
     supVars, Up
<1> QED BY <1>3, <1>5

LEMMA TenancyInit == Init => TenantInv
<1> SUFFICES ASSUME Init PROVE TenantInv
  OBVIOUS
<1>1. TypeOK /\ KeyedRight /\ SpawnsOnce
  BY OwnerInit DEF OwnerInv, OrphanInv, Owners
<1>2. \A w \in Inc : ~IsTenant(w)
  BY DEF Init, IsTenant
<1>3. AtRest /\ DeadRunsNothing /\ OnlyChild /\ UnbornQuiet
  BY DEF Init, AtRest, DeadRunsNothing, OnlyChild, UnbornQuiet
<1> QED BY <1>1, <1>2, <1>3 DEF TenantInv, Holding, TenantHeld, OneTenant

LEMMA TenancyStep ==
  ASSUME UnitsOnce PROVE TenantInv /\ [Next]_vars => TenantInv'
<1> SUFFICES ASSUME TenantInv, [Next]_vars
             PROVE  KeyedRight' /\ Holding' /\ TenantHeld' /\ OneTenant'
  BY TypeStep DEF TenantInv
<1>1. CASE Signal \/ Terminated \/ UNCHANGED vars
  BY <1>1 DEF Signal, Terminated, vars, TenantInv, KeyedRight, Born, Holding, SpawnsOnce,
     AtRest, DeadRunsNothing, OnlyChild, UnbornQuiet, TenantHeld, OneTenant, IsTenant, Up,
     shared, mainVars, supVars, workVars
<1>2. ASSUME NEW m \in Module, SupervisorStep(m)
      PROVE  KeyedRight' /\ Holding' /\ TenantHeld' /\ OneTenant'
  BY <1>2, KeyedStep, HoldingSupervisor, TenantsSupervisor DEF TenantInv
<1> QED BY <1>1, <1>2, TenancyMain, TenancyPanic, TenancyWorker DEF Next

-----------------------------------------------------------------------------
(* Every step is a step of Tenancy.                                        *)

\* Tenant names the tenant of a key: the only one there is.
LEMMA TenantIs ==
  ASSUME KeyedRight, OneTenant
  PROVE  /\ \A w \in Inc : IsTenant(w) => key[w] \in Key /\ Tenant[key[w]] = w
         /\ \A k \in Key : Tenant[k] # None =>
              Tenant[k] \in Inc /\ IsTenant(Tenant[k]) /\ key[Tenant[k]] = k
<1>1. ASSUME NEW w \in Inc, IsTenant(w) PROVE key[w] \in Key /\ Tenant[key[w]] = w
  <2>1. key[w] \in Key
    BY <1>1 DEF KeyedRight, IsTenant
  <2>2. w \in TenantsOf(key[w]) /\ \A v \in TenantsOf(key[w]) : v = w
    BY <1>1 DEF TenantsOf, OneTenant
  <2>3. OneOf(TenantsOf(key[w])) = w
    BY <2>2, TheOne
  <2> QED BY <2>1, <2>2, <2>3 DEF Tenant
<1>2. ASSUME NEW k \in Key, Tenant[k] # None
      PROVE  Tenant[k] \in Inc /\ IsTenant(Tenant[k]) /\ key[Tenant[k]] = k
  <2>1. PICK w \in Inc : IsTenant(w) /\ key[w] = k
    BY <1>2 DEF Tenant, TenantsOf, OneOf
  <2> QED BY <1>1, <2>1
<1> QED BY <1>1, <1>2

\* The same of the next state.
LEMMA TenantWillBe ==
  ASSUME KeyedRight', OneTenant'
  PROVE  /\ \A w \in Inc : IsTenant(w)' => key'[w] \in Key /\ Tenant'[key'[w]] = w
         /\ \A k \in Key : Tenant'[k] # None =>
              Tenant'[k] \in Inc /\ IsTenant(Tenant[k])' /\ key'[Tenant'[k]] = k
<1>1. ASSUME NEW w \in Inc, IsTenant(w)' PROVE key'[w] \in Key /\ Tenant'[key'[w]] = w
  <2>1. key'[w] \in Key
    BY <1>1 DEF KeyedRight, IsTenant
  <2>2. w \in TenantsOf(key[w])' /\ \A v \in TenantsOf(key[w])' : v = w
    BY <1>1 DEF TenantsOf, OneTenant
  <2>3. OneOf(TenantsOf(key[w])') = w
    BY <2>2, TheOne
  <2> QED BY <2>1, <2>2, <2>3 DEF Tenant
<1>2. ASSUME NEW k \in Key, Tenant'[k] # None
      PROVE  Tenant'[k] \in Inc /\ IsTenant(Tenant[k])' /\ key'[Tenant'[k]] = k
  <2>1. PICK w \in Inc : IsTenant(w)' /\ key'[w] = k
    BY <1>2 DEF Tenant, TenantsOf, OneOf
  <2> QED BY <1>1, <2>1
<1> QED BY <1>1, <1>2

LEMMA TenantDomain == DOMAIN Tenant = Key /\ \A k \in Key : Tenant[k] \in Inc \cup {None}
BY DEF Tenant, TenantsOf, OneOf

\* Some tenants are dismissed; those of them that are not alive any more have
\* ended on the spot, and nobody else has.
LEMMA Dismissal ==
  ASSUME KeyedRight, OneTenant, KeyedRight', OneTenant', UNCHANGED <<key, Used>>,
         \A w \in Inc : /\ IsTenant(w)' => IsTenant(w)
                        /\ Alive(w)' => Alive(w)
                        /\ Alive(w) /\ ~Alive(w)' => IsTenant(w)
  PROVE  Abstract!Next
<1> DEFINE keys  == {k \in Key : Tenant[k] # None /\ Tenant'[k] = None}
           ended == {w \in Inc : Alive(w) /\ ~Alive(w)'}
<1>1. \A w \in Inc : IsTenant(w) => key[w] \in Key /\ Tenant[key[w]] = w
  BY TenantIs
<1>2. \A k \in Key : Tenant[k] # None =>
        Tenant[k] \in Inc /\ IsTenant(Tenant[k]) /\ key[Tenant[k]] = k
  BY TenantIs
<1>3. \A w \in Inc : IsTenant(w)' => key[w] \in Key /\ Tenant'[key[w]] = w
  BY TenantWillBe
<1>4. \A k \in Key : Tenant'[k] # None =>
        Tenant'[k] \in Inc /\ IsTenant(Tenant[k])' /\ key[Tenant'[k]] = k
  BY TenantWillBe
<1>5. \A w \in Inc : IsTenant(w) => Alive(w)
  BY DEF IsTenant, Alive, AliveIn
<1>6. \A w \in Inc : IsTenant(w)' => Alive(w)'
  BY DEF IsTenant, Alive, AliveIn
<1>7. None \notin Inc
  BY KeyFacts
<1>8. \A k \in Key : Tenant'[k] = IF k \in keys THEN None ELSE Tenant[k]
  <2> SUFFICES ASSUME NEW k \in Key, Tenant'[k] # None PROVE Tenant'[k] = Tenant[k]
    BY <1>7, TenantDomain
  <2>1. IsTenant(Tenant[k])' /\ Tenant'[k] \in Inc /\ key[Tenant'[k]] = k
    BY <1>4
  <2>2. IsTenant(Tenant[k])' => \E w \in Inc : w = Tenant'[k] /\ IsTenant(w)'
    BY <2>1 DEF IsTenant
  <2>3. PICK w \in Inc : w = Tenant'[k] /\ IsTenant(w)'
    BY <2>1, <2>2
  <2> QED BY <1>1, <2>1, <2>3
<1>9. Tenant' = [k \in Key |-> IF k \in keys THEN None ELSE Tenant[k]]
  BY <1>8 DEF Tenant
<1>10. \A w \in Inc : IsTenant(w) /\ ~IsTenant(w)' <=> \E k \in keys : w = Tenant[k]
  <2>1. ASSUME NEW w \in Inc, IsTenant(w), ~IsTenant(w)' PROVE \E k \in keys : w = Tenant[k]
    <3>1. key[w] \in Key /\ Tenant[key[w]] = w
      BY <1>1, <2>1
    <3>2. Tenant'[key[w]] # w
      <4> SUFFICES ASSUME Tenant'[key[w]] = w PROVE FALSE
        OBVIOUS
      <4>1. IsTenant(Tenant[key[w]])' /\ w # None
        BY <1>4, <1>7, <3>1
      <4> QED BY <2>1, <4>1 DEF IsTenant
    <3> QED BY <1>7, <1>8, <3>1, <3>2
  <2>2. ASSUME NEW w \in Inc, NEW k \in keys, w = Tenant[k] PROVE IsTenant(w) /\ ~IsTenant(w)'
    <3>1. IsTenant(w) /\ key[w] = k
      BY <1>2, <2>2
    <3> QED BY <1>3, <1>7, <2>2, <3>1
  <2> QED BY <2>1, <2>2
<1>11. \A k \in keys : Tenant[k] \in Inc
  BY <1>2
<1>12. ended \subseteq {Tenant[k] : k \in keys}
  BY <1>6, <1>10
<1>13. Leaving' = Leaving \cup ({Tenant[k] : k \in keys} \ ended)
  BY <1>5, <1>6, <1>10, <1>11 DEF Leaving
<1>14. Abstract!Dismiss(keys, ended)
  BY <1>9, <1>12, <1>13 DEF Abstract!Dismiss
<1>15. keys \in SUBSET Key /\ ended \in SUBSET Inc
  OBVIOUS
<1> HIDE DEF keys, ended
<1> QED BY <1>14, <1>15 DEF Abstract!Next

\* A dismissed child is gone.
LEMMA Leaves ==
  ASSUME NEW w \in Inc, Alive(w), ~Alive(w)', ~IsTenant(w), ~IsTenant(w)',
         UNCHANGED <<key, Used>>,
         \A v \in Inc : v # w => (IsTenant(v)' <=> IsTenant(v)) /\ (Alive(v)' <=> Alive(v))
  PROVE  Abstract!Next
<1>1. \A k : TenantsOf(k)' = TenantsOf(k)
  BY DEF TenantsOf
<1>2. UNCHANGED Tenant
  BY <1>1 DEF Tenant
<1>3. w \in Leaving /\ Leaving' = Leaving \ {w}
  BY DEF Leaving
<1>4. Abstract!Leave(w)
  BY <1>2, <1>3 DEF Abstract!Leave
<1> QED BY <1>4 DEF Abstract!Next

\* A new child is admitted to a key that has no tenant.
LEMMA Admission ==
  ASSUME TenantInv, (KeyedRight /\ OneTenant)', NEW m \in Module, SupervisorStep(m),
         NEW i \in Id, NEW w \in Inc, SpawnChild(m, i, w)
  PROVE  Abstract!Next
<1> DEFINE k == <<m, i>>
<1>1. /\ wpc[w] = "unborn" /\ wpc'[w] = "child" /\ key'[w] = k
      /\ IsTenant(w)' /\ Alive(w)' /\ ~Alive(w) /\ ~IsTenant(w)
      /\ \A v \in Inc : v # w => /\ wpc'[v] = wpc[v] /\ key'[v] = key[v]
                                 /\ IsTenant(v)' <=> IsTenant(v)
                                 /\ Alive(v)' <=> Alive(v)
  BY SpawnTenants DEF TenantInv, Holding
<1>2. k \in Key /\ None \notin Inc
  BY KeyFacts
<1>3. \A v \in TenantsOf(k)' : v = w
  BY <1>1 DEF OneTenant, TenantsOf
<1>4. TenantsOf(k) = {} /\ TenantsOf(k)' = {w}
  BY <1>1, <1>3 DEF TenantsOf
<1>5. \A x \in Key : x # k => TenantsOf(x)' = TenantsOf(x)
  BY <1>1 DEF TenantsOf
<1>6. Tenant[k] = None
  BY <1>2, <1>4 DEF Tenant, OneOf
<1>7. Tenant' = [Tenant EXCEPT ![k] = w]
  <2>1. OneOf(TenantsOf(k)') = w
    BY <1>4, TheOne
  <2>2. \A x \in Key : Tenant'[x] = IF x = k THEN w ELSE Tenant[x]
    BY <1>4, <1>5, <2>1 DEF Tenant
  <2>3. Tenant = [x \in Key |-> Tenant[x]] /\ Tenant' = [x \in Key |-> Tenant'[x]]
    BY DEF Tenant
  <2> QED BY <1>2, <2>2, <2>3
<1>8. w \notin Used /\ Used' = Used \cup {w} /\ UNCHANGED Leaving
  BY <1>1 DEF Used, Leaving
<1>9. Abstract!Admit(k, w)
  BY <1>6, <1>7, <1>8 DEF Abstract!Admit
<1> HIDE DEF k
<1> QED BY <1>2, <1>9 DEF Abstract!Next

LEMMA StepIsTenancy ==
  ASSUME UnitsOnce, TenantInv, [Next]_vars PROVE [Abstract!Next]_(Abstract!vars)
<1>1. TenantInv' /\ KeyedRight' /\ OneTenant'
  BY TenancyStep DEF TenantInv
<1>2. KeyedRight /\ OneTenant /\ TypeOK /\ Holding
  BY DEF TenantInv
<1>3. \A w \in Inc : IsTenant(w) => Alive(w)
  BY DEF IsTenant, Alive, AliveIn
<1>4. CASE Signal \/ Terminated \/ UNCHANGED vars
  <2>1. UNCHANGED <<key, wpc, cmds, mpc>>
    BY <1>4 DEF Signal, Terminated, vars, mainVars, workVars
  <2> QED BY <1>1, <1>2, <2>1, Dismissal DEF Used, Alive, IsTenant, Up
<1>5. CASE MainStep
  <2>1. UNCHANGED <<key, wpc>> /\ \A w \in Inc : IsTenant(w)' => IsTenant(w)
    BY <1>2, <1>5, MainTenants DEF Holding
  <2> QED BY <1>1, <1>2, <2>1, Dismissal DEF Used, Alive
<1>6. ASSUME NEW m \in Module, SupervisorStep(m) PROVE Abstract!Next
  <2>1. CASE \A i \in Id, w \in Inc : ~SpawnChild(m, i, w)
    <3>1. /\ UNCHANGED key
          /\ \A w \in Inc : /\ IsTenant(w)' => IsTenant(w)
                            /\ Alive(w)' <=> Alive(w)
                            /\ wpc'[w] = "unborn" <=> wpc[w] = "unborn"
      BY <1>2, <1>6, <2>1, SupervisorTenants DEF Holding
    <3>2. UNCHANGED Used
      BY <3>1 DEF Used
    <3> QED BY <1>1, <1>2, <3>1, <3>2, Dismissal
  <2> QED BY <1>1, <1>6, <2>1, Admission
<1>7. ASSUME NEW m \in Module, Up, Panic(m) PROVE Abstract!Next
  <2>1. /\ UNCHANGED <<key, mpc, cmds>> /\ wpc \in [Inc -> WorkPc]
        /\ wpc' = IF cur[m] = None THEN wpc ELSE [wpc EXCEPT ![cur[m]] = "discard"]
    BY <1>2, <1>7 DEF Panic, mainVars, TypeOK
  <2>2. cur[m] # None => cur[m] \in Inc /\ wpc[cur[m]] = "child"
    BY <1>2, <1>7 DEF Holding, AtRest, OnlyChild, KeyedRight, Born, Panic
  <2>3. \A w \in Inc : /\ Alive(w)' <=> Alive(w)
                       /\ IsTenant(w)' => IsTenant(w)
                       /\ wpc'[w] = "unborn" <=> wpc[w] = "unborn"
    BY <2>1, <2>2 DEF Alive, AliveIn, IsTenant, Up
  <2>4. UNCHANGED Used
    BY <2>3 DEF Used
  <2> QED BY <1>1, <1>2, <2>1, <2>3, <2>4, Dismissal
<1>8. ASSUME NEW w \in Inc, WorkerStep(w) \/ ChildEof(w) PROVE Abstract!Next
  <2>1. /\ UNCHANGED key
        /\ wpc[w] # "unborn" /\ wpc'[w] # "unborn"
        /\ (IsTenant(w)' => IsTenant(w)) /\ (Alive(w)' => Alive(w))
        /\ \A v \in Inc : v # w => /\ wpc'[v] = wpc[v]
                                   /\ IsTenant(v)' <=> IsTenant(v)
                                   /\ Alive(v)' <=> Alive(v)
    BY <1>2, <1>8, WorkerTenants
  <2>2. UNCHANGED Used
    BY <2>1 DEF Used
  <2>3. CASE Alive(w) /\ ~Alive(w)' /\ ~IsTenant(w)
    BY <2>1, <2>2, <2>3, Leaves
  <2>4. CASE ~(Alive(w) /\ ~Alive(w)' /\ ~IsTenant(w))
    BY <1>1, <1>2, <2>1, <2>2, <2>4, Dismissal
  <2> QED BY <2>3, <2>4
<1> QED BY <1>4, <1>5, <1>6, <1>7, <1>8 DEF Next

\* Unless a detect reply repeats an id, every behaviour of the orchestrator is
\* one of Tenancy: a key has at most one process meant to drive its device, and
\* one that was dismissed (it was told to stop, it failed, its supervisor
\* panicked, the process exited) never drives it again.  That every dismissed
\* process leaves is left to the model checker.
THEOREM TenancyIsKept ==
  ASSUME UnitsOnce PROVE Spec => Abstract!Safety
<1>1. Init => Abstract!Init
  <2> SUFFICES ASSUME Init PROVE Abstract!Init
    OBVIOUS
  <2>1. \A w \in Inc : wpc[w] = "unborn"
    BY DEF Init
  <2>2. Used = {} /\ Leaving = {} /\ \A k : TenantsOf(k) = {}
    BY <2>1 DEF Used, Leaving, TenantsOf, IsTenant, Alive, AliveIn
  <2> QED BY <2>2 DEF Abstract!Init, Tenant, OneOf
<1>2. TenantInv /\ [Next]_vars => [Abstract!Next]_(Abstract!vars)
  BY StepIsTenancy
<1> QED BY <1>1, <1>2, TenancyInit, TenancyStep, PTL DEF Spec, Abstract!Safety
===============================================================================
