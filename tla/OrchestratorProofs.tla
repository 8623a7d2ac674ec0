-------------------------- MODULE OrchestratorProofs --------------------------
(***************************************************************************)
(* Theorems about Orchestrator, for every set of modules and ids, every    *)
(* number of spawns and of supervisor panics.                              *)
(***************************************************************************)
EXTENDS Orchestrator, TLAPS

LEMMA KeyFacts ==
  /\ NoKey \notin Key
  /\ None \notin Inc
  /\ \A m \in Module, i \in Id : <<m, i>> \in Key
  /\ \A k \in Key : k = <<k[1], k[2]>> /\ k[1] \in Module /\ k[2] \in Id
  /\ \A m \in Module : \A k \in KeysOf(m) : k \in Key
BY DEF Key, KeysOf, NoKey, Inc, None

\* The type invariant holds initially.
LEMMA TypeInit == Init => TypeOK
<1> SUFFICES ASSUME Init PROVE TypeOK
  OBVIOUS
<1> USE DEF Init
<1>1. mpc \in MainPc /\ BatchInv
  BY DEF MainPc, BatchInv
<1>2. batch \in Seq(Report) /\ results \in Seq(Report) /\ toSend \in SUBSET Send
  OBVIOUS
<1>3. /\ instances \in [Key -> Inc \cup {None}]
      /\ status \in [Key -> Status \cup {"none", "starting"}]
      /\ blackboard \in [Key -> Inc \cup {None}]
      /\ sched \in [Key -> {"absent", "idle", "busy"}]
  OBVIOUS
<1>4. /\ spc \in [Module -> SupPc]
      /\ cur \in [Module -> Inc \cup {None}]
      /\ running \in [Key -> Inc \cup {None}]
      /\ spawnCounts \in [Key -> Nat]
  BY DEF SupPc
<1>5. lastFound \in [Module -> [Id -> Nat]] /\ todo \in [Module -> [Id -> Nat]]
  OBVIOUS
<1>6. /\ wpc \in [Inc -> WorkPc]
      /\ key \in [Inc -> Key \cup {NoKey}]
      /\ gen \in [Inc -> Nat]
      /\ cmds \in [Inc -> Seq(Cmd)]
  BY DEF WorkPc
<1>7. flag \in BOOLEAN
  OBVIOUS
<1>8. panics \in 0 .. MaxPanics
  <2>1. panics = 0 /\ MaxPanics \in Nat
    BY ConstantsAssumption
  <2> HIDE DEF Init
  <2> QED BY <2>1
<1> QED BY <1>1, <1>2, <1>3, <1>4, <1>5, <1>6, <1>7, <1>8 DEF TypeOK

LEMMA TypeMain ==
  ASSUME TypeOK, MainStep PROVE TypeOK'
<1> USE ConstantsAssumption, KeyFacts DEF TypeOK
<1>1. CASE Reap
  BY <1>1 DEF Reap, BatchInv, shared, supVars, workVars, MainPc
<1>2. CASE ApplyReport
  <2> DEFINE r == Head(batch)
             k == key[r.inc]
  <2>1. batch # <<>> /\ r \in Report /\ Tail(batch) \in Seq(Report)
    BY <1>2 DEF ApplyReport, BatchInv
  <2>2. r.inc \in Inc /\ r.status \in Status
    BY <2>1 DEF Report
  <2>3. sched' \in [Key -> {"absent", "idle", "busy"}]
    BY <1>2 DEF ApplyReport, Idled
  <2>4. status' \in [Key -> Status \cup {"none", "starting"}]
    BY <1>2, <2>2 DEF ApplyReport
  <2>5. blackboard' \in [Key -> Inc \cup {None}]
    BY <1>2, <2>2 DEF ApplyReport
  <2>6. mpc' \in MainPc /\ batch' \in Seq(Report) /\ BatchInv'
    BY <1>2, <2>1 DEF ApplyReport, BatchInv, MainPc
  <2> QED BY <1>2, <2>3, <2>4, <2>5, <2>6 DEF ApplyReport, supVars, workVars
<1>3. CASE Dispatch
  <2>1. sched' \in [Key -> {"absent", "idle", "busy"}] /\ mpc' \in {"top", "send"}
    BY <1>3 DEF Dispatch
  <2>2. toSend' \in SUBSET Send
    <3>1. \A k \in Key : instances[k] # None => instances[k] \in Inc
      OBVIOUS
    <3>2. \A m : InputsOf(m) \in SUBSET Inc
      BY DEF InputsOf
    <3> QED BY <1>3, <3>1, <3>2 DEF Dispatch, Send
  <2> QED BY <1>3, <2>1, <2>2 DEF Dispatch, BatchInv, supVars, workVars, MainPc
<1>4. CASE StartShutdown
  <2>1. cmds' \in [Inc -> Seq(Cmd)]
    BY <1>4 DEF StartShutdown, Cmd
  <2> QED BY <1>4, <2>1 DEF StartShutdown, BatchInv, shared, supVars, MainPc
<1>5. CASE ExitClean
  BY <1>5 DEF ExitClean, BatchInv, shared, supVars, workVars, MainPc
<1>6. CASE ExitForced
  BY <1>6 DEF ExitForced, BatchInv, shared, supVars, workVars, MainPc
<1>7. ASSUME NEW t \in toSend, SendTick(t) PROVE TypeOK'
  <2>1. t.inc \in Inc /\ t.key \in Key
    BY DEF Send
  <2>2. cmds' \in [Inc -> Seq(Cmd)]
    BY <1>7, <2>1 DEF SendTick, Sent, Cmd
  <2>3. sched' \in [Key -> {"absent", "idle", "busy"}] /\ mpc' \in {"top", "send"}
    BY <1>7, <2>1 DEF SendTick
  <2>4. toSend' \in SUBSET Send
    BY <1>7 DEF SendTick
  <2> QED BY <1>7, <2>2, <2>3, <2>4 DEF SendTick, BatchInv, supVars, MainPc
<1>8. ASSUME NEW m \in Module, Respawn(m) PROVE TypeOK'
  BY <1>8 DEF Respawn, BatchInv, shared, workVars, SupPc, MainPc
<1>9. CASE Wake
  BY <1>9 DEF Wake, BatchInv, shared, supVars, workVars, MainPc
<1> QED BY <1>1, <1>2, <1>3, <1>4, <1>5, <1>6, <1>7, <1>8, <1>9 DEF MainStep

LEMMA TypeSupervisor ==
  ASSUME TypeOK, NEW m \in Module, SupervisorStep(m) PROVE TypeOK'
<1> USE ConstantsAssumption, KeyFacts
    DEF TypeOK, BatchInv, shared, mainVars, supVars, workVars
<1>1. CASE DetectKeep(m)
  BY <1>1 DEF DetectKeep, SupPc
<1>2. CASE RemoveState(m)
  BY <1>2 DEF RemoveState, Removed, SupPc
<1>3. CASE Publish(m)
  BY <1>3 DEF Publish, SupPc
<1>4. CASE StartThread(m)
  BY <1>4 DEF StartThread, NextSpawn, SupPc, WorkPc
<1>5. CASE Return(m)
  BY <1>5 DEF Return, SupPc
<1>6. CASE Awake(m)
  BY <1>6 DEF Awake, SupPc
<1>16. CASE ReapedAll(m)
  BY <1>16 DEF ReapedAll, SupPc
<1>7. CASE Unwind(m)
  BY <1>7 DEF Unwind, SupPc
<1>8. CASE EndDrop(m)
  BY <1>8 DEF EndDrop, SupPc
<1>9. ASSUME NEW units \in Detections, DetectOk(m, units) PROVE TypeOK'
  BY <1>9 DEF DetectOk, SupPc
<1>10. ASSUME NEW k \in KeysOf(m), ForgetVanished(m, k) PROVE TypeOK'
  <2>1. running[k] \in Inc
    BY <1>10 DEF ForgetVanished, Vanished
  <2>2. cmds' \in [Inc -> Seq(Cmd)]
    BY <1>10, <2>1 DEF ForgetVanished, Sent, Cmd
  <2> QED BY <1>10, <2>1, <2>2 DEF ForgetVanished, SupPc
<1>11. ASSUME NEW k \in KeysOf(m), DropRunning(m, k) PROVE TypeOK'
  <2>1. running[k] \in Inc
    BY <1>11 DEF DropRunning
  <2>2. cmds' \in [Inc -> Seq(Cmd)]
    BY <1>11, <2>1 DEF DropRunning, Sent, Cmd
  <2> QED BY <1>11, <2>1, <2>2 DEF DropRunning, SupPc
<1>12. ASSUME NEW expired \in SUBSET Id, CollectToSpawn(m, expired) PROVE TypeOK'
  BY <1>12 DEF CollectToSpawn, NextSpawn, SupPc
<1>13. ASSUME NEW i \in Id, SpawnNothing(m, i) PROVE TypeOK'
  <2>1. todo' \in [Module -> [Id -> Nat]]
    BY <1>13 DEF SpawnNothing, Pending
  <2> QED BY <1>13, <2>1 DEF SpawnNothing, NextSpawn, SupPc
<1>14. ASSUME NEW i \in Id, NEW w \in Inc, SpawnChild(m, i, w) PROVE TypeOK'
  <2>1. todo' \in [Module -> [Id -> Nat]]
    BY <1>14 DEF SpawnChild, Pending
  <2>2. spawnCounts' \in [Key -> Nat] /\ gen' \in [Inc -> Nat]
    BY <1>14 DEF SpawnChild
  <2> QED BY <1>14, <2>1, <2>2 DEF SpawnChild, SupPc, WorkPc
<1>15. ASSUME NEW k \in KeysOf(m), ReapDead(m, k) PROVE TypeOK'
  BY <1>15 DEF ReapDead, Removed
<1> QED BY <1>1, <1>2, <1>3, <1>4, <1>5, <1>6, <1>7, <1>8, <1>9, <1>10, <1>11,
           <1>12, <1>13, <1>14, <1>15, <1>16 DEF SupervisorStep

LEMMA TypeWorker ==
  ASSUME TypeOK, NEW w \in Inc, WorkerStep(w) \/ ChildEof(w) PROVE TypeOK'
<1> USE ConstantsAssumption, KeyFacts
    DEF TypeOK, BatchInv, shared, mainVars, supVars, WorkPc
<1>1. CASE Begin(w)
  BY <1>1 DEF Begin
<1>2. CASE TakeTick(w)
  BY <1>2 DEF TakeTick
<1>3. CASE TakeShutdown(w)
  BY <1>3 DEF TakeShutdown
<1>4. CASE Disconnected(w)
  BY <1>4 DEF Disconnected
<1>5. CASE ChildGone(w)
  BY <1>5 DEF ChildGone
<1>6. CASE Discarded(w)
  BY <1>6 DEF Discarded
<1>7. CASE EndThread(w)
  BY <1>7 DEF EndThread
<1>8. ASSUME NEW s \in Outcomes, Post(w, s) PROVE TypeOK'
  <2>1. [inc |-> w, status |-> s] \in Report
    BY DEF Report
  <2>2. results' \in Seq(Report)
    BY <1>8, <2>1 DEF Post
  <2> QED BY <1>8, <2>2 DEF Post
<1>9. CASE ChildEof(w)
  BY <1>9 DEF ChildEof
<1> QED BY <1>1, <1>2, <1>3, <1>4, <1>5, <1>6, <1>7, <1>8, <1>9 DEF WorkerStep

LEMMA TypePanic ==
  ASSUME TypeOK, NEW m \in Module, Panic(m) PROVE TypeOK'
BY ConstantsAssumption, KeyFacts
   DEF Panic, TypeOK, BatchInv, shared, mainVars, SupPc, WorkPc

LEMMA TypeStep == TypeOK /\ [Next]_vars => TypeOK'
<1> SUFFICES ASSUME TypeOK, [Next]_vars PROVE TypeOK'
  OBVIOUS
<1>1. CASE Signal
  BY <1>1 DEF Signal, TypeOK, BatchInv, shared, mainVars, supVars, workVars
<1>2. CASE UNCHANGED vars
  BY <1>2 DEF vars, TypeOK, BatchInv, shared, mainVars, supVars, workVars
<1>3. CASE Terminated
  BY <1>2, <1>3 DEF Terminated
<1> QED BY <1>1, <1>2, <1>3, TypeMain, TypeSupervisor, TypeWorker, TypePanic DEF Next

\* Every variable always has its type.
THEOREM TypeCorrect == Spec => []TypeOK
<1> QED BY TypeInit, TypeStep, PTL DEF Spec

-----------------------------------------------------------------------------
(* Entries, slots and signals.                                             *)

\* A supervisor that is about to publish has an incarnation in hand.
InHand == \A m \in Module : spc[m] \in {"publish", "thread"} => cur[m] # None

OrphanInv == TypeOK /\ InHand /\ NothingOrphaned

LEMMA OrphanInit == Init => OrphanInv
<1> SUFFICES ASSUME Init PROVE InHand /\ NothingOrphaned
  BY TypeInit DEF OrphanInv
<1> QED BY DEF Init, InHand, NothingOrphaned

LEMMA OrphanMain ==
  ASSUME OrphanInv, MainStep PROVE (InHand /\ NothingOrphaned)'
<1> USE KeyFacts DEF OrphanInv, TypeOK, InHand, NothingOrphaned, shared, supVars
<1>1. CASE Wake \/ Reap
  BY <1>1 DEF Wake, Reap
<1>2. CASE ApplyReport
  BY <1>2 DEF ApplyReport, Owned, Idled
<1>3. CASE Dispatch
  BY <1>3 DEF Dispatch
<1>4. CASE StartShutdown \/ ExitClean \/ ExitForced
  BY <1>4 DEF StartShutdown, ExitClean, ExitForced
<1>5. ASSUME NEW t \in toSend, SendTick(t) PROVE (InHand /\ NothingOrphaned)'
  BY <1>5 DEF SendTick
<1>6. ASSUME NEW m \in Module, Respawn(m) PROVE (InHand /\ NothingOrphaned)'
  BY <1>6 DEF Respawn
<1> QED BY <1>1, <1>2, <1>3, <1>4, <1>5, <1>6 DEF MainStep

LEMMA OrphanSupervisor ==
  ASSUME OrphanInv, NEW m \in Module, SupervisorStep(m) PROVE (InHand /\ NothingOrphaned)'
<1> USE KeyFacts DEF OrphanInv, TypeOK, InHand, NothingOrphaned, shared
<1>1. CASE DetectKeep(m)
  BY <1>1 DEF DetectKeep
<1>2. CASE RemoveState(m)
  BY <1>2 DEF RemoveState, Removed
<1>3. CASE Publish(m)
  BY <1>3 DEF Publish
<1>4. CASE StartThread(m)
  BY <1>4 DEF StartThread, NextSpawn
<1>5. CASE Return(m)
  BY <1>5 DEF Return
<1>6. CASE Awake(m) \/ ReapedAll(m)
  BY <1>6 DEF Awake, ReapedAll
<1>7. CASE Unwind(m) \/ EndDrop(m)
  BY <1>7 DEF Unwind, EndDrop
<1>8. ASSUME NEW units \in Detections, DetectOk(m, units) PROVE (InHand /\ NothingOrphaned)'
  BY <1>8, SMTT(30) DEF DetectOk
<1>9. ASSUME NEW k \in KeysOf(m), ForgetVanished(m, k) \/ DropRunning(m, k)
      PROVE (InHand /\ NothingOrphaned)'
  <2>1. CASE ForgetVanished(m, k)
    BY <2>1 DEF ForgetVanished
  <2>2. CASE DropRunning(m, k)
    BY <2>2 DEF DropRunning
  <2> QED BY <1>9, <2>1, <2>2
<1>10. ASSUME NEW expired \in SUBSET Id, CollectToSpawn(m, expired)
       PROVE (InHand /\ NothingOrphaned)'
  BY <1>10 DEF CollectToSpawn, NextSpawn
<1>11. ASSUME NEW i \in Id, SpawnNothing(m, i) PROVE (InHand /\ NothingOrphaned)'
  BY <1>11 DEF SpawnNothing, NextSpawn
<1>12. ASSUME NEW i \in Id, NEW w \in Inc, SpawnChild(m, i, w)
       PROVE (InHand /\ NothingOrphaned)'
  BY <1>12 DEF SpawnChild
<1>13. ASSUME NEW k \in KeysOf(m), ReapDead(m, k) PROVE (InHand /\ NothingOrphaned)'
  BY <1>13 DEF ReapDead, Removed
<1> QED BY <1>1, <1>2, <1>3, <1>4, <1>5, <1>6, <1>7, <1>8, <1>9, <1>10, <1>11, <1>12, <1>13
        DEF SupervisorStep

LEMMA OrphanStep == OrphanInv /\ [Next]_vars => OrphanInv'
<1> SUFFICES ASSUME OrphanInv, [Next]_vars PROVE (InHand /\ NothingOrphaned)'
  BY TypeStep DEF OrphanInv
<1> USE DEF OrphanInv, InHand, NothingOrphaned, shared, supVars
<1>1. CASE Signal \/ Terminated \/ UNCHANGED vars
  BY <1>1 DEF Signal, Terminated, vars
<1>2. ASSUME NEW m \in Module, Panic(m) PROVE (InHand /\ NothingOrphaned)'
  BY <1>2 DEF Panic, TypeOK
<1>3. ASSUME NEW w \in Inc, WorkerStep(w) \/ ChildEof(w) PROVE (InHand /\ NothingOrphaned)'
  BY <1>3 DEF WorkerStep, ChildEof, Begin, TakeTick, TakeShutdown, Disconnected,
              ChildGone, Discarded, EndThread, Post
<1> QED BY <1>1, <1>2, <1>3, OrphanMain, OrphanSupervisor DEF Next

\* No slot and no signals outlive the entry of their key, however many
\* supervisors panic and whatever the detect replies name.
THEOREM NothingIsOrphaned == Spec => []NothingOrphaned
<1>1. OrphanInv => NothingOrphaned
  BY DEF OrphanInv
<1> QED BY <1>1, OrphanInit, OrphanStep, PTL DEF Spec

-----------------------------------------------------------------------------
(* Ownership, when no supervisor panics and no detect reply names an id    *)
(* twice.                                                                  *)

NoPanics  == MaxPanics = 0
UnitsOnce == Detections \subseteq [Id -> {0, 1}]

Born(w) == w \in Inc /\ wpc[w] # "unborn"

\* No supervisor is unwinding or waits for the watchdog.
Steady == \A m \in Module : spc[m] \notin {"unwind", "drop", "dropRemove", "dead"}

\* Every incarnation somebody refers to was spawned for that key.
KeyedRight ==
  /\ \A w \in Inc : IF wpc[w] = "unborn" THEN key[w] = NoKey ELSE key[w] \in Key
  /\ \A k \in Key : instances[k] # None => Born(instances[k]) /\ key[instances[k]] = k
  /\ \A k \in Key : running[k] # None => Born(running[k]) /\ key[running[k]] = k
  /\ \A m \in Module : spc[m] \in {"remove", "publish", "thread"} =>
       Born(cur[m]) /\ key[cur[m]] \in KeysOf(m)

\* Generations of one key are below its spawn count and never repeat.
GenerationsDiffer ==
  /\ \A w \in Inc : Born(w) => gen[w] < spawnCounts[key[w]]
  /\ \A v, w \in Inc : Born(v) /\ Born(w) /\ key[v] = key[w] /\ gen[v] = gen[w] => v = w

\* An entry belongs to a running instance, except while its supervisor is
\* between the two halves of a removal or of a spawn.
EntryIsRunning ==
  \A m \in Module : \A k \in KeysOf(m) :
    spc[m] # "exited" /\ running[k] = None /\ instances[k] # None
      => spc[m] \in {"remove", "thread"} /\ key[cur[m]] = k

\* What is left to spawn is not running, and each id is spawned once.
SpawnsOnce ==
  \A m \in Module :
    /\ \A i \in Id : lastFound[m][i] <= 1
    /\ spc[m] \in {"spawn", "publish", "thread"} =>
         \A i \in Id : todo[m][i] <= 1 /\ (todo[m][i] = 1 => running[<<m, i>>] = None)
    /\ spc[m] \in {"publish", "thread"} =>
         running[key[cur[m]]] = None /\ todo[m][key[cur[m]][2]] = 0

\* What a step has to re-establish besides OrphanInv.
Owners ==
  /\ Steady /\ KeyedRight /\ GenerationsDiffer /\ EntryIsRunning /\ SpawnsOnce
  /\ RoutedOnlyWhileOk /\ SignalsFromHolder

OwnerInv == OrphanInv /\ Owners

\* The part of it that needs no assumption on the detect replies.
Generations == Steady /\ KeyedRight /\ GenerationsDiffer

GenInv == OrphanInv /\ Generations

LEMMA OwnerHasGen == OwnerInv => GenInv
BY DEF OwnerInv, Owners, GenInv, Generations

LEMMA OwnerInit == Init => OwnerInv
<1> SUFFICES ASSUME Init PROVE Owners
  BY OrphanInit DEF OwnerInv
<1> USE KeyFacts DEF Init, Born
<1>1. Steady /\ KeyedRight
  BY DEF Steady, KeyedRight
<1>2. GenerationsDiffer
  BY DEF GenerationsDiffer
<1>3. EntryIsRunning /\ SpawnsOnce
  BY DEF EntryIsRunning, SpawnsOnce
<1>4. RoutedOnlyWhileOk /\ SignalsFromHolder
  BY DEF RoutedOnlyWhileOk, SignalsFromHolder
<1> QED BY <1>1, <1>2, <1>3, <1>4 DEF Owners

\* A step that leaves ownership alone.
LEMMA GenFrame ==
  ASSUME GenInv,
         UNCHANGED <<instances, supVars, key, gen>>,
         \A w \in Inc : (wpc'[w] = "unborn") <=> (wpc[w] = "unborn")
  PROVE  Generations'
<1> USE DEF GenInv, Generations, supVars
<1>1. Steady'
  BY DEF Steady
<1>2. KeyedRight'
  BY DEF KeyedRight, Born
<1>3. GenerationsDiffer'
  BY DEF GenerationsDiffer, Born
<1> QED BY <1>1, <1>2, <1>3

LEMMA Frame ==
  ASSUME OwnerInv,
         UNCHANGED <<instances, supVars, key, gen>>,
         \A w \in Inc : (wpc'[w] = "unborn") <=> (wpc[w] = "unborn")
  PROVE  (Steady /\ KeyedRight /\ GenerationsDiffer /\ EntryIsRunning /\ SpawnsOnce)'
<1>1. EntryIsRunning' /\ SpawnsOnce'
  BY DEF OwnerInv, Owners, supVars, EntryIsRunning, SpawnsOnce
<1> QED BY <1>1, GenFrame, OwnerHasGen DEF Generations

LEMMA OwnerMain ==
  ASSUME OwnerInv, MainStep PROVE Owners'
<1>1. \A m \in Module : ~Respawn(m)
  BY DEF OwnerInv, Owners, Steady, Respawn
<1>2. UNCHANGED <<instances, supVars, key, gen, wpc>>
  BY <1>1 DEF MainStep, Wake, Reap, ApplyReport, Dispatch, StartShutdown, ExitClean,
              ExitForced,
         SendTick, shared, supVars, workVars
<1>3. (Steady /\ KeyedRight /\ GenerationsDiffer /\ EntryIsRunning /\ SpawnsOnce)'
  BY <1>2, Frame
<1>4. CASE UNCHANGED <<status, blackboard>>
  BY <1>2, <1>3, <1>4 DEF OwnerInv, Owners, RoutedOnlyWhileOk, SignalsFromHolder
<1>5. CASE ApplyReport
  <2> DEFINE r == Head(batch)
             k == key[r.inc]
  <2>1. CASE ~Owned(r)
    BY <1>4, <1>5, <2>1 DEF ApplyReport
  <2>2. CASE Owned(r) /\ k \notin Key
    <3>1. DOMAIN status = Key /\ DOMAIN blackboard = Key
      BY DEF OwnerInv, OrphanInv, TypeOK
    <3>2. /\ status' = [status EXCEPT ![k] = r.status]
          /\ blackboard' = [blackboard EXCEPT ![k] = IF r.status = "ok" THEN r.inc ELSE None]
      BY <1>5, <2>2 DEF ApplyReport
    <3>3. \A x \in Key : status'[x] = status[x] /\ blackboard'[x] = blackboard[x]
      BY <2>2, <3>1, <3>2
    <3> QED BY <1>2, <1>3, <3>3 DEF OwnerInv, Owners, RoutedOnlyWhileOk, SignalsFromHolder
  <2>3. CASE Owned(r) /\ k \in Key
    <3>1. r.inc \in Inc
      <4>1. batch \in Seq(Report) /\ batch # <<>>
        BY <1>5 DEF ApplyReport, OwnerInv, OrphanInv, TypeOK, BatchInv
      <4>2. r \in Report
        BY <4>1
      <4> QED BY <4>2 DEF Report
    <3>2. /\ instances[k] # None /\ gen[instances[k]] = gen[r.inc]
          /\ Born(instances[k]) /\ key[instances[k]] = k
      BY <2>3 DEF Owned, OwnerInv, Owners, KeyedRight
    <3>3. Born(r.inc)
      BY <2>3, <3>1, KeyFacts DEF Born, OwnerInv, Owners, KeyedRight
    <3>4. instances[k] = r.inc
      BY <3>1, <3>2, <3>3 DEF OwnerInv, Owners, GenerationsDiffer, Born
    <3>5. /\ status' = [status EXCEPT ![k] = r.status]
          /\ blackboard' = [blackboard EXCEPT ![k] = IF r.status = "ok" THEN r.inc ELSE None]
      BY <1>5, <2>3 DEF ApplyReport
    <3>6. (RoutedOnlyWhileOk /\ SignalsFromHolder)'
      BY <1>2, <2>3, <3>4, <3>5
         DEF OwnerInv, OrphanInv, TypeOK, Owners, RoutedOnlyWhileOk, SignalsFromHolder
    <3> QED BY <1>3, <3>6 DEF Owners
  <2> QED BY <2>1, <2>2, <2>3
<1>6. CASE ~ApplyReport
  <2>1. UNCHANGED <<status, blackboard>>
    BY <1>1, <1>6 DEF MainStep, Wake, Reap, Dispatch, StartShutdown, ExitClean, ExitForced,
         SendTick, shared
  <2> QED BY <1>4, <2>1
<1> QED BY <1>5, <1>6

LEMMA SteadyStep ==
  ASSUME GenInv, NEW m \in Module, SupervisorStep(m) PROVE Steady'
<1> DEFINE Calm == SupPc \ {"unwind", "drop", "dropRemove", "dead"}
<1>1. spc \in [Module -> SupPc] /\ \A x \in Module : spc[x] \in Calm
  BY DEF GenInv, OrphanInv, TypeOK, Generations, Steady
<1>2. \A t : NextSpawn(t) \in {"spawn", "sleep"}
  BY DEF NextSpawn
<1>3. ASSUME NEW l \in Calm, spc' = [spc EXCEPT ![m] = l] PROVE Steady'
  BY <1>1, <1>3 DEF Steady
<1>4. CASE DetectKeep(m) \/ \E units \in Detections : DetectOk(m, units)
  <2>1. CASE DetectKeep(m)
    BY <2>1, <1>3 DEF DetectKeep, SupPc
  <2>2. CASE \E units \in Detections : DetectOk(m, units)
    BY <2>2, <1>3 DEF DetectOk, SupPc
  <2> QED BY <1>4, <2>1, <2>2
<1>5. CASE RemoveState(m)
  <2>1. spc[m] = "remove" /\ spc' = [spc EXCEPT ![m] = "reconcile"]
    BY <1>1, <1>5 DEF RemoveState
  <2> QED BY <2>1, <1>3 DEF SupPc
<1>6. CASE Publish(m) \/ Return(m) \/ Awake(m) \/ ReapedAll(m)
  <2>1. \E l \in {"thread", "exited", "reap", "detect"} : spc' = [spc EXCEPT ![m] = l]
    BY <1>6 DEF Publish, Return, Awake, ReapedAll
  <2> QED BY <2>1, <1>3 DEF SupPc
<1>7. CASE \E k \in KeysOf(m) : ForgetVanished(m, k) \/ ReapDead(m, k)
  <2>1. spc' = spc \/ spc' = [spc EXCEPT ![m] = "remove"]
    BY <1>7 DEF ForgetVanished, ReapDead
  <2>2. "remove" \in Calm
    BY DEF SupPc
  <2> QED BY <2>1, <2>2, <1>1, <1>3 DEF Steady
<1>8. CASE \/ StartThread(m)
           \/ \E expired \in SUBSET Id : CollectToSpawn(m, expired)
           \/ \E i \in Id : SpawnNothing(m, i)
  <2>1. \E t : spc' = [spc EXCEPT ![m] = NextSpawn(t)]
    BY <1>8 DEF StartThread, CollectToSpawn, SpawnNothing
  <2>2. \E l \in {"spawn", "sleep"} : spc' = [spc EXCEPT ![m] = l]
    BY <2>1, <1>2
  <2> QED BY <2>2, <1>3 DEF SupPc
<1>9. CASE \E i \in Id, w \in Inc : SpawnChild(m, i, w)
  <2>1. spc' = [spc EXCEPT ![m] = "publish"]
    BY <1>9 DEF SpawnChild
  <2> QED BY <2>1, <1>3 DEF SupPc
<1>10. ~Unwind(m) /\ ~EndDrop(m) /\ \A k \in KeysOf(m) : ~DropRunning(m, k)
  BY <1>1 DEF Unwind, EndDrop, DropRunning
<1> QED BY <1>4, <1>5, <1>6, <1>7, <1>8, <1>9, <1>10 DEF SupervisorStep

LEMMA RoutedStep ==
  ASSUME OwnerInv, NEW m \in Module, SupervisorStep(m)
  PROVE  (RoutedOnlyWhileOk /\ SignalsFromHolder)'
<1> USE DEF OwnerInv, Owners, RoutedOnlyWhileOk, SignalsFromHolder
<1>1. CASE UNCHANGED shared
  BY <1>1 DEF shared
<1>2. CASE RemoveState(m) \/ \E k \in KeysOf(m) : ReapDead(m, k)
  BY <1>2 DEF RemoveState, ReapDead, Removed
<1>3. CASE Publish(m)
  <2> DEFINE k == key[cur[m]]
  <2>1. spc[m] = "publish" /\ k \in KeysOf(m) /\ running[k] = None
    BY <1>3 DEF Publish, KeyedRight, SpawnsOnce
  <2>2. instances[k] = None
    BY <2>1 DEF EntryIsRunning
  <2>3. blackboard[k] = None /\ k \in Key
    BY <2>1, <2>2, KeyFacts DEF OrphanInv, NothingOrphaned
  <2> QED BY <1>3, <2>3 DEF Publish, OrphanInv, TypeOK
<1> QED BY <1>1, <1>2, <1>3
        DEF SupervisorStep, DetectKeep, StartThread, Return, Awake, ReapedAll, Unwind,
            EndDrop, DetectOk,
            ForgetVanished, DropRunning, CollectToSpawn, SpawnNothing, SpawnChild

\* A spawned incarnation stays one, and keeps its key.
LEMMA BornStep ==
  ASSUME TypeOK, KeyedRight, NEW m \in Module, SupervisorStep(m)
  PROVE  \A w \in Inc : Born(w) => Born(w)' /\ key'[w] = key[w]
<1>1. CASE UNCHANGED <<wpc, key>>
  BY <1>1 DEF Born
<1>2. CASE StartThread(m)
  BY <1>2 DEF StartThread, KeyedRight, Born, TypeOK
<1>3. ASSUME NEW i \in Id, NEW w \in Inc, SpawnChild(m, i, w)
      PROVE  \A v \in Inc : Born(v) => Born(v)' /\ key'[v] = key[v]
  BY <1>3 DEF SpawnChild, Born, TypeOK
<1> QED BY <1>1, <1>2, <1>3
        DEF SupervisorStep, DetectKeep, RemoveState, Awake, ReapedAll, ReapDead, Publish,
            Return, Unwind, EndDrop, DetectOk, ForgetVanished, DropRunning, CollectToSpawn,
            SpawnNothing, workVars

LEMMA GenerationsStep ==
  ASSUME GenInv, NEW m \in Module, SupervisorStep(m)
  PROVE  GenerationsDiffer' /\ \A w \in Inc : Born(w) => Born(w)' /\ key'[w] = key[w]
<1> USE DEF GenInv, OrphanInv, TypeOK, Generations
<1>1. CASE UNCHANGED <<wpc, key, gen, spawnCounts>>
  BY <1>1 DEF GenerationsDiffer, Born
<1>2. CASE StartThread(m)
  <2>1. UNCHANGED <<key, gen, spawnCounts>> /\ cur[m] \in Inc /\ Born(cur[m])
    BY <1>2 DEF StartThread, KeyedRight, Born
  <2>2. \A w \in Inc : Born(w)' <=> Born(w)
    BY <1>2, <2>1 DEF StartThread, Born
  <2> QED BY <2>1, <2>2 DEF GenerationsDiffer
<1>3. ASSUME NEW i \in Id, NEW w \in Inc, SpawnChild(m, i, w)
      PROVE  GenerationsDiffer' /\ \A v \in Inc : Born(v) => Born(v)' /\ key'[v] = key[v]
  <2> DEFINE k == <<m, i>>
  <2>1. k \in Key
    BY KeyFacts
  <2>2. \A v \in Inc : Born(v)' <=> Born(v) \/ v = w
    BY <1>3 DEF SpawnChild, Born
  <2>3. ~Born(w) /\ key' = [key EXCEPT ![w] = k] /\ gen' = [gen EXCEPT ![w] = spawnCounts[k]]
        /\ spawnCounts' = [spawnCounts EXCEPT ![k] = @ + 1]
    BY <1>3 DEF SpawnChild, Born
  <2>4. \A v \in Inc : Born(v) => v # w /\ key'[v] = key[v] /\ gen'[v] = gen[v]
                                  /\ key[v] \in Key
    BY <2>3 DEF KeyedRight, Born
  <2>5. /\ key'[w] = k /\ gen'[w] = spawnCounts[k] /\ spawnCounts'[k] = spawnCounts[k] + 1
        /\ \A x \in Key : x # k => spawnCounts'[x] = spawnCounts[x]
        /\ spawnCounts \in [Key -> Nat] /\ gen \in [Inc -> Nat]
    BY <2>1, <2>3
  <2> HIDE DEF GenInv, OrphanInv, TypeOK, Generations
  <2>6. \A v \in Inc : Born(v) => gen[v] < spawnCounts[key[v]]
    BY DEF GenInv, Generations, GenerationsDiffer
  <2>7. \A v \in Inc : Born(v)' => gen'[v] < spawnCounts'[key'[v]]
    <3> SUFFICES ASSUME NEW v \in Inc, Born(v)' PROVE gen'[v] < spawnCounts'[key'[v]]
      OBVIOUS
    <3>1. CASE v = w
      BY <3>1, <2>1, <2>5
    <3>2. CASE v # w
      <4>1. key'[v] = key[v] /\ gen'[v] = gen[v] /\ gen[v] < spawnCounts[key[v]] /\ key[v] \in Key
        BY <3>2, <2>2, <2>4, <2>6
      <4>2. CASE key[v] = k
        BY <4>1, <4>2, <2>5
      <4>3. CASE key[v] # k
        BY <4>1, <4>3, <2>5
      <4> QED BY <4>2, <4>3
    <3> QED BY <3>1, <3>2
  <2>8. \A v \in Inc : Born(v) /\ key'[v] = key'[w] => gen'[v] # gen'[w]
    <3> SUFFICES ASSUME NEW v \in Inc, Born(v), key'[v] = key'[w] PROVE gen'[v] # gen'[w]
      OBVIOUS
    <3>1. key[v] = k /\ gen'[v] = gen[v] /\ gen[v] < spawnCounts[k]
      BY <2>4, <2>5, <2>6
    <3> QED BY <3>1, <2>1, <2>5
  <2>9. \A u, v \in Inc : Born(u) /\ Born(v) /\ key[u] = key[v] /\ gen[u] = gen[v] => u = v
    BY DEF GenInv, Generations, GenerationsDiffer
  <2>10. \A u, v \in Inc : Born(u)' /\ Born(v)' /\ key'[u] = key'[v] /\ gen'[u] = gen'[v] => u = v
    BY <2>2, <2>4, <2>8, <2>9
  <2> QED BY <2>2, <2>4, <2>7, <2>10 DEF GenerationsDiffer
<1> QED BY <1>1, <1>2, <1>3
        DEF SupervisorStep, DetectKeep, RemoveState, Awake, ReapedAll, ReapDead, Publish,
            Return, Unwind, EndDrop,
            DetectOk, ForgetVanished, DropRunning, CollectToSpawn, SpawnNothing, workVars

LEMMA KeyedStep ==
  ASSUME TypeOK, KeyedRight, NEW m \in Module, SupervisorStep(m) PROVE KeyedRight'
<1> USE KeyFacts DEF TypeOK, KeyedRight
<1>1. CASE \/ DetectKeep(m) \/ Return(m) \/ Awake(m) \/ ReapedAll(m)
           \/ Unwind(m) \/ EndDrop(m)
           \/ \E units \in Detections : DetectOk(m, units)
           \/ \E expired \in SUBSET Id : CollectToSpawn(m, expired)
           \/ \E i \in Id : SpawnNothing(m, i)
  <2>1. UNCHANGED <<instances, wpc, key>> /\ \A k \in Key : running'[k] \in {None, running[k]}
    BY <1>1 DEF DetectKeep, Return, Awake, ReapedAll, DetectOk, CollectToSpawn, SpawnNothing,
       Unwind, EndDrop, shared, workVars
  <2>2. \A n \in Module : spc'[n] \in {"remove", "publish", "thread"} =>
          spc'[n] = spc[n] /\ cur'[n] = cur[n]
    BY <1>1 DEF DetectKeep, Return, Awake, ReapedAll, DetectOk, CollectToSpawn, SpawnNothing,
       NextSpawn, Unwind, EndDrop
  <2> QED BY <2>1, <2>2 DEF Born
<1>2. CASE RemoveState(m) \/ \E k \in KeysOf(m) : ReapDead(m, k)
  <2>1. UNCHANGED <<wpc, key>> /\ \A k \in Key : /\ running'[k] \in {None, running[k]}
                                              /\ instances'[k] \in {None, instances[k]}
    <3>1. CASE RemoveState(m)
      BY <3>1 DEF RemoveState, Removed, workVars
    <3>2. CASE \E k \in KeysOf(m) : ReapDead(m, k)
      <4> HIDE DEF KeyedRight
      <4> QED BY <3>2 DEF ReapDead, Removed, workVars
    <3> QED BY <1>2, <3>1, <3>2
  <2>2. \A n \in Module : spc'[n] \in {"remove", "publish", "thread"} =>
          spc'[n] = spc[n] /\ cur'[n] = cur[n]
    <3>1. CASE RemoveState(m)
      BY <3>1 DEF RemoveState
    <3>2. CASE \E k \in KeysOf(m) : ReapDead(m, k)
      BY <3>2 DEF ReapDead
    <3> QED BY <1>2, <3>1, <3>2
  <2> QED BY <2>1, <2>2 DEF Born
<1>3. CASE Publish(m)
  BY <1>3 DEF Publish, Born, workVars
<1>4. CASE StartThread(m)
  <2>1. spc[m] = "thread" /\ Born(cur[m]) /\ key[cur[m]] \in KeysOf(m)
    BY <1>4 DEF StartThread
  <2>2. \A w \in Inc : wpc'[w] = "unborn" <=> wpc[w] = "unborn"
    BY <1>4, <2>1 DEF StartThread, Born
  <2>3. \A n \in Module : spc'[n] \in {"remove", "publish", "thread"} =>
          spc'[n] = spc[n] /\ cur'[n] = cur[n]
    BY <1>4 DEF StartThread, NextSpawn
  <2>4. UNCHANGED <<instances, key>> /\ running' = [running EXCEPT ![key[cur[m]]] = cur[m]]
    BY <1>4 DEF StartThread, shared
  <2>5. \A k \in Key : running'[k] # None => Born(running'[k]) /\ key[running'[k]] = k
    BY <2>1, <2>4
  <2>6. \A w \in Inc : IF wpc'[w] = "unborn" THEN key[w] = NoKey ELSE key[w] \in Key
    BY <2>2
  <2>7. \A w : Born(w)' <=> Born(w)
    BY <2>2 DEF Born
  <2>8. \A n \in Module : spc'[n] \in {"remove", "publish", "thread"} =>
          Born(cur'[n]) /\ key[cur'[n]] \in KeysOf(n)
    BY <2>3
  <2>9. \A k \in Key : instances[k] # None => Born(instances[k]) /\ key[instances[k]] = k
    OBVIOUS
  <2> HIDE DEF TypeOK, KeyedRight
  <2> QED BY <2>4, <2>5, <2>6, <2>7, <2>8, <2>9 DEF KeyedRight
<1>5. ASSUME NEW k \in KeysOf(m), ForgetVanished(m, k) PROVE KeyedRight'
  <2>1. Born(running[k]) /\ key[running[k]] = k
    BY <1>5 DEF ForgetVanished, Vanished
  <2> QED BY <1>5, <2>1 DEF ForgetVanished, shared, Born
<1>6. ASSUME NEW i \in Id, NEW w \in Inc, SpawnChild(m, i, w) PROVE KeyedRight'
  <2>1. \A v \in Inc : Born(v) => Born(v)' /\ key'[v] = key[v]
    BY BornStep
  <2>2. wpc' = [wpc EXCEPT ![w] = "child"] /\ key' = [key EXCEPT ![w] = <<m, i>>]
        /\ <<m, i>> \in KeysOf(m)
    BY <1>6 DEF SpawnChild, KeysOf
  <2>3. \A v \in Inc : IF wpc'[v] = "unborn" THEN key'[v] = NoKey ELSE key'[v] \in Key
    BY <2>2
  <2>4. UNCHANGED <<instances, running>> /\ cur' = [cur EXCEPT ![m] = w]
        /\ spc' = [spc EXCEPT ![m] = "publish"]
    BY <1>6 DEF SpawnChild, shared
  <2>5. \A v \in Inc : wpc[v] # "unborn" => wpc'[v] # "unborn" /\ key'[v] = key[v]
    BY <2>1 DEF Born
  <2> HIDE DEF TypeOK, KeyedRight
  <2>6. \A n \in Module : spc'[n] \in {"remove", "publish", "thread"} =>
          Born(cur[n])' /\ key'[cur'[n]] \in KeysOf(n)
    <3> SUFFICES ASSUME NEW n \in Module, spc'[n] \in {"remove", "publish", "thread"}
                 PROVE  Born(cur[n])' /\ key'[cur'[n]] \in KeysOf(n)
      OBVIOUS
    <3>1. CASE n = m
      <4>1. cur'[n] = w /\ wpc'[w] # "unborn" /\ key'[w] = <<m, i>>
        BY <3>1, <2>2, <2>4 DEF TypeOK
      <4> QED BY <3>1, <4>1, <2>2 DEF Born
    <3>2. CASE n # m
      <4>1. /\ cur'[n] = cur[n] /\ spc'[n] = spc[n]
        BY <3>2, <2>4 DEF TypeOK
      <4>2. Born(cur[n]) /\ key[cur[n]] \in KeysOf(n)
        BY <4>1 DEF KeyedRight
      <4> QED BY <4>1, <4>2, <2>5 DEF Born
    <3> QED BY <3>1, <3>2
  <2>7. \A k \in Key : instances'[k] # None => Born(instances[k])' /\ key'[instances'[k]] = k
    BY <2>4, <2>5 DEF Born, KeyedRight
  <2>8. \A k \in Key : running'[k] # None => Born(running[k])' /\ key'[running'[k]] = k
    BY <2>4, <2>5 DEF Born, KeyedRight
  <2> QED BY <2>3, <2>6, <2>7, <2>8 DEF KeyedRight
<1>7. ASSUME NEW k \in KeysOf(m), DropRunning(m, k) PROVE KeyedRight'
  <2>1. /\ UNCHANGED <<instances, wpc, key>>
        /\ \A x \in Key : running'[x] \in {None, running[x]}
    BY <1>7 DEF DropRunning, shared
  <2>2. \A n \in Module : spc'[n] \in {"remove", "publish", "thread"} =>
          spc'[n] = spc[n] /\ cur'[n] = cur[n]
    BY <1>7 DEF DropRunning
  <2> QED BY <2>1, <2>2 DEF Born
<1> QED BY <1>1, <1>2, <1>3, <1>4, <1>5, <1>6, <1>7 DEF SupervisorStep

\* A supervisor's step leaves the other supervisors and what they run alone.
LEMMA OthersRun ==
  ASSUME TypeOK, KeyedRight, NEW m \in Module, SupervisorStep(m), NEW n \in Module, n # m
  PROVE  /\ spc'[n] = spc[n] /\ cur'[n] = cur[n]
         /\ todo'[n] = todo[n] /\ lastFound'[n] = lastFound[n]
         /\ \A k \in KeysOf(n) : running'[k] = running[k]
<1>1. \A k \in KeysOf(n) : k \in Key /\ k[1] = n /\ k \notin KeysOf(m)
  BY DEF KeysOf, Key
<1>2. /\ spc \in [Module -> SupPc] /\ cur \in [Module -> Inc \cup {None}]
      /\ lastFound \in [Module -> [Id -> Nat]] /\ todo \in [Module -> [Id -> Nat]]
      /\ running \in [Key -> Inc \cup {None}]
  BY DEF TypeOK
<1>3. spc[m] = "thread" => key[cur[m]] \in KeysOf(m)
  BY DEF KeyedRight
<1>4. spc'[n] = spc[n] /\ cur'[n] = cur[n] /\ todo'[n] = todo[n] /\ lastFound'[n] = lastFound[n]
  BY <1>2
     DEF SupervisorStep, DetectKeep, RemoveState, Publish, StartThread, Return, Awake,
         ReapedAll, ReapDead,
         Unwind, EndDrop, DetectOk, ForgetVanished, DropRunning, CollectToSpawn, SpawnNothing,
         SpawnChild
<1>5. \A k \in KeysOf(n) : running'[k] = running[k]
  BY <1>1, <1>2, <1>3
     DEF SupervisorStep, DetectKeep, RemoveState, Publish, StartThread, Return, Awake,
         ReapedAll, ReapDead,
         Unwind, EndDrop, DetectOk, ForgetVanished, DropRunning, CollectToSpawn, SpawnNothing,
         SpawnChild
<1> QED BY <1>4, <1>5

\* Unless somebody panics it leaves their entries alone as well.
LEMMA OthersAlone ==
  ASSUME GenInv, NEW m \in Module, SupervisorStep(m), NEW n \in Module, n # m
  PROVE  /\ spc'[n] = spc[n] /\ cur'[n] = cur[n]
         /\ todo'[n] = todo[n] /\ lastFound'[n] = lastFound[n]
         /\ \A k \in KeysOf(n) : running'[k] = running[k] /\ instances'[k] = instances[k]
<1>1. \A k \in KeysOf(n) : k \in Key /\ k[1] = n /\ k \notin KeysOf(m)
  BY DEF KeysOf, Key
<1>2. /\ spc \in [Module -> SupPc] /\ cur \in [Module -> Inc \cup {None}]
      /\ lastFound \in [Module -> [Id -> Nat]] /\ todo \in [Module -> [Id -> Nat]]
      /\ instances \in [Key -> Inc \cup {None}] /\ running \in [Key -> Inc \cup {None}]
  BY DEF GenInv, OrphanInv, TypeOK
<1>3. /\ spc[m] \in {"remove", "publish", "thread"} => key[cur[m]] \in KeysOf(m)
      /\ spc[m] \notin {"unwind", "drop", "dropRemove", "dead"}
  BY DEF GenInv, Generations, KeyedRight, Steady
<1>4. /\ spc'[n] = spc[n] /\ cur'[n] = cur[n]
      /\ todo'[n] = todo[n] /\ lastFound'[n] = lastFound[n]
      /\ \A k \in KeysOf(n) : running'[k] = running[k]
  BY OthersRun DEF GenInv, OrphanInv, Generations
<1>5. \A k \in KeysOf(n) : instances'[k] = instances[k]
  <2>1. CASE RemoveState(m) \/ \E x \in KeysOf(m) : ReapDead(m, x)
    BY <1>1, <1>2, <1>3, <2>1 DEF RemoveState, ReapDead, Removed
  <2>2. CASE Publish(m)
    BY <1>1, <1>2, <1>3, <2>2 DEF Publish
  <2> QED BY <2>1, <2>2
     DEF SupervisorStep, DetectKeep, StartThread, Return, Awake, ReapedAll, Unwind, EndDrop,
         DetectOk, ForgetVanished, DropRunning, CollectToSpawn, SpawnNothing, SpawnChild, shared
<1> QED BY <1>4, <1>5

\* EntryIsRunning and SpawnsOnce, for one supervisor.
Entry(m) ==
  \A k \in KeysOf(m) :
    spc[m] # "exited" /\ running[k] = None /\ instances[k] # None
      => spc[m] \in {"remove", "thread"} /\ key[cur[m]] = k

Once(m) ==
  /\ \A i \in Id : lastFound[m][i] <= 1
  /\ spc[m] \in {"spawn", "publish", "thread"} =>
       \A i \in Id : todo[m][i] <= 1 /\ (todo[m][i] = 1 => running[<<m, i>>] = None)
  /\ spc[m] \in {"publish", "thread"} =>
       running[key[cur[m]]] = None /\ todo[m][key[cur[m]][2]] = 0

LEMMA OwnEntry ==
  ASSUME OwnerInv, NEW m \in Module, SupervisorStep(m) PROVE Entry(m)'
<1>1. /\ spc \in [Module -> SupPc] /\ cur \in [Module -> Inc \cup {None}]
      /\ instances \in [Key -> Inc \cup {None}] /\ running \in [Key -> Inc \cup {None}]
      /\ None \notin Inc /\ KeysOf(m) \subseteq Key
  BY KeyFacts DEF OwnerInv, OrphanInv, TypeOK
<1>2. Entry(m)
  BY DEF OwnerInv, Owners, EntryIsRunning, Entry
<1>3. /\ spc[m] \in {"remove", "publish", "thread"} =>
           key[cur[m]] \in KeysOf(m) /\ cur[m] \in Inc
      /\ \A k \in KeysOf(m) : running[k] # None => key[running[k]] = k
      /\ spc[m] \notin {"unwind", "drop", "dropRemove", "dead"}
  BY KeyFacts DEF OwnerInv, Owners, KeyedRight, Steady, Born
<1>4. CASE \/ DetectKeep(m) \/ Awake(m) \/ ReapedAll(m)
           \/ (\E units \in Detections : DetectOk(m, units))
           \/ \E expired \in SUBSET Id : CollectToSpawn(m, expired)
           \/ \E i \in Id : SpawnNothing(m, i) \/ \E w \in Inc : SpawnChild(m, i, w)
  <2>1. UNCHANGED <<instances, running>>
        /\ spc[m] \in {"detect", "reconcile", "spawn", "sleep", "reap"}
    BY <1>4 DEF DetectKeep, Awake, ReapedAll, DetectOk, CollectToSpawn, SpawnNothing,
                SpawnChild, shared
  <2> QED BY <1>2, <2>1 DEF Entry
<1>5. CASE RemoveState(m)
  BY <1>1, <1>2, <1>3, <1>5 DEF RemoveState, Removed, Entry
<1>6. ASSUME NEW k \in KeysOf(m), ReapDead(m, k) PROVE Entry(m)'
  BY <1>1, <1>2, <1>6 DEF ReapDead, Removed, Entry
<1>7. CASE Publish(m)
  <2>1. /\ spc' = [spc EXCEPT ![m] = "thread"] /\ UNCHANGED <<running, cur, key>>
        /\ instances' = [instances EXCEPT ![key[cur[m]]] = cur[m]] /\ spc[m] = "publish"
    BY <1>7 DEF Publish, workVars
  <2> QED BY <1>1, <1>2, <1>3, <2>1 DEF Entry
<1>8. CASE StartThread(m)
  <2>1. /\ UNCHANGED instances /\ spc[m] = "thread"
        /\ running' = [running EXCEPT ![key[cur[m]]] = cur[m]]
    BY <1>8 DEF StartThread, shared
  <2> QED BY <1>1, <1>2, <1>3, <2>1 DEF Entry
<1>9. CASE Return(m)
  BY <1>1, <1>9 DEF Return, Entry
<1>10. ASSUME NEW k \in KeysOf(m), ForgetVanished(m, k) PROVE Entry(m)'
  <2>1. /\ UNCHANGED <<instances, key>> /\ spc[m] = "reconcile" /\ running[k] # None
        /\ running' = [running EXCEPT ![k] = None] /\ cur' = [cur EXCEPT ![m] = running[k]]
        /\ spc' = [spc EXCEPT ![m] = "remove"]
    BY <1>10 DEF ForgetVanished, Vanished, shared
  <2> QED BY <1>1, <1>2, <1>3, <2>1 DEF Entry
<1>11. ~Unwind(m) /\ ~EndDrop(m) /\ \A k \in KeysOf(m) : ~DropRunning(m, k)
  BY <1>3 DEF Unwind, EndDrop, DropRunning
<1> QED BY <1>4, <1>5, <1>6, <1>7, <1>8, <1>9, <1>10, <1>11 DEF SupervisorStep

LEMMA OwnOnce ==
  ASSUME UnitsOnce, TypeOK, KeyedRight, NEW m \in Module, Once(m), SupervisorStep(m)
  PROVE  Once(m)'
<1>1. /\ spc \in [Module -> SupPc] /\ cur \in [Module -> Inc \cup {None}]
      /\ lastFound \in [Module -> [Id -> Nat]] /\ todo \in [Module -> [Id -> Nat]]
      /\ running \in [Key -> Inc \cup {None}] /\ key \in [Inc -> Key \cup {NoKey}]
      /\ None \notin Inc /\ KeysOf(m) \subseteq Key
  BY KeyFacts DEF TypeOK
<1>2. Once(m)
  OBVIOUS
<1>3. spc[m] \in {"remove", "publish", "thread"} =>
        key[cur[m]] \in KeysOf(m) /\ cur[m] \in Inc
  BY KeyFacts DEF KeyedRight, Born
<1>4. CASE \/ DetectKeep(m) \/ RemoveState(m) \/ Awake(m) \/ ReapedAll(m) \/ Return(m)
           \/ Unwind(m) \/ EndDrop(m)
           \/ \E k \in KeysOf(m) : ReapDead(m, k) \/ ForgetVanished(m, k) \/ DropRunning(m, k)
  <2>1. UNCHANGED lastFound /\ spc'[m] \notin {"spawn", "publish", "thread"}
    BY <1>1, <1>4 DEF DetectKeep, RemoveState, Awake, ReapedAll, ReapDead, Return, Unwind,
       EndDrop, ForgetVanished, DropRunning
  <2> QED BY <1>2, <2>1 DEF Once
<1>5. ASSUME NEW units \in Detections, DetectOk(m, units) PROVE Once(m)'
  <2>1. \A i \in Id : units[i] <= 1
    BY DEF UnitsOnce
  <2>2. spc'[m] \notin {"spawn", "publish", "thread"} /\ lastFound'[m] = units
    BY <1>1, <1>5 DEF DetectOk
  <2> QED BY <2>1, <2>2 DEF Once
<1>6. ASSUME NEW expired \in SUBSET Id, CollectToSpawn(m, expired) PROVE Once(m)'
  <2>1. /\ UNCHANGED <<lastFound, running>> /\ spc'[m] \in {"spawn", "sleep"}
        /\ \A i \in Id : todo'[m][i] = IF running[<<m, i>>] = None /\ i \in expired
                                       THEN lastFound[m][i] ELSE 0
    BY <1>1, <1>6 DEF CollectToSpawn, NextSpawn
  <2> QED BY <1>2, <2>1 DEF Once
<1>7. ASSUME NEW i \in Id, SpawnNothing(m, i) PROVE Once(m)'
  <2>1. /\ UNCHANGED <<lastFound, running>> /\ spc'[m] \in {"spawn", "sleep"} /\ spc[m] = "spawn"
        /\ todo[m][i] > 0 /\ todo' = [todo EXCEPT ![m][i] = @ - 1]
    BY <1>1, <1>7 DEF SpawnNothing, NextSpawn, Pending
  <2>2. \A x \in Id : todo'[m][x] <= todo[m][x] /\ todo[m][x] \in Nat /\ todo'[m][x] \in Nat
    BY <1>1, <2>1
  <2> QED BY <1>2, <2>1, <2>2 DEF Once
<1>8. ASSUME NEW i \in Id, NEW w \in Inc, SpawnChild(m, i, w) PROVE Once(m)'
  <2>1. /\ UNCHANGED <<lastFound, running>> /\ spc'[m] = "publish" /\ spc[m] = "spawn"
        /\ todo[m][i] > 0 /\ todo' = [todo EXCEPT ![m][i] = @ - 1]
        /\ cur'[m] = w /\ key'[w] = <<m, i>>
    BY <1>1, <1>8 DEF SpawnChild, Pending
  <2>2. \A x \in Id : /\ todo'[m][x] = IF x = i THEN todo[m][x] - 1 ELSE todo[m][x]
                      /\ todo[m][x] \in Nat
    BY <1>1, <2>1
  <2>3. todo[m][i] = 1 /\ running[<<m, i>>] = None
    BY <1>2, <2>1, <2>2 DEF Once
  <2> QED BY <1>2, <2>1, <2>2, <2>3 DEF Once
<1>9. CASE Publish(m)
  <2>1. UNCHANGED <<lastFound, running, todo, cur, key>> /\ spc[m] = "publish" /\ spc'[m] = "thread"
    BY <1>1, <1>9 DEF Publish, workVars
  <2> QED BY <1>2, <2>1 DEF Once
<1>10. CASE StartThread(m)
  <2> DEFINE k == key[cur[m]]
  <2>1. /\ UNCHANGED <<lastFound, todo>> /\ spc[m] = "thread" /\ spc'[m] \in {"spawn", "sleep"}
        /\ running' = [running EXCEPT ![k] = cur[m]]
    BY <1>1, <1>10 DEF StartThread, NextSpawn
  <2>2. k \in KeysOf(m) /\ todo[m][k[2]] = 0
    BY <1>2, <1>3, <2>1 DEF Once
  <2>3. \A x \in Id : todo[m][x] = 1 => running'[<<m, x>>] = running[<<m, x>>]
    BY <2>1, <2>2
  <2> QED BY <1>2, <2>1, <2>3 DEF Once
<1> QED BY <1>4, <1>5, <1>6, <1>7, <1>8, <1>9, <1>10 DEF SupervisorStep

LEMMA OnceStep ==
  ASSUME UnitsOnce, TypeOK, KeyedRight, SpawnsOnce, NEW m \in Module, SupervisorStep(m)
  PROVE  SpawnsOnce'
<1>1. \A n \in Module : Once(n)
  BY DEF SpawnsOnce, Once
<1>2. ASSUME NEW n \in Module, n # m PROVE Once(n)'
  <2>1. /\ spc'[n] = spc[n] /\ cur'[n] = cur[n] /\ todo'[n] = todo[n]
        /\ lastFound'[n] = lastFound[n]
        /\ \A k \in KeysOf(n) : running'[k] = running[k]
    BY <1>2, OthersRun
  <2>2. spc[n] \in {"publish", "thread"} =>
          key'[cur[n]] = key[cur[n]] /\ key[cur[n]] \in KeysOf(n)
    BY BornStep DEF KeyedRight, Born
  <2> QED BY <1>1, <2>1, <2>2 DEF Once, KeysOf
<1>3. \A n \in Module : Once(n)'
  BY <1>1, <1>2, OwnOnce
<1> QED BY <1>3 DEF SpawnsOnce, Once

LEMMA OwnerSupervisor ==
  ASSUME UnitsOnce, OwnerInv, NEW m \in Module, SupervisorStep(m) PROVE Owners'
<1>1. \A n \in Module : Entry(n)
  BY DEF OwnerInv, Owners, EntryIsRunning, Entry
<1>2. ASSUME NEW n \in Module, n # m PROVE Entry(n)'
  <2>1. /\ spc'[n] = spc[n] /\ cur'[n] = cur[n]
        /\ \A k \in KeysOf(n) : running'[k] = running[k] /\ instances'[k] = instances[k]
    BY <1>2, OthersAlone, OwnerHasGen
  <2>2. spc[n] \in {"remove", "thread"} => key'[cur[n]] = key[cur[n]]
    BY GenerationsStep, OwnerHasGen DEF OwnerInv, Owners, KeyedRight, Born
  <2> QED BY <1>1, <2>1, <2>2 DEF Entry
<1>3. EntryIsRunning'
  BY <1>2, OwnEntry DEF EntryIsRunning, Entry
<1>4. TypeOK /\ KeyedRight /\ SpawnsOnce
  BY DEF OwnerInv, OrphanInv, Owners
<1> QED BY <1>3, <1>4, OwnerHasGen, SteadyStep, KeyedStep, GenerationsStep, OnceStep, RoutedStep
        DEF Owners

LEMMA OwnerWorker ==
  ASSUME OwnerInv, NEW w \in Inc, WorkerStep(w) \/ ChildEof(w) PROVE Owners'
<1>1. /\ UNCHANGED <<shared, supVars, key, gen>>
      /\ wpc[w] # "unborn"
      /\ \/ wpc' = wpc
         \/ \E p \in WorkPc \ {"unborn"} : wpc' = [wpc EXCEPT ![w] = p]
  BY DEF WorkerStep, ChildEof, Begin, TakeTick, TakeShutdown, Disconnected, ChildGone,
         Discarded, EndThread, Post, Alive, AliveIn, WorkPc
<1>2. \A v \in Inc : (wpc'[v] = "unborn") <=> (wpc[v] = "unborn")
  BY <1>1 DEF OwnerInv, OrphanInv, TypeOK
<1>3. (Steady /\ KeyedRight /\ GenerationsDiffer /\ EntryIsRunning /\ SpawnsOnce)'
  BY <1>1, <1>2, Frame DEF shared
<1>4. (RoutedOnlyWhileOk /\ SignalsFromHolder)'
  BY <1>1 DEF OwnerInv, Owners, RoutedOnlyWhileOk, SignalsFromHolder, shared
<1> QED BY <1>3, <1>4 DEF Owners

LEMMA OwnerStep ==
  ASSUME NoPanics, UnitsOnce PROVE OwnerInv /\ [Next]_vars => OwnerInv'
<1> SUFFICES ASSUME OwnerInv, [Next]_vars PROVE Owners'
  BY OrphanStep DEF OwnerInv
<1>1. CASE Signal \/ Terminated \/ UNCHANGED vars
  BY <1>1 DEF Signal, Terminated, vars, OwnerInv, Owners, Steady, KeyedRight,
        GenerationsDiffer, EntryIsRunning, SpawnsOnce, RoutedOnlyWhileOk,
        SignalsFromHolder, Born, shared, supVars, workVars
<1>2. ASSUME NEW m \in Module, Panic(m) PROVE FALSE
  BY <1>2 DEF Panic, NoPanics, OwnerInv, OrphanInv, TypeOK
<1> QED BY <1>1, <1>2, OwnerMain, OwnerSupervisor, OwnerWorker DEF Next

\* Generations are sound without any assumption on the detect replies.
LEMMA GenInit == Init => GenInv
BY OwnerInit, OwnerHasGen

LEMMA GenStep ==
  ASSUME NoPanics PROVE GenInv /\ [Next]_vars => GenInv'
<1> SUFFICES ASSUME GenInv, [Next]_vars PROVE Generations'
  BY OrphanStep DEF GenInv
<1>1. CASE Signal \/ Terminated \/ UNCHANGED vars
  BY <1>1, GenFrame DEF Signal, Terminated, vars, shared, supVars, workVars
<1>2. CASE MainStep
  <2>1. \A m \in Module : ~Respawn(m)
    BY DEF GenInv, Generations, Steady, Respawn
  <2>2. UNCHANGED <<instances, supVars, key, gen, wpc>>
    BY <1>2, <2>1 DEF MainStep, Wake, Reap, ApplyReport, Dispatch, StartShutdown, ExitClean,
                ExitForced, SendTick, shared, supVars, workVars
  <2> QED BY <2>2, GenFrame
<1>3. ASSUME NEW m \in Module, SupervisorStep(m) PROVE Generations'
  BY <1>3, SteadyStep, KeyedStep, GenerationsStep DEF GenInv, OrphanInv, Generations
<1>4. ASSUME NEW m \in Module, Panic(m) PROVE FALSE
  BY <1>4 DEF Panic, NoPanics, GenInv, OrphanInv, TypeOK
<1>5. ASSUME NEW w \in Inc, WorkerStep(w) \/ ChildEof(w) PROVE Generations'
  <2>1. /\ UNCHANGED <<shared, supVars, key, gen>>
        /\ wpc[w] # "unborn"
        /\ \/ wpc' = wpc
           \/ \E p \in WorkPc \ {"unborn"} : wpc' = [wpc EXCEPT ![w] = p]
    BY <1>5 DEF WorkerStep, ChildEof, Begin, TakeTick, TakeShutdown, Disconnected, ChildGone,
           Discarded, EndThread, Post, Alive, AliveIn, WorkPc
  <2>2. \A v \in Inc : (wpc'[v] = "unborn") <=> (wpc[v] = "unborn")
    BY <2>1 DEF GenInv, OrphanInv, TypeOK
  <2> QED BY <2>1, <2>2, GenFrame DEF shared
<1> QED BY <1>1, <1>2, <1>3, <1>4, <1>5 DEF Next

\* Signals routed to consumers always come from the instance that holds the
\* key, unless a supervisor panics or a detect reply repeats an id.
THEOREM RoutedSignalsAreOwn ==
  ASSUME NoPanics, UnitsOnce PROVE Spec => []SignalsFromHolder
<1>1. OwnerInv => SignalsFromHolder
  BY DEF OwnerInv, Owners
<1> QED BY <1>1, OwnerInit, OwnerStep, PTL DEF Spec

\* Under the same assumptions nothing is routed whose producer's last result
\* was not ok.
THEOREM RoutedSignalsAreOk ==
  ASSUME NoPanics, UnitsOnce PROVE Spec => []RoutedOnlyWhileOk
<1>1. OwnerInv => RoutedOnlyWhileOk
  BY DEF OwnerInv, Owners
<1> QED BY <1>1, OwnerInit, OwnerStep, PTL DEF Spec

\* What a dispatch routes to a consumer is the last ok result of the instances
\* that now hold their keys.
THEOREM RoutedInputsAreOwn ==
  ASSUME NoPanics, UnitsOnce PROVE Spec => RoutedInputsAreLive
<1> DEFINE Live == \A t \in toSend' \ toSend : \A w \in t.inputs :
                     instances'[key[w]] = w /\ status'[key[w]] = "ok"
<1>1. ASSUME OwnerInv, [Next]_vars PROVE [Live]_vars
  <2>1. CASE Dispatch
    <3> SUFFICES ASSUME NEW t \in toSend', NEW w \in t.inputs
                 PROVE  instances'[key[w]] = w /\ status'[key[w]] = "ok"
      OBVIOUS
    <3>1. PICK m : t.inputs = InputsOf(m)
      BY <2>1 DEF Dispatch
    <3>2. PICK k \in Key : w \in Inc /\ blackboard[k] = w
      BY <3>1 DEF InputsOf
    <3>3. instances[k] = w /\ status[k] = "ok" /\ key[w] = k
      BY <1>1, <3>2, KeyFacts
         DEF OwnerInv, Owners, SignalsFromHolder, RoutedOnlyWhileOk, KeyedRight
    <3> QED BY <2>1, <3>3 DEF Dispatch
  <2>2. CASE ~Dispatch
    <3>1. CASE MainStep
      BY <2>2, <3>1 DEF MainStep, mainVars, Wake, Reap, ApplyReport, StartShutdown, ExitClean,
         ExitForced, SendTick, Respawn
    <3>2. ASSUME NEW m \in Module, SupervisorStep(m) \/ Panic(m) PROVE UNCHANGED toSend
      BY <3>2 DEF mainVars, SupervisorStep, DetectKeep, RemoveState, Publish, StartThread,
         Return, Awake, ReapedAll, ReapDead, Unwind, EndDrop, DetectOk, ForgetVanished,
         DropRunning, CollectToSpawn, SpawnNothing, SpawnChild, Panic
    <3>3. ASSUME NEW w \in Inc, WorkerStep(w) \/ ChildEof(w) PROVE UNCHANGED toSend
      BY <3>3 DEF mainVars, WorkerStep, Begin, TakeTick, TakeShutdown, Disconnected,
         ChildGone, Discarded, EndThread, Post, ChildEof
    <3>4. CASE Signal \/ Terminated \/ UNCHANGED vars
      BY <3>4 DEF Signal, Terminated, vars, mainVars
    <3> QED BY <1>1, <3>1, <3>2, <3>3, <3>4 DEF Next
  <2> QED BY <2>1, <2>2
<1>2. OwnerInv /\ [Next]_vars => [Live]_vars
  BY <1>1
<1> QED BY <1>2, OwnerInit, OwnerStep, PTL DEF Spec, RoutedInputsAreLive

=============================================================================
