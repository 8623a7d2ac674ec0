----------------------------- MODULE Orchestrator -----------------------------
(***************************************************************************)
(* The aiolos process: the main loop (scheduler), one supervisor thread    *)
(* per configured module, one worker thread per spawned instance, and the  *)
(* `run` child process each worker owns.  They share `AppState` under one  *)
(* RwLock, an unbounded command channel per worker and one unbounded       *)
(* results channel (aiolos/src/main.rs, module.rs, instance.rs).           *)
(*                                                                         *)
(* Every spawn of an instance is a fresh INCARNATION, a number; the code's *)
(* keys "module:id" are pairs.  Data is abstract: signals are known by the *)
(* incarnation that reported them, and time by which slots are due.        *)
(***************************************************************************)
EXTENDS Naturals, Sequences, FiniteSets

CONSTANTS
  Module,      \* the configured modules, one supervisor each (the registry)
  Id,          \* the unit ids a detect reply can name
  Sources,     \* Sources[m]: the modules of m's `input=` list (input_map)
  Detections,  \* the unit lists a detect reply can carry: how often each id
               \* occurs in it
  Outcomes,    \* the results an apply may have in this instance of the model
  MaxInc,      \* bound: how many instances are ever spawned
  MaxPanics    \* bound: how many supervisor threads panic

\* What one Instance::tick can return; "empty" is an ok report with no signals.
Status == {"ok", "empty", "error", "fatal", "timeout", "protocol", "dead"}

ASSUME ConstantsAssumption ==
  /\ Sources \in [Module -> SUBSET Module]
  /\ Detections \subseteq [Id -> Nat]
  /\ Outcomes \subseteq Status
  /\ MaxInc \in Nat
  /\ MaxPanics \in Nat

Key  == Module \X Id
KeysOf(m) == {m} \X Id
Inc  == 1 .. MaxInc
None == 0
NoKey == <<>>

VARIABLES
  flag,        \* SHUTDOWN_FLAG, set by the signal handler
  mpc,         \* where the main loop is
  batch,       \* reports reap_results collected and has not folded in yet
  toSend,      \* dispatches dispatch_due decided on and has not sent yet
  instances,   \* AppState.instances: the incarnation whose entry a key holds
  status,      \* InstanceEntry.last_status of that entry
  blackboard,  \* AppState.blackboard: the incarnation whose signals a key holds
  sched,       \* AppState.sched: "absent", or the slot's `busy` flag
  results,     \* the shared results channel
  spc,         \* where each supervisor is
  cur,         \* the incarnation a supervisor is spawning or removing
  running,     \* Supervisor.running, for all supervisors
  lastFound,   \* Supervisor.last_found
  todo,        \* reconcile's to_spawn, what is left of it
  spawnCounts, \* Supervisor.spawn_counts
  wpc,         \* where each incarnation's worker (and child) is
  key,         \* the key an incarnation was spawned for
  gen,         \* its `restart_count`, the generation of its reports
  cmds,        \* its command channel
  panics       \* how many supervisors have panicked

shared  == <<instances, status, blackboard, sched>>
mainVars == <<mpc, batch, toSend>>
supVars == <<spc, cur, running, lastFound, todo, spawnCounts>>
workVars == <<wpc, key, gen, cmds>>
vars == <<flag, shared, mainVars, results, supVars, workVars, panics>>

-----------------------------------------------------------------------------
\* Every state a main loop, a supervisor and a worker can be in.
MainPc == {"top", "wake", "drained", "fold", "dispatch", "send", "waiting",
           "clean", "forced"}
SupPc  == {"detect", "reconcile", "remove", "spawn", "publish", "thread", "sleep",
           "reap", "unwind", "drop", "dropRemove", "dead", "exited"}
WorkPc == {"unborn", "child", "started", "recv", "apply", "shutdown", "drop",
           "discard", "ending", "gone"}
Cmd    == {"Tick", "Shutdown"}
Report == [inc : Inc, status : Status]
Send   == [key : Key, inc : Inc, inputs : SUBSET Inc]

\* The process is running: main has not returned.
Up == mpc \notin {"clean", "forced"}

\* apply_results holds the write lock over a whole batch; every other critical
\* section is one action.
LockFree == mpc # "fold"

\* The child process may be alive and able to drive its device.
AliveIn == {"child", "started", "recv", "apply", "shutdown", "drop", "discard"}
Alive(w) == wpc[w] \in AliveIn

\* ACTIVE_INSTANCES: workers whose ActiveGuard exists.
Active == {w \in Inc : wpc[w] \in {"recv", "apply", "shutdown", "drop", "ending"}}

\* JoinHandle::is_finished.
Finished_Exiting(w) == wpc[w] \in {"drop", "ending", "gone"}
Finished(w) == wpc[w] = "gone"

\* TickStatus::is_fatal: the worker exits; a timeout or a protocol error has
\* also SIGKILLed the child.
IsFatal(s) == s \in {"fatal", "timeout", "dead", "protocol"}
Killed(s)  == s \in {"timeout", "protocol"}

\* A send on incarnation w's channel: lost when the receiver has been dropped.
Sent_TicksOnly(w, c) == IF c = "Tick" THEN [cmds EXCEPT ![w] = Append(@, c)] ELSE cmds
Sent(w, c) == [cmds EXCEPT ![w] = IF Finished(w) THEN @ ELSE Append(@, c)]

\* The keys of module m that are running but not in its last detect.
Vanished(m) ==
  {k \in KeysOf(m) : running[k] # None /\ lastFound[m][k[2]] = 0}

-----------------------------------------------------------------------------
(* The signal handler, and the main loop.                                  *)

\* handle_signal
Signal ==
  /\ Up
  /\ ~flag
  /\ flag' = TRUE
  /\ UNCHANGED <<shared, mainVars, results, supVars, workVars, panics>>

\* The top of the main loop, in an iteration that will wake or respawn.
Wake ==
  /\ mpc = "top"
  /\ ~flag
  /\ mpc' = "wake"
  /\ UNCHANGED <<flag, shared, batch, toSend, results, supVars, workVars, panics>>

\* respawn_dead_supervisors, for one of them: a fresh Supervisor starts with
\* empty maps.  The wake time may not have come; the loop then starts over.
Respawn(m) ==
  /\ mpc = "wake"
  /\ spc[m] = "dead"
  /\ mpc' \in {"wake", "top"}
  /\ spc' = [spc EXCEPT ![m] = "detect"]
  /\ cur' = [cur EXCEPT ![m] = None]
  /\ lastFound' = [lastFound EXCEPT ![m] = [i \in Id |-> 0]]
  /\ todo' = [todo EXCEPT ![m] = [i \in Id |-> 0]]
  /\ running' = [k \in Key |-> IF k[1] = m THEN None ELSE running[k]]
  /\ spawnCounts' = [k \in Key |-> IF k[1] = m THEN 0 ELSE spawnCounts[k]]
  /\ UNCHANGED <<flag, shared, batch, toSend, results, workVars, panics>>

\* reap_results takes everything queued; with nothing queued it returns.
Reap_NoReturn ==
  /\ mpc = "wake"
  /\ batch' = results
  /\ results' = <<>>
  /\ mpc' = "drained"
  /\ UNCHANGED <<flag, shared, toSend, supVars, workVars, panics>>

Reap ==
  /\ mpc = "wake"
  /\ batch' = results
  /\ results' = <<>>
  /\ mpc' = IF results = <<>> THEN "dispatch" ELSE "drained"
  /\ UNCHANGED <<flag, shared, toSend, supVars, workVars, panics>>

\* The stale-report guard of apply_results: the entry holding the reporter's
\* key exists and has the report's generation.
Owned_KeyOnly(r) == instances[key[r.inc]] # None
Owned(r) ==
  LET holder == instances[key[r.inc]]
  IN holder # None /\ gen[holder] = gen[r.inc]

\* The slot's busy flag after a report.
Idled_UnlessError(slot, s) == IF slot = "absent" \/ s = "error" THEN slot ELSE "idle"
Idled(slot, s) == IF slot = "absent" THEN slot ELSE "idle"

\* One iteration of apply_results, under the write lock.
ApplyReport ==
  /\ mpc \in {"drained", "fold"}
  /\ LET r == Head(batch)
         k == key[r.inc]
     IN IF Owned(r)
        THEN /\ sched' = [sched EXCEPT ![k] = Idled(@, r.status)]
             /\ status' = [status EXCEPT ![k] = r.status]
             /\ blackboard' = [blackboard EXCEPT ![k] =
                                 IF r.status = "ok" THEN r.inc ELSE None]
        ELSE UNCHANGED <<sched, status, blackboard>>
  /\ batch' = Tail(batch)
  /\ mpc' = IF Tail(batch) = <<>> THEN "dispatch" ELSE "fold"
  /\ UNCHANGED <<flag, instances, toSend, results, supVars, workVars, panics>>

\* build_inputs: the signals on the blackboard under the keys of m's sources.
InputsOf(m) ==
  {w \in Inc : \E k \in Key : k[1] \in Sources[m] /\ blackboard[k] = w}

\* The locked part of dispatch_due: slots of vanished instances are dropped,
\* and every live instance that is idle and due (a new slot is due) becomes
\* busy.  `every` has elapsed for the idle slots in `due`.
Dispatch ==
  /\ mpc = "dispatch"
  /\ \E due \in SUBSET {k \in Key : sched[k] = "idle"} :
       LET live  == {k \in Key : instances[k] # None}
           ready == {k \in live : sched[k] = "absent" \/ k \in due}
       IN /\ sched' = [k \in Key |-> IF k \notin live THEN "absent"
                                     ELSE IF k \in ready THEN "busy"
                                     ELSE sched[k]]
          /\ toSend' = {[key |-> k, inc |-> instances[k], inputs |-> InputsOf(k[1])]
                          : k \in ready}
  /\ mpc' = IF toSend' = {} THEN "top" ELSE "send"
  /\ UNCHANGED <<flag, instances, status, blackboard, batch, results, supVars,
                 workVars, panics>>

\* One send of dispatch_due, after the lock is released: when the worker is
\* gone the slot, if it still exists, is marked idle again.
SendTick(t) ==
  /\ mpc = "send"
  /\ cmds' = Sent(t.inc, "Tick")
  /\ sched' = [sched EXCEPT ![t.key] =
                 IF Finished(t.inc) /\ @ = "busy" THEN "idle" ELSE @]
  /\ toSend' = toSend \ {t}
  /\ mpc' = IF toSend' = {} THEN "top" ELSE "send"
  /\ UNCHANGED <<flag, instances, status, blackboard, batch, results, supVars,
                 wpc, key, gen, panics>>

\* The start of graceful_shutdown: Shutdown to every instance of a snapshot.
StartShutdown ==
  /\ mpc = "top"
  /\ flag
  /\ cmds' = [w \in Inc |-> IF (\E k \in Key : instances[k] = w) /\ ~Finished(w)
                            THEN Append(cmds[w], "Shutdown") ELSE cmds[w]]
  /\ mpc' = "waiting"
  /\ UNCHANGED <<flag, shared, batch, toSend, results, supVars, wpc, key, gen, panics>>

\* The end of graceful_shutdown and of main: no active instance remains, or
\* the deadline has passed.  The process exits; its threads end with it.
ExitClean ==
  /\ mpc = "waiting"
  /\ Active = {}
  /\ mpc' = "clean"
  /\ UNCHANGED <<flag, shared, batch, toSend, results, supVars, workVars, panics>>

ExitForced_NoDeadline ==
  /\ mpc = "waiting"
  /\ Active # {}
  /\ mpc' = "waiting"
  /\ UNCHANGED <<flag, shared, batch, toSend, results, supVars, workVars, panics>>

ExitForced ==
  /\ mpc = "waiting"
  /\ Active # {}
  /\ mpc' = "forced"
  /\ UNCHANGED <<flag, shared, batch, toSend, results, supVars, workVars, panics>>

MainStep ==
  \/ Wake \/ Reap \/ ApplyReport \/ Dispatch \/ StartShutdown
  \/ ExitClean \/ ExitForced
  \/ \E t \in toSend : SendTick(t)
  \/ \E m \in Module : Respawn(m)

-----------------------------------------------------------------------------
(* A supervisor thread.                                                    *)

\* run_detect: an ok reply is authoritative; reconcile then reads the flag.
DetectOk(m, units) ==
  /\ spc[m] = "detect"
  /\ lastFound' = [lastFound EXCEPT ![m] = units]
  /\ spc' = [spc EXCEPT ![m] = IF flag THEN "sleep" ELSE "reconcile"]
  /\ UNCHANGED <<flag, shared, mainVars, results, cur, running, todo, spawnCounts,
                 workVars, panics>>

\* Not due yet, or any other outcome (error, fatal, unresponsive, unparsable):
\* last_found is kept.
DetectKeep(m) ==
  /\ spc[m] = "detect"
  /\ spc' = [spc EXCEPT ![m] = IF flag THEN "sleep" ELSE "reconcile"]
  /\ UNCHANGED <<flag, shared, mainVars, results, cur, running, lastFound, todo,
                 spawnCounts, workVars, panics>>

\* reconcile, first loop: forget a vanished instance and tell its worker.
ForgetVanished(m, k) ==
  /\ spc[m] = "reconcile"
  /\ k \in Vanished(m)
  /\ cmds' = Sent(running[k], "Shutdown")
  /\ cur' = [cur EXCEPT ![m] = running[k]]
  /\ running' = [running EXCEPT ![k] = None]
  /\ spc' = [spc EXCEPT ![m] = "remove"]
  /\ UNCHANGED <<flag, shared, mainVars, results, lastFound, todo, spawnCounts, wpc, key,
                 gen, panics>>

\* remove_instance_state, for a set of keys: entry, signals and slot together.
Removed_NotSignals(gone) ==
  /\ instances' = [k \in Key |-> IF k \in gone THEN None ELSE instances[k]]
  /\ status' = [k \in Key |-> IF k \in gone THEN "none" ELSE status[k]]
  /\ sched' = [k \in Key |-> IF k \in gone THEN "absent" ELSE sched[k]]
  /\ UNCHANGED blackboard

Removed_NotSlot(gone) ==
  /\ instances' = [k \in Key |-> IF k \in gone THEN None ELSE instances[k]]
  /\ status' = [k \in Key |-> IF k \in gone THEN "none" ELSE status[k]]
  /\ blackboard' = [k \in Key |-> IF k \in gone THEN None ELSE blackboard[k]]
  /\ UNCHANGED sched

Removed(gone) ==
  /\ instances' = [k \in Key |-> IF k \in gone THEN None ELSE instances[k]]
  /\ status' = [k \in Key |-> IF k \in gone THEN "none" ELSE status[k]]
  /\ blackboard' = [k \in Key |-> IF k \in gone THEN None ELSE blackboard[k]]
  /\ sched' = [k \in Key |-> IF k \in gone THEN "absent" ELSE sched[k]]

\* The remove_instance_state that follows a Shutdown sent by reconcile or Drop.
RemoveState(m) ==
  /\ spc[m] \in {"remove", "dropRemove"}
  /\ LockFree
  /\ Removed({key[cur[m]]})
  /\ spc' = [spc EXCEPT ![m] = IF @ = "remove" THEN "reconcile" ELSE "drop"]
  /\ cur' = [cur EXCEPT ![m] = None]
  /\ UNCHANGED <<flag, mainVars, results, running, lastFound, todo, spawnCounts, workVars,
                 panics>>

\* Left to spawn for id i.
Pending(m, i) == todo[m][i] > 0

\* The supervisor goes on with to_spawn, or sleeps when nothing is left of it.
NextSpawn(left) == IF \E i \in Id : left[i] > 0 THEN "spawn" ELSE "sleep"

\* reconcile, second loop: the found ids that are not running and whose backoff
\* has expired (those in `expired`) are collected once, as often as they occur.
CollectToSpawn(m, expired) ==
  /\ spc[m] = "reconcile"
  /\ Vanished(m) = {}
  /\ todo' = [todo EXCEPT ![m] =
                [i \in Id |-> IF running[<<m, i>>] = None /\ i \in expired
                              THEN lastFound[m][i] ELSE 0]]
  /\ spc' = [spc EXCEPT ![m] = NextSpawn(todo'[m])]
  /\ UNCHANGED <<flag, shared, mainVars, results, cur, running, lastFound, spawnCounts,
                 workVars, panics>>

\* The start of spawn_instance: Instance::new forks the child, and the
\* generation is the number of earlier spawns.
SpawnChild(m, i, w) ==
  /\ spc[m] = "spawn"
  /\ Pending(m, i)
  /\ ~flag
  /\ wpc[w] = "unborn" /\ \A v \in 1 .. w - 1 : wpc[v] # "unborn"
  /\ wpc' = [wpc EXCEPT ![w] = "child"]
  /\ key' = [key EXCEPT ![w] = <<m, i>>]
  /\ gen' = [gen EXCEPT ![w] = spawnCounts[<<m, i>>]]
  /\ spawnCounts' = [spawnCounts EXCEPT ![<<m, i>>] = @ + 1]
  /\ todo' = [todo EXCEPT ![m][i] = @ - 1]
  /\ cur' = [cur EXCEPT ![m] = w]
  /\ spc' = [spc EXCEPT ![m] = "publish"]
  /\ UNCHANGED <<flag, shared, mainVars, results, running, lastFound, cmds, panics>>

\* spawn_instance without a spawn: the flag is set, or Instance::new failed.
SpawnNothing(m, i) ==
  /\ spc[m] = "spawn"
  /\ Pending(m, i)
  /\ todo' = [todo EXCEPT ![m][i] = @ - 1]
  /\ spc' = [spc EXCEPT ![m] = NextSpawn(todo'[m])]
  /\ UNCHANGED <<flag, shared, mainVars, results, cur, running, lastFound, spawnCounts,
                 workVars, panics>>

\* spawn_instance publishes the entry before the worker thread exists.
Publish(m) ==
  /\ spc[m] = "publish"
  /\ LockFree
  /\ instances' = [instances EXCEPT ![key[cur[m]]] = cur[m]]
  /\ status' = [status EXCEPT ![key[cur[m]]] = "starting"]
  /\ spc' = [spc EXCEPT ![m] = "thread"]
  /\ UNCHANGED <<flag, blackboard, sched, mainVars, results, cur, running, lastFound, todo,
                 spawnCounts, workVars, panics>>

\* thread::spawn(worker) and running.insert.
StartThread(m) ==
  /\ spc[m] = "thread"
  /\ wpc' = [wpc EXCEPT ![cur[m]] = "started"]
  /\ running' = [running EXCEPT ![key[cur[m]]] = cur[m]]
  /\ cur' = [cur EXCEPT ![m] = None]
  /\ spc' = [spc EXCEPT ![m] = NextSpawn(todo[m])]
  /\ UNCHANGED <<flag, shared, mainVars, results, lastFound, todo, spawnCounts, key, gen,
                 cmds, panics>>

\* The top of the supervisor loop.  With the flag set the thread returns, and
\* Supervisor::drop leaves the instances to main.
Return(m) ==
  /\ spc[m] = "sleep"
  /\ flag
  /\ spc' = [spc EXCEPT ![m] = "exited"]
  /\ running' = [k \in Key |-> IF k[1] = m THEN None ELSE running[k]]
  /\ UNCHANGED <<flag, shared, mainVars, results, cur, lastFound, todo, spawnCounts,
                 workVars, panics>>

\* Otherwise the loop goes on, to reap_dead.
Awake(m) ==
  /\ spc[m] = "sleep"
  /\ ~flag
  /\ spc' = [spc EXCEPT ![m] = "reap"]
  /\ UNCHANGED <<flag, shared, mainVars, results, cur, running, lastFound, todo,
                 spawnCounts, workVars, panics>>

\* reap_dead joins a finished worker and removes its state.
ReapDead(m, k) ==
  /\ spc[m] = "reap"
  /\ LockFree
  /\ running[k] # None /\ Finished(running[k])
  /\ running' = [running EXCEPT ![k] = None]
  /\ Removed({k})
  /\ UNCHANGED <<flag, mainVars, results, spc, cur, lastFound, todo, spawnCounts,
                 workVars, panics>>

\* No finished worker is left: run_detect, when it is due, is next.
ReapedAll(m) ==
  /\ spc[m] = "reap"
  /\ \A k \in KeysOf(m) : running[k] # None => ~Finished(running[k])
  /\ spc' = [spc EXCEPT ![m] = "detect"]
  /\ UNCHANGED <<flag, shared, mainVars, results, cur, running, lastFound, todo,
                 spawnCounts, workVars, panics>>

\* A panic of the supervisor thread, at the calls that can raise one (the two
\* thread::spawn of spawn_instance) or while detecting.  The unwinding thread
\* first drops the Instance spawn_instance holds, if any.
Panic(m) ==
  /\ panics < MaxPanics
  /\ panics' = panics + 1
  /\ spc[m] \in {"detect", "publish", "thread"}
  /\ spc' = [spc EXCEPT ![m] = "unwind"]
  /\ wpc' = IF cur[m] = None THEN wpc ELSE [wpc EXCEPT ![cur[m]] = "discard"]
  /\ UNCHANGED <<flag, shared, mainVars, results, cur, running, lastFound, todo,
                 spawnCounts,
                 key, gen, cmds>>

\* Supervisor::drop, the flag test: at shutdown main owns the instances.
Unwind(m) ==
  /\ spc[m] = "unwind"
  /\ cur[m] # None => Finished(cur[m])
  /\ spc' = [spc EXCEPT ![m] = IF flag THEN "dead" ELSE "drop"]
  /\ cur' = [cur EXCEPT ![m] = None]
  /\ running' = [k \in Key |-> IF flag /\ k[1] = m THEN None ELSE running[k]]
  /\ UNCHANGED <<flag, shared, mainVars, results, lastFound, todo, spawnCounts,
                 workVars, panics>>

\* Supervisor::drop, its loop: RemoveState follows.
DropRunning(m, k) ==
  /\ spc[m] = "drop"
  /\ running[k] # None
  /\ cmds' = Sent(running[k], "Shutdown")
  /\ cur' = [cur EXCEPT ![m] = running[k]]
  /\ running' = [running EXCEPT ![k] = None]
  /\ spc' = [spc EXCEPT ![m] = "dropRemove"]
  /\ UNCHANGED <<flag, shared, mainVars, results, lastFound, todo, spawnCounts, wpc, key,
                 gen, panics>>

EndDrop(m) ==
  /\ spc[m] = "drop"
  /\ \A k \in KeysOf(m) : running[k] = None
  /\ spc' = [spc EXCEPT ![m] = "dead"]
  /\ UNCHANGED <<flag, shared, mainVars, results, cur, running, lastFound, todo,
                 spawnCounts, workVars, panics>>

SupervisorStep(m) ==
  /\ Up
  /\ \/ DetectKeep(m) \/ RemoveState(m) \/ Publish(m)
     \/ StartThread(m) \/ Return(m) \/ Awake(m) \/ ReapedAll(m) \/ Unwind(m) \/ EndDrop(m)
     \/ \E units \in Detections : DetectOk(m, units)
     \/ \E k \in KeysOf(m) : ForgetVanished(m, k) \/ ReapDead(m, k) \/ DropRunning(m, k)
     \/ \E expired \in SUBSET Id : CollectToSpawn(m, expired)
     \/ \E i \in Id : SpawnNothing(m, i) \/ \E w \in Inc : SpawnChild(m, i, w)

-----------------------------------------------------------------------------
(* A worker thread and the child it owns.                                  *)

\* ActiveGuard::new, on the new thread.
Begin(w) ==
  /\ wpc[w] = "started"
  /\ wpc' = [wpc EXCEPT ![w] = "recv"]
  /\ UNCHANGED <<flag, shared, mainVars, results, supVars, key, gen, cmds, panics>>

TakeTick(w) ==
  /\ wpc[w] = "recv"
  /\ cmds[w] # <<>> /\ Head(cmds[w]) = "Tick"
  /\ cmds' = [cmds EXCEPT ![w] = Tail(@)]
  /\ wpc' = [wpc EXCEPT ![w] = "apply"]
  /\ UNCHANGED <<flag, shared, mainVars, results, supVars, key, gen, panics>>

\* Instance::tick returns: a report is posted in every case, and a fatal one
\* ends the loop.  A timeout or protocol error has killed the child.
Post(w, s) ==
  /\ wpc[w] = "apply"
  /\ results' = Append(results, [inc |-> w, status |-> s])
  /\ wpc' = [wpc EXCEPT ![w] = IF Killed(s) THEN "ending"
                               ELSE IF IsFatal(s) THEN "drop" ELSE "recv"]
  /\ UNCHANGED <<flag, shared, mainVars, supVars, key, gen, cmds, panics>>

TakeShutdown(w) ==
  /\ wpc[w] = "recv"
  /\ cmds[w] # <<>> /\ Head(cmds[w]) = "Shutdown"
  /\ cmds' = [cmds EXCEPT ![w] = Tail(@)]
  /\ wpc' = [wpc EXCEPT ![w] = "shutdown"]
  /\ UNCHANGED <<flag, shared, mainVars, results, supVars, key, gen, panics>>

\* Some Sender of w's channel exists: in running, in an entry, in the hands of
\* the main loop, or in those of the supervisor that is starting it.
HasSender(w) ==
  \/ \E k \in Key : running[k] = w \/ instances[k] = w
  \/ \E t \in toSend : t.inc = w
  \/ \E m \in Module : cur[m] = w /\ spc[m] \in {"publish", "thread"}

\* recv fails: every sender is gone.
Disconnected(w) ==
  /\ wpc[w] = "recv"
  /\ cmds[w] = <<>>
  /\ ~HasSender(w)
  /\ wpc' = [wpc EXCEPT ![w] = "drop"]
  /\ UNCHANGED <<flag, shared, mainVars, results, supVars, key, gen, cmds, panics>>

\* Instance::shutdown returns (the child exited, or was killed after the
\* grace), or Instance::drop does: the child is gone.
ChildGone(w) ==
  /\ wpc[w] \in {"shutdown", "drop"}
  /\ wpc' = [wpc EXCEPT ![w] = "ending"]
  /\ UNCHANGED <<flag, shared, mainVars, results, supVars, key, gen, cmds, panics>>

\* Instance::drop on a supervisor that is unwinding.
Discarded(w) ==
  /\ wpc[w] = "discard"
  /\ wpc' = [wpc EXCEPT ![w] = "gone"]
  /\ cmds' = [cmds EXCEPT ![w] = <<>>]
  /\ UNCHANGED <<flag, shared, mainVars, results, supVars, key, gen, panics>>

\* The worker thread ends: its guard and its receiver are dropped.
EndThread(w) ==
  /\ wpc[w] = "ending"
  /\ wpc' = [wpc EXCEPT ![w] = "gone"]
  /\ cmds' = [cmds EXCEPT ![w] = <<>>]
  /\ UNCHANGED <<flag, shared, mainVars, results, supVars, key, gen, panics>>

WorkerStep(w) ==
  /\ Up
  /\ \/ Begin(w) \/ TakeTick(w) \/ TakeShutdown(w) \/ Disconnected(w)
     \/ ChildGone(w) \/ Discarded(w) \/ EndThread(w)
     \/ \E s \in Outcomes : Post(w, s)

\* After the process has exited every child reads EOF on its stdin and exits.
ChildEof(w) ==
  /\ ~Up
  /\ Alive(w)
  /\ wpc' = [wpc EXCEPT ![w] = "gone"]
  /\ UNCHANGED <<flag, shared, mainVars, results, supVars, key, gen, cmds, panics>>

-----------------------------------------------------------------------------
Init ==
  /\ flag = FALSE
  /\ mpc = "top" /\ batch = <<>> /\ toSend = {}
  /\ instances = [k \in Key |-> None]
  /\ status = [k \in Key |-> "none"]
  /\ blackboard = [k \in Key |-> None]
  /\ sched = [k \in Key |-> "absent"]
  /\ results = <<>>
  /\ spc = [m \in Module |-> "detect"]
  /\ cur = [m \in Module |-> None]
  /\ running = [k \in Key |-> None]
  /\ lastFound = [m \in Module |-> [i \in Id |-> 0]]
  /\ todo = [m \in Module |-> [i \in Id |-> 0]]
  /\ spawnCounts = [k \in Key |-> 0]
  /\ wpc = [w \in Inc |-> "unborn"]
  /\ key = [w \in Inc |-> NoKey]
  /\ gen = [w \in Inc |-> 0]
  /\ cmds = [w \in Inc |-> <<>>]
  /\ panics = 0

\* The process has exited and no child is left.
Terminated == ~Up /\ (\A w \in Inc : ~Alive(w)) /\ UNCHANGED vars

Next ==
  \/ Signal
  \/ MainStep
  \/ \E m \in Module : SupervisorStep(m) \/ (Up /\ Panic(m))
  \/ \E w \in Inc : WorkerStep(w) \/ ChildEof(w)
  \/ Terminated

Spec == Init /\ [][Next]_vars

\* Each thread keeps running, and a child that has been told to stop, or whose
\* apply is bounded by its timeout, ends in time.  Nothing is assumed of signals
\* and panics.
Fairness ==
  /\ WF_vars(MainStep)
  /\ \A m \in Module : WF_vars(SupervisorStep(m))
  /\ \A w \in Inc : WF_vars(WorkerStep(w)) /\ WF_vars(ChildEof(w))

FairSpec == Spec /\ Fairness

-----------------------------------------------------------------------------
(* Properties.                                                             *)

\* While apply_results folds a batch in, a report is left in it.
BatchInv == mpc \in {"drained", "fold"} => batch # <<>>

\* Every variable has its type, and apply_results never reads past its batch.
TypeOK ==
  /\ flag \in BOOLEAN
  /\ mpc \in MainPc
  /\ batch \in Seq(Report)
  /\ toSend \in SUBSET Send
  /\ instances \in [Key -> Inc \cup {None}]
  /\ status \in [Key -> Status \cup {"none", "starting"}]
  /\ blackboard \in [Key -> Inc \cup {None}]
  /\ sched \in [Key -> {"absent", "idle", "busy"}]
  /\ results \in Seq(Report)
  /\ spc \in [Module -> SupPc]
  /\ cur \in [Module -> Inc \cup {None}]
  /\ running \in [Key -> Inc \cup {None}]
  /\ lastFound \in [Module -> [Id -> Nat]]
  /\ todo \in [Module -> [Id -> Nat]]
  /\ spawnCounts \in [Key -> Nat]
  /\ wpc \in [Inc -> WorkPc]
  /\ key \in [Inc -> Key \cup {NoKey}]
  /\ gen \in [Inc -> Nat]
  /\ cmds \in [Inc -> Seq(Cmd)]
  /\ panics \in 0 .. MaxPanics
  /\ BatchInv

\* How many requests of incarnation w are between dispatch_due's decision and
\* apply_results: not yet sent, queued, running, or reported and not reaped.
Occurs(s, P(_)) == Cardinality({i \in DOMAIN s : P(s[i])})
InFlight(w) ==
  Cardinality({t \in toSend : t.inc = w})
  + Occurs(cmds[w], LAMBDA c : c = "Tick")
  + (IF wpc[w] = "apply" THEN 1 ELSE 0)
  + Occurs(results, LAMBDA r : r.inc = w)
  + Occurs(batch, LAMBDA r : r.inc = w)

\* At most one apply of an instance is ever in flight (InstanceSched.busy), so
\* nothing is queued behind a slow module and the unbounded channels stay short:
\* dispatch, send, worker, reap and supervisor clean-up interleave freely.
OneApplyInFlight == \A w \in Inc : InFlight(w) <= 1

\* A request in flight to the instance that holds its key is always visible to
\* the scheduler as a busy slot.
InFlightIsBusy ==
  \A k \in Key :
    instances[k] # None /\ InFlight(instances[k]) > 0 => sched[k] = "busy"

\* A report changes shared state only through the entry of the incarnation that
\* produced it: signals routed to consumers come from the instance that now
\* holds the key, never from a removed or replaced one (apply_results).
SignalsFromHolder ==
  \A k \in Key : blackboard[k] # None => blackboard[k] = instances[k]

\* Signals are on the blackboard only while the last result of their producer
\* is ok: an error, a restart or a removal takes them away (apply_results,
\* remove_instance_state).
RoutedOnlyWhileOk ==
  \A k \in Key : blackboard[k] # None => status[k] = "ok"

\* The slots of the scheduler and the signals of the blackboard never outlive
\* the entry of their key, whichever thread removes it.
NothingOrphaned ==
  \A k \in Key : instances[k] = None => sched[k] = "absent" /\ blackboard[k] = None

\* One `run` process per device: two children of one key are never alive
\* together.
OneProcessPerDevice ==
  \A v, w \in Inc : v # w /\ Alive(v) /\ Alive(w) => key[v] # key[w]

\* What dispatch_due routes to a consumer comes from instances that hold their
\* key and whose last result was ok.
RoutedInputsAreLive ==
  [][\A t \in toSend' \ toSend : \A w \in t.inputs :
       instances'[key[w]] = w /\ status'[key[w]] = "ok"]_vars

\* A busy slot does not stay busy for ever: its report is reaped, its send
\* fails, or the supervisor removes the dead instance.
NoSlotWedged ==
  \A k \in Key : sched[k] = "busy" ~> (sched[k] # "busy" \/ ~Up)

\* After a signal the process exits and no child survives it.
ShutdownCompletes == flag ~> (~Up /\ \A w \in Inc : ~Alive(w))

=============================================================================
