-------------------------------- MODULE Nvidia --------------------------------
(* One GPU under two modules at once: `nvidia` drives its fans and             *)
(* `nvidia-powercap` its power limit, each by a process of its own and both by *)
(* handles of the same library; and the service around them.                   *)
EXTENDS GpuFans, PowerCap

vars == <<svc, fans, fanProcess, power, grid, capProcess, beat>>
fanVars == <<fans, fanProcess>>
capVars == <<power, grid, capProcess, beat>>

NobodyLives == fanPc = "gone" /\ \A p \in Proc : capPc[p] = "gone"

Init == svc = "up" /\ FanInit /\ CapInit

\* A handle that is dropped may have fans to restore: those of the power cap and
\* of `info` do not.
DropsGpu(holder) == \E o \in Dropped(holder, fans) : fans' = o.fans

CapDies(p) == CapDrop(p) /\ DropsGpu("nvidia-powercap") /\ UNCHANGED fanProcess
Looks == Observe /\ DropsGpu("info") /\ UNCHANGED fanProcess

CapLives(p) == CapStart(p) \/ CapApply(p) \/ CapDismiss(p) \/ CapLeave(p) \/ CapPanic(p) \/ CapKill(p)

\* SIGTERM to the control group: every process leaves.
Stop ==
  /\ svc = "up"
  /\ svc' = "stopping"
  /\ fanPc' \in Ending(fanPc)
  /\ capPc' \in [Proc -> {"gone", "inflight", "leaving", "drop"}]
  /\ \A p \in Proc : capPc'[p] \in Ending(capPc[p])
  /\ UNCHANGED <<fans, fanSaid, power, grid, cap, capSaid, beat>>

\* ExecStopPost: both one-shots, the second whatever became of the first.
OneShot ==
  /\ svc = "stopping" /\ NobodyLives
  /\ svc' = "down"
  /\ FanOneShot /\ UNCHANGED fanProcess
  /\ CapOneShot

Restart ==
  /\ svc = "down"
  /\ svc' = "up"
  /\ UNCHANGED <<fanVars, capVars>>

Next ==
  \/ FanStep /\ UNCHANGED <<svc, capVars>>
  \/ \E p \in Proc : CapLives(p) /\ UNCHANGED <<svc, fanVars>>
  \/ \E p \in Proc : CapDies(p) /\ UNCHANGED svc
  \/ Looks /\ UNCHANGED svc
  \/ GridChange /\ UNCHANGED <<svc, fanVars>>
  \/ Stop \/ OneShot \/ Restart

Spec == Init /\ [][Next]_vars
FairSpec == Spec /\ WF_beat(Beat)

-----------------------------------------------------------------------------
(* Properties.                                                                 *)

\* Every variable of both modules and of the service has its type.
TypeOK == FanTypeOK /\ CapTypeOK /\ svc \in {"up", "stopping", "down"}
=============================================================================
