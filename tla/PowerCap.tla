------------------------------- MODULE PowerCap -------------------------------
(* The `nvidia-powercap run` process of one GPU                                *)
(* (anemoi/nvidia-powercap/src/main.rs, policy.rs, inputs.rs): it caps the     *)
(* power limit when a UPS on battery asks for it, lifts the cap when none      *)
(* does, and owes the firmware its default on every way out.                   *)
EXTENDS Nvml, FiniteSetsExt

CONSTANTS
  MaxProc,  \* bound: processes at a time (more than one: see OrchestratorTenancy)
  Grids     \* what an apply finds: [feeds |-> ..., policy |-> ...]

ASSUME ProcAssumption == MaxProc \in Nat \ {0}
\* Policy::parse clamps cap_pct.
ASSUME GridsAssumption == \A g \in Grids : g.policy.pct \in 1..100

Proc == 1..MaxProc
None == -1

VARIABLES
  grid,     \* the power situation and the policy file
  capPc,    \* [Proc -> as fanPc]
  cap,      \* [Proc -> GpuCap: capped, requested and actual (applied_cap_mw), armed]
  capSaid,  \* [Proc -> the state of the sink in the last report, "nothing", "error"]
  beat      \* flips with every apply, so that one is a step even if all else stays

capProcess == <<capPc, cap, capSaid>>

-----------------------------------------------------------------------------
(* The decision.                                                               *)

\* Mutant of PowerSignal: a UPS on mains counts as well.
PowerSignal_Mains(feeds) ==
  LET runtimes == {feeds[u].runtime : u \in DOMAIN feeds} \ {None}
  IN [onBattery |-> \E u \in DOMAIN feeds : feeds[u].onBattery,
      low |-> \E u \in DOMAIN feeds : feeds[u].low,
      runtime |-> IF runtimes = {} THEN None ELSE Min(runtimes)]

\* power_signal: the worst of all sources; a runtime counts on battery only.
PowerSignal(feeds) ==
  LET draining == {u \in DOMAIN feeds : feeds[u].onBattery}
      runtimes == {feeds[u].runtime : u \in draining} \ {None}
  IN [onBattery |-> draining # {},
      low |-> \E u \in DOMAIN feeds : feeds[u].low,
      runtime |-> IF runtimes = {} THEN None ELSE Min(runtimes)]

\* decide.
Decide(policy, sig) ==
  IF /\ sig.onBattery
     /\ \/ sig.low
        \/ policy.floor > 0 /\ sig.runtime # None /\ sig.runtime =< policy.floor
        \/ policy.onBattery
  THEN "cap" ELSE "lift"

Decision == Decide(grid.policy, PowerSignal(grid.feeds))

\* Policy::cap_target_mw.
CapTarget(policy) == (DefaultLimit * policy.pct) \div 100

-----------------------------------------------------------------------------
(* One apply: the outcomes, each with the process's own record `cap`.          *)

Clean == [capped |-> FALSE, requested |-> None, actual |-> None, armed |-> FALSE]

Kept(c, x) == {[ok |-> TRUE, power |-> x, cap |-> c]}
With(o, c) == [ok |-> o.ok, power |-> o.power, cap |-> c]

\* Mutant of ApplyCap: armed by a set that is known to have worked.
ApplyCap_ArmsLate(c, x, target) ==
  IF c.requested = target THEN Kept(c, x)
  ELSE {With(o, IF o.ok THEN [capped |-> TRUE, requested |-> target,
                              actual |-> o.power.limit, armed |-> TRUE]
                ELSE c) : o \in SetPowerLimit(x, target)}

\* apply_cap: nothing to do if this target is on record; else armed, then set.
ApplyCap(c, x, target) ==
  IF c.requested = target THEN Kept(c, x)
  ELSE {With(o, IF o.ok THEN [capped |-> TRUE, requested |-> target,
                              actual |-> o.power.limit, armed |-> TRUE]
                ELSE [c EXCEPT !.armed = TRUE]) : o \in SetPowerLimit(x, target)}

\* apply_lift.
ApplyLift(c, x) ==
  IF ~c.capped THEN Kept(c, x)
  ELSE {With(o, IF o.ok THEN Clean ELSE c) : o \in RestorePower(x)}

\* Device::restore of the cap; a failure leaves it armed for the drop.
Restored(c, x) ==
  IF ~c.armed THEN Kept(c, x)
  ELSE {With(o, IF o.ok THEN Clean ELSE c) : o \in RestorePower(x)}

\* A failed write is followed by a restore, whose own failure is ignored.
CapTick(c, x) ==
  LET tried == IF Decision = "cap" THEN ApplyCap(c, x, CapTarget(grid.policy))
               ELSE ApplyLift(c, x)
  IN {o \in tried : o.ok} \cup
     UNION {{[r EXCEPT !.ok = FALSE] : r \in Restored(o.cap, o.power)} : o \in {t \in tried : ~t.ok}}

-----------------------------------------------------------------------------
(* The process.                                                                *)

\* Mutant of Adopted: an observer takes over the cap it finds.
Adopted_Anyone(mode, x) ==
  LET c == x.limit < DefaultLimit
  IN [capped |-> c, armed |-> c,
      requested |-> IF c THEN x.limit ELSE None, actual |-> IF c THEN x.limit ELSE None]

\* open: a controller takes over a cap that a predecessor left; an observer only
\* sees it.
Adopted(mode, x) ==
  LET c == x.limit < DefaultLimit
      mine == c /\ mode = "control"
  IN [capped |-> c, armed |-> mine,
      requested |-> IF mine THEN x.limit ELSE None, actual |-> IF mine THEN x.limit ELSE None]

CapInit ==
  /\ power = [limit |-> DefaultLimit, faults |-> 0, unheard |-> FALSE]
  /\ grid \in Grids
  /\ capPc = [p \in Proc |-> "gone"]
  /\ cap = [p \in Proc |-> Clean]
  /\ capSaid = [p \in Proc |-> "nothing"]
  /\ beat = FALSE

Moves(p, l) == capPc' = [capPc EXCEPT ![p] = l]
Takes(p, o) == power' = o.power /\ cap' = [cap EXCEPT ![p] = o.cap]

\* One process serves at a time; another one may still be leaving.  One whose
\* open fails leaves nothing behind.
CapStart(p) ==
  /\ svc = "up" /\ capPc[p] = "gone"
  /\ \A q \in Proc : capPc[q] # "serving"
  /\ Moves(p, "serving")
  /\ cap' = [cap EXCEPT ![p] = Adopted("control", power)]
  /\ capSaid' = [capSaid EXCEPT ![p] = "nothing"]
  /\ UNCHANGED <<power, grid, beat>>

CapApply(p) ==
  /\ capPc[p] \in {"serving", "inflight"}
  /\ \E o \in CapTick(cap[p], power) :
       /\ Takes(p, o)
       /\ capSaid' = [capSaid EXCEPT ![p] = IF ~o.ok THEN "error"
                                            ELSE IF o.cap.capped THEN "claimed" ELSE "released"]
  /\ Moves(p, IF capPc[p] = "inflight" THEN "leaving" ELSE "serving")
  /\ beat' = ~beat
  /\ UNCHANGED grid

CapDismiss(p) ==
  /\ capPc[p] = "serving"
  /\ Moves(p, "inflight") \/ Moves(p, "leaving")
  /\ UNCHANGED <<power, grid, cap, capSaid, beat>>

CapLeave(p) ==
  /\ capPc[p] = "leaving"
  /\ \E o \in Restored(cap[p], power) : Takes(p, o)
  /\ Moves(p, "drop")
  /\ UNCHANGED <<grid, capSaid, beat>>

CapPanic(p) ==
  /\ capPc[p] \in {"serving", "inflight"} /\ power.faults < MaxFaults
  /\ power' = [power EXCEPT !.faults = @ + 1]
  /\ Moves(p, "drop")
  /\ UNCHANGED <<grid, cap, capSaid, beat>>

Ended(p) ==
  /\ Moves(p, "gone")
  /\ cap' = [cap EXCEPT ![p] = Clean]
  /\ capSaid' = [capSaid EXCEPT ![p] = "nothing"]
  /\ UNCHANGED <<grid, beat>>

\* GpuCap::drop.
CapDrop(p) ==
  /\ capPc[p] = "drop"
  /\ \E o \in Restored(cap[p], power) : power' = o.power
  /\ Ended(p)

\* As FanKill.
CapKill(p) ==
  /\ capPc[p] # "gone" /\ power.faults + 2 =< MaxFaults
  /\ power' = [power EXCEPT !.faults = @ + 2]
  /\ Ended(p)

\* `info` and `collect` open the GPU, look and drop it.
Observe ==
  /\ \E o \in Restored(Adopted("observe", power), power) : power' = o.power
  /\ UNCHANGED <<grid, capProcess, beat>>

\* Utility power goes and comes, batteries drain, the policy is edited.
GridChange ==
  /\ grid' \in Grids \ {grid}
  /\ UNCHANGED <<power, capProcess, beat>>

\* nvml::restore_all_power, by `aiolos restore`.
CapOneShot ==
  /\ \E o \in RestorePower(power) : power' = o.power
  /\ UNCHANGED <<grid, capProcess, beat>>

CapStep(p) ==
  CapStart(p) \/ CapApply(p) \/ CapDismiss(p) \/ CapLeave(p) \/ CapPanic(p) \/ CapDrop(p) \/ CapKill(p)

\* The main loop asks a serving process again and again.
Beat == (\E p \in Proc : capPc[p] \in {"serving", "inflight"}) /\ beat' = ~beat

-----------------------------------------------------------------------------
(* Properties.                                                                 *)

\* Every variable has its type; no limit the GPU rejects was ever commanded.
CapTypeOK ==
  /\ power.limit \in MinLimit..MaxLimit /\ power.faults \in 0..MaxFaults
  /\ power.unheard \in BOOLEAN
  /\ grid \in Grids
  /\ capPc \in [Proc -> {"gone", "serving", "inflight", "leaving", "drop"}]
  /\ \A p \in Proc :
       /\ cap[p].capped \in BOOLEAN /\ cap[p].armed \in BOOLEAN
       /\ cap[p].requested \in {None} \cup 0..MaxLimit
       /\ cap[p].actual \in {None} \cup MinLimit..MaxLimit
  /\ capSaid \in [Proc -> {"nothing", "claimed", "released", "error"}]
  /\ beat \in BOOLEAN

\* A cap outlives the process that set it, so every way out restores it: three
\* faults are needed for a GPU to be still capped when the service is down.
PowerNotStranded == svc = "down" /\ power.limit < DefaultLimit => power.faults >= 3

\* The limit is what the last report says, until the process is on its way out or
\* a write was made that was reported failed.
PowerSinkTrue ==
  \A p \in Proc : capPc[p] \in {"serving", "inflight"} =>
    /\ capSaid[p] = "claimed" => power.limit = cap[p].actual \/ power.unheard
    /\ capSaid[p] = "released" => power.limit = DefaultLimit \/ power.unheard

\* What the policy file asks for, source by source.
Called ==
  \E u \in DOMAIN grid.feeds :
    /\ grid.feeds[u].onBattery
    /\ \/ \E v \in DOMAIN grid.feeds : grid.feeds[v].low
       \/ grid.feeds[u].runtime \in 0..grid.policy.floor /\ grid.policy.floor > 0
       \/ grid.policy.onBattery

Wanted == IF Called THEN ClampPowerLimit(CapTarget(grid.policy)) ELSE DefaultLimit

OneServes ==
  \E p \in Proc : capPc[p] = "serving" /\ \A q \in Proc \ {p} : capPc[q] = "gone"

\* A power situation that lasts is obeyed, whatever happened before, by the process
\* that stays: "each GPU's power limit is capped to cap_pct% of default; on AC
\* restore the firmware default is restored" (with the same exception).
GridObeyed ==
  <>[]OneServes /\ <>[][grid' = grid]_grid => <>[](power.limit = Wanted \/ power.unheard)
=============================================================================
