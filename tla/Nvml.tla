-------------------------------- MODULE Nvml --------------------------------
(* One GPU behind tech/nvml/src/lib.rs: its fans and its power limit, both of  *)
(* which keep what they were told when the process that told them is gone.     *)
(* A function of the library is the set of its OUTCOMES: its Result, and what  *)
(* became of the fans or the limit.                                            *)
EXTENDS Integers, FiniteSets

CONSTANTS
  NumFans,                            \* the fans of the GPU
  Duties,                             \* the duties a curve can ask for
  MinLimit, DefaultLimit, MaxLimit,   \* the power limits the GPU accepts, and its own
  MaxFaults                           \* bound: faults of the fans, and of the limit

ASSUME FansAssumption == NumFans \in Nat \ {0} /\ Duties # {} /\ "auto" \notin Duties
ASSUME LimitsAssumption ==
  /\ MinLimit \in Nat /\ DefaultLimit \in MinLimit..MaxLimit /\ MaxLimit \in Nat
ASSUME FaultsAssumption == MaxFaults \in Nat

Fan == 1..NumFans

VARIABLES
  fans,   \* at: [Fan -> "auto" or a duty]; faults: how often they were disobeyed
  power,  \* limit; faults; unheard: the last write was made but reported failed
  svc     \* the systemd unit: "up", "stopping", "down"

-----------------------------------------------------------------------------
(* The fans.                                                                   *)

\* The outcomes the fault budget has room for.
FanOutcomes(S) == {o \in S : o.fans.faults =< MaxFaults}

FanResult(ok, at, faults) == [ok |-> ok, fans |-> [at |-> at, faults |-> faults]]

\* set_default of every fan, where the ones of `deaf` do not obey.
HandedBack(at, deaf) == [f \in Fan |-> IF f \in deaf THEN at[f] ELSE "auto"]

\* resolve_index: the GPU is not there.
Absent(x) == FanResult(FALSE, x.at, x.faults + 1)

\* Gpu::restore_fans: one fan after the other, and Ok whoever of them obeyed.
RestoreFans(x) ==
  FanOutcomes({Absent(x)} \cup
    {FanResult(TRUE, HandedBack(x.at, deaf), x.faults + Cardinality(deaf)) :
       deaf \in SUBSET Fan})

\* The first fans are set, the one before which the loop stands is not.
SetBefore(k, at, want) == [f \in Fan |-> IF f < k THEN want ELSE at[f]]

\* Gpu::set_all_fans and set_all_default through apply_or_restore: all fans, or
\* every one is handed back (its failures are ignored).
SetAll(x, want) ==
  FanOutcomes({Absent(x), FanResult(TRUE, [f \in Fan |-> want], x.faults)} \cup
    {FanResult(FALSE, HandedBack(SetBefore(k, x.at, want), deaf),
               x.faults + 1 + Cardinality(deaf)) : k \in Fan, deaf \in SUBSET Fan})

\* Mutant of RestoresOnDrop: a handle restores the fans whoever holds it.
RestoresOnDrop_Always(holder) == TRUE

\* Mutant of RestoresOnDrop: the backstop is left to Device::restore.
RestoresOnDrop_Never(holder) == FALSE

\* Gpu::drop: an observer and the power cap opt out, for they never had the fans.
RestoresOnDrop(holder) == holder = "nvidia"

Dropped(holder, x) ==
  IF RestoresOnDrop(holder) THEN RestoreFans(x) ELSE {FanResult(TRUE, x.at, x.faults)}

-----------------------------------------------------------------------------
(* The power limit.                                                            *)

PowerResult(ok, limit, faults, unheard) ==
  [ok |-> ok, power |-> [limit |-> limit, faults |-> faults, unheard |-> unheard]]

\* A write is made, is refused, or is made and reported failed all the same.
Write(x, limit) ==
  {o \in {PowerResult(TRUE, limit, x.faults, FALSE),
          PowerResult(FALSE, x.limit, x.faults + 1, x.unheard),
          PowerResult(FALSE, limit, x.faults + 1, TRUE)} : o.power.faults =< MaxFaults}

\* Mutant of ClampPowerLimit: only the upper bound is kept.
ClampPowerLimit_Above(want) == IF want > MaxLimit THEN MaxLimit ELSE want

\* clamp_power_limit.
ClampPowerLimit(want) ==
  IF want < MinLimit THEN MinLimit ELSE IF want > MaxLimit THEN MaxLimit ELSE want

SetPowerLimit(x, want) == Write(x, ClampPowerLimit(want))
RestorePower(x) == Write(x, DefaultLimit)
=============================================================================
