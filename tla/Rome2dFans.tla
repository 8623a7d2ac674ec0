------------------------------ MODULE Rome2dFans ------------------------------
(* One `rome2d-fans run` process from tick to tick: which duty each fan of the *)
(* board gets (anemoi/rome2d-fans/src/main.rs, zones.rs, fault.rs).  Two zones *)
(* by their own curves when both zone files load, else one curve for all; the  *)
(* case overlay on top; the siblings of a stalled fan at 100%.  How the duties *)
(* reach the board, and what becomes of the board when the process ends, is    *)
(* BoardFans; here a set and a release succeed or fail.                        *)
(*                                                                             *)
(* What a tick finds (files, signals, tachometers, whether the board obeys) is *)
(* a SURROUNDING; every behaviour stays in one world, a set of surroundings.   *)
(* What a tick reads twice, it may find changed in between: a zone file is     *)
(* read to make the controller, to probe the mode and to regulate, and the     *)
(* CPU's sensors to regulate and to report.                                    *)
EXTENDS CasePolicy

CONSTANTS
  CpuZone,      \* FAN1, FAN2
  CaseZone,     \* FAN3 .. FAN8
  Surrounding,  \* names of surroundings
  At,           \* At[n]: the surrounding of name n (see Surroundings)
  Worlds,       \* sets of names, each closed under whatever can come next
  Peak,         \* a high and a low temperature that can last
  Trough

Fan == CpuZone \cup CaseZone

FaultMinDuty     == 20
FaultRpmMax      == 100
SpinupGraceTicks == 2
FaultTicks       == 3
StreakCap        == SpinupGraceTicks + FaultTicks  \* bound: streaks count to here

ASSUME ZonesAssumption == CpuZone \cap CaseZone = {} /\ CpuZone # {} /\ CaseZone # {}
ASSUME WorldsAssumption ==
  Worlds \subseteq SUBSET Surrounding /\ Peak \in Nat /\ Trough \in Nat

\* A zone file in one tick: what Controller::new of the first apply, both_present
\* and Controller::duty read.
Reads == [made : File, probed : File, used : File]

ASSUME SurroundingsAssumption ==
  \A n \in Surrounding :
    /\ At[n].main \in File /\ {At[n].cpuFile, At[n].caseFile} \subseteq Reads
    /\ \A c \in DOMAIN At[n].curves : At[n].curves[c] \in File
    /\ At[n].cpu \subseteq Reading
    /\ \A x \in At[n].inputs \cup At[n].local : x.value \in Reading
    /\ At[n].policy.enabled \in BOOLEAN

VARIABLES
  world,   \* the names that can occur
  ctrl,    \* the SDK's controller, on the main curve file
  zones,   \* Rome2dFansDevice::zones: made, and the controllers of the two zones
  policy,  \* Rome2dFansDevice::case_policy
  faults,  \* Rome2dFansDevice::faults
  factors, \* Board::fan_factors: the fans whose tachometer can be converted
  board,   \* "auto", "manual" at `duty`, or "unknown" after a failed command
  duty,    \* the duties commanded last
  last,    \* the last tick: what it did, in which mode, the surrounding it found
  beat,    \* flips with every tick, so that a tick is a step even if all else stays
  asked    \* history: the last policy file this process could judge was enabled,
           \* or it found one it could not read

device == <<ctrl, zones, policy, faults, factors>>
vars == <<world, device, board, duty, last, beat, asked>>

NoZones == [made |-> FALSE, cpu |-> Fresh, case |-> Fresh]
NoFault == [above |-> 0, fault |-> 0, confirmed |-> FALSE]

-----------------------------------------------------------------------------
(* Temperatures.                                                               *)

MaxOrUnset(S) == IF S = {} THEN Unset ELSE Max(S)
\* push_temps and read_temps("k10temp"): what a tick regulates by.  The overlay
\* gets s.local, which cpu_components reads anew.
InputMax(s) == MaxOrUnset({x.value : x \in {y \in s.inputs : y.kind = "temperature"}} \ {Unset})
CpuMax(s) == MaxOrUnset(s.cpu \ {Unset})
RawMax(s) == MaxOrUnset({CpuMax(s), InputMax(s)} \ {Unset})

-----------------------------------------------------------------------------
(* The baseline: the controllers after the tick, and the two zones' duties;    *)
(* ok is FALSE when the tick has to release the board.                         *)

\* A read that yields a curve, to a cache that held none.
Whole(file) == Usable(NewController(file).curve)

\* ZoneControllers::both_present reads both files afresh, with nothing kept.
ZoneMode(s) == Whole(s.cpuFile.probed) /\ Whole(s.caseFile.probed)

\* get_or_insert_with: the zone controllers are made by the first apply.
Zones(s) ==
  IF zones.made THEN zones
  ELSE [made |-> TRUE, cpu |-> NewController(s.cpuFile.made),
        case |-> NewController(s.caseFile.made)]

ResetZones(z) == [z EXCEPT !.cpu = Reset(@), !.case = Reset(@)]

\* The zone branch: without either temperature, or without a duty (a file broken
\* since the probe, for a controller without a curve), the zones forget their
\* readings.
ZoneBaseline(s) ==
  LET z == Zones(s)
      seeing == CpuMax(s) # Unset /\ InputMax(s) # Unset
      after == IF seeing THEN [z EXCEPT !.cpu = Duty(@, s.cpuFile.used, CpuMax(s)),
                                        !.case = Duty(@, s.caseFile.used, InputMax(s))]
               ELSE z
      ok == seeing /\ after.cpu.applied # Unset /\ after.case.applied # Unset
  IN [ok |-> ok, mode |-> "zone", ctrl |-> ctrl,
      zones |-> IF ok THEN after ELSE ResetZones(after),
      cpu |-> after.cpu.applied, case |-> after.case.applied]

UniformBaseline(s) ==
  LET raw == RawMax(s)
      after == IF raw = Unset THEN ctrl ELSE Duty(ctrl, s.main, raw)
  IN [ok |-> raw # Unset /\ after.applied # Unset, mode |-> "uniform", ctrl |-> after,
      zones |-> Zones(s), cpu |-> after.applied, case |-> after.applied]

Baseline(s) == IF ZoneMode(s) THEN ZoneBaseline(s) ELSE UniformBaseline(s)

-----------------------------------------------------------------------------
(* Overlay, faults and compensation.                                           *)

Overlay(s) == Evaluate(policy, s.policy, s.curves, s.inputs \cup s.local)

\* per_fan_duties and apply_case_overlay: the overlay only ever raises.
Requested(base, overlay) ==
  [f \in Fan |-> IF f \in CpuZone THEN base.cpu
                 ELSE IF overlay > base.case THEN overlay ELSE base.case]

Zone(f) == IF f \in CpuZone THEN CpuZone ELSE CaseZone

\* Mutant of Compensated: only the case zone is looked after.
Compensated_CaseOnly(base) ==
  [f \in Fan |-> IF f \in CaseZone /\ ~faults[f].confirmed
                    /\ \E g \in CaseZone : faults[g].confirmed
                 THEN 100 ELSE base[f]]

\* compensate: the siblings of a dead fan run at 100%; the dead one is left alone.
Compensated(base) ==
  [f \in Fan |-> IF ~faults[f].confirmed /\ \E g \in Zone(f) : faults[g].confirmed
                 THEN 100 ELSE base[f]]

Counted(n) == IF n >= StreakCap THEN StreakCap ELSE n + 1

\* Mutant of Judged: the spin-up grace is not awaited.
Judged_NoGrace(f, commanded, rpm) ==
  IF commanded < FaultMinDuty THEN NoFault
  ELSE IF rpm = Unset THEN [f EXCEPT !.above = Counted(@)]
  ELSE IF rpm > FaultRpmMax THEN [NoFault EXCEPT !.above = Counted(f.above)]
  ELSE [above |-> Counted(f.above), fault |-> Counted(f.fault),
        confirmed |-> f.confirmed \/ Counted(f.fault) >= FaultTicks]

\* step of fault.rs, for one fan and one tick; an unreadable tachometer holds.
Judged(f, commanded, rpm) ==
  LET above == Counted(f.above) IN
  IF commanded < FaultMinDuty THEN NoFault
  ELSE IF above <= SpinupGraceTicks \/ rpm > FaultRpmMax THEN [NoFault EXCEPT !.above = above]
  ELSE IF rpm = Unset THEN [f EXCEPT !.above = above]
  ELSE [above |-> above, fault |-> Counted(f.fault),
        confirmed |-> f.confirmed \/ Counted(f.fault) >= FaultTicks]

-----------------------------------------------------------------------------
(* The tachometers, read when the duties are set.                              *)

\* A sensor whose factors are not known yet is asked for them, and has no speed
\* until the next time; one that does not answer stays as it is.
Answering(s) == {f \in Fan : s.rpm[f] # Unset}
ReadFanRpms(s) == [f \in Fan |-> IF f \in factors THEN s.rpm[f] ELSE Unset]

-----------------------------------------------------------------------------
(* A tick: apply, and what run_loop adds to it.                                *)

\* What an operator who wrote the policy file expects of it from now on.
Asks(s) ==
  CASE Loaded(s.policy) = "missing" -> asked
    [] Loaded(s.policy) = "invalid" -> TRUE
    [] Loaded(s.policy) = "config"  -> s.policy.enabled

Did(n, what) ==
  /\ last' = [did |-> what, mode |-> Baseline(At[n]).mode, found |-> n]
  /\ beat' = ~beat

\* No temperature or no duty: release_or_error.  The overlay is not evaluated;
\* run_loop resets the controller after the error.
Release(n) ==
  LET s == At[n]
      base == Baseline(s)
  IN /\ ~base.ok
     /\ ctrl' = Reset(base.ctrl)
     /\ zones' = base.zones
     /\ board' = IF s.obeys THEN "auto" ELSE "unknown"
     /\ Did(n, "released")
     /\ UNCHANGED <<world, policy, faults, factors, duty, asked>>

Commanded(s) == Compensated(Requested(Baseline(s), Overlay(s).overlay))

Set(n) ==
  LET s == At[n] IN
  /\ Baseline(s).ok /\ s.obeys
  /\ ctrl' = Baseline(s).ctrl
  /\ zones' = Baseline(s).zones
  /\ policy' = Overlay(s).policy
  /\ board' = "manual"
  /\ duty' = Commanded(s)
  /\ faults' = [f \in Fan |-> Judged(faults[f], duty'[f], ReadFanRpms(s)[f])]
  /\ factors' = factors \cup Answering(s)
  /\ asked' = Asks(s)
  /\ Did(n, "set")
  /\ UNCHANGED world

\* Mutant of Fail: an error of the board is not an outage.
Fail_KeepsAverage(n) ==
  LET s == At[n] IN
  /\ Baseline(s).ok /\ ~s.obeys
  /\ ctrl' = Baseline(s).ctrl
  /\ zones' = Baseline(s).zones
  /\ policy' = Overlay(s).policy
  /\ asked' = Asks(s)
  /\ board' = "unknown"
  /\ Did(n, "failed")
  /\ UNCHANGED <<world, faults, factors, duty>>

\* The board refuses the duties: only the controller is reset, by run_loop.
Fail(n) ==
  LET s == At[n] IN
  /\ Baseline(s).ok /\ ~s.obeys
  /\ ctrl' = Reset(Baseline(s).ctrl)
  /\ zones' = Baseline(s).zones
  /\ policy' = Overlay(s).policy
  /\ asked' = Asks(s)
  /\ board' = "unknown"
  /\ Did(n, "failed")
  /\ UNCHANGED <<world, faults, factors, duty>>

Tick == \E n \in world : Release(n) \/ Set(n) \/ Fail(n)

\* A process starts with a usable main curve or not at all, fetches the factors of
\* the tachometers, and knows nothing of its predecessor.
Opened(s) ==
  /\ Usable(NewController(s.main).curve)
  /\ ctrl' = NewController(s.main)
  /\ zones' = NoZones
  /\ policy' = NewPolicy
  /\ faults' = [f \in Fan |-> NoFault]
  /\ factors' = Answering(s)

\* The process ends (its restore may fail) and another one takes over.
Replace(n) ==
  /\ last.did # "started"
  /\ Opened(At[n])
  /\ board' = IF At[n].obeys THEN "auto" ELSE "unknown"
  /\ last' = [did |-> "started", mode |-> "uniform", found |-> n]
  /\ asked' = FALSE
  /\ UNCHANGED <<world, duty, beat>>

Init ==
  /\ world \in Worlds
  /\ board = "auto"
  /\ duty = [f \in Fan |-> 0]
  /\ \E n \in world :
       /\ Usable(NewController(At[n].main).curve)
       /\ ctrl = NewController(At[n].main)
       /\ last = [did |-> "started", mode |-> "uniform", found |-> n]
       /\ factors = Answering(At[n])
  /\ beat = FALSE /\ asked = FALSE
  /\ zones = NoZones
  /\ policy = NewPolicy
  /\ faults = [f \in Fan |-> NoFault]

Next == Tick \/ \E n \in world : Replace(n)

Spec == Init /\ [][Next]_vars

\* The main loop dispatches an apply per period; nothing obliges a restart.  Some
\* tick is possible in every state, so this is the weak fairness of Tick.
FairSpec == Spec /\ WF_beat(beat' = ~beat)

-----------------------------------------------------------------------------
(* Properties.                                                                 *)

Average == {Unset} \cup Nat
DamperOK(d) == d.smoothed \in Average /\ d.applied \in {Unset} \cup 0..100

\* Every variable has its type.
TypeOK ==
  /\ world \in Worlds
  /\ DamperOK(ctrl) /\ DamperOK(zones.cpu) /\ DamperOK(zones.case)
  /\ policy.seen \in BOOLEAN /\ \A i \in DOMAIN policy.dampers : DamperOK(policy.dampers[i])
  /\ faults \in [Fan -> [above : 0..StreakCap, fault : 0..StreakCap, confirmed : BOOLEAN]]
  /\ factors \subseteq Fan
  /\ board \in {"auto", "manual", "unknown"}
  /\ duty \in [Fan -> 0..100]
  /\ last.did \in {"started", "released", "set", "failed"}
  /\ last.mode \in {"zone", "uniform"} /\ last.found \in world
  /\ beat \in BOOLEAN /\ asked \in BOOLEAN

Found == At[last.found]

\* The curve of a controller asks for this at its average.
Demand(c) == Clamp(Eval(c.curve, Degrees(c.smoothed)), 0, 100)

\* Whatever the damper, the overlay and the compensation make of it, no fan is
\* commanded below what its curve asks for at the smoothed temperature.
NeverUnderCurve ==
  last.did = "set" => \A f \in Fan :
    duty[f] >= CASE last.mode = "uniform"                  -> Demand(ctrl)
                 [] last.mode = "zone" /\ f \in CpuZone    -> Demand(zones.cpu)
                 [] last.mode = "zone" /\ f \in CaseZone   -> Demand(zones.case)

\* A zone's file was whole when the mode was probed and is not when the duty is
\* computed, and its controller has never held a curve.
Torn(c, file) == ~Usable(c.curve) /\ ~Whole(file.used)

\* Editing curve files costs the fans their control in one case only: a tick hands
\* the board back when a temperature it regulates by is missing, or a zone file
\* breaks within the tick, in zones that were never driven by a curve.  However
\* the files are broken, mended, removed and added, a process that ever had a
\* zone's curve, or runs on the main one, goes on.
EditsKeepControl ==
  [][last'.did = "released" =>
       LET s == Found'
           z == Zones(s)   \* the controllers the tick found, or made
       IN CASE last'.mode = "uniform" -> CpuMax(s) = Unset /\ InputMax(s) = Unset
            [] last'.mode = "zone"    -> \/ CpuMax(s) = Unset \/ InputMax(s) = Unset
                                         \/ Torn(z.cpu, s.cpuFile) \/ Torn(z.case, s.caseFile)
    ]_vars

\* A configured overlay that cannot be judged (unreadable, deleted since it was
\* enabled, a broken curve even of a rule with nothing to act on, a required
\* signal that is gone) runs every case fan at 100%, from the same tick on.
FailsHigh ==
  LET s == Found
      unjudged(rule) == \/ ~Strict(CurveFile(s.curves, rule))
                        \/ rule.required /\ Matched(rule, s.inputs \cup s.local) = {}
  IN (/\ last.did = "set"
      /\ \/ Loaded(s.policy) = "invalid"
         \/ Loaded(s.policy) = "missing" /\ asked
         \/ /\ Loaded(s.policy) = "config" /\ s.policy.enabled
            /\ \E i \in DOMAIN s.policy.rules : unjudged(s.policy.rules[i]))
     => \A f \in CaseZone : duty[f] = 100

\* A fan is declared dead only after the spin-up grace and three ticks of standing
\* still while driven, though set ticks and failed ticks alternate and readings
\* get lost in between.
ConfirmedIsEarned ==
  \A f \in Fan :
    faults[f].confirmed => faults[f].fault >= FaultTicks /\ faults[f].above >= StreakCap

\* The average a mode regulates by is this reading alone.
StartsFresh(c, raw) == c.smoothed = raw * Unit

\* After a tick that did not set the fans, the uniform controller starts from the
\* first reading: "a stale EMA/deadband isn't carried across an outage".
UniformStartsFresh ==
  [][last.did \in {"released", "failed"} /\ last'.did = "set" /\ last'.mode = "uniform"
       => StartsFresh(ctrl', RawMax(Found'))]_vars

\* A fan that stands still for good is found out, and its siblings end up at 100%.
DeadFanCompensated ==
  \A f \in Fan :
    <>[](last.did = "set" /\ Found.rpm[f] \in 0..FaultRpmMax /\ duty[f] >= FaultMinDuty) =>
      <>[](\A g \in Zone(f) : duty[g] = 100 \/ faults[g].confirmed)

\* A heat that lasts gets at least the duty its curve gives it, and a cold that
\* lasts less than the deadband above it, for all the rounding of the average and
\* however slowly it moves: no small step is held back for ever.
Settles ==
  /\ <>[](last.did = "set" /\ last.mode = "uniform" /\ RawMax(Found) >= Peak) =>
       <>[](\A f \in Fan : duty[f] >= Clamp(Eval(ctrl.curve, Peak), 0, 100))
  /\ <>[](last.did = "set" /\ last.mode = "uniform" /\ RawMax(Found) <= Trough) =>
       <>[](ctrl.applied < Clamp(Eval(ctrl.curve, Trough), 0, 100) + DeadbandPct)
=============================================================================
