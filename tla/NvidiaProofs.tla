----------------------------- MODULE NvidiaProofs -----------------------------
(* Theorems about Nvidia: the fans and the power limit of a GPU, for any       *)
(* number of fans, any duties and limits, any number of processes and faults.  *)
EXTENDS Nvidia, FiniteSetTheorems, TLAPS

USE FansAssumption, LimitsAssumption, FaultsAssumption, ProcAssumption DEF Fan, Proc

-----------------------------------------------------------------------------
(* The invariants.                                                             *)

Fans == [at : [Fan -> Duties \cup {"auto"}], faults : 0..MaxFaults]

AllAuto(x) == \A f \in Fan : x.at[f] = "auto"

\* A fan at a fixed duty has a process that will hand it back; each attempt that
\* is used up has cost a fault.
FansOwed ==
  ~AllAuto(fans) =>
    /\ fanPc = "drop" => fans.faults >= 1
    /\ fanPc = "gone" => fans.faults >= 2
    /\ svc = "down" => fans.faults >= 3

FanInv ==
  /\ FanTypeOK /\ fans \in Fans
  /\ svc \in {"up", "stopping", "down"} /\ (svc = "down" => fanPc = "gone")
  /\ FansOwed /\ FanSinkTrue

Powers == [limit : MinLimit..DefaultLimit, faults : 0..MaxFaults, unheard : BOOLEAN]
Caps == [capped : BOOLEAN, requested : {None} \cup 0..MaxLimit,
         actual : {None} \cup MinLimit..MaxLimit, armed : BOOLEAN]

\* Process p will restore the limit, and has used up an attempt only at a fault.
HoldsCap(p) ==
  /\ cap[p].armed
  /\ \/ capPc[p] \in {"serving", "inflight", "leaving"}
     \/ capPc[p] = "drop" /\ power.faults >= 1

\* A cap has a process that will lift it, or two faults have been spent.
CapOwed ==
  power.limit < DefaultLimit =>
    /\ power.faults >= 2 \/ \E p \in Proc : HoldsCap(p)
    /\ svc = "down" => power.faults >= 3

CapInv ==
  /\ CapTypeOK /\ power \in Powers /\ cap \in [Proc -> Caps]
  /\ svc \in {"up", "stopping", "down"} /\ (svc = "down" => \A p \in Proc : capPc[p] = "gone")
  /\ CapOwed

\* What the record of a process says of the limit, when no other one can write it.
Tallies(c, x) ==
  /\ c.requested # None => c.capped
  /\ IF c.capped THEN x.limit = c.actual \/ x.unheard
     ELSE x.limit = DefaultLimit \/ x.unheard

\* And the report is made from the record.
RecordTrue(p) ==
  capPc[p] \in {"serving", "inflight"} =>
    /\ Tallies(cap[p], power)
    /\ (capSaid[p] = "claimed" => cap[p].capped) /\ (capSaid[p] = "released" => ~cap[p].capped)

-----------------------------------------------------------------------------
(* The fans: what the library does to them.                                    *)

FanOutcome == [ok : BOOLEAN, fans : Fans]

LEMMA DeafFans ==
  ASSUME NEW deaf \in SUBSET Fan
  PROVE  Cardinality(deaf) \in Nat /\ (Cardinality(deaf) = 0 <=> deaf = {})
<1>1. IsFiniteSet(Fan)
  BY FS_Interval
<1> QED BY <1>1, FS_Subset, FS_CardinalityType, FS_EmptySet

\* HandedBack and SetBefore are fans again.
LEMMA HandedBackType ==
  ASSUME NEW at \in [Fan -> Duties \cup {"auto"}], NEW deaf \in SUBSET Fan
  PROVE  /\ HandedBack(at, deaf) \in [Fan -> Duties \cup {"auto"}]
         /\ deaf = {} => \A f \in Fan : HandedBack(at, deaf)[f] = "auto"
BY DEF HandedBack

LEMMA SetBeforeType ==
  ASSUME NEW at \in [Fan -> Duties \cup {"auto"}], NEW k \in Fan, NEW want \in Duties \cup {"auto"}
  PROVE  SetBefore(k, at, want) \in [Fan -> Duties \cup {"auto"}]
BY DEF SetBefore

\* Gpu::restore_fans: a fan that is not handed back has cost a fault.
LEMMA RestoreFansDoes ==
  ASSUME NEW x \in Fans, NEW o \in RestoreFans(x)
  PROVE  /\ o \in FanOutcome
         /\ o.fans.faults >= x.faults
         /\ AllAuto(o.fans) \/ o.fans.faults >= x.faults + 1
<1>1. o.fans.faults <= MaxFaults
  BY DEF RestoreFans, FanOutcomes
<1>2. CASE o = Absent(x)
  <2>1. o = [ok |-> FALSE, fans |-> [at |-> x.at, faults |-> x.faults + 1]]
    BY <1>2 DEF Absent, FanResult
  <2> QED BY <1>1, <2>1 DEF Fans, FanOutcome
<1>3. ASSUME NEW deaf \in SUBSET Fan,
             o = FanResult(TRUE, HandedBack(x.at, deaf), x.faults + Cardinality(deaf))
      PROVE  /\ o \in FanOutcome
             /\ o.fans.faults >= x.faults
             /\ AllAuto(o.fans) \/ o.fans.faults >= x.faults + 1
  <2> DEFINE n == Cardinality(deaf)
             at == HandedBack(x.at, deaf)
  <2>1. o = [ok |-> TRUE, fans |-> [at |-> at, faults |-> x.faults + n]]
    BY <1>3 DEF FanResult
  <2>2. n \in Nat /\ (n = 0 => deaf = {})
    BY DeafFans
  <2>3. at \in [Fan -> Duties \cup {"auto"}] /\ (deaf = {} => \A f \in Fan : at[f] = "auto")
    BY HandedBackType DEF Fans
  <2> HIDE DEF n, at
  <2> QED BY <1>1, <2>1, <2>2, <2>3 DEF Fans, FanOutcome, AllAuto
<1> QED BY <1>2, <1>3 DEF RestoreFans, FanOutcomes

LEMMA AutoStays ==
  ASSUME NEW x \in Fans, NEW o \in RestoreFans(x), AllAuto(x)
  PROVE  AllAuto(o.fans)
<1>1. CASE o = Absent(x)
  BY <1>1 DEF Absent, FanResult, AllAuto
<1>2. ASSUME NEW deaf \in SUBSET Fan,
             o = FanResult(TRUE, HandedBack(x.at, deaf), x.faults + Cardinality(deaf))
      PROVE  AllAuto(o.fans)
  BY <1>2 DEF FanResult, HandedBack, AllAuto
<1> QED BY <1>1, <1>2 DEF RestoreFans, FanOutcomes

\* Gpu::set_all_fans and set_all_default: all, or a fault and a hand-back.
LEMMA SetAllDoes ==
  ASSUME NEW x \in Fans, NEW want \in Duties \cup {"auto"}, NEW o \in SetAll(x, want)
  PROVE  /\ o \in FanOutcome
         /\ o.fans.faults >= x.faults
         /\ o.ok => \A f \in Fan : o.fans.at[f] = want
         /\ ~o.ok => o.fans.faults >= x.faults + 1
<1>1. o.fans.faults <= MaxFaults
  BY DEF SetAll, FanOutcomes
<1>2. CASE o = Absent(x)
  <2>1. o = [ok |-> FALSE, fans |-> [at |-> x.at, faults |-> x.faults + 1]]
    BY <1>2 DEF Absent, FanResult
  <2> QED BY <1>1, <2>1 DEF Fans, FanOutcome
<1>3. CASE o = FanResult(TRUE, [f \in Fan |-> want], x.faults)
  <2>1. o = [ok |-> TRUE, fans |-> [at |-> [f \in Fan |-> want], faults |-> x.faults]]
    BY <1>3 DEF FanResult
  <2> QED BY <1>1, <2>1 DEF Fans, FanOutcome
<1>4. ASSUME NEW k \in Fan, NEW deaf \in SUBSET Fan,
             o = FanResult(FALSE, HandedBack(SetBefore(k, x.at, want), deaf),
                           x.faults + 1 + Cardinality(deaf))
      PROVE  o \in FanOutcome /\ o.ok = FALSE /\ o.fans.faults >= x.faults + 1
  <2> DEFINE n == Cardinality(deaf)
             at == HandedBack(SetBefore(k, x.at, want), deaf)
  <2>1. o = [ok |-> FALSE, fans |-> [at |-> at, faults |-> x.faults + 1 + n]]
    BY <1>4 DEF FanResult
  <2>2. n \in Nat
    BY DeafFans
  <2>3. at \in [Fan -> Duties \cup {"auto"}]
    BY HandedBackType, SetBeforeType DEF Fans
  <2> HIDE DEF n, at
  <2> QED BY <1>1, <2>1, <2>2, <2>3 DEF Fans, FanOutcome
<1>5. x.faults \in Nat
  BY DEF Fans
<1>6. CASE \E k \in Fan, deaf \in SUBSET Fan :
             o = FanResult(FALSE, HandedBack(SetBefore(k, x.at, want), deaf),
                           x.faults + 1 + Cardinality(deaf))
  <2>1. o \in FanOutcome /\ o.ok = FALSE /\ o.fans.faults >= x.faults + 1
    BY <1>4, <1>6
  <2>2. o.fans.faults \in Nat
    BY <2>1 DEF FanOutcome, Fans
  <2>3. ~o.ok
    BY <2>1
  <2>4. o.fans.faults >= x.faults
    BY <1>5, <2>1, <2>2
  <2> QED BY <2>1, <2>3, <2>4
<1> DEFINE Partly(k, deaf) ==
      FanResult(FALSE, HandedBack(SetBefore(k, x.at, want), deaf), x.faults + 1 + Cardinality(deaf))
<1>7. \/ o \in {Absent(x), FanResult(TRUE, [f \in Fan |-> want], x.faults)}
      \/ \E k \in Fan, deaf \in SUBSET Fan : o = Partly(k, deaf)
  <2> DEFINE S == {Absent(x), FanResult(TRUE, [f \in Fan |-> want], x.faults)}
             T == {Partly(k, deaf) : k \in Fan, deaf \in SUBSET Fan}
  <2>1. o \in FanOutcomes(S \cup T)
    BY DEF SetAll
  <2> HIDE DEF S, T
  <2>2. o \in S \/ o \in T
    BY <2>1 DEF FanOutcomes
  <2>3. o \in T => \E k \in Fan, deaf \in SUBSET Fan : o = Partly(k, deaf)
    <3> HIDE DEF Partly
    <3> QED BY DEF T
  <2> QED BY <2>2, <2>3 DEF S
<1> QED BY <1>2, <1>3, <1>6, <1>7

\* One apply: all fans at what was wanted, or an error after a hand-back, and then
\* all are under the firmware unless that failed too.
LEMMA FanTickDoes ==
  ASSUME fans \in Fans, NEW want \in Duties \cup {"auto"}, NEW o \in FanTick(want)
  PROVE  /\ o \in FanOutcome
         /\ o.fans.faults >= fans.faults
         /\ o.ok => \A f \in Fan : o.fans.at[f] = want
         /\ ~o.ok => AllAuto(o.fans) \/ o.fans.faults >= 2
<1>1. ASSUME NEW t \in FanBlind \cup SetAll(fans, want)
      PROVE  /\ t \in FanOutcome
             /\ t.fans.faults >= fans.faults
             /\ t.ok => \A f \in Fan : t.fans.at[f] = want
             /\ ~t.ok => t.fans.faults >= fans.faults + 1
  <2>1. CASE t \in FanBlind
    <3>1. t = [ok |-> FALSE, fans |-> [at |-> fans.at, faults |-> fans.faults + 1]]
          /\ t.fans.faults <= MaxFaults
      BY <2>1 DEF FanBlind, FanOutcomes, FanResult
    <3> QED BY <3>1 DEF Fans, FanOutcome
  <2>2. CASE t \in SetAll(fans, want)
    BY <2>2, SetAllDoes
  <2> QED BY <2>1, <2>2
<1>2. CASE o \in FanBlind \cup SetAll(fans, want) /\ o.ok
  BY <1>1, <1>2
<1>3. ASSUME NEW t \in FanBlind \cup SetAll(fans, want), ~t.ok,
             NEW r \in RestoreFans(t.fans), o = [r EXCEPT !.ok = FALSE]
      PROVE  /\ o \in FanOutcome
             /\ o.fans.faults >= fans.faults
             /\ ~o.ok
             /\ AllAuto(o.fans) \/ o.fans.faults >= 2
  <2>1. t.fans \in Fans /\ t.fans.faults >= fans.faults + 1
    BY <1>1, <1>3 DEF FanOutcome
  <2>2. /\ r \in FanOutcome
        /\ r.fans.faults >= t.fans.faults
        /\ AllAuto(r.fans) \/ r.fans.faults >= t.fans.faults + 1
    BY <2>1, RestoreFansDoes
  <2>3. o.fans = r.fans /\ o.ok = FALSE /\ o \in FanOutcome
    BY <1>3, <2>2 DEF FanOutcome
  <2>4. fans.faults \in Nat /\ t.fans.faults \in Nat /\ r.fans.faults \in Nat
    BY <2>1, <2>2 DEF Fans, FanOutcome
  <2> QED BY <2>1, <2>2, <2>3, <2>4
<1>4. \/ o \in FanBlind \cup SetAll(fans, want) /\ o.ok
      \/ \E t \in FanBlind \cup SetAll(fans, want) :
           ~t.ok /\ \E r \in RestoreFans(t.fans) : o = [r EXCEPT !.ok = FALSE]
  BY DEF FanTick
<1> QED BY <1>2, <1>3, <1>4

\* A handle of the power cap, or of an observer, never touches the fans.
LEMMA OthersDropNothing ==
  ASSUME fans \in Fans, NEW holder, holder # "nvidia", DropsGpu(holder)
  PROVE  fans' = fans
<1>1. fans' = [at |-> fans.at, faults |-> fans.faults]
  BY DEF DropsGpu, Dropped, RestoresOnDrop, FanResult
<1> QED BY <1>1 DEF Fans

-----------------------------------------------------------------------------
(* The fans: every step.                                                       *)

LEMMA FanInvInit == Init => FanInv
<1> SUFFICES ASSUME Init PROVE FanInv
  OBVIOUS
<1>1. fans \in Fans /\ AllAuto(fans) /\ fanPc = "gone" /\ fanSaid = "nothing" /\ svc = "up"
  BY DEF Init, FanInit, Fans, AllAuto
<1> QED BY <1>1 DEF FanInv, FanTypeOK, Fans, FansOwed, FanSinkTrue

\* What has to be shown of a step that leaves the service alone.
LEMMA FanInvFrom ==
  ASSUME fans' \in Fans, svc' \in {"up", "stopping", "down"}, svc' = "down" => fanPc' = "gone",
         fanPc' \in {"gone", "serving", "inflight", "leaving", "drop"},
         fanSaid' \in {"nothing", "claimed", "released", "error"}, FansOwed', FanSinkTrue'
  PROVE  FanInv'
BY DEF FanInv, FanTypeOK, Fans

LEMMA FanStepKeeps ==
  ASSUME FanInv, FanStep, svc' = svc PROVE FanInv'
<1>1. /\ fans \in Fans /\ svc \in {"up", "stopping", "down"}
      /\ fanPc \in {"gone", "serving", "inflight", "leaving", "drop"}
      /\ fanSaid \in {"nothing", "claimed", "released", "error"}
      /\ svc = "down" => fanPc = "gone"
      /\ FansOwed /\ FanSinkTrue
  BY DEF FanInv, FanTypeOK
<1>2. fans.faults \in Nat
  BY <1>1 DEF Fans
<1>3. CASE FanStart
  BY <1>1, <1>3, FanInvFrom DEF FanStart, FansOwed, FanSinkTrue, AllAuto
<1>4. CASE FanApply
  <2>1. PICK want \in Duties \cup {"auto"} : \E o \in FanTick(want) :
          /\ fans' = o.fans
          /\ fanSaid' = IF ~o.ok THEN "error" ELSE IF want = "auto" THEN "released" ELSE "claimed"
    BY <1>4 DEF FanApply
  <2>2. PICK o \in FanTick(want) :
          /\ fans' = o.fans
          /\ fanSaid' = IF ~o.ok THEN "error" ELSE IF want = "auto" THEN "released" ELSE "claimed"
    BY <2>1
  <2>3. /\ o \in FanOutcome
        /\ o.ok => \A f \in Fan : o.fans.at[f] = want
        /\ ~o.ok => AllAuto(o.fans) \/ o.fans.faults >= 2
    BY <1>1, FanTickDoes
  <2>4. fanPc \in {"serving", "inflight"} /\ fanPc' \in {"serving", "leaving"}
    BY <1>4 DEF FanApply
  <2>5. fans' \in Fans /\ fanSaid' \in {"nothing", "claimed", "released", "error"}
    BY <2>2, <2>3 DEF FanOutcome
  <2>6. FanSinkTrue'
    BY <2>2, <2>3 DEF FanSinkTrue, AllAuto
  <2>7. FansOwed'
    BY <1>1, <2>4 DEF FansOwed
  <2> QED BY <1>1, <2>4, <2>5, <2>6, <2>7, FanInvFrom
<1>5. CASE FanDismiss
  <2>1. fanPc' \in {"inflight", "leaving"} /\ fanPc = "serving" /\ UNCHANGED <<fans, fanSaid>>
    BY <1>5 DEF FanDismiss, Ending
  <2> QED BY <1>1, <2>1, FanInvFrom DEF FansOwed, FanSinkTrue, AllAuto
<1>6. CASE FanLeave
  <2>1. PICK o \in RestoreFans(fans) : fans' = o.fans
    BY <1>6 DEF FanLeave
  <2>2. /\ o \in FanOutcome
        /\ AllAuto(o.fans) \/ o.fans.faults >= fans.faults + 1
    BY <1>1, RestoreFansDoes
  <2>3. fanPc = "leaving" /\ fanPc' = "drop" /\ fanSaid' = fanSaid
    BY <1>6 DEF FanLeave
  <2>4. fans' \in Fans /\ fans'.faults \in Nat /\ (AllAuto(fans)' \/ fans'.faults >= fans.faults + 1)
    BY <2>1, <2>2 DEF FanOutcome, Fans, AllAuto
  <2>5. FansOwed'
    BY <1>1, <1>2, <2>3, <2>4 DEF FansOwed
  <2> QED BY <1>1, <2>3, <2>4, <2>5, FanInvFrom DEF FanSinkTrue
<1>7. CASE FanPanic
  <2>1. /\ fanPc \in {"serving", "inflight"} /\ fanPc' = "drop" /\ fanSaid' = fanSaid
        /\ fans.faults < MaxFaults /\ fans' = [fans EXCEPT !.faults = @ + 1]
    BY <1>7 DEF FanPanic
  <2>2. fans' \in Fans /\ fans'.faults = fans.faults + 1
    BY <1>1, <2>1 DEF Fans
  <2>3. FansOwed'
    BY <1>1, <1>2, <2>1, <2>2 DEF FansOwed
  <2> QED BY <1>1, <2>1, <2>2, <2>3, FanInvFrom DEF FanSinkTrue
<1>8. CASE FanDrop
  <2>1. fanPc = "drop" /\ fanPc' = "gone" /\ fanSaid' = "nothing"
    BY <1>8 DEF FanDrop
  <2>2. PICK o \in RestoreFans(fans) : fans' = o.fans
    BY <1>8 DEF FanDrop, Dropped, RestoresOnDrop
  <2>3. /\ o \in FanOutcome
        /\ o.fans.faults >= fans.faults
        /\ AllAuto(o.fans) \/ o.fans.faults >= fans.faults + 1
    BY <1>1, RestoreFansDoes
  <2>4. /\ fans' \in Fans /\ fans'.faults \in Nat
        /\ AllAuto(fans)' \/ fans'.faults >= fans.faults + 1
    BY <2>2, <2>3 DEF FanOutcome, Fans, AllAuto
  <2>5. AllAuto(fans) => AllAuto(fans)'
    BY <1>1, <2>2, AutoStays DEF AllAuto
  <2>6. FansOwed'
    BY <1>1, <1>2, <2>1, <2>4, <2>5 DEF FansOwed
  <2> QED BY <1>1, <2>1, <2>4, <2>6, FanInvFrom DEF FanSinkTrue
<1>9. CASE FanKill
  <2>1. /\ fanPc # "gone" /\ fanPc' = "gone" /\ fanSaid' = "nothing"
        /\ fans.faults + 2 <= MaxFaults
    BY <1>9 DEF FanKill
  <2>2. PICK k \in Fan, want \in Duties :
          fans' = [at |-> IF fanPc \in {"serving", "inflight"} THEN SetBefore(k, fans.at, want)
                          ELSE fans.at,
                   faults |-> fans.faults + 2]
    BY <1>9 DEF FanKill
  <2>3. fans' \in Fans /\ fans'.faults = fans.faults + 2
    BY <1>1, <2>1, <2>2, SetBeforeType DEF Fans
  <2>4. FansOwed'
    BY <1>1, <1>2, <2>1, <2>3 DEF FansOwed
  <2> QED BY <1>1, <2>1, <2>3, <2>4, FanInvFrom DEF FanSinkTrue
<1> QED BY <1>3, <1>4, <1>5, <1>6, <1>7, <1>8, <1>9 DEF FanStep

LEMMA FanInvStep == FanInv /\ [Next]_vars => FanInv'
<1> SUFFICES ASSUME FanInv, [Next]_vars PROVE FanInv'
  OBVIOUS
<1>1. /\ fans \in Fans /\ svc \in {"up", "stopping", "down"}
      /\ fanPc \in {"gone", "serving", "inflight", "leaving", "drop"}
      /\ fanSaid \in {"nothing", "claimed", "released", "error"}
      /\ svc = "down" => fanPc = "gone"
      /\ FansOwed /\ FanSinkTrue /\ fans.faults \in Nat
  BY DEF FanInv, FanTypeOK, Fans
<1>2. ASSUME UNCHANGED <<fans, fanPc, fanSaid, svc>> PROVE FanInv'
  BY <1>2 DEF FanInv, FanTypeOK, FansOwed, FanSinkTrue, AllAuto
<1>3. CASE FanStep /\ UNCHANGED <<svc, capVars>>
  BY <1>3, FanStepKeeps
<1>4. ASSUME NEW p \in Proc, CapLives(p) /\ UNCHANGED <<svc, fanVars>> PROVE FanInv'
  BY <1>2, <1>4 DEF fanVars, fanProcess
<1>5. ASSUME NEW p \in Proc, CapDies(p) /\ UNCHANGED svc PROVE FanInv'
  BY <1>1, <1>2, <1>5, OthersDropNothing DEF CapDies, fanProcess
<1>6. CASE Looks /\ UNCHANGED svc
  BY <1>1, <1>2, <1>6, OthersDropNothing DEF Looks, fanProcess
<1>7. CASE GridChange /\ UNCHANGED <<svc, fanVars>>
  BY <1>2, <1>7 DEF fanVars, fanProcess
<1>8. CASE Stop
  <2>1. /\ svc' = "stopping" /\ UNCHANGED <<fans, fanSaid>>
        /\ fanPc' = fanPc \/ (fanPc = "serving" /\ fanPc' \in {"inflight", "leaving"})
    BY <1>8 DEF Stop, Ending
  <2> QED BY <1>1, <2>1, FanInvFrom DEF FansOwed, FanSinkTrue, AllAuto
<1>9. CASE OneShot
  <2>1. PICK o \in RestoreFans(fans) : fans' = o.fans
    BY <1>9 DEF OneShot, FanOneShot
  <2>2. fanPc = "gone" /\ svc' = "down" /\ svc = "stopping" /\ UNCHANGED <<fanPc, fanSaid>>
    BY <1>9 DEF OneShot, NobodyLives, fanProcess
  <2>3. /\ o \in FanOutcome
        /\ o.fans.faults >= fans.faults
        /\ AllAuto(o.fans) \/ o.fans.faults >= fans.faults + 1
    BY <1>1, RestoreFansDoes
  <2>4. /\ fans' \in Fans /\ fans'.faults \in Nat
        /\ AllAuto(fans)' \/ fans'.faults >= fans.faults + 1
    BY <2>1, <2>3 DEF FanOutcome, Fans, AllAuto
  <2>5. AllAuto(fans) => AllAuto(fans)'
    BY <1>1, <2>1, AutoStays DEF AllAuto
  <2>6. FansOwed'
    BY <1>1, <2>2, <2>4, <2>5 DEF FansOwed
  <2> QED BY <1>1, <2>2, <2>4, <2>6, FanInvFrom DEF FanSinkTrue
<1>10. CASE Restart
  <2>1. svc' = "up" /\ UNCHANGED <<fans, fanPc, fanSaid>>
    BY <1>10 DEF Restart, fanVars, fanProcess
  <2> QED BY <1>1, <2>1, FanInvFrom DEF FansOwed, FanSinkTrue, AllAuto
<1>11. CASE UNCHANGED vars
  BY <1>2, <1>11 DEF vars, fanProcess
<1> QED BY <1>3, <1>4, <1>5, <1>6, <1>7, <1>8, <1>9, <1>10, <1>11 DEF Next

-----------------------------------------------------------------------------
(* The power limit: what an apply and a restore do to it.                      *)

PowerOutcome == [ok : BOOLEAN, power : Powers]
CapOutcome == [ok : BOOLEAN, power : Powers, cap : Caps]

\* A cap that is asked for is between the least the GPU accepts and its default.
LEMMA TargetInRange ==
  ASSUME NEW g \in Grids
  PROVE  /\ CapTarget(g.policy) \in 0..DefaultLimit
         /\ ClampPowerLimit(CapTarget(g.policy)) \in MinLimit..DefaultLimit
<1> DEFINE d == DefaultLimit
           n == g.policy.pct
<1>1. d \in Nat /\ n \in 1..100 /\ MinLimit \in Nat /\ MinLimit <= d /\ d <= MaxLimit
  BY GridsAssumption
<1>2. d * n \in Nat /\ d * n <= d * 100
  <2> HIDE DEF d, n
  <2>1. n \in Nat /\ n <= 100
    BY <1>1
  <2>2. d * (100 - n) >= 0
    BY <1>1, <2>1
  <2>3. d * 100 = d * n + d * (100 - n)
    BY <1>1, <2>1
  <2>4. d * n \in Nat /\ d * (100 - n) \in Int
    BY <1>1, <2>1
  <2> QED BY <2>2, <2>3, <2>4
<1>3. CapTarget(g.policy) \in 0..d
  <2> DEFINE m == d * n
  <2>1. m \in Nat /\ m <= d * 100
    BY <1>2
  <2> HIDE DEF d, m
  <2>2. m \div 100 \in 0..d
    BY <1>1, <2>1
  <2> QED BY <2>2 DEF CapTarget, m, d
<1> HIDE DEF d
<1>4. ClampPowerLimit(CapTarget(g.policy)) \in MinLimit..d
  BY <1>1, <1>3 DEF ClampPowerLimit
<1> QED BY <1>3, <1>4 DEF d

\* One write: it is made, refused, or made and reported failed.
LEMMA WriteDoes ==
  ASSUME NEW x \in Powers, NEW limit \in MinLimit..DefaultLimit, NEW o \in Write(x, limit)
  PROVE  /\ o \in PowerOutcome
         /\ o.power.faults >= x.faults
         /\ o.ok => o.power.limit = limit
         /\ ~o.ok => /\ o.power.faults >= x.faults + 1
                     /\ \/ o.power.limit = x.limit /\ o.power.unheard = x.unheard
                        \/ o.power.limit = limit /\ o.power.unheard = TRUE
<1>1. o.power.faults <= MaxFaults
  BY DEF Write
<1>2. \/ o = [ok |-> TRUE, power |-> [limit |-> limit, faults |-> x.faults, unheard |-> FALSE]]
      \/ o = [ok |-> FALSE, power |-> [limit |-> x.limit, faults |-> x.faults + 1,
                                       unheard |-> x.unheard]]
      \/ o = [ok |-> FALSE, power |-> [limit |-> limit, faults |-> x.faults + 1,
                                       unheard |-> TRUE]]
  BY DEF Write, PowerResult
<1>3. x.faults \in Nat /\ x.limit \in MinLimit..DefaultLimit /\ x.unheard \in BOOLEAN
  BY DEF Powers
<1>4. CASE o = [ok |-> TRUE, power |-> [limit |-> limit, faults |-> x.faults, unheard |-> FALSE]]
  BY <1>1, <1>3, <1>4 DEF Powers, PowerOutcome
<1>5. CASE o = [ok |-> FALSE, power |-> [limit |-> x.limit, faults |-> x.faults + 1,
                                         unheard |-> x.unheard]]
  BY <1>1, <1>3, <1>5 DEF Powers, PowerOutcome
<1>6. CASE o = [ok |-> FALSE, power |-> [limit |-> limit, faults |-> x.faults + 1,
                                         unheard |-> TRUE]]
  BY <1>1, <1>3, <1>6 DEF Powers, PowerOutcome
<1> QED BY <1>2, <1>4, <1>5, <1>6

\* apply_cap, apply_lift and restore, through one write: what holds of the record
\* and the limit afterwards.  A cap that is in force was there before, and then
\* whoever was armed still is, or this process is armed now.
CapDone(c, x, o) ==
  /\ o \in CapOutcome
  /\ o.power.faults >= x.faults
  /\ o.power.limit < DefaultLimit =>
       o.cap.armed \/ (o.power.limit = x.limit /\ (c.armed => o.cap.armed))
  /\ Tallies(c, x) => Tallies(o.cap, o.power)

LEMMA KeptDoes ==
  ASSUME NEW x \in Powers, NEW c \in Caps, NEW o \in Kept(c, x)
  PROVE  CapDone(c, x, o) /\ o.ok /\ o.power = x /\ o.cap = c
<1>1. o = [ok |-> TRUE, power |-> x, cap |-> c]
  BY DEF Kept
<1>2. x.faults >= x.faults
  BY DEF Powers
<1> QED BY <1>1, <1>2 DEF CapDone, CapOutcome

LEMMA ApplyCapDoes ==
  ASSUME NEW x \in Powers, NEW c \in Caps, NEW g \in Grids,
         NEW o \in ApplyCap(c, x, CapTarget(g.policy))
  PROVE  CapDone(c, x, o)
<1> DEFINE target == CapTarget(g.policy)
           limit == ClampPowerLimit(target)
<1>0. target \in 0..DefaultLimit /\ limit \in MinLimit..DefaultLimit
  BY TargetInRange
<1> HIDE DEF limit, target
<1>1. CASE c.requested = target
  BY <1>1, KeptDoes DEF ApplyCap, target
<1>2. CASE c.requested # target
  <2>1. PICK w \in Write(x, limit) :
          o = With(w, IF w.ok THEN [capped |-> TRUE, requested |-> target,
                                    actual |-> w.power.limit, armed |-> TRUE]
                      ELSE [c EXCEPT !.armed = TRUE])
    BY <1>2 DEF ApplyCap, SetPowerLimit, limit, target
  <2>2. /\ w \in PowerOutcome
        /\ w.power.faults >= x.faults
        /\ w.ok => w.power.limit = limit
        /\ ~w.ok => \/ w.power.limit = x.limit /\ w.power.unheard = x.unheard
                    \/ w.power.limit = limit /\ w.power.unheard = TRUE
    BY <1>0, WriteDoes
  <2>3. w.power \in Powers /\ w.ok \in BOOLEAN /\ w.power.limit \in MinLimit..MaxLimit
    BY <2>2 DEF PowerOutcome, Powers
  <2>4. CASE w.ok
    <3>1. o = [ok |-> w.ok, power |-> w.power,
               cap |-> [capped |-> TRUE, requested |-> target,
                        actual |-> w.power.limit, armed |-> TRUE]]
      BY <2>1, <2>4 DEF With
    <3> QED BY <1>0, <2>2, <2>3, <3>1 DEF CapDone, CapOutcome, Caps, Tallies
  <2>5. CASE ~w.ok
    <3>1. o = [ok |-> w.ok, power |-> w.power, cap |-> [c EXCEPT !.armed = TRUE]]
      BY <2>1, <2>5 DEF With
    <3> QED BY <2>2, <2>3, <2>5, <3>1 DEF CapDone, CapOutcome, Caps, Tallies
  <2> QED BY <2>4, <2>5
<1> QED BY <1>1, <1>2

\* A restore of the default, successful or not.
LEMMA RestorePowerDoes ==
  ASSUME NEW x \in Powers, NEW c \in Caps, NEW w \in RestorePower(x),
         NEW o, o = With(w, IF w.ok THEN Clean ELSE c)
  PROVE  /\ CapDone(c, x, o)
         /\ o.power.limit < DefaultLimit =>
              /\ o.power.limit = x.limit /\ o.cap = c
              /\ o.power.faults >= x.faults + 1
<1>0. DefaultLimit \in MinLimit..DefaultLimit
  OBVIOUS
<1>1. /\ w \in PowerOutcome
      /\ w.power.faults >= x.faults
      /\ w.ok => w.power.limit = DefaultLimit
      /\ ~w.ok => /\ w.power.faults >= x.faults + 1
                  /\ \/ w.power.limit = x.limit /\ w.power.unheard = x.unheard
                     \/ w.power.limit = DefaultLimit /\ w.power.unheard = TRUE
  BY <1>0, WriteDoes DEF RestorePower
<1>2. w.power \in Powers /\ w.ok \in BOOLEAN /\ w.power.limit \in MinLimit..MaxLimit
  BY <1>1 DEF PowerOutcome, Powers
<1>3. CASE w.ok
  <2>1. o = [ok |-> w.ok, power |-> w.power, cap |-> Clean]
    BY <1>3 DEF With
  <2>2. Clean \in Caps
    BY DEF Clean, Caps, None
  <2>3. o \in CapOutcome /\ o.power = w.power /\ o.cap = Clean
    BY <1>2, <2>1, <2>2 DEF CapOutcome
  <2>4. ~(o.power.limit < DefaultLimit) /\ o.power.limit = DefaultLimit
    BY <1>1, <1>3, <2>3
  <2>5. Tallies(o.cap, o.power)
    BY <2>3, <2>4 DEF Tallies, Clean
  <2> QED BY <1>1, <2>3, <2>4, <2>5 DEF CapDone
<1>4. CASE ~w.ok
  <2>1. o = [ok |-> w.ok, power |-> w.power, cap |-> c]
    BY <1>4 DEF With
  <2> QED BY <1>1, <1>2, <1>4, <2>1 DEF CapDone, CapOutcome, Tallies
<1> QED BY <1>3, <1>4

LEMMA ApplyLiftDoes ==
  ASSUME NEW x \in Powers, NEW c \in Caps, NEW o \in ApplyLift(c, x)
  PROVE  CapDone(c, x, o)
<1>1. CASE ~c.capped
  BY <1>1, KeptDoes DEF ApplyLift
<1>2. CASE c.capped
  <2>1. PICK w \in RestorePower(x) : o = With(w, IF w.ok THEN Clean ELSE c)
    BY <1>2 DEF ApplyLift
  <2> QED BY <2>1, RestorePowerDoes
<1> QED BY <1>1, <1>2

\* Device::restore and the drop: whoever is armed lifts the cap, or it has cost a
\* fault and they are armed still.
LEMMA RestoredDoes ==
  ASSUME NEW x \in Powers, NEW c \in Caps, NEW o \in Restored(c, x)
  PROVE  /\ CapDone(c, x, o)
         /\ ~c.armed => o.power = x /\ o.cap = c
         /\ c.armed /\ o.power.limit < DefaultLimit =>
              /\ o.power.limit = x.limit /\ o.cap.armed
              /\ o.power.faults >= x.faults + 1
<1>1. CASE ~c.armed
  BY <1>1, KeptDoes DEF Restored
<1>2. CASE c.armed
  <2>1. PICK w \in RestorePower(x) : o = With(w, IF w.ok THEN Clean ELSE c)
    BY <1>2 DEF Restored
  <2> QED BY <1>2, <2>1, RestorePowerDoes
<1> QED BY <1>1, <1>2

\* One apply.
LEMMA CapTickDoes ==
  ASSUME power \in Powers, grid \in Grids, NEW c \in Caps, NEW o \in CapTick(c, power)
  PROVE  CapDone(c, power, o)
<1> DEFINE Tried == IF Decision = "cap" THEN ApplyCap(c, power, CapTarget(grid.policy))
                    ELSE ApplyLift(c, power)
<1>1. ASSUME NEW t \in Tried PROVE CapDone(c, power, t)
  BY <1>1, ApplyCapDoes, ApplyLiftDoes
<1> HIDE DEF Tried
<1>2. \/ o \in Tried
      \/ \E t \in Tried : \E r \in Restored(t.cap, t.power) : o = [r EXCEPT !.ok = FALSE]
  BY DEF CapTick, Tried
<1>3. ASSUME NEW t \in Tried, NEW r \in Restored(t.cap, t.power), o = [r EXCEPT !.ok = FALSE]
      PROVE  CapDone(c, power, o)
  <2>1. CapDone(c, power, t) /\ t.cap \in Caps /\ t.power \in Powers
    BY <1>1 DEF CapDone, CapOutcome
  <2>2. /\ CapDone(t.cap, t.power, r)
        /\ ~t.cap.armed => r.power = t.power /\ r.cap = t.cap
        /\ t.cap.armed /\ r.power.limit < DefaultLimit => r.cap.armed
    BY <2>1, RestoredDoes
  <2>3. o.power = r.power /\ o.cap = r.cap /\ o \in CapOutcome
    BY <1>3, <2>2 DEF CapDone, CapOutcome
  <2>4. power.faults \in Nat /\ t.power.faults \in Nat /\ r.power.faults \in Nat
    BY <2>1, <2>3 DEF Powers, CapOutcome
  <2> QED BY <2>1, <2>2, <2>3, <2>4 DEF CapDone
<1> QED BY <1>1, <1>2, <1>3

\* A GPU that is opened: a controller takes over the cap it finds.
LEMMA AdoptedDoes ==
  ASSUME NEW x \in Powers
  PROVE  /\ Adopted("control", x) \in Caps /\ Tallies(Adopted("control", x), x)
         /\ x.limit < DefaultLimit => Adopted("control", x).armed
         /\ Adopted("observe", x) \in Caps /\ ~Adopted("observe", x).armed
<1> DEFINE c == x.limit < DefaultLimit
           mine(mode) == c /\ mode = "control"
<1>1. x.limit \in MinLimit..DefaultLimit /\ (~c => x.limit = DefaultLimit)
  BY DEF Powers
<1>2. ASSUME NEW mode
      PROVE  /\ Adopted(mode, x) =
                  [capped |-> c, armed |-> mine(mode),
                   requested |-> IF mine(mode) THEN x.limit ELSE None,
                   actual |-> IF mine(mode) THEN x.limit ELSE None]
             /\ c \in BOOLEAN /\ mine(mode) \in BOOLEAN
  <2>1. c \in BOOLEAN /\ mine(mode) \in BOOLEAN
    OBVIOUS
  <2>2. Adopted(mode, x) =
          [capped |-> c, armed |-> mine(mode),
           requested |-> IF mine(mode) THEN x.limit ELSE None,
           actual |-> IF mine(mode) THEN x.limit ELSE None]
    BY DEF Adopted
  <2> QED BY <2>1, <2>2
<1>3. (mine("control") <=> c) /\ ~mine("observe")
  OBVIOUS
<1> HIDE DEF c, mine
<1>4. ASSUME NEW mode, mode = "control" \/ mode = "observe"
      PROVE  Adopted(mode, x) \in Caps /\ (Adopted(mode, x).armed <=> mine(mode))
  BY <1>1, <1>2 DEF Caps
<1>5. Tallies(Adopted("control", x), x)
  BY <1>1, <1>2, <1>3 DEF Tallies
<1> QED BY <1>3, <1>4, <1>5 DEF c

-----------------------------------------------------------------------------
(* The power limit: every step.                                                *)

CapPcs == {"gone", "serving", "inflight", "leaving", "drop"}
Saids == {"nothing", "claimed", "released", "error"}

\* The types, said of the parts.
LEMMA CapTypes ==
  ASSUME power \in Powers, cap \in [Proc -> Caps], grid \in Grids, capPc \in [Proc -> CapPcs],
         capSaid \in [Proc -> Saids], beat \in BOOLEAN
  PROVE  CapTypeOK
<1>1. power.limit \in MinLimit..MaxLimit /\ power.faults \in 0..MaxFaults /\ power.unheard \in BOOLEAN
  BY DEF Powers
<1>2. ASSUME NEW p \in Proc
      PROVE  /\ cap[p].capped \in BOOLEAN /\ cap[p].armed \in BOOLEAN
             /\ cap[p].requested \in {None} \cup 0..MaxLimit
             /\ cap[p].actual \in {None} \cup MinLimit..MaxLimit
  BY DEF Caps
<1> QED BY <1>1, <1>2 DEF CapTypeOK, CapPcs, Saids

LEMMA CapInvInit == Init => CapInv
<1> SUFFICES ASSUME Init PROVE CapInv
  OBVIOUS
<1>1. /\ power = [limit |-> DefaultLimit, faults |-> 0, unheard |-> FALSE]
      /\ cap = [p \in Proc |-> Clean] /\ grid \in Grids /\ capPc = [p \in Proc |-> "gone"]
      /\ capSaid = [p \in Proc |-> "nothing"] /\ beat = FALSE /\ svc = "up"
  BY DEF Init, CapInit
<1>2. Clean \in Caps
  BY DEF Clean, Caps, None
<1>3. /\ power \in Powers /\ power.limit = DefaultLimit /\ cap \in [Proc -> Caps]
      /\ capPc \in [Proc -> CapPcs] /\ capSaid \in [Proc -> Saids] /\ beat \in BOOLEAN
  <2>1. power \in Powers /\ power.limit = DefaultLimit
    BY <1>1 DEF Powers
  <2>2. cap \in [Proc -> Caps]
    BY <1>1, <1>2
  <2> QED BY <1>1, <2>1, <2>2 DEF CapPcs, Saids
<1>4. CapOwed
  BY <1>3 DEF CapOwed
<1> QED BY <1>1, <1>3, <1>4, CapTypes DEF CapInv

\* What is known before a step.
LEMMA CapKnown ==
  ASSUME CapInv
  PROVE  /\ power \in Powers /\ power.faults \in Nat /\ cap \in [Proc -> Caps] /\ grid \in Grids
         /\ capPc \in [Proc -> CapPcs] /\ capSaid \in [Proc -> Saids] /\ beat \in BOOLEAN
         /\ svc \in {"up", "stopping", "down"}
         /\ svc = "down" => \A p \in Proc : capPc[p] = "gone"
BY DEF CapInv, CapTypeOK, Powers, CapPcs, Saids

LEMMA Spent ==
  ASSUME NEW x \in Powers, NEW n \in Nat, x.faults + n <= MaxFaults
  PROVE  LET y == [x EXCEPT !.faults = @ + n]
         IN  y \in Powers /\ y.faults = x.faults + n /\ y.limit = x.limit
<1>1. x.faults \in Nat /\ x.faults + n \in 0..MaxFaults
  BY DEF Powers
<1>2. x = [limit |-> x.limit, faults |-> x.faults, unheard |-> x.unheard]
  BY DEF Powers
<1>3. [x EXCEPT !.faults = @ + n] =
        [limit |-> x.limit, faults |-> x.faults + n, unheard |-> x.unheard]
  BY <1>2
<1> QED BY <1>1, <1>3 DEF Powers

\* One process steps, while the service is not down.
LEMMA OneProcess ==
  ASSUME CapInv, NEW p \in Proc, NEW l \in CapPcs, NEW c \in Caps, NEW said \in Saids,
         power' \in Powers, power'.faults >= power.faults,
         capPc' = [capPc EXCEPT ![p] = l], cap' = [cap EXCEPT ![p] = c],
         capSaid' = [capSaid EXCEPT ![p] = said], beat' \in BOOLEAN,
         grid' = grid, svc' = svc, svc # "down",
         power'.limit < DefaultLimit =>
           \/ power'.faults >= 2
           \/ c.armed /\ l \in {"serving", "inflight", "leaving"}
           \/ c.armed /\ l = "drop" /\ power'.faults >= 1
           \/ power.limit < DefaultLimit /\ ~HoldsCap(p)
  PROVE  CapInv'
<1>1. /\ capPc' \in [Proc -> CapPcs] /\ cap' \in [Proc -> Caps] /\ capSaid' \in [Proc -> Saids]
      /\ capPc'[p] = l /\ cap'[p] = c
      /\ \A q \in Proc : q # p => capPc'[q] = capPc[q] /\ cap'[q] = cap[q]
  BY CapKnown
<1>2. CapTypeOK'
  <2>1. grid' \in Grids
    BY CapKnown
  <2> QED BY <1>1, <2>1 DEF CapTypeOK, Powers, Caps, CapPcs, Saids
<1>3. CapOwed'
  <2> SUFFICES ASSUME power'.limit < DefaultLimit, ~(power'.faults >= 2)
               PROVE  \E q \in Proc : HoldsCap(q)'
    BY DEF CapOwed
  <2>1. power.faults \in Nat /\ power'.faults \in Nat
    BY DEF CapInv, Powers
  <2>2. CASE c.armed /\ (l \in {"serving", "inflight", "leaving"} \/ (l = "drop" /\ power'.faults >= 1))
    <3>1. HoldsCap(p)'
      BY <1>1, <2>2 DEF HoldsCap
    <3> QED BY <3>1
  <2>3. CASE power.limit < DefaultLimit /\ ~HoldsCap(p)
    <3>1. PICK q \in Proc : HoldsCap(q)
      BY <2>1, <2>3 DEF CapInv, CapOwed
    <3>2. HoldsCap(q)'
      BY <1>1, <2>1, <2>3, <3>1 DEF HoldsCap
    <3> QED BY <3>2
  <2> QED BY <2>2, <2>3
<1> QED BY <1>1, <1>2, <1>3, CapKnown DEF CapInv

LEMMA CapLivesKeeps ==
  ASSUME CapInv, NEW p \in Proc, CapLives(p), svc' = svc PROVE CapInv'
<1>1. /\ power \in Powers /\ power.faults \in Nat /\ cap \in [Proc -> Caps] /\ grid \in Grids
      /\ capPc \in [Proc -> CapPcs] /\ capSaid \in [Proc -> Saids] /\ beat \in BOOLEAN
      /\ cap[p] \in Caps /\ capSaid[p] \in Saids
      /\ svc = "down" => \A q \in Proc : capPc[q] = "gone"
  BY CapKnown
<1>2. cap = [cap EXCEPT ![p] = cap[p]] /\ capSaid = [capSaid EXCEPT ![p] = capSaid[p]]
  BY <1>1
<1>3. power.faults >= power.faults
  BY <1>1
<1>4. CASE CapStart(p)
  <2> DEFINE c == Adopted("control", power)
  <2>1. c \in Caps /\ (power.limit < DefaultLimit => c.armed)
    BY <1>1, AdoptedDoes
  <2> HIDE DEF c
  <2>2. /\ svc = "up" /\ capPc' = [capPc EXCEPT ![p] = "serving"] /\ cap' = [cap EXCEPT ![p] = c]
        /\ capSaid' = [capSaid EXCEPT ![p] = "nothing"] /\ UNCHANGED <<power, grid, beat>>
    BY <1>4 DEF CapStart, Moves, c
  <2>3. "serving" \in CapPcs /\ "nothing" \in Saids
    BY DEF CapPcs, Saids
  <2> QED BY <1>1, <1>3, <2>1, <2>2, <2>3, OneProcess
<1>5. CASE CapApply(p)
  <2>1. PICK o \in CapTick(cap[p], power) :
          /\ power' = o.power /\ cap' = [cap EXCEPT ![p] = o.cap]
          /\ capSaid' = [capSaid EXCEPT ![p] = IF ~o.ok THEN "error"
                                               ELSE IF o.cap.capped THEN "claimed" ELSE "released"]
    BY <1>5 DEF CapApply, Takes
  <2>2. CapDone(cap[p], power, o)
    BY <1>1, CapTickDoes
  <2>3. PICK said \in Saids : capSaid' = [capSaid EXCEPT ![p] = said]
    BY <2>1 DEF Saids
  <2>4. PICK l \in {"leaving", "serving"} : capPc' = [capPc EXCEPT ![p] = l]
    BY <1>5 DEF CapApply, Moves
  <2>5. capPc[p] \in {"serving", "inflight"} /\ grid' = grid
    BY <1>5 DEF CapApply
  <2>6. beat' \in BOOLEAN
    BY <1>5, Zenon DEF CapApply
  <2>7. /\ o.cap \in Caps /\ o.power \in Powers /\ o.power.faults >= power.faults
        /\ o.power.limit < DefaultLimit =>
             o.cap.armed \/ (power.limit < DefaultLimit /\ ~HoldsCap(p))
    <3>1. o.cap \in Caps /\ o.power \in Powers
      BY <2>2 DEF CapDone, CapOutcome
    <3>2. /\ o.power.faults >= power.faults
          /\ o.power.limit < DefaultLimit =>
               o.cap.armed \/ (o.power.limit = power.limit /\ (cap[p].armed => o.cap.armed))
      BY <2>2 DEF CapDone
    <3>3. ~cap[p].armed => ~HoldsCap(p)
      BY DEF HoldsCap
    <3> QED BY <3>1, <3>2, <3>3
  <2>8. l \in CapPcs /\ svc # "down"
    BY <1>1, <2>5 DEF CapPcs
  <2>9. /\ power' \in Powers /\ power'.faults >= power.faults /\ svc' = svc
        /\ power'.limit < DefaultLimit =>
             \/ o.cap.armed /\ l \in {"serving", "inflight", "leaving"}
             \/ power.limit < DefaultLimit /\ ~HoldsCap(p)
    BY <2>1, <2>7
  <2>10. cap' = [cap EXCEPT ![p] = o.cap] /\ o.cap \in Caps
    BY <2>1, <2>7
  <2> QED BY <2>3, <2>4, <2>5, <2>6, <2>8, <2>9, <2>10, OneProcess
<1>6. CASE CapDismiss(p)
  <2>1. PICK l \in {"inflight", "leaving"} : capPc' = [capPc EXCEPT ![p] = l]
    BY <1>6 DEF CapDismiss, Moves
  <2>2. capPc[p] = "serving" /\ UNCHANGED <<power, grid, cap, capSaid, beat>>
    BY <1>6 DEF CapDismiss
  <2>3. l \in CapPcs /\ svc # "down" /\ (~cap[p].armed => ~HoldsCap(p))
    BY <1>1, <2>2 DEF CapPcs, HoldsCap
  <2>4. power'.limit < DefaultLimit =>
          cap[p].armed \/ (power.limit < DefaultLimit /\ ~HoldsCap(p))
    BY <2>2, <2>3
  <2>5. cap' = [cap EXCEPT ![p] = cap[p]] /\ capSaid' = [capSaid EXCEPT ![p] = capSaid[p]]
    BY <1>2, <2>2
  <2>6. power' \in Powers /\ power'.faults >= power.faults
    BY <1>1, <1>3, <2>2
  <2>7. beat' \in BOOLEAN /\ grid' = grid
    BY <1>1, <2>2
  <2>8. /\ cap[p] \in Caps /\ capSaid[p] \in Saids /\ svc # "down" /\ l \in CapPcs
        /\ power'.limit < DefaultLimit =>
             \/ cap[p].armed /\ l \in {"serving", "inflight", "leaving"}
             \/ power.limit < DefaultLimit /\ ~HoldsCap(p)
    BY <1>1, <2>1, <2>3, <2>4
  <2> QED BY <2>1, <2>5, <2>6, <2>7, <2>8, OneProcess
<1>7. CASE CapLeave(p)
  <2>1. PICK o \in Restored(cap[p], power) : power' = o.power /\ cap' = [cap EXCEPT ![p] = o.cap]
    BY <1>7 DEF CapLeave, Takes
  <2>2. /\ CapDone(cap[p], power, o)
        /\ ~cap[p].armed => o.power = power /\ o.cap = cap[p]
        /\ cap[p].armed /\ o.power.limit < DefaultLimit =>
             o.power.limit = power.limit /\ o.cap.armed /\ o.power.faults >= power.faults + 1
    BY <1>1, RestoredDoes
  <2>3. /\ capPc[p] = "leaving" /\ capPc' = [capPc EXCEPT ![p] = "drop"]
        /\ UNCHANGED <<grid, capSaid, beat>>
    BY <1>7 DEF CapLeave, Moves
  <2>4. "drop" \in CapPcs /\ svc # "down" /\ (~cap[p].armed => ~HoldsCap(p))
    BY <1>1, <2>3 DEF CapPcs, HoldsCap
  <2>5. o.cap \in Caps /\ o.power \in Powers /\ o.power.faults >= power.faults /\ o.power.faults \in Nat
    BY <2>2 DEF CapDone, CapOutcome, Powers
  <2>6. power'.limit < DefaultLimit =>
          \/ o.cap.armed /\ power'.faults >= 1
          \/ power.limit < DefaultLimit /\ ~HoldsCap(p)
    BY <1>1, <2>1, <2>2, <2>4, <2>5
  <2> QED BY <1>1, <1>2, <2>1, <2>3, <2>4, <2>5, <2>6, OneProcess
<1>8. CASE CapPanic(p)
  <2>1. /\ capPc[p] \in {"serving", "inflight"} /\ power.faults < MaxFaults
        /\ power' = [power EXCEPT !.faults = @ + 1] /\ capPc' = [capPc EXCEPT ![p] = "drop"]
        /\ UNCHANGED <<grid, cap, capSaid, beat>>
    BY <1>8 DEF CapPanic, Moves
  <2>2. power.faults + 1 <= MaxFaults
    BY <1>1, <2>1 DEF Powers
  <2>3. power' \in Powers /\ power'.faults = power.faults + 1 /\ power'.limit = power.limit
    BY <1>1, <2>1, <2>2, Spent
  <2>4. power'.faults >= 1 /\ power'.faults >= power.faults
    BY <1>1, <2>3
  <2>5. "drop" \in CapPcs /\ svc # "down" /\ (~cap[p].armed => ~HoldsCap(p))
    BY <1>1, <2>1 DEF CapPcs, HoldsCap
  <2>6. power'.limit < DefaultLimit =>
          cap[p].armed \/ (power.limit < DefaultLimit /\ ~HoldsCap(p))
    BY <2>3, <2>5
  <2>7. cap' = [cap EXCEPT ![p] = cap[p]] /\ capSaid' = [capSaid EXCEPT ![p] = capSaid[p]]
    BY <1>2, <2>1
  <2>8. beat' \in BOOLEAN /\ grid' = grid
    BY <1>1, <2>1
  <2>9. /\ cap[p] \in Caps /\ capSaid[p] \in Saids /\ svc # "down" /\ "drop" \in CapPcs
        /\ power' \in Powers /\ power'.faults >= power.faults
        /\ capPc' = [capPc EXCEPT ![p] = "drop"]
        /\ power'.limit < DefaultLimit =>
             \/ cap[p].armed /\ "drop" = "drop" /\ power'.faults >= 1
             \/ power.limit < DefaultLimit /\ ~HoldsCap(p)
    BY <1>1, <2>1, <2>3, <2>4, <2>5, <2>6
  <2> QED BY <2>7, <2>8, <2>9, OneProcess
<1>9. CASE CapKill(p)
  <2>1. /\ capPc[p] # "gone" /\ power.faults + 2 <= MaxFaults
        /\ power' = [power EXCEPT !.faults = @ + 2] /\ capPc' = [capPc EXCEPT ![p] = "gone"]
        /\ cap' = [cap EXCEPT ![p] = Clean] /\ capSaid' = [capSaid EXCEPT ![p] = "nothing"]
        /\ UNCHANGED <<grid, beat>>
    BY <1>9 DEF CapKill, Ended, Moves
  <2>2. power' \in Powers /\ power'.faults = power.faults + 2
    BY <1>1, <2>1, Spent
  <2>3. power'.faults >= 2 /\ power'.faults >= power.faults
    BY <1>1, <2>2
  <2>4. "gone" \in CapPcs /\ "nothing" \in Saids /\ svc # "down"
    BY <1>1, <2>1 DEF CapPcs, Saids
  <2>5. Clean \in Caps
    BY DEF Clean, Caps, None
  <2> QED BY <1>1, <2>1, <2>2, <2>3, <2>4, <2>5, OneProcess
<1> QED BY <1>4, <1>5, <1>6, <1>7, <1>8, <1>9 DEF CapLives

LEMMA CapDropKeeps ==
  ASSUME CapInv, NEW p \in Proc, CapDrop(p), svc' = svc PROVE CapInv'
<1>1. /\ power \in Powers /\ power.faults \in Nat /\ cap[p] \in Caps /\ beat \in BOOLEAN
      /\ svc = "down" => \A q \in Proc : capPc[q] = "gone"
  BY CapKnown
<1>2. PICK o \in Restored(cap[p], power) : power' = o.power
  BY DEF CapDrop
<1>3. /\ CapDone(cap[p], power, o)
      /\ ~cap[p].armed => o.power = power /\ o.cap = cap[p]
      /\ cap[p].armed /\ o.power.limit < DefaultLimit =>
           o.power.limit = power.limit /\ o.power.faults >= power.faults + 1
  BY <1>1, RestoredDoes
<1>4. /\ capPc[p] = "drop" /\ capPc' = [capPc EXCEPT ![p] = "gone"]
      /\ cap' = [cap EXCEPT ![p] = Clean] /\ capSaid' = [capSaid EXCEPT ![p] = "nothing"]
      /\ UNCHANGED <<grid, beat>>
  BY DEF CapDrop, Ended, Moves
<1>5. o.power \in Powers /\ o.power.faults >= power.faults /\ o.power.faults \in Nat
  BY <1>3 DEF CapDone, CapOutcome, Powers
<1>6. power'.limit < DefaultLimit =>
        power'.faults >= 2 \/ (power.limit < DefaultLimit /\ ~HoldsCap(p))
  BY <1>1, <1>2, <1>3, <1>4, <1>5 DEF HoldsCap
<1>7. "gone" \in CapPcs /\ "nothing" \in Saids /\ svc # "down"
  BY <1>1, <1>4 DEF CapPcs, Saids
<1>8. Clean \in Caps
  BY DEF Clean, Caps, None
<1> QED BY <1>1, <1>2, <1>4, <1>5, <1>6, <1>7, <1>8, OneProcess

LEMMA ObserveKeeps ==
  ASSUME CapInv, Observe PROVE UNCHANGED <<power, grid, capPc, cap, capSaid, beat>>
<1>1. PICK o \in Restored(Adopted("observe", power), power) : power' = o.power
  BY DEF Observe
<1>2. o.power = power
  BY CapKnown, AdoptedDoes, RestoredDoes
<1> QED BY <1>1, <1>2 DEF Observe, capProcess

LEMMA CapInvStep == CapInv /\ [Next]_vars => CapInv'
<1> SUFFICES ASSUME CapInv, [Next]_vars PROVE CapInv'
  OBVIOUS
<1>1. /\ power \in Powers /\ power.faults \in Nat /\ cap \in [Proc -> Caps] /\ grid \in Grids
      /\ capPc \in [Proc -> CapPcs] /\ capSaid \in [Proc -> Saids] /\ beat \in BOOLEAN
      /\ svc \in {"up", "stopping", "down"}
      /\ svc = "down" => \A p \in Proc : capPc[p] = "gone"
  BY CapKnown
<1>2. ASSUME UNCHANGED <<power, capPc, cap, capSaid, beat, svc>>, grid' \in Grids PROVE CapInv'
  BY <1>2 DEF CapInv, CapTypeOK, CapOwed, HoldsCap
<1>3. CASE FanStep /\ UNCHANGED <<svc, capVars>>
  BY <1>1, <1>2, <1>3 DEF capVars, capProcess
<1>4. ASSUME NEW p \in Proc, CapLives(p) /\ UNCHANGED <<svc, fanVars>> PROVE CapInv'
  BY <1>4, CapLivesKeeps
<1>5. ASSUME NEW p \in Proc, CapDies(p) /\ UNCHANGED svc PROVE CapInv'
  BY <1>5, CapDropKeeps DEF CapDies
<1>6. CASE Looks /\ UNCHANGED svc
  BY <1>1, <1>2, <1>6, ObserveKeeps DEF Looks
<1>7. CASE GridChange /\ UNCHANGED <<svc, fanVars>>
  BY <1>1, <1>2, <1>7 DEF GridChange, capProcess
<1>8. CASE Stop
  <2>1. /\ svc = "up" /\ svc' = "stopping" /\ UNCHANGED <<power, grid, cap, capSaid, beat>>
        /\ capPc' \in [Proc -> {"gone", "inflight", "leaving", "drop"}]
        /\ \A p \in Proc : capPc'[p] \in Ending(capPc[p])
    BY <1>8 DEF Stop
  <2>2. \A p \in Proc : HoldsCap(p) => HoldsCap(p)'
    BY <2>1 DEF HoldsCap, Ending
  <2>3. CapTypeOK'
    BY <1>1, <2>1 DEF CapInv, CapTypeOK
  <2>4. CapOwed'
    BY <2>1, <2>2 DEF CapInv, CapOwed
  <2> QED BY <1>1, <2>1, <2>3, <2>4 DEF CapInv
<1>9. CASE OneShot
  <2>1. PICK o \in RestorePower(power) : power' = o.power
    BY <1>9 DEF OneShot, CapOneShot
  <2>2. /\ \A p \in Proc : capPc[p] = "gone"
        /\ svc' = "down" /\ svc = "stopping"
        /\ UNCHANGED <<grid, capPc, cap, capSaid, beat>>
    BY <1>9 DEF OneShot, NobodyLives, CapOneShot, capProcess
  <2>3. DefaultLimit \in MinLimit..DefaultLimit
    OBVIOUS
  <2>4. /\ o \in PowerOutcome
        /\ o.power.faults >= power.faults
        /\ o.power.limit < DefaultLimit =>
             o.power.limit = power.limit /\ o.power.faults >= power.faults + 1
    <3> DEFINE limit == DefaultLimit
    <3>1. o \in Write(power, limit) /\ limit \in MinLimit..DefaultLimit
      BY <2>3 DEF RestorePower
    <3> HIDE DEF limit
    <3>2. /\ o \in PowerOutcome
          /\ o.power.faults >= power.faults
          /\ o.ok => o.power.limit = limit
          /\ ~o.ok => /\ o.power.faults >= power.faults + 1
                      /\ \/ o.power.limit = power.limit /\ o.power.unheard = power.unheard
                         \/ o.power.limit = limit /\ o.power.unheard = TRUE
      BY <1>1, <3>1, WriteDoes
    <3> QED BY <3>2 DEF limit
  <2>5. o.power \in Powers /\ o.power.faults \in Nat
    BY <2>4 DEF PowerOutcome, Powers
  <2>6. power.limit < DefaultLimit => power.faults >= 2
    BY <2>2 DEF CapInv, CapOwed, HoldsCap
  <2>7. CapOwed'
    BY <1>1, <2>1, <2>4, <2>5, <2>6 DEF CapOwed
  <2>8. CapTypeOK'
    BY <1>1, <2>1, <2>2, <2>5 DEF CapInv, CapTypeOK, Powers
  <2> QED BY <1>1, <2>1, <2>2, <2>5, <2>7, <2>8 DEF CapInv
<1>10. CASE Restart
  <2>1. svc' = "up" /\ UNCHANGED <<power, grid, capPc, cap, capSaid, beat>>
    BY <1>10 DEF Restart, capVars, capProcess
  <2> QED BY <2>1 DEF CapInv, CapTypeOK, CapOwed, HoldsCap
<1>11. CASE UNCHANGED vars
  BY <1>1, <1>2, <1>11 DEF vars, capProcess
<1> QED BY <1>3, <1>4, <1>5, <1>6, <1>7, <1>8, <1>9, <1>10, <1>11 DEF Next

-----------------------------------------------------------------------------
(* The record of a process that nobody else writes behind its back.            *)

SinkInv == \A p \in Proc : RecordTrue(p)

LEMMA SinkInit == Init => SinkInv
  BY DEF Init, CapInit, SinkInv, RecordTrue

\* With one process at a time, its record and its report stay true.
LEMMA SinkStep ==
  ASSUME MaxProc = 1 PROVE CapInv /\ SinkInv /\ [Next]_vars => SinkInv'
<1> SUFFICES ASSUME CapInv, SinkInv, [Next]_vars, NEW p \in Proc PROVE RecordTrue(p)'
  BY DEF SinkInv
<1>1. /\ power \in Powers /\ cap \in [Proc -> Caps] /\ grid \in Grids
      /\ capPc \in [Proc -> CapPcs] /\ capSaid \in [Proc -> Saids]
      /\ svc \in {"up", "stopping", "down"} /\ cap[p] \in Caps
      /\ svc = "down" => \A q \in Proc : capPc[q] = "gone"
  BY CapKnown
<1>2. RecordTrue(p)
  BY DEF SinkInv
<1>3. \A q \in Proc : q = p
  BY MaxProc = 1
<1>4. ASSUME UNCHANGED <<power, capPc, cap, capSaid>> PROVE RecordTrue(p)'
  BY <1>2, <1>4 DEF RecordTrue, Tallies
<1>5. ASSUME ~(capPc'[p] \in {"serving", "inflight"}) PROVE RecordTrue(p)'
  BY <1>5 DEF RecordTrue
<1>6. ASSUME CapLives(p) PROVE RecordTrue(p)'
  <2>1. CASE CapStart(p)
    <3>1. /\ cap'[p] = Adopted("control", power) /\ capSaid'[p] = "nothing" /\ power' = power
      BY <1>1, <2>1 DEF CapStart
    <3>2. Tallies(Adopted("control", power), power)
      BY <1>1, AdoptedDoes
    <3> QED BY <3>1, <3>2 DEF RecordTrue
  <2>2. CASE CapApply(p)
    <3>1. PICK o \in CapTick(cap[p], power) :
            /\ power' = o.power /\ cap' = [cap EXCEPT ![p] = o.cap]
            /\ capSaid' = [capSaid EXCEPT ![p] = IF ~o.ok THEN "error"
                                                 ELSE IF o.cap.capped THEN "claimed" ELSE "released"]
      BY <2>2 DEF CapApply, Takes
    <3>2. CapDone(cap[p], power, o)
      BY <1>1, CapTickDoes
    <3>3. Tallies(cap[p], power)
      BY <1>2, <2>2 DEF CapApply, RecordTrue
    <3>4. Tallies(o.cap, o.power)
      BY <3>2, <3>3 DEF CapDone
    <3>5. /\ cap'[p] = o.cap
          /\ capSaid'[p] = IF ~o.ok THEN "error" ELSE IF o.cap.capped THEN "claimed" ELSE "released"
      BY <1>1, <3>1
    <3> QED BY <3>1, <3>4, <3>5 DEF RecordTrue
  <2>3. CASE CapDismiss(p)
    <3>1. UNCHANGED <<power, cap, capSaid>> /\ capPc[p] = "serving"
      BY <2>3 DEF CapDismiss
    <3> QED BY <1>2, <3>1 DEF RecordTrue, Tallies
  <2>4. CASE CapLeave(p) \/ CapPanic(p) \/ CapKill(p)
    <3>1. capPc'[p] \in {"drop", "gone"}
      BY <1>1, <2>4 DEF CapLeave, CapPanic, CapKill, Ended, Moves
    <3> QED BY <1>5, <3>1
  <2> QED BY <1>6, <2>1, <2>2, <2>3, <2>4 DEF CapLives
<1>7. CASE \E q \in Proc : CapLives(q) /\ UNCHANGED <<svc, fanVars>>
  BY <1>3, <1>6, <1>7
<1>8. ASSUME NEW q \in Proc, CapDies(q) PROVE RecordTrue(p)'
  <2>1. capPc'[p] = "gone"
    BY <1>1, <1>3, <1>8 DEF CapDies, CapDrop, Ended, Moves
  <2> QED BY <1>5, <2>1
<1>9. CASE Looks /\ UNCHANGED svc
  BY <1>4, <1>9, ObserveKeeps DEF Looks
<1>10. CASE (FanStep /\ UNCHANGED <<svc, capVars>>) \/ (GridChange /\ UNCHANGED <<svc, fanVars>>)
            \/ Restart \/ UNCHANGED vars
  BY <1>4, <1>10 DEF capVars, capProcess, GridChange, Restart, vars
<1>11. CASE Stop
  <2>1. UNCHANGED <<power, cap, capSaid>> /\ capPc'[p] \in Ending(capPc[p])
    BY <1>11 DEF Stop
  <2> QED BY <1>2, <2>1 DEF RecordTrue, Tallies, Ending
<1>12. CASE OneShot
  <2>1. capPc'[p] = "gone"
    BY <1>12 DEF OneShot, NobodyLives, CapOneShot, capProcess
  <2> QED BY <1>5, <2>1
<1> QED BY <1>7, <1>8, <1>9, <1>10, <1>11, <1>12 DEF Next

-----------------------------------------------------------------------------
(* The theorems.                                                               *)

LEMMA FanAlways == Spec => []FanInv
<1> QED BY FanInvInit, FanInvStep, PTL DEF Spec

LEMMA CapAlways == Spec => []CapInv
<1> QED BY CapInvInit, CapInvStep, PTL DEF Spec

\* Every variable of both modules has its type, and no limit the GPU would refuse
\* is ever commanded, whatever percentage the policy names.
THEOREM NvidiaTypes == Spec => []TypeOK
<1>1. FanInv /\ CapInv => TypeOK
  BY DEF FanInv, CapInv, TypeOK
<1> QED BY <1>1, FanAlways, CapAlways, PTL

\* restore, Drop and the one-shot of nvidia/main.rs and nvml/lib.rs: fewer than
\* three faults never leave a fan at a fixed duty when the service is down.
THEOREM FansGoBack == Spec => []FansNotStranded
<1>1. FanInv => FansNotStranded
  BY DEF FanInv, FansOwed, FansNotStranded, AllAuto
<1> QED BY <1>1, FanAlways, PTL

\* apply of nvidia/main.rs with apply_or_restore of nvml/lib.rs: what the process
\* last reported of the fans is so.
THEOREM FanReportTrue == Spec => []FanSinkTrue
<1>1. FanInv => FanSinkTrue
  BY DEF FanInv
<1> QED BY <1>1, FanAlways, PTL

\* open, apply and restore of nvidia-powercap/main.rs: a cap is lifted by the time
\* the service is down, however many processes took it over from each other, unless
\* three faults came together.
THEOREM CapIsLifted == Spec => []PowerNotStranded
<1>1. CapInv => PowerNotStranded
  BY DEF CapInv, CapOwed, PowerNotStranded
<1> QED BY <1>1, CapAlways, PTL

\* apply_cap and apply_lift of nvidia-powercap/main.rs: the limit is what the last
\* report says, as long as one process at a time has the GPU.
THEOREM CapReportTrue == ASSUME MaxProc = 1 PROVE Spec => []PowerSinkTrue
<1>1. SinkInv => PowerSinkTrue
  BY DEF SinkInv, RecordTrue, Tallies, PowerSinkTrue
<1>2. CapInv /\ SinkInv /\ [Next]_vars => SinkInv'
  BY SinkStep
<1> QED BY <1>1, <1>2, SinkInit, CapAlways, PTL DEF Spec
===============================================================================
