------------------------------- MODULE GpuFans -------------------------------
(* The `nvidia run` process of one GPU (anemoi/nvidia/src/main.rs): all fans   *)
(* at the duty of the curve, or all under the firmware; and its way out.       *)
EXTENDS Nvml

VARIABLES
  fanPc,    \* the process: "gone", "serving", "inflight" (dismissed behind one
            \* more apply), "leaving" (its way out is next), "drop" (unwinding)
  fanSaid   \* its last report: "nothing", "claimed", "released", "error"

fanProcess == <<fanPc, fanSaid>>

FanInit ==
  /\ fans = [at |-> [f \in Fan |-> "auto"], faults |-> 0]
  /\ fanPc = "gone" /\ fanSaid = "nothing"

\* Gpu::open; a GPU that is not found leaves no process behind.
FanStart ==
  /\ svc = "up" /\ fanPc = "gone"
  /\ fanPc' = "serving" /\ fanSaid' = "nothing"
  /\ UNCHANGED fans

\* The GPU's temperature cannot be read: nothing to regulate by.
FanBlind == FanOutcomes({FanResult(FALSE, fans.at, fans.faults + 1)})

\* The duty is the controller's (see Curves): any one, or none for an empty curve.
\* Whatever fails, the fans are handed back and an error is reported.
FanTick(want) ==
  LET tried == FanBlind \cup SetAll(fans, want)
  IN {o \in tried : o.ok} \cup
     UNION {{[r EXCEPT !.ok = FALSE] : r \in RestoreFans(o.fans)} : o \in {t \in tried : ~t.ok}}

FanApply ==
  /\ fanPc \in {"serving", "inflight"}
  /\ \E want \in Duties \cup {"auto"} : \E o \in FanTick(want) :
       /\ fans' = o.fans
       /\ fanSaid' = IF ~o.ok THEN "error" ELSE IF want = "auto" THEN "released" ELSE "claimed"
  /\ fanPc' = IF fanPc = "inflight" THEN "leaving" ELSE fanPc

\* Where a process goes that is told to end: an apply may have been read before.
Ending(at) == IF at = "serving" THEN {"inflight", "leaving"} ELSE {at}

\* The unit vanished.
FanDismiss ==
  /\ fanPc = "serving"
  /\ fanPc' \in Ending(fanPc)
  /\ UNCHANGED <<fans, fanSaid>>

\* Device::restore, whatever was claimed.
FanLeave ==
  /\ fanPc = "leaving"
  /\ \E o \in RestoreFans(fans) : fans' = o.fans
  /\ fanPc' = "drop"
  /\ UNCHANGED fanSaid

\* A panic in apply unwinds to the drop of the device.
FanPanic ==
  /\ fanPc \in {"serving", "inflight"} /\ fans.faults < MaxFaults
  /\ fans' = [fans EXCEPT !.faults = @ + 1]
  /\ fanPc' = "drop"
  /\ UNCHANGED fanSaid

FanDrop ==
  /\ fanPc = "drop"
  /\ \E o \in Dropped("nvidia", fans) : fans' = o.fans
  /\ fanPc' = "gone" /\ fanSaid' = "nothing"

\* SIGKILL, perhaps in the middle of a set; it counts 2, as it takes both the
\* restore and the drop.
FanKill ==
  /\ fanPc # "gone" /\ fans.faults + 2 =< MaxFaults
  /\ \E k \in Fan, want \in Duties :
       fans' = [at |-> IF fanPc \in {"serving", "inflight"} THEN SetBefore(k, fans.at, want)
                       ELSE fans.at,
                faults |-> fans.faults + 2]
  /\ fanPc' = "gone" /\ fanSaid' = "nothing"

\* nvml::restore_all, by `aiolos restore`.
FanOneShot == \E o \in RestoreFans(fans) : fans' = o.fans

FanStep == FanStart \/ FanApply \/ FanDismiss \/ FanLeave \/ FanPanic \/ FanDrop \/ FanKill

-----------------------------------------------------------------------------
(* Properties.                                                                 *)

\* Every variable has its type.
FanTypeOK ==
  /\ fans.at \in [Fan -> Duties \cup {"auto"}] /\ fans.faults \in 0..MaxFaults
  /\ fanPc \in {"gone", "serving", "inflight", "leaving", "drop"}
  /\ fanSaid \in {"nothing", "claimed", "released", "error"}

\* No fan is left at a fixed duty when the service is down, however the process
\* ended, unless the restore, the drop and the one-shot have all been disturbed.
FansNotStranded == svc = "down" /\ (\E f \in Fan : fans.at[f] # "auto") => fans.faults >= 3

\* What the last report says of the fans is so until the process is on its way
\* out: "claimed" is one duty on every fan, and after an error none of them is
\* left at a fixed duty, unless handing it back failed as well.
FanSinkTrue ==
  fanPc \in {"serving", "inflight"} =>
    /\ fanSaid = "claimed" => \E d \in Duties : \A f \in Fan : fans.at[f] = d
    /\ fanSaid = "released" => \A f \in Fan : fans.at[f] = "auto"
    /\ fanSaid = "error" => (\A f \in Fan : fans.at[f] = "auto") \/ fans.faults >= 2
=============================================================================
