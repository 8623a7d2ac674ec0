----------------------------- MODULE ChannelFans -----------------------------
(* The it87 device: PWM channels that are claimed, set and handed back one     *)
(* sysfs write after the other (anemoi/it87/src/main.rs, config.rs and the     *)
(* writes of tech/hwmon/src/lib.rs).  A dismissed process may still be leaving *)
(* while its successor works on the same channels, and the wiring file can be  *)
(* edited while processes run with what they read at their start.  The board's *)
(* EC may take a channel back at any time.  Which duty a channel gets is a     *)
(* matter of Curves and CasePolicy, and one value here.                        *)
EXTENDS Integers, FiniteSetsExt

CONSTANTS
  Channel,    \* the PWM channels of the chip
  Wirings,    \* what it87.conf can say: [cpu |-> channels, case |-> channels]
  MaxProc,    \* bound: processes at a time
  MaxFaults   \* bound: faults

ASSUME ChannelAssumption == Channel \subseteq Nat /\ IsFiniteSet(Channel)
ASSUME WiringsAssumption == \A w \in Wirings : w.cpu \subseteq Channel /\ w.case \subseteq Channel
ASSUME BoundsAssumption == MaxProc \in Nat \ {0} /\ MaxFaults \in Nat

Proc == 1..MaxProc

VARIABLES
  pwm,     \* [Channel -> "auto", "stale" (manual, duty not written yet), "driven"]
  conf,    \* it87.conf
  sight,   \* a temperature can be read and a curve is usable
  svc,     \* the systemd unit: "up", "stopping", "down"
  taken,   \* history: the channels the EC took back since an apply last began
  faults,  \* the faults so far
  pc,      \* [Proc -> where the process is]
  cfg,     \* [Proc -> It87Device::cfg]
  todo,    \* [Proc -> the channels its loop has not reached yet]
  failed,  \* [Proc -> the loop that hands channels back has met an error]
  told,    \* [Proc -> told to end: "no", "after" one more apply, "now"]
  said,    \* [Proc -> the last report ("claimed", "error"), until an apply begins]
  alone    \* history: no other process was there since its last apply began

chip == <<pwm, faults>>
process == <<pc, cfg, todo, failed, told, said, alone>>
vars == <<chip, taken, conf, sight, svc, process>>

Live(p) == pc[p] # "gone"
OthersGone(p) == \A q \in Proc \ {p} : ~Live(q)

Managed(w) == w.cpu \cup w.case

NoWiring == [cpu |-> {}, case |-> {}]

Init ==
  /\ pwm = [c \in Channel |-> "auto"] /\ taken = {} /\ faults = 0
  /\ conf \in Wirings /\ sight \in BOOLEAN /\ svc = "up"
  /\ pc = [p \in Proc |-> "gone"]
  /\ cfg = [p \in Proc |-> NoWiring]
  /\ todo = [p \in Proc |-> {}]
  /\ failed = [p \in Proc |-> FALSE]
  /\ told = [p \in Proc |-> "no"]
  /\ said = [p \in Proc |-> "nothing"]
  /\ alone = [p \in Proc |-> FALSE]

-----------------------------------------------------------------------------
(* One channel.                                                                *)

Fault(n) == faults + n =< MaxFaults /\ faults' = faults + n

Becomes(c, state) == pwm' = [pwm EXCEPT ![c] = state]

\* The board's EC takes a channel back, whoever drives it: the reason why
\* set_pwm_duty writes enable=1 every time.
Reclaim(c) ==
  /\ pwm[c] # "auto"
  /\ Becomes(c, "auto") /\ taken' = taken \cup {c}
  /\ UNCHANGED <<faults, conf, sight, svc, process>>

\* set_pwm_duty: enable=1, then the duty; either write may fail.
SetDuty(c, ok) ==
  \/ ok /\ Becomes(c, "driven") /\ UNCHANGED faults
  \/ ~ok /\ Fault(1) /\ UNCHANGED pwm
  \/ ~ok /\ Fault(1) /\ pwm[c] = "auto" /\ Becomes(c, "stale")

\* set_pwm_auto: enable=2.
SetAuto(c, ok) ==
  \/ ok /\ Becomes(c, "auto") /\ UNCHANGED faults
  \/ ~ok /\ Fault(1) /\ UNCHANGED pwm

-----------------------------------------------------------------------------
(* A process and its loops.                                                    *)

Goto(p, l) == pc' = [pc EXCEPT ![p] = l]
Rest(p, S) == todo' = [todo EXCEPT ![p] = S]
Failed(p, b) == failed' = [failed EXCEPT ![p] = b]
Says(p, s) == said' = [said EXCEPT ![p] = s]
Told(p, t) == told' = [told EXCEPT ![p] = t]
Alone(p, b) == alone' = [alone EXCEPT ![p] = b]

\* Mutant of Enter: the channels of the file as it is now, as restore_all takes them.
Enter_Reread(p, l) == Goto(p, l) /\ Rest(p, Managed(conf)) /\ Failed(p, FALSE)

\* A loop over the channels this process manages, in ascending order.
Enter(p, l) == Goto(p, l) /\ Rest(p, Managed(cfg[p])) /\ Failed(p, FALSE)
Turn(p) == Min(todo[p])

\* Nothing is left of a process.
Vanishes(p) ==
  /\ Goto(p, "gone") /\ Rest(p, {}) /\ Failed(p, FALSE)
  /\ cfg' = [cfg EXCEPT ![p] = NoWiring]
  /\ Told(p, "no") /\ Says(p, "nothing") /\ Alone(p, FALSE)

\* restore_to_auto, which goes on after an error.
HandBack(p) ==
  /\ pc[p] \in {"release", "restore", "drop"} /\ todo[p] # {}
  /\ \E ok \in BOOLEAN :
       /\ SetAuto(Turn(p), ok)
       /\ Failed(p, failed[p] \/ ~ok)
  /\ Rest(p, todo[p] \ {Turn(p)})
  /\ UNCHANGED <<taken, conf, sight, svc, pc, cfg, told, said, alone>>

-----------------------------------------------------------------------------
(* An apply.                                                                   *)

Serves(p) == pc[p] = "idle" /\ told[p] # "now"

\* Mutant of Begin: a duty that was commanded before is not written again.
Begin_OnlyChanges(p) ==
  /\ Serves(p)
  /\ IF sight /\ said[p] = "claimed" THEN UNCHANGED <<pc, todo, failed>>
     ELSE Enter(p, IF sight THEN "set" ELSE "release")
  /\ Told(p, IF told[p] = "after" THEN "now" ELSE "no")
  /\ Alone(p, OthersGone(p)) /\ taken' = {}
  /\ UNCHANGED <<chip, conf, sight, svc, cfg, said>>

\* The request of the dispatcher is read; with a temperature and a duty for every
\* zone the channels are set, else released.
Begin(p) ==
  /\ Serves(p)
  /\ Enter(p, IF sight THEN "set" ELSE "release")
  /\ Told(p, IF told[p] = "after" THEN "now" ELSE "no")
  /\ Says(p, "nothing") /\ Alone(p, OthersGone(p)) /\ taken' = {}
  /\ UNCHANGED <<chip, conf, sight, svc, cfg>>

\* Mutant of Set: the channels already set are kept when a later one fails.
Set_KeepsFirst(p) ==
  /\ pc[p] = "set" /\ todo[p] # {}
  /\ \E ok \in BOOLEAN :
       /\ SetDuty(Turn(p), ok)
       /\ IF ok THEN Rest(p, todo[p] \ {Turn(p)}) /\ UNCHANGED <<pc, said>>
                ELSE Rest(p, {}) /\ Goto(p, "idle") /\ Says(p, "error")
  /\ UNCHANGED <<taken, conf, sight, svc, cfg, failed, told, alone>>

\* The first failure hands every channel back.
Set(p) ==
  /\ pc[p] = "set" /\ todo[p] # {}
  /\ \E ok \in BOOLEAN :
       /\ SetDuty(Turn(p), ok)
       /\ IF ok THEN Rest(p, todo[p] \ {Turn(p)}) /\ UNCHANGED <<pc, failed>>
                ELSE Enter(p, "release")
  /\ UNCHANGED <<taken, conf, sight, svc, cfg, told, said, alone>>

\* The report; an error after a release, whatever came of it.
Answer(p) ==
  /\ pc[p] \in {"set", "release"} /\ todo[p] = {}
  /\ Goto(p, "idle")
  /\ Says(p, IF pc[p] = "set" THEN "claimed" ELSE "error")
  /\ UNCHANGED <<chip, taken, conf, sight, svc, cfg, todo, failed, told, alone>>

-----------------------------------------------------------------------------
(* The way out.                                                                *)

\* Shutdown line, end of stdin or signal: Device::restore.
Leave(p) ==
  /\ pc[p] = "idle" /\ told[p] # "no"
  /\ Enter(p, "restore")
  /\ Told(p, "now") /\ Says(p, "nothing") /\ Alone(p, FALSE)
  /\ UNCHANGED <<chip, taken, conf, sight, svc, cfg>>

\* Mutant of StaysArmed: one attempt is all it takes.
StaysArmed_Never(p) == FALSE

\* The drop is disarmed by a restore that met no error.
StaysArmed(p) == pc[p] = "restore" /\ failed[p]

\* The process is gone after the restore, or after the drop that retries it.
Exit(p) ==
  /\ pc[p] \in {"restore", "drop"} /\ todo[p] = {}
  /\ IF StaysArmed(p)
     THEN Enter(p, "drop") /\ UNCHANGED <<cfg, told, said, alone>>
     ELSE Vanishes(p)
  /\ UNCHANGED <<chip, taken, conf, sight, svc>>

ProcessStep(p) == HandBack(p) \/ Begin(p) \/ Set(p) \/ Answer(p) \/ Leave(p) \/ Exit(p)

-----------------------------------------------------------------------------
(* The orchestrator, the operator and the service.                             *)

\* A new process reads it87.conf, once; an older one may still be leaving.
Start(p) ==
  /\ svc = "up" /\ pc[p] = "gone"
  /\ \A q \in Proc : Live(q) => told[q] # "no"
  /\ Goto(p, "idle")
  /\ cfg' = [cfg EXCEPT ![p] = conf]
  /\ alone' = [q \in Proc |-> FALSE]
  /\ UNCHANGED <<chip, taken, conf, sight, svc, todo, failed, told, said>>

\* The board vanished from detect; an apply may be on its way already.
Dismiss(p) ==
  /\ Live(p) /\ told[p] = "no"
  /\ Told(p, "after") \/ Told(p, "now")
  /\ UNCHANGED <<chip, taken, conf, sight, svc, pc, cfg, todo, failed, said, alone>>

\* An apply panics and unwinds to the drop; counts 1, as it takes the restore.
Panic(p) ==
  /\ pc[p] \in {"set", "release"} /\ Fault(1)
  /\ Enter(p, "drop")
  /\ Told(p, "now") /\ Says(p, "nothing") /\ Alone(p, FALSE)
  /\ UNCHANGED <<pwm, taken, conf, sight, svc, cfg>>

\* SIGKILL, perhaps between the two writes of a channel; counts 2, as it takes
\* the restore and the drop.
Kill(p) ==
  /\ Live(p) /\ Fault(2)
  /\ \/ UNCHANGED pwm
     \/ /\ pc[p] = "set" /\ todo[p] # {} /\ pwm[Turn(p)] = "auto"
        /\ Becomes(Turn(p), "stale")
  /\ Vanishes(p)
  /\ UNCHANGED <<taken, conf, sight, svc>>

Edit ==
  /\ conf' \in Wirings \ {conf}
  /\ UNCHANGED <<chip, taken, sight, svc, process>>

\* Sensors and curve files come and go.
Look == sight' = ~sight /\ UNCHANGED <<chip, taken, conf, svc, process>>

Stop ==
  /\ svc = "up"
  /\ svc' = "stopping"
  /\ told' = [p \in Proc |-> IF Live(p) THEN "now" ELSE told[p]]
  /\ UNCHANGED <<chip, taken, conf, sight, pc, cfg, todo, failed, said, alone>>

\* `it87 restore` of ExecStopPost: the channels of the file as it is now, each on
\* its own.
OneShot ==
  /\ svc = "stopping" /\ \A p \in Proc : ~Live(p)
  /\ \E deaf \in SUBSET Managed(conf) :
       /\ Fault(Cardinality(deaf))
       /\ pwm' = [c \in Channel |-> IF c \in Managed(conf) \ deaf THEN "auto" ELSE pwm[c]]
  /\ svc' = "down"
  /\ UNCHANGED <<taken, conf, sight, process>>

Restart == svc = "down" /\ svc' = "up" /\ UNCHANGED <<chip, taken, conf, sight, process>>

Next ==
  \/ \E p \in Proc : ProcessStep(p) \/ Start(p) \/ Dismiss(p) \/ Panic(p) \/ Kill(p)
  \/ \E c \in Channel : Reclaim(c)
  \/ Edit \/ Look \/ Stop \/ OneShot \/ Restart

Spec == Init /\ [][Next]_vars

\* Processes are scheduled and asked again and again; the EC does as it likes.
FairSpec == Spec /\ \A p \in Proc : WF_vars(ProcessStep(p))

-----------------------------------------------------------------------------
(* Properties.                                                                 *)

\* Every variable has its type, and a loop has a channel left to do.
TypeOK ==
  /\ pwm \in [Channel -> {"auto", "stale", "driven"}] /\ taken \subseteq Channel
  /\ faults \in 0..MaxFaults
  /\ conf \in Wirings /\ sight \in BOOLEAN /\ svc \in {"up", "stopping", "down"}
  /\ pc \in [Proc -> {"gone", "idle", "set", "release", "restore", "drop"}]
  /\ cfg \in [Proc -> Wirings \cup {NoWiring}] /\ todo \in [Proc -> SUBSET Channel]
  /\ failed \in [Proc -> BOOLEAN] /\ alone \in [Proc -> BOOLEAN]
  /\ told \in [Proc -> {"no", "after", "now"}]
  /\ said \in [Proc -> {"nothing", "claimed", "error"}]
  /\ \A p \in Proc : todo[p] \subseteq Managed(cfg[p])

\* A channel the process drives, or would if the EC had not taken it back since.
Kept(c) == pwm[c] = "driven" \/ (c \in taken /\ pwm[c] = "auto")

\* The last report is true of every channel, while no other process interferes:
\* each is driven, but for those the EC took back since that apply began; or,
\* after an error, none is left in manual mode unless handing one back failed too.
AllOrNothing ==
  \A p \in Proc : pc[p] = "idle" /\ alone[p] =>
    /\ said[p] = "claimed" => \A c \in Managed(cfg[p]) : Kept(c)
    /\ said[p] = "error" => (\A c \in Managed(cfg[p]) : pwm[c] = "auto") \/ failed[p]

\* When the service is down the channels of the wiring file are all under the
\* firmware, unless restore, drop and one-shot were all disturbed.
NotStranded ==
  [][svc = "stopping" /\ svc' = "down" =>
       (\A c \in Managed(conf) : pwm'[c] = "auto") \/ faults' >= 3]_vars

OneServes ==
  \E p \in Proc : pc[p] \in {"idle", "set", "release"} /\ told[p] = "no" /\ OthersGone(p)

DrivenBy(p, c) == Live(p) /\ c \in Managed(cfg[p]) => pwm[c] = "driven"

\* Whatever a leaving process or the EC does to the channels behind the back of
\* the process that stays, it gets each of them back every time; and it keeps all
\* of them once the EC takes none any more.
ControlReturns ==
  /\ <>[](OneServes /\ sight) =>
       \A c \in Channel : []<>(\A p \in Proc : DrivenBy(p, c))
  /\ <>[](OneServes /\ sight /\ taken = {}) =>
       <>[](\A p \in Proc, c \in Channel : DrivenBy(p, c))
=============================================================================
