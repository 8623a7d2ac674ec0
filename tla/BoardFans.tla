------------------------------ MODULE BoardFans ------------------------------
(* The rome2d-fans device over an unreliable BMC, through every way its        *)
(* process can end.                                                            *)
(*                                                                             *)
(* A `rome2d-fans run` process serves the requests of its worker               *)
(* (anemos/src/run.rs), drives all fans of the board by claim and set commands *)
(* (anemoi/rome2d-fans/src/board.rs), and hands them back to the BMC when it   *)
(* leaves; `aiolos restore` does so once more when the service has stopped.    *)
(* Commands fail in two ways: the BMC (or the kernel) refuses one, or executes *)
(* it and the reply does not arrive in time.                                   *)
EXTENDS Integers

CONSTANTS MaxProc,      \* bound: processes ever started
          MaxFaults,    \* bound: faults, in the units of Fault
          Failures      \* what can go wrong: "refused", "lost", "kill"

ASSUME BoundsAssumption == MaxProc \in Nat /\ MaxFaults \in Nat
ASSUME FailuresAssumption == Failures \subseteq {"refused", "lost", "kill"}

Proc == 1..MaxProc

VARIABLES
  bmc,         \* who drives the fans: "auto" the BMC; "bare" manual, and no duty
               \* was set since (the minimum speed); "driven" manual at a duty
  svc,         \* the systemd unit: "up", "stopping", "down"
  pc,          \* [Proc -> where the process is]
  dev,         \* [Proc -> what startup made of the device]
  claimed,     \* [Proc -> Board::claimed]
  req,         \* [Proc -> the line on its stdin: "none", "apply", "shutdown"]
  eof,         \* [Proc -> its stdin is closed behind that line]
  term,        \* [Proc -> stdio.rs SHUTDOWN, the flag of the signal handler]
  dismissed,   \* [Proc -> its supervisor has told its worker to end]
  faults,      \* the faults so far
  unheard      \* the last command that got through to the BMC was a claim whose
               \* reply was lost

process == <<pc, dev, claimed>>
inbox == <<req, eof, term, dismissed>>
board == <<bmc, faults, unheard>>
vars == <<svc, process, inbox, board>>

Regulating == {"set", "reclaim", "retry", "giveup"}
Pcs == {"unborn", "idle", "claim", "restore", "drop", "gone"} \cup Regulating

Live(p) == pc[p] \notin {"unborn", "gone"}
NobodyLives == \A p \in Proc : ~Live(p)

Init ==
  /\ bmc = "auto" /\ faults = 0 /\ unheard = FALSE
  /\ svc = "up"
  /\ pc = [p \in Proc |-> "unborn"]
  /\ dev = [p \in Proc |-> "none"]
  /\ claimed = [p \in Proc |-> FALSE]
  /\ req = [p \in Proc |-> "none"]
  /\ eof = [p \in Proc |-> FALSE]
  /\ term = [p \in Proc |-> FALSE]
  /\ dismissed = [p \in Proc |-> FALSE]

-----------------------------------------------------------------------------
(* The BMC and one command to it.                                              *)

\* A SIGKILL costs 2: it takes away both attempts a process makes at the end.
Fault(f, cost) ==
  /\ f \in Failures
  /\ faults + cost =< MaxFaults
  /\ faults' = faults + cost

Effect(c) == CASE c = "claim" -> IF bmc = "auto" THEN "bare" ELSE bmc
               [] c = "set" -> "driven"
               [] c = "release" -> "auto"

\* A duty is accepted in manual mode only.
Accepted(c) == c = "set" => bmc # "auto"

\* Ipmi::raw: send, wait for the reply, check its completion code; ok is the Result.
Raw(c, ok) ==
  \/ /\ ok /\ Accepted(c)
     /\ bmc' = Effect(c) /\ unheard' = FALSE /\ faults' = faults
  \/ /\ ~ok /\ ~Accepted(c)
     /\ UNCHANGED board
  \/ /\ ~ok /\ Fault("refused", 1)
     /\ UNCHANGED <<bmc, unheard>>
  \/ /\ ~ok /\ Accepted(c) /\ Fault("lost", 1)
     /\ bmc' = Effect(c) /\ unheard' = (c = "claim")

-----------------------------------------------------------------------------
(* A process: one apply.                                                       *)

Goto(p, l) == pc' = [pc EXCEPT ![p] = l]
Claimed(p, b) == claimed' = [claimed EXCEPT ![p] = b]

\* The report is written: the worker may ask again.
Answer(p) ==
  /\ Goto(p, "idle")
  /\ req' = [req EXCEPT ![p] = "none"]
  /\ UNCHANGED <<eof, term, dismissed>>

\* next_event serves a line unless a signal came first.
Reads(p, line) == pc[p] = "idle" /\ req[p] = line /\ ~term[p]

\* There is a temperature and a curve: claim unless `claimed` says it is done.
Regulate(p) ==
  /\ Reads(p, "apply") /\ dev[p] = "open"
  /\ Goto(p, IF claimed[p] THEN "set" ELSE "claim")
  /\ UNCHANGED <<svc, dev, claimed, inbox, board>>

\* No temperature, or no usable curve: release and report an error.
Blind(p) ==
  /\ Reads(p, "apply") /\ dev[p] = "open"
  /\ \E ok \in BOOLEAN : Raw("release", ok)
  /\ Claimed(p, FALSE)
  /\ Answer(p)
  /\ UNCHANGED <<svc, dev>>

\* A failed claim is taken to have claimed nothing: the error is reported.
Claim(p) ==
  /\ pc[p] = "claim"
  /\ \E ok \in BOOLEAN :
       /\ Raw("claim", ok)
       /\ IF ok THEN /\ Claimed(p, TRUE) /\ Goto(p, "set")
                     /\ UNCHANGED inbox
                ELSE Answer(p) /\ UNCHANGED claimed
  /\ UNCHANGED <<svc, dev>>

\* Mutant of Set: a failed duty is reported without a second attempt or a release.
Set_NoRetry(p) ==
  /\ pc[p] = "set"
  /\ \E ok \in BOOLEAN : Raw("set", ok)
  /\ Answer(p)
  /\ UNCHANGED <<svc, dev, claimed>>

Set(p) ==
  /\ pc[p] = "set"
  /\ \E ok \in BOOLEAN :
       /\ Raw("set", ok)
       /\ IF ok THEN Answer(p) ELSE Goto(p, "reclaim") /\ UNCHANGED inbox
  /\ UNCHANGED <<svc, dev, claimed>>

Reclaim(p) ==
  /\ pc[p] = "reclaim"
  /\ \E ok \in BOOLEAN :
       /\ Raw("claim", ok)
       /\ Claimed(p, claimed[p] \/ ok)
       /\ Goto(p, IF ok THEN "retry" ELSE "giveup")
  /\ UNCHANGED <<svc, dev, inbox>>

Retry(p) ==
  /\ pc[p] = "retry"
  /\ \E ok \in BOOLEAN :
       /\ Raw("set", ok)
       /\ IF ok THEN Answer(p) ELSE Goto(p, "giveup") /\ UNCHANGED inbox
  /\ UNCHANGED <<svc, dev, claimed>>

\* The release's own failure is ignored; `claimed` is cleared all the same.
GiveUp(p) ==
  /\ pc[p] = "giveup"
  /\ \E ok \in BOOLEAN : Raw("release", ok)
  /\ Claimed(p, FALSE)
  /\ Answer(p)
  /\ UNCHANGED <<svc, dev>>

\* Without a device an apply is answered fatal: the worker hangs up, and a
\* process whose curve was invalid exits by itself.
Fatal(p) ==
  /\ Reads(p, "apply") /\ dev[p] # "open"
  /\ Goto(p, IF dev[p] = "curve" THEN "gone" ELSE "idle")
  /\ req' = [req EXCEPT ![p] = "none"]
  /\ eof' = [eof EXCEPT ![p] = TRUE]
  /\ UNCHANGED <<svc, dev, claimed, term, dismissed, board>>

-----------------------------------------------------------------------------
(* A process: its end.                                                         *)

\* Mutant of Leaves: a loop that knows the shutdown line only.
Leaves_LineOnly(p) == req[p] = "shutdown"

\* The loop leaves at a signal, a shutdown line, or the end of stdin.
Leaves(p) == term[p] \/ req[p] = "shutdown" \/ (eof[p] /\ req[p] = "none")

\* Mutant of Leave: restore only what `claimed` says is held.
Leave_OnlyClaimed(p) ==
  /\ pc[p] = "idle" /\ Leaves(p)
  /\ Goto(p, IF claimed[p] THEN "restore" ELSE "gone")
  /\ UNCHANGED <<svc, dev, claimed, inbox, board>>

\* Mutant of Leave: restore whatever startup made of the device.
Leave_Unopened(p) ==
  /\ pc[p] = "idle" /\ Leaves(p)
  /\ Goto(p, "restore")
  /\ UNCHANGED <<svc, dev, claimed, inbox, board>>

Leave(p) ==
  /\ pc[p] = "idle" /\ Leaves(p)
  /\ Goto(p, IF dev[p] = "open" THEN "restore" ELSE "gone")
  /\ UNCHANGED <<svc, dev, claimed, inbox, board>>

\* Mutant of StillArmedAfter: one attempt disarms, whatever became of it.
StillArmedAfter_Attempt(ok) == FALSE

\* restore() is armed from open on and opens a BMC handle of its own.
StillArmedAfter(ok) == ~ok

Restore(p) ==
  /\ pc[p] = "restore"
  /\ \E ok \in BOOLEAN :
       /\ Raw("release", ok)
       /\ Goto(p, IF StillArmedAfter(ok) THEN "drop" ELSE "gone")
  /\ UNCHANGED <<svc, dev, claimed, inbox>>

Drop(p) ==
  /\ pc[p] = "drop"
  /\ \E ok \in BOOLEAN : Raw("release", ok)
  /\ Goto(p, "gone")
  /\ UNCHANGED <<svc, dev, claimed, inbox>>

ProcessStep(p) ==
  \/ Regulate(p) \/ Blind(p) \/ Claim(p) \/ Set(p) \/ Reclaim(p) \/ Retry(p) \/ GiveUp(p)
  \/ Fatal(p) \/ Leave(p) \/ Restore(p) \/ Drop(p)

-----------------------------------------------------------------------------
(* The orchestrator and the service, as this process sees them.                *)

\* Startup: the device is opened, or the curve is invalid, or open fails.  An
\* older process may still be leaving (see Tenancy).
Start(p) ==
  /\ svc = "up" /\ pc[p] = "unborn"
  /\ \A q \in Proc : Live(q) => dismissed[q]
  /\ Goto(p, "idle")
  /\ \E d \in {"open", "curve", "none"} : dev' = [dev EXCEPT ![p] = d]
  /\ UNCHANGED <<svc, claimed, inbox, board>>

\* Instance::tick writes the next request once the last one is answered.
Ask(p) ==
  /\ Live(p) /\ req[p] = "none" /\ ~eof[p] /\ ~dismissed[p]
  /\ req' = [req EXCEPT ![p] = "apply"]
  /\ UNCHANGED <<svc, process, eof, term, dismissed, board>>

\* The unit vanished, or the supervisor is unwinding: Shutdown is in the channel.
Dismiss(p) ==
  /\ Live(p) /\ ~dismissed[p]
  /\ dismissed' = [dismissed EXCEPT ![p] = TRUE]
  /\ UNCHANGED <<svc, process, req, eof, term, board>>

\* Instance::shutdown writes the line and closes stdin; if aiolos exits first,
\* stdin is closed behind whatever is on it.
HangUp(p) ==
  /\ Live(p) /\ ~eof[p] /\ (dismissed[p] \/ svc = "stopping")
  /\ eof' = [eof EXCEPT ![p] = TRUE]
  /\ \/ req[p] = "none" /\ req' = [req EXCEPT ![p] = "shutdown"]
     \/ svc = "stopping" /\ UNCHANGED req
  /\ UNCHANGED <<svc, process, term, dismissed, board>>

\* SIGKILL: an apply or a restore overran its deadline, or the machine is short
\* of memory.
Kill(p) ==
  /\ Live(p) /\ Fault("kill", 2)
  /\ Goto(p, "gone")
  /\ UNCHANGED <<svc, dev, claimed, inbox, bmc, unheard>>

\* systemd stops the unit: SIGTERM to the whole control group.
Stop ==
  /\ svc = "up"
  /\ svc' = "stopping"
  /\ term' = [p \in Proc |-> term[p] \/ Live(p)]
  /\ UNCHANGED <<process, req, eof, dismissed, board>>

\* ExecStopPost, after the last process: `aiolos restore` runs restore_all.
OneShot ==
  /\ svc = "stopping" /\ NobodyLives
  /\ \E ok \in BOOLEAN : Raw("release", ok)
  /\ svc' = "down"
  /\ UNCHANGED <<process, inbox>>

Restart ==
  /\ svc = "down"
  /\ svc' = "up"
  /\ UNCHANGED <<process, inbox, board>>

Environment(p) == Start(p) \/ Ask(p) \/ Dismiss(p) \/ HangUp(p) \/ Kill(p)

Next ==
  \/ \E p \in Proc : ProcessStep(p) \/ Environment(p)
  \/ Stop \/ OneShot \/ Restart

\* Processes are scheduled and every command of theirs is bounded by
\* RESP_TIMEOUT; workers hang up and the main loop asks again; systemd runs
\* ExecStopPost.
Spec ==
  /\ Init /\ [][Next]_vars
  /\ \A p \in Proc : WF_vars(ProcessStep(p)) /\ WF_vars(HangUp(p)) /\ WF_vars(Ask(p))
  /\ WF_vars(OneShot)

-----------------------------------------------------------------------------
(* Properties.                                                                 *)

\* Every variable has its type, and only an open device is driven or restored.
TypeOK ==
  /\ bmc \in {"auto", "bare", "driven"}
  /\ svc \in {"up", "stopping", "down"}
  /\ pc \in [Proc -> Pcs]
  /\ dev \in [Proc -> {"open", "curve", "none"}]
  /\ claimed \in [Proc -> BOOLEAN]
  /\ req \in [Proc -> {"none", "apply", "shutdown"}]
  /\ eof \in [Proc -> BOOLEAN]
  /\ term \in [Proc -> BOOLEAN]
  /\ dismissed \in [Proc -> BOOLEAN]
  /\ faults \in 0..MaxFaults
  /\ unheard \in BOOLEAN
  /\ \A p \in Proc : pc[p] \in Regulating \cup {"claim", "restore", "drop"} => dev[p] = "open"

\* Three nets catch the fans (restore, Drop, the one-shot): after the service has
\* stopped they are back under the BMC unless at least three faults occurred, in
\* whatever order processes were dismissed, replaced, killed and stopped.
NotStranded == svc = "down" /\ bmc # "auto" => faults >= 3

\* The minimum-speed trap: a board in manual mode without a duty has a process
\* that is about to set one or to give up, unless two commands failed, a process
\* was killed, or the reply of a claim was lost.
BareIsAttended ==
  bmc = "bare" => \/ \E p \in Proc : pc[p] \in Regulating
                  \/ faults >= 2
                  \/ unheard

\* The same with no allowance for a lost reply: "claim failed -> nothing claimed
\* -> safe to propagate" (regulate), "never leaves fans claimed-but-undutied".
ClaimFailedMeansUnclaimed ==
  bmc = "bare" => (\E p \in Proc : pc[p] \in Regulating) \/ faults >= 2

\* A trap that opens closes again: the next apply, or the way out, sets a duty or
\* releases the board.  A SIGKILL, or a way out that fails twice, leaves it to the
\* next start or stop.
TrapEnds ==
  bmc = "bare" ~> \/ bmc # "bare"
                  \/ faults >= 2 /\ \A p \in Proc : Live(p) => dev[p] # "open"

\* A stop ends: every process serves at most what it is doing, restores and goes.
ServiceStops == svc = "stopping" ~> svc = "down"
=============================================================================
