--------------------------- MODULE BoardFansProofs ---------------------------
(* Theorems about BoardFans, for any number of processes, any bound on the     *)
(* faults and any set of them.                                                 *)
EXTENDS BoardFans, TLAPS

USE BoundsAssumption, FailuresAssumption DEF Proc

\* A command leaves the board as it was or as it asks, and only a failure costs.
LEMMA RawType ==
  ASSUME TypeOK, NEW c \in {"claim", "set", "release"}, NEW ok \in BOOLEAN, Raw(c, ok)
  PROVE  /\ bmc' \in {"auto", "bare", "driven"}
         /\ unheard' \in BOOLEAN
         /\ faults' \in 0..MaxFaults
         /\ faults' >= faults
<1> DEFINE Type == /\ bmc' \in {"auto", "bare", "driven"}
                   /\ unheard' \in BOOLEAN
                   /\ faults' \in 0..MaxFaults
                   /\ faults' >= faults
<1>1. CASE bmc' = Effect(c) /\ unheard' = FALSE /\ faults' = faults
  <2>1. unheard' \in BOOLEAN
    BY <1>1, Zenon
  <2> QED
    BY <1>1, <2>1 DEF TypeOK, Effect
<1>2. CASE UNCHANGED board
  BY <1>2 DEF TypeOK, board
<1>3. CASE Fault("refused", 1) /\ UNCHANGED <<bmc, unheard>>
  BY <1>3 DEF TypeOK, Fault
<1>4. CASE Fault("lost", 1) /\ bmc' = Effect(c) /\ unheard' = (c = "claim")
  <2>1. unheard' \in BOOLEAN
    BY <1>4, Zenon
  <2> QED
    BY <1>4, <2>1 DEF TypeOK, Fault, Effect
<1> HIDE DEF Type
<1> SUFFICES Type
  BY DEF Type
<1> QED
  BY <1>1, <1>2, <1>3, <1>4 DEF Raw, Type

\* A release that did not reach the BMC is a fault.
LEMMA ReleaseFails ==
  ASSUME TypeOK, NEW ok \in BOOLEAN, Raw("release", ok), bmc' # "auto"
  PROVE  /\ ~ok
         /\ bmc' = bmc /\ faults' = faults + 1
         /\ unheard' = unheard
BY DEF TypeOK, Raw, Effect, Accepted, Fault

\* A duty that was not set in manual mode is a fault.
LEMMA SetFails ==
  ASSUME TypeOK, NEW ok \in BOOLEAN, Raw("set", ok), bmc' = "bare"
  PROVE  /\ ~ok
         /\ bmc = "bare" /\ faults' = faults + 1
         /\ unheard' = unheard
BY DEF TypeOK, Raw, Effect, Accepted, Fault, board

\* A claim leaves the board in the trap silently only if it was there before.
LEMMA ClaimFails ==
  ASSUME TypeOK, Raw("claim", FALSE), bmc' = "bare"
  PROVE  /\ faults' = faults + 1
         /\ unheard' = TRUE \/ (bmc = "bare" /\ unheard' = unheard)
<1>1. CASE Fault("refused", 1) /\ UNCHANGED <<bmc, unheard>>
  BY <1>1 DEF TypeOK, Fault
<1>2. CASE Fault("lost", 1) /\ unheard' = ("claim" = "claim")
  <2>1. unheard' = TRUE
    BY <1>2, Zenon
  <2> QED
    BY <1>2, <2>1 DEF TypeOK, Fault
<1> QED
  BY <1>1, <1>2 DEF Raw, Accepted

\* The initial state is typed.
LEMMA TypeInit == Init => TypeOK
<1> SUFFICES ASSUME Init PROVE TypeOK
  OBVIOUS
<1>1. unheard \in BOOLEAN
  BY Zenon DEF Init
<1> QED
  BY <1>1 DEF Init, TypeOK, Pcs, Regulating

\* Every step keeps the types.
LEMMA TypeStep == TypeOK /\ [Next]_vars => TypeOK'
<1> SUFFICES ASSUME TypeOK, [Next]_vars PROVE TypeOK'
  OBVIOUS
<1> USE DEF TypeOK, Pcs, Regulating, Goto, Claimed, Answer, inbox, process
<1>1. ASSUME NEW p \in Proc, Regulate(p) PROVE TypeOK'
  BY <1>1 DEF Regulate, Reads, board
<1>2. ASSUME NEW p \in Proc, Blind(p) PROVE TypeOK'
  BY <1>2, RawType DEF Blind, Reads
<1>3. ASSUME NEW p \in Proc, Claim(p) PROVE TypeOK'
  <2>1. bmc' \in {"auto", "bare", "driven"} /\ unheard' \in BOOLEAN /\ faults' \in 0..MaxFaults
    BY <1>3, RawType DEF Claim
  <2>2. pc[p] = "claim" /\ UNCHANGED <<svc, dev>>
    BY <1>3 DEF Claim
  <2>3. CASE Claimed(p, TRUE) /\ Goto(p, "set") /\ UNCHANGED inbox
    BY <2>1, <2>2, <2>3
  <2>4. CASE Answer(p) /\ UNCHANGED claimed
    BY <2>1, <2>2, <2>4
  <2> QED
    BY <1>3, <2>3, <2>4 DEF Claim
<1>4. ASSUME NEW p \in Proc, Set(p) PROVE TypeOK'
  <2>1. bmc' \in {"auto", "bare", "driven"} /\ unheard' \in BOOLEAN /\ faults' \in 0..MaxFaults
    BY <1>4, RawType DEF Set
  <2>2. pc[p] = "set" /\ UNCHANGED <<svc, dev, claimed>>
    BY <1>4 DEF Set
  <2>3. CASE Answer(p)
    BY <2>1, <2>2, <2>3
  <2>4. CASE Goto(p, "reclaim") /\ UNCHANGED inbox
    BY <2>1, <2>2, <2>4
  <2> QED
    BY <1>4, <2>3, <2>4 DEF Set
<1>5. ASSUME NEW p \in Proc, Reclaim(p) PROVE TypeOK'
  BY <1>5, RawType DEF Reclaim
<1>6. ASSUME NEW p \in Proc, Retry(p) PROVE TypeOK'
  BY <1>6, RawType DEF Retry
<1>7. ASSUME NEW p \in Proc, GiveUp(p) PROVE TypeOK'
  BY <1>7, RawType DEF GiveUp
<1>8. ASSUME NEW p \in Proc, Fatal(p) PROVE TypeOK'
  BY <1>8 DEF Fatal, Reads, board
<1>9. ASSUME NEW p \in Proc, Leave(p) PROVE TypeOK'
  BY <1>9 DEF Leave, Leaves, board
<1>10. ASSUME NEW p \in Proc, Restore(p) PROVE TypeOK'
  BY <1>10, RawType DEF Restore
<1>11. ASSUME NEW p \in Proc, Drop(p) PROVE TypeOK'
  BY <1>11, RawType DEF Drop
<1>12. ASSUME NEW p \in Proc, Start(p) PROVE TypeOK'
  BY <1>12 DEF Start, board
<1>13. ASSUME NEW p \in Proc, Ask(p) \/ Dismiss(p) \/ HangUp(p) PROVE TypeOK'
  <2>1. CASE Ask(p)
    BY <2>1 DEF Ask, board
  <2>2. CASE Dismiss(p)
    BY <2>2 DEF Dismiss, board
  <2>3. CASE HangUp(p)
    <3>1. UNCHANGED <<svc, process, term, dismissed, board>> /\ eof' = [eof EXCEPT ![p] = TRUE]
      BY <2>3 DEF HangUp
    <3>2. req' = [req EXCEPT ![p] = "shutdown"] \/ req' = req
      BY <2>3 DEF HangUp
    <3> QED
      BY <3>1, <3>2 DEF board
  <2> QED
    BY <1>13, <2>1, <2>2, <2>3
<1>14. ASSUME NEW p \in Proc, Kill(p) PROVE TypeOK'
  BY <1>14 DEF Kill, Fault, board
<1>15. CASE Stop
  <2>1. term' \in [Proc -> BOOLEAN]
    BY <1>15, Zenon DEF Stop
  <2> QED
    BY <1>15, <2>1 DEF Stop, board
<1>16. CASE OneShot
  BY <1>16, RawType DEF OneShot
<1>17. CASE Restart
  BY <1>17 DEF Restart, board
<1>18. CASE UNCHANGED vars
  BY <1>18 DEF vars, board
<1> QED
  BY <1>1, <1>2, <1>3, <1>4, <1>5, <1>6, <1>7, <1>8, <1>9, <1>10, <1>11, <1>12, <1>13,
     <1>14, <1>15, <1>16, <1>17, <1>18 DEF Next, ProcessStep, Environment

\* The type invariant holds whatever the number of processes and faults.
THEOREM TypeCorrect == Spec => []TypeOK
<1>1. Init => TypeOK
  BY TypeInit
<1>2. TypeOK /\ [Next]_vars => TypeOK'
  BY TypeStep
<1> QED
  BY <1>1, <1>2, PTL DEF Spec

-----------------------------------------------------------------------------
(* NotStranded.  The invariant counts the nets left under a board that is not  *)
(* in auto: two under a process that can still restore and drop, one and a     *)
(* fault under a process that is dropping, none and two faults otherwise.      *)

Caught ==
  bmc # "auto" =>
    \/ \E p \in Proc : Live(p) /\ dev[p] = "open" /\ pc[p] # "drop"
    \/ faults >= 1 /\ \E p \in Proc : pc[p] = "drop"
    \/ faults >= 2

NobodyAtRest == svc = "down" => NobodyLives

StrandInv == TypeOK /\ Caught /\ NobodyAtRest /\ NotStranded

\* Nobody lives while the service is down, so a process can act only before.
LEMMA ActsBeforeDown ==
  ASSUME StrandInv, NEW p \in Proc, ProcessStep(p) \/ Environment(p)
  PROVE  svc' = svc /\ svc # "down"
<1>1. Live(p) \/ svc = "up"
  BY DEF ProcessStep, Environment, Regulate, Blind, Claim, Set, Reclaim, Retry, GiveUp, Fatal,
         Leave, Restore, Drop, Start, Ask, Dismiss, HangUp, Kill, Reads, Live
<1>2. svc' = svc
  BY DEF ProcessStep, Environment, Regulate, Blind, Claim, Set, Reclaim, Retry, GiveUp, Fatal,
         Leave, Restore, Drop, Start, Ask, Dismiss, HangUp, Kill
<1> QED
  BY <1>1, <1>2 DEF StrandInv, NobodyAtRest, NobodyLives

\* A process at work on the board keeps it open and stays alive.
LEMMA WorkerHolds ==
  ASSUME TypeOK, NEW p \in Proc,
         \/ Regulate(p) \/ Blind(p) \/ Claim(p) \/ Set(p) \/ Reclaim(p) \/ Retry(p) \/ GiveUp(p)
  PROVE  pc'[p] \in Regulating \cup {"idle", "claim"} /\ dev'[p] = "open"
BY DEF TypeOK, Regulating, Regulate, Blind, Claim, Set, Reclaim, Retry, GiveUp, Reads, Goto, Answer

\* The invariant's own part: what is under the board after a step.
LEMMA CaughtStep ==
  ASSUME StrandInv, [Next]_vars
  PROVE  Caught'
<1> USE DEF StrandInv, Caught, TypeOK, Pcs, Regulating, Live, Goto
<1>1. ASSUME NEW p \in Proc,
             \/ Regulate(p) \/ Blind(p) \/ Claim(p) \/ Set(p) \/ Reclaim(p) \/ Retry(p) \/ GiveUp(p)
      PROVE  Caught'
  BY <1>1, WorkerHolds
<1>2. ASSUME NEW p \in Proc, Fatal(p) PROVE Caught'
  BY <1>2 DEF Fatal, Reads, board
<1>3. ASSUME NEW p \in Proc, Leave(p) PROVE Caught'
  BY <1>3 DEF Leave, board
<1>4. ASSUME NEW p \in Proc, Restore(p) PROVE Caught'
  <2>1. PICK ok \in BOOLEAN : Raw("release", ok) /\ Goto(p, IF StillArmedAfter(ok) THEN "drop" ELSE "gone")
    BY <1>4 DEF Restore
  <2>2. CASE bmc' # "auto"
    <3>1. ~ok /\ faults' = faults + 1
      BY <2>1, <2>2, ReleaseFails
    <3> QED
      BY <1>4, <2>1, <3>1 DEF Restore, StillArmedAfter
  <2> QED
    BY <2>2
<1>5. ASSUME NEW p \in Proc, Drop(p) PROVE Caught'
  <2>1. CASE bmc' # "auto"
    <3>1. bmc' = bmc /\ faults' = faults + 1
      BY <1>5, <2>1, ReleaseFails DEF Drop
    <3> QED
      BY <1>5, <3>1 DEF Drop
  <2> QED
    BY <2>1
<1>6. ASSUME NEW p \in Proc, Start(p) PROVE Caught'
  BY <1>6 DEF Start, board
<1>7. ASSUME NEW p \in Proc, Ask(p) \/ Dismiss(p) \/ HangUp(p) PROVE Caught'
  BY <1>7 DEF Ask, Dismiss, HangUp, board, process
<1>8. ASSUME NEW p \in Proc, Kill(p) PROVE Caught'
  BY <1>8 DEF Kill, Fault
<1>9. CASE Stop
  BY <1>9 DEF Stop, board, process
<1>10. CASE OneShot
  <2>1. CASE bmc' # "auto"
    <3>1. bmc' = bmc /\ faults' = faults + 1
      BY <1>10, <2>1, ReleaseFails DEF OneShot
    <3> QED
      BY <1>10, <3>1 DEF OneShot, process
  <2> QED
    BY <2>1
<1>11. CASE Restart
  BY <1>11 DEF Restart, board, process
<1>12. CASE UNCHANGED vars
  BY <1>12 DEF vars, board, process
<1> QED
  BY <1>1, <1>2, <1>3, <1>4, <1>5, <1>6, <1>7, <1>8, <1>9, <1>10, <1>11, <1>12
     DEF Next, ProcessStep, Environment

\* Fans are stranded only by three faults: the one-shot is the third net.
THEOREM NeverStranded == Spec => []NotStranded
<1>1. Init => StrandInv
  BY TypeInit DEF Init, StrandInv, Caught, NobodyAtRest, NotStranded
<1>2. StrandInv /\ [Next]_vars => StrandInv'
  <2> SUFFICES ASSUME StrandInv, [Next]_vars PROVE StrandInv'
    OBVIOUS
  <2>1. TypeOK' /\ Caught'
    BY TypeStep, CaughtStep DEF StrandInv
  <2>2. ASSUME NEW p \in Proc, ProcessStep(p) \/ Environment(p)
        PROVE  NobodyAtRest' /\ NotStranded'
    BY <2>2, ActsBeforeDown DEF NobodyAtRest, NotStranded
  <2>3. CASE Stop \/ Restart
    BY <2>1, <2>3 DEF Stop, Restart, StrandInv, NobodyAtRest, NotStranded
  <2>4. CASE OneShot
    <3>1. NobodyLives /\ NobodyLives'
      BY <2>4 DEF OneShot, NobodyLives, Live, process
    <3>2. CASE bmc' # "auto"
      <4>1. bmc' = bmc /\ faults' = faults + 1
        BY <2>4, <3>2, ReleaseFails DEF OneShot, StrandInv
      <4>2. faults >= 2
        BY <3>1, <3>2, <4>1 DEF NobodyLives, Live, StrandInv, Caught
      <4> QED
        BY <2>1, <3>1, <4>1, <4>2 DEF NobodyAtRest, NotStranded, StrandInv, TypeOK
    <3> QED
      BY <2>1, <3>1, <3>2 DEF StrandInv, NobodyAtRest, NotStranded
  <2>5. CASE UNCHANGED vars
    BY <2>1, <2>5 DEF vars, process, board, StrandInv, NobodyAtRest, NobodyLives, Live, NotStranded
  <2> QED
    BY <2>1, <2>2, <2>3, <2>4, <2>5 DEF Next, StrandInv
<1>3. StrandInv => NotStranded
  BY DEF StrandInv
<1> QED
  BY <1>1, <1>2, <1>3, PTL DEF Spec

-----------------------------------------------------------------------------
(* BareIsAttended.  The invariant must say why a process that gives up in the  *)
(* trap has seen a fault: its retry failed although the board was in manual    *)
(* mode, or another process that brought the board there is still at it.       *)

Trying(p) == pc[p] \in {"set", "reclaim", "retry"}

GiveUpForReason ==
  \A p \in Proc :
    bmc = "bare" /\ pc[p] = "giveup" => faults >= 1 \/ \E q \in Proc : Trying(q)

BareInv == TypeOK /\ GiveUpForReason /\ BareIsAttended

\* A step that keeps everybody's place in the regulation keeps the invariant.
LEMMA BareFrame ==
  ASSUME BareInv, UNCHANGED board,
         \A q \in Proc : pc[q] \in Regulating \/ pc'[q] \in Regulating => pc'[q] = pc[q]
  PROVE  GiveUpForReason' /\ BareIsAttended'
BY DEF BareInv, GiveUpForReason, BareIsAttended, Trying, Regulating, board

\* A release leaves the trap, or is a fault.
LEMMA BareRelease ==
  ASSUME BareInv, NEW p \in Proc, NEW ok \in BOOLEAN, Raw("release", ok),
         ~Trying(p), pc'[p] \notin Regulating,
         \A q \in Proc \ {p} : pc'[q] = pc[q]
  PROVE  GiveUpForReason' /\ BareIsAttended'
<1>1. CASE bmc' = "bare"
  <2>1. bmc = "bare" /\ faults' = faults + 1 /\ unheard' = unheard
    BY <1>1, ReleaseFails DEF BareInv
  <2>2. GiveUpForReason'
    BY <2>1 DEF BareInv, TypeOK, GiveUpForReason
  <2>3. CASE \E q \in Proc \ {p} : pc[q] \in Regulating
    BY <2>2, <2>3 DEF BareIsAttended
  <2>4. CASE pc[p] \in Regulating
    <3>1. faults >= 1 \/ \E q \in Proc \ {p} : pc[q] \in Regulating
      BY <2>1, <2>4 DEF BareInv, GiveUpForReason, Trying, Regulating
    <3> QED
      BY <2>1, <2>2, <2>3, <3>1 DEF BareInv, TypeOK, BareIsAttended
  <2>5. CASE faults >= 2
    BY <2>1, <2>2, <2>5 DEF BareInv, TypeOK, BareIsAttended
  <2>6. CASE unheard
    BY <2>1, <2>2, <2>6 DEF BareIsAttended
  <2> QED
    BY <2>1, <2>3, <2>4, <2>5, <2>6 DEF BareInv, BareIsAttended
<1> QED
  BY <1>1 DEF GiveUpForReason, BareIsAttended

\* A duty is set, or the failure is a fault and the process goes on trying.
LEMMA BareSet ==
  ASSUME BareInv, NEW p \in Proc, NEW ok \in BOOLEAN, Raw("set", ok),
         ~ok => pc'[p] \in {"reclaim", "giveup"}
  PROVE  GiveUpForReason' /\ BareIsAttended'
<1>1. CASE bmc' = "bare"
  <2>1. ~ok /\ bmc = "bare" /\ faults' = faults + 1
    BY <1>1, SetFails DEF BareInv
  <2> QED
    BY <2>1 DEF BareInv, TypeOK, GiveUpForReason, BareIsAttended, Regulating
<1> QED
  BY <1>1 DEF GiveUpForReason, BareIsAttended

\* The regulation keeps the invariant of the trap.
LEMMA BareStep ==
  ASSUME BareInv, [Next]_vars
  PROVE  GiveUpForReason' /\ BareIsAttended'
<1> USE DEF TypeOK, Pcs, Regulating, Goto
<1>1. ASSUME NEW p \in Proc, Regulate(p) PROVE GiveUpForReason' /\ BareIsAttended'
  BY <1>1 DEF Regulate, Reads, board, BareInv, GiveUpForReason, BareIsAttended, Trying
<1>2. ASSUME NEW p \in Proc, Blind(p) PROVE GiveUpForReason' /\ BareIsAttended'
  BY <1>2, BareRelease DEF Blind, Answer, BareInv, Trying, Reads
<1>3. ASSUME NEW p \in Proc, Claim(p) PROVE GiveUpForReason' /\ BareIsAttended'
  <2>1. CASE Raw("claim", TRUE) /\ Goto(p, "set")
    BY <2>1 DEF BareInv, GiveUpForReason, BareIsAttended, Trying
  <2>2. CASE Raw("claim", FALSE) /\ Goto(p, "idle")
    <3>1. CASE bmc' = "bare"
      <4>1. faults' = faults + 1 /\ (unheard' = TRUE \/ (bmc = "bare" /\ unheard' = unheard))
        BY <2>2, <3>1, ClaimFails DEF BareInv
      <4> QED
        BY <1>3, <2>2, <4>1 DEF Claim, BareInv, GiveUpForReason, BareIsAttended
    <3> QED
      BY <3>1 DEF GiveUpForReason, BareIsAttended
  <2> QED
    BY <1>3, <2>1, <2>2 DEF Claim, Answer
<1>4. ASSUME NEW p \in Proc, Set(p) PROVE GiveUpForReason' /\ BareIsAttended'
  <2>1. PICK ok \in BOOLEAN : Raw("set", ok) /\ (~ok => Goto(p, "reclaim"))
    BY <1>4 DEF Set
  <2> QED
    BY <2>1, BareSet DEF BareInv
<1>5. ASSUME NEW p \in Proc, Reclaim(p) PROVE GiveUpForReason' /\ BareIsAttended'
  <2>1. PICK ok \in BOOLEAN : Raw("claim", ok) /\ Goto(p, IF ok THEN "retry" ELSE "giveup")
    BY <1>5 DEF Reclaim
  <2>2. CASE ok
    BY <2>1, <2>2 DEF BareInv, GiveUpForReason, BareIsAttended, Trying
  <2>3. CASE ~ok
    <3>1. bmc' = "bare" => faults' = faults + 1
      BY <2>1, <2>3, ClaimFails DEF BareInv
    <3> QED
      BY <2>1, <2>3, <3>1 DEF BareInv, GiveUpForReason, BareIsAttended
  <2> QED
    BY <2>2, <2>3
<1>6. ASSUME NEW p \in Proc, Retry(p) PROVE GiveUpForReason' /\ BareIsAttended'
  <2>1. PICK ok \in BOOLEAN : Raw("set", ok) /\ (~ok => Goto(p, "giveup"))
    BY <1>6 DEF Retry
  <2> QED
    BY <2>1, BareSet DEF BareInv
<1>7. ASSUME NEW p \in Proc, GiveUp(p) PROVE GiveUpForReason' /\ BareIsAttended'
  BY <1>7, BareRelease DEF GiveUp, Answer, BareInv, Trying
<1>8. ASSUME NEW p \in Proc, Fatal(p) \/ Leave(p) \/ Start(p)
      PROVE  GiveUpForReason' /\ BareIsAttended'
  BY <1>8, BareFrame DEF Fatal, Leave, Start, Reads, BareInv
<1>9. ASSUME NEW p \in Proc, Restore(p) \/ Drop(p) PROVE GiveUpForReason' /\ BareIsAttended'
  <2>1. PICK ok \in BOOLEAN : Raw("release", ok)
    BY <1>9 DEF Restore, Drop
  <2>2. ~Trying(p) /\ pc' = [pc EXCEPT ![p] = pc'[p]] /\ pc'[p] \in {"drop", "gone"}
    BY <1>9 DEF Restore, Drop, Trying, BareInv
  <2> QED
    BY <2>1, <2>2, BareRelease, SMTT(30) DEF BareInv
<1>10. ASSUME NEW p \in Proc, Ask(p) \/ Dismiss(p) \/ HangUp(p)
       PROVE  GiveUpForReason' /\ BareIsAttended'
  BY <1>10, BareFrame DEF Ask, Dismiss, HangUp, process
<1>11. ASSUME NEW p \in Proc, Kill(p) PROVE GiveUpForReason' /\ BareIsAttended'
  BY <1>11 DEF Kill, Fault, BareInv, GiveUpForReason, BareIsAttended
<1>12. CASE Stop \/ Restart
  BY <1>12, BareFrame DEF Stop, Restart, process
<1>13. CASE OneShot
  <2>1. CASE bmc' = "bare"
    <3>1. bmc = "bare" /\ faults' = faults + 1 /\ unheard' = unheard
      BY <1>13, <2>1, ReleaseFails DEF OneShot, BareInv
    <3> QED
      BY <1>13, <3>1 DEF OneShot, process, BareInv, GiveUpForReason, BareIsAttended
  <2> QED
    BY <2>1 DEF GiveUpForReason, BareIsAttended
<1>14. CASE UNCHANGED vars
  BY <1>14, BareFrame DEF vars, process
<1> QED
  BY <1>1, <1>2, <1>3, <1>4, <1>5, <1>6, <1>7, <1>8, <1>9, <1>10, <1>11, <1>12, <1>13, <1>14
     DEF Next, ProcessStep, Environment

\* The minimum-speed trap is never left unattended by one refused command.
THEOREM TrapIsAttended == Spec => []BareIsAttended
<1>1. Init => BareInv
  BY TypeInit DEF Init, BareInv, GiveUpForReason, BareIsAttended
<1>2. BareInv /\ [Next]_vars => BareInv'
  BY TypeStep, BareStep DEF BareInv
<1>3. BareInv => BareIsAttended
  BY DEF BareInv
<1> QED
  BY <1>1, <1>2, <1>3, PTL DEF Spec
=============================================================================
