--------------------------- MODULE ChannelFansProofs ---------------------------
(* Theorems about ChannelFans, for any finite set of channels, any wirings,    *)
(* any number of processes and any bound on the faults.                        *)
EXTENDS ChannelFans, FiniteSetTheorems, WellFoundedInduction, TLAPS

USE ChannelAssumption, WiringsAssumption, BoundsAssumption DEF Proc

\* A set of numbers that is not empty has a least element (FiniteSetsExt!Min).
LEMMA MinOf ==
  ASSUME NEW S \in SUBSET Nat, S # {}
  PROVE  Min(S) \in S /\ \A y \in S : Min(S) <= y
<1> DEFINE R == OpToRel(<, Nat)
<1>1. IsWellFoundedOn(R, Nat)
  BY NatLessThanWellFounded
<1>2. \A x, y \in Nat : <<x, y>> \in R <=> x < y
  BY DEF OpToRel
<1> HIDE DEF R
<1>3. \E x \in S : \A y \in S : ~(<<y, x>> \in R)
  BY <1>1, WFMin
<1>4. PICK x \in S : \A y \in S : ~(<<y, x>> \in R)
  BY <1>3
<1>5. ASSUME NEW y \in S PROVE x <= y
  <2>1. x \in Nat /\ y \in Nat /\ ~(<<y, x>> \in R)
    BY <1>4
  <2>2. ~(y < x)
    BY <1>2, <2>1
  <2> QED BY <2>1, <2>2
<1> QED BY <1>5 DEF Min

\* The faults of a one-shot count the channels that did not obey.
LEMMA DeafCounted ==
  ASSUME NEW deaf \in SUBSET Channel
  PROVE  /\ Cardinality(deaf) \in Nat
         /\ Cardinality(deaf) = 0 <=> deaf = {}
BY FS_Subset, FS_CardinalityType, FS_EmptySet

-----------------------------------------------------------------------------
(* Types.                                                                      *)

\* What a process that is gone leaves behind; and a loop begun is over channels
\* of the wiring its process read.
Blank == \A p \in Proc : pc[p] = "gone" => todo[p] = {} /\ cfg[p] = NoWiring

TypeInv == TypeOK /\ Blank

LEMMA ManagedChannels ==
  ASSUME NEW w \in Wirings \cup {NoWiring}
  PROVE  Managed(w) \in SUBSET Channel
BY DEF Managed, NoWiring

LEMMA TypeInvInit == Init => TypeInv
BY DEF Init, TypeInv, TypeOK, Blank, NoWiring, Managed

LEMMA TurnIsLeft ==
  ASSUME TypeInv, NEW p \in Proc, todo[p] # {}
  PROVE  Turn(p) \in todo[p] /\ Turn(p) \in Channel /\ Turn(p) \in Managed(cfg[p])
BY MinOf DEF TypeInv, TypeOK, Turn

\* The parts of an action, and what they leave of the types.
LEMMA EnterType ==
  ASSUME TypeInv, NEW p \in Proc, NEW l \in {"set", "release", "restore", "drop"}, Enter(p, l)
  PROVE  /\ pc' \in [Proc -> {"gone", "idle", "set", "release", "restore", "drop"}]
         /\ todo' \in [Proc -> SUBSET Channel] /\ failed' \in [Proc -> BOOLEAN]
         /\ pc'[p] = l /\ todo'[p] = Managed(cfg[p]) /\ failed'[p] = FALSE
         /\ \A q \in Proc : q # p => pc'[q] = pc[q] /\ todo'[q] = todo[q] /\ failed'[q] = failed[q]
BY ManagedChannels DEF TypeInv, TypeOK, Enter, Goto, Rest, Failed

LEMMA VanishType ==
  ASSUME TypeInv, NEW p \in Proc, Vanishes(p)
  PROVE  /\ pc' \in [Proc -> {"gone", "idle", "set", "release", "restore", "drop"}]
         /\ todo' \in [Proc -> SUBSET Channel] /\ failed' \in [Proc -> BOOLEAN]
         /\ cfg' \in [Proc -> Wirings \cup {NoWiring}] /\ alone' \in [Proc -> BOOLEAN]
         /\ told' \in [Proc -> {"no", "after", "now"}]
         /\ said' \in [Proc -> {"nothing", "claimed", "error"}]
         /\ pc'[p] = "gone" /\ todo'[p] = {} /\ failed'[p] = FALSE /\ cfg'[p] = NoWiring
         /\ told'[p] = "no" /\ said'[p] = "nothing" /\ alone'[p] = FALSE
         /\ \A q \in Proc : q # p =>
              /\ pc'[q] = pc[q] /\ todo'[q] = todo[q] /\ failed'[q] = failed[q]
              /\ cfg'[q] = cfg[q] /\ told'[q] = told[q] /\ said'[q] = said[q]
              /\ alone'[q] = alone[q]
BY DEF TypeInv, TypeOK, Vanishes, Goto, Rest, Failed, Told, Says, Alone

\* The two writes of a channel: what they do to it, and that a failure counts.
LEMMA SetDutyDoes ==
  ASSUME TypeInv, NEW c \in Channel, NEW ok \in BOOLEAN, SetDuty(c, ok)
  PROVE  /\ pwm' \in [Channel -> {"auto", "stale", "driven"}]
         /\ faults' \in 0..MaxFaults /\ faults' >= faults
         /\ ok => pwm'[c] = "driven"
         /\ ~ok => faults' >= faults + 1
         /\ \A d \in Channel : d # c => pwm'[d] = pwm[d]
<1>1. /\ pwm \in [Channel -> {"auto", "stale", "driven"}]
      /\ faults \in 0..MaxFaults /\ MaxFaults \in Nat
  BY DEF TypeInv, TypeOK
<1>2. CASE ok /\ Becomes(c, "driven") /\ UNCHANGED faults
  BY <1>1, <1>2 DEF Becomes
<1>3. CASE ~ok /\ Fault(1) /\ UNCHANGED pwm
  BY <1>1, <1>3 DEF Fault
<1>4. CASE ~ok /\ Fault(1) /\ pwm[c] = "auto" /\ Becomes(c, "stale")
  BY <1>1, <1>4 DEF Fault, Becomes
<1> QED BY <1>2, <1>3, <1>4 DEF SetDuty

LEMMA SetAutoDoes ==
  ASSUME TypeInv, NEW c \in Channel, NEW ok \in BOOLEAN, SetAuto(c, ok)
  PROVE  /\ pwm' \in [Channel -> {"auto", "stale", "driven"}]
         /\ faults' \in 0..MaxFaults /\ faults' >= faults
         /\ ok => pwm'[c] = "auto"
         /\ ~ok => faults' >= faults + 1 /\ pwm'[c] = pwm[c]
         /\ \A d \in Channel : d # c => pwm'[d] = pwm[d]
<1>1. /\ pwm \in [Channel -> {"auto", "stale", "driven"}]
      /\ faults \in 0..MaxFaults /\ MaxFaults \in Nat
  BY DEF TypeInv, TypeOK
<1>2. CASE ok /\ Becomes(c, "auto") /\ UNCHANGED faults
  BY <1>1, <1>2 DEF Becomes
<1>3. CASE ~ok /\ Fault(1) /\ UNCHANGED pwm
  BY <1>1, <1>3 DEF Fault
<1> QED BY <1>2, <1>3 DEF SetAuto

-----------------------------------------------------------------------------
(* The invariant.                                                              *)

\* What a process knows of the channels while nobody interferes.
Knows(p) ==
  /\ alone[p] => Live(p) /\ OthersGone(p)
  /\ failed[p] \/ pc[p] = "drop" => faults >= 1
  /\ alone[p] /\ pc[p] = "set" => \A c \in Managed(cfg[p]) \ todo[p] : Kept(c)
  /\ alone[p] /\ pc[p] = "release" =>
       (\A c \in Managed(cfg[p]) \ todo[p] : pwm[c] = "auto") \/ failed[p]
  /\ alone[p] /\ pc[p] = "idle" /\ said[p] = "claimed" =>
       \A c \in Managed(cfg[p]) : Kept(c)
  /\ alone[p] /\ pc[p] = "idle" /\ said[p] = "error" =>
       (\A c \in Managed(cfg[p]) : pwm[c] = "auto") \/ failed[p]

\* Process p still has to hand channel c back, or will notice that it could not.
Owes(p, c) ==
  /\ c \in Managed(cfg[p])
  /\ \/ pc[p] \in {"idle", "set", "release"}
     \/ pc[p] = "restore" /\ (c \in todo[p] \/ failed[p])
     \/ pc[p] = "drop" /\ c \in todo[p]

\* A channel in manual mode has a process that owes it, unless a restore and a
\* drop have been disturbed.
Owed == \A c \in Channel : pwm[c] # "auto" => faults >= 2 \/ \E p \in Proc : Owes(p, c)

ChannelInv == TypeInv /\ (\A p \in Proc : Knows(p)) /\ Owed

\* What the other processes keep through a step of process p.
Others(p) ==
  \A q \in Proc : q # p =>
    /\ pc'[q] = pc[q] /\ todo'[q] = todo[q] /\ failed'[q] = failed[q]
    /\ cfg'[q] = cfg[q] /\ said'[q] = said[q] /\ alone'[q] = alone[q]

LEMMA OneSteps ==
  ASSUME ChannelInv, NEW p \in Proc, Live(p), Others(p), TypeInv', Knows(p)',
         faults' >= faults,
         \A c \in Channel : pwm'[c] # "auto" =>
           faults' >= 2 \/ Owes(p, c)' \/ (pwm[c] # "auto" /\ ~Owes(p, c))
  PROVE  ChannelInv'
<1>0. faults \in Nat /\ faults' \in Nat
  BY DEF ChannelInv, TypeInv, TypeOK
<1>1. \A q \in Proc : q # p => ~alone[q]
  BY DEF ChannelInv, Knows, OthersGone
<1>2. ASSUME NEW q \in Proc, q # p PROVE Knows(q)'
  BY <1>0, <1>1, <1>2 DEF ChannelInv, Knows, Others
<1>3. Owed'
  <2> SUFFICES ASSUME NEW c \in Channel, pwm'[c] # "auto", ~(faults' >= 2), ~Owes(p, c)'
               PROVE  \E q \in Proc : Owes(q, c)'
    BY DEF Owed
  <2>0. pwm[c] # "auto" /\ ~Owes(p, c)
    <3>1. faults' >= 2 \/ Owes(p, c)' \/ (pwm[c] # "auto" /\ ~Owes(p, c))
      BY Zenon
    <3> QED BY <3>1
  <2>1. pwm[c] # "auto" /\ ~Owes(p, c) /\ ~(faults >= 2)
    BY <1>0, <2>0
  <2>2. PICK q \in Proc : Owes(q, c)
    BY <2>1 DEF ChannelInv, Owed
  <2>3. Owes(q, c)'
    BY <2>1, <2>2 DEF Owes, Others
  <2> QED BY <2>3
<1> QED BY <1>2, <1>3 DEF ChannelInv

-----------------------------------------------------------------------------
(* The steps of a process.                                                     *)

LEMMA HandBackKeeps ==
  ASSUME ChannelInv, NEW p \in Proc, HandBack(p) PROVE ChannelInv'
<1> DEFINE c == Turn(p)
<1>1. TypeInv /\ Knows(p)
  BY DEF ChannelInv
<1>2. PICK ok \in BOOLEAN : SetAuto(c, ok) /\ Failed(p, failed[p] \/ ~ok)
  BY DEF HandBack
<1>3. /\ pc[p] \in {"release", "restore", "drop"} /\ todo[p] # {}
      /\ todo' = [todo EXCEPT ![p] = @ \ {c}]
      /\ UNCHANGED <<taken, conf, sight, svc, pc, cfg, told, said, alone>>
  BY DEF HandBack, Rest
<1>4. c \in todo[p] /\ c \in Channel /\ c \in Managed(cfg[p])
  BY <1>1, <1>3, TurnIsLeft
<1>5. /\ pwm' \in [Channel -> {"auto", "stale", "driven"}]
      /\ faults' \in 0..MaxFaults /\ faults' >= faults
      /\ ok => pwm'[c] = "auto"
      /\ ~ok => faults' >= faults + 1 /\ pwm'[c] = pwm[c]
      /\ \A d \in Channel : d # c => pwm'[d] = pwm[d]
  BY <1>1, <1>2, <1>4, SetAutoDoes
<1>6. /\ todo'[p] = todo[p] \ {c} /\ \A q \in Proc : q # p => todo'[q] = todo[q]
      /\ \A q \in Proc : todo'[q] \subseteq todo[q]
      /\ todo' \in [Proc -> SUBSET Channel]
  BY <1>1, <1>3 DEF TypeInv, TypeOK
<1>7. /\ failed' \in [Proc -> BOOLEAN] /\ \A q \in Proc : q # p => failed'[q] = failed[q]
  <2>1. (failed[p] \/ ~ok) \in BOOLEAN
    BY Zenon
  <2> QED BY <1>1, <1>2, <2>1 DEF TypeInv, TypeOK, Failed
<1>8. (failed'[p] <=> failed[p] \/ ~ok)
  BY <1>1, <1>2 DEF TypeInv, TypeOK, Failed
<1> HIDE DEF c
<1>9. TypeInv'
  BY <1>1, <1>3, <1>5, <1>6, <1>7 DEF TypeInv, TypeOK, Blank
<1>10. faults \in Nat /\ faults' \in Nat
  BY <1>1, <1>5 DEF TypeInv, TypeOK
<1>11. Managed(cfg[p]) \subseteq Channel
  BY <1>1, ManagedChannels DEF TypeInv, TypeOK
<1>12. Knows(p)'
  <2>1. failed'[p] \/ pc'[p] = "drop" => faults' >= 1
    BY <1>1, <1>3, <1>5, <1>8, <1>10 DEF Knows
  <2>2. alone'[p] => Live(p)' /\ OthersGone(p)'
    BY <1>1, <1>3 DEF Knows, Live, OthersGone
  <2>3. alone'[p] /\ pc'[p] = "release" =>
          (\A d \in Managed(cfg'[p]) \ todo'[p] : pwm'[d] = "auto") \/ failed'[p]
    BY <1>1, <1>3, <1>5, <1>6, <1>8, <1>11 DEF Knows
  <2> QED BY <1>3, <2>1, <2>2, <2>3 DEF Knows
<1>13. \A d \in Channel : pwm'[d] # "auto" =>
         faults' >= 2 \/ Owes(p, d)' \/ (pwm[d] # "auto" /\ ~Owes(p, d))
  <2> SUFFICES ASSUME NEW d \in Channel, pwm'[d] # "auto", ~(faults' >= 2), Owes(p, d)
               PROVE  Owes(p, d)'
    BY <1>5
  <2>1. CASE d = c
    <3>1. ~ok /\ failed'[p] /\ faults' >= faults + 1
      BY <1>5, <1>8, <2>1
    <3>2. pc[p] # "drop"
      BY <1>1, <1>10, <3>1 DEF Knows
    <3> QED BY <1>3, <1>4, <2>1, <3>1, <3>2 DEF Owes
  <2>2. CASE d # c
    BY <1>3, <1>6, <1>8, <2>2 DEF Owes
  <2> QED BY <2>1, <2>2
<1> QED BY <1>3, <1>5, <1>6, <1>7, <1>9, <1>12, <1>13, OneSteps DEF Others, Live

\* A loop that is entered: the process owes all of its channels, or did not.
LEMMA BeginKeeps ==
  ASSUME ChannelInv, NEW p \in Proc, Begin(p) PROVE ChannelInv'
<1> DEFINE l == IF sight THEN "set" ELSE "release"
<1>1. TypeInv /\ Knows(p)
  BY DEF ChannelInv
<1>2. /\ pc[p] = "idle" /\ Enter(p, l) /\ l \in {"set", "release"}
      /\ said' = [said EXCEPT ![p] = "nothing"]
      /\ told' = [told EXCEPT ![p] = IF told[p] = "after" THEN "now" ELSE "no"]
      /\ taken' = {} /\ UNCHANGED <<pwm, faults, conf, sight, svc, cfg>>
  BY DEF Begin, Serves, Says, Told, chip
<1> HIDE DEF l
<1>3. /\ pc' \in [Proc -> {"gone", "idle", "set", "release", "restore", "drop"}]
      /\ todo' \in [Proc -> SUBSET Channel] /\ failed' \in [Proc -> BOOLEAN]
      /\ pc'[p] = l /\ todo'[p] = Managed(cfg[p]) /\ failed'[p] = FALSE
      /\ \A q \in Proc : q # p => pc'[q] = pc[q] /\ todo'[q] = todo[q] /\ failed'[q] = failed[q]
  BY <1>1, <1>2, EnterType
<1>4. alone' = [alone EXCEPT ![p] = OthersGone(p)]
  BY DEF Begin, Alone
<1>5. OthersGone(p) \in BOOLEAN
  BY Zenon DEF OthersGone
<1>6. /\ alone' \in [Proc -> BOOLEAN] /\ alone'[p] = OthersGone(p)
      /\ \A q \in Proc : q # p => alone'[q] = alone[q]
  BY <1>1, <1>4, <1>5 DEF TypeInv, TypeOK
<1>7. TypeInv'
  BY <1>1, <1>2, <1>3, <1>6 DEF TypeInv, TypeOK, Blank
<1>8. alone'[p] => Live(p)' /\ OthersGone(p)'
  BY <1>2, <1>3, <1>6 DEF Live, OthersGone
<1>9. Knows(p)'
  BY <1>2, <1>3, <1>8 DEF Knows
<1>10. /\ Live(p) /\ faults' >= faults
       /\ \A c \in Channel : pwm'[c] # "auto" =>
            faults' >= 2 \/ Owes(p, c)' \/ (pwm[c] # "auto" /\ ~Owes(p, c))
  BY <1>1, <1>2, <1>3 DEF Owes, Live, TypeInv, TypeOK
<1>11. Others(p)
  BY <1>1, <1>2, <1>3, <1>6 DEF Others, TypeInv, TypeOK
<1> QED BY <1>7, <1>9, <1>10, <1>11, OneSteps

LEMMA SetKeeps ==
  ASSUME ChannelInv, NEW p \in Proc, Set(p) PROVE ChannelInv'
<1> DEFINE c == Turn(p)
<1>1. TypeInv /\ Knows(p)
  BY DEF ChannelInv
<1>2. PICK ok \in BOOLEAN :
        /\ SetDuty(c, ok)
        /\ IF ok THEN Rest(p, todo[p] \ {c}) /\ UNCHANGED <<pc, failed>>
                 ELSE Enter(p, "release")
  BY DEF Set
<1>3. pc[p] = "set" /\ todo[p] # {} /\ UNCHANGED <<taken, conf, sight, svc, cfg, told, said, alone>>
  BY DEF Set
<1>4. c \in todo[p] /\ c \in Channel /\ c \in Managed(cfg[p])
  BY <1>1, <1>3, TurnIsLeft
<1> HIDE DEF c
<1>5. /\ pwm' \in [Channel -> {"auto", "stale", "driven"}]
      /\ faults' \in 0..MaxFaults /\ faults' >= faults
      /\ ok => pwm'[c] = "driven"
      /\ ~ok => faults' >= faults + 1
      /\ \A d \in Channel : d # c => pwm'[d] = pwm[d]
  BY <1>1, <1>2, <1>4, SetDutyDoes
<1>6. Managed(cfg[p]) \subseteq Channel /\ faults \in Nat /\ faults' \in Nat
  <2>1. cfg[p] \in Wirings \cup {NoWiring} /\ faults \in 0..MaxFaults
    BY <1>1 DEF TypeInv, TypeOK
  <2> QED BY <1>5, <2>1, ManagedChannels
<1>7. /\ pc' \in [Proc -> {"gone", "idle", "set", "release", "restore", "drop"}]
      /\ todo' \in [Proc -> SUBSET Channel] /\ failed' \in [Proc -> BOOLEAN]
      /\ \A q \in Proc : q # p => pc'[q] = pc[q] /\ todo'[q] = todo[q] /\ failed'[q] = failed[q]
      /\ ok => pc'[p] = "set" /\ todo'[p] = todo[p] \ {c} /\ failed'[p] = failed[p]
      /\ ~ok => pc'[p] = "release" /\ todo'[p] = Managed(cfg[p]) /\ failed'[p] = FALSE
  <2>1. CASE ok
    <3>1. /\ pc \in [Proc -> {"gone", "idle", "set", "release", "restore", "drop"}]
          /\ todo \in [Proc -> SUBSET Channel] /\ failed \in [Proc -> BOOLEAN]
      BY <1>1 DEF TypeInv, TypeOK
    <3>2. todo' = [todo EXCEPT ![p] = todo[p] \ {c}] /\ pc' = pc /\ failed' = failed
      BY <1>2, <2>1 DEF Rest
    <3> QED BY <1>3, <2>1, <3>1, <3>2
  <2>2. CASE ~ok
    BY <1>1, <1>2, <2>2, EnterType
  <2> QED BY <2>1, <2>2
<1>8. pc'[p] # "gone" /\ todo'[p] \subseteq Managed(cfg[p])
  BY <1>1, <1>7 DEF TypeInv, TypeOK
<1>9. TypeInv'
  BY <1>1, <1>3, <1>5, <1>7, <1>8 DEF TypeInv, TypeOK, Blank
<1>10. Knows(p)'
  <2>1. alone'[p] => Live(p)' /\ OthersGone(p)'
    BY <1>1, <1>3, <1>7, <1>8 DEF Knows, Live, OthersGone
  <2>2. alone'[p] /\ pc'[p] = "set" =>
          \A d \in Managed(cfg'[p]) \ todo'[p] : Kept(d)'
    BY <1>1, <1>3, <1>5, <1>6, <1>7 DEF Knows, Kept
  <2>3. alone'[p] /\ pc'[p] = "release" => Managed(cfg'[p]) \ todo'[p] = {}
    BY <1>3, <1>7
  <2>4. failed'[p] \/ pc'[p] = "drop" => faults' >= 1
    BY <1>1, <1>5, <1>6, <1>7 DEF Knows
  <2> QED BY <1>7, <2>1, <2>2, <2>3, <2>4 DEF Knows
<1>11. Live(p) /\ Others(p)
  BY <1>1, <1>3, <1>7 DEF Others, Live, TypeInv, TypeOK
<1>12. \A d \in Channel : pwm'[d] # "auto" =>
         faults' >= 2 \/ Owes(p, d)' \/ (pwm[d] # "auto" /\ ~Owes(p, d))
  BY <1>3, <1>4, <1>5, <1>7 DEF Owes
<1> QED BY <1>5, <1>9, <1>10, <1>11, <1>12, OneSteps

LEMMA AnswerKeeps ==
  ASSUME ChannelInv, NEW p \in Proc, Answer(p) PROVE ChannelInv'
<1>1. TypeInv /\ Knows(p)
  BY DEF ChannelInv
<1>2. /\ pc[p] \in {"set", "release"} /\ todo[p] = {}
      /\ pc' = [pc EXCEPT ![p] = "idle"]
      /\ said' = [said EXCEPT ![p] = IF pc[p] = "set" THEN "claimed" ELSE "error"]
      /\ UNCHANGED <<pwm, faults, taken, conf, sight, svc, cfg, todo, failed, told, alone>>
  BY DEF Answer, Goto, Says, chip
<1>3. /\ pc'[p] = "idle" /\ said'[p] = (IF pc[p] = "set" THEN "claimed" ELSE "error")
      /\ \A q \in Proc : q # p => pc'[q] = pc[q] /\ said'[q] = said[q]
  BY <1>1, <1>2 DEF TypeInv, TypeOK
<1>4. TypeInv'
  BY <1>1, <1>2 DEF TypeInv, TypeOK, Blank
<1>5. alone'[p] => Live(p)' /\ OthersGone(p)'
  BY <1>1, <1>2, <1>3 DEF Knows, Live, OthersGone
<1>6. Knows(p)'
  BY <1>1, <1>2, <1>3, <1>5 DEF Knows, Kept
<1>7. Live(p) /\ Others(p) /\ faults' >= faults
  BY <1>1, <1>2, <1>3 DEF Others, Live, TypeInv, TypeOK
<1>8. \A c \in Channel : pwm'[c] # "auto" =>
        faults' >= 2 \/ Owes(p, c)' \/ (pwm[c] # "auto" /\ ~Owes(p, c))
  BY <1>2, <1>3 DEF Owes
<1> QED BY <1>4, <1>6, <1>7, <1>8, OneSteps

\* Leaving, armed or after a panic: a loop over all the channels, with nothing
\* said of them.
LEMMA WayOut ==
  ASSUME ChannelInv, NEW p \in Proc, NEW l \in {"restore", "drop"}, Enter(p, l), Live(p),
         TypeInv', Others(p), cfg'[p] = cfg[p], alone'[p] = FALSE, pwm' = pwm, faults' >= faults,
         l = "drop" => faults' >= 1
  PROVE  ChannelInv'
<1>1. TypeInv
  BY DEF ChannelInv
<1>2. pc'[p] = l /\ todo'[p] = Managed(cfg[p]) /\ failed'[p] = FALSE
  BY <1>1, EnterType
<1>3. Knows(p)'
  BY <1>2 DEF Knows
<1>4. \A c \in Channel : pwm'[c] # "auto" =>
        faults' >= 2 \/ Owes(p, c)' \/ (pwm[c] # "auto" /\ ~Owes(p, c))
  BY <1>2 DEF Owes
<1> QED BY <1>3, <1>4, OneSteps

LEMMA LeaveKeeps ==
  ASSUME ChannelInv, NEW p \in Proc, Leave(p) PROVE ChannelInv'
<1>1. TypeInv
  BY DEF ChannelInv
<1>2. /\ pc[p] = "idle" /\ Enter(p, "restore")
      /\ told' = [told EXCEPT ![p] = "now"] /\ said' = [said EXCEPT ![p] = "nothing"]
      /\ alone' = [alone EXCEPT ![p] = FALSE]
      /\ UNCHANGED <<pwm, faults, taken, conf, sight, svc, cfg>>
  BY DEF Leave, Told, Says, Alone, chip
<1>3. /\ pc' \in [Proc -> {"gone", "idle", "set", "release", "restore", "drop"}]
      /\ todo' \in [Proc -> SUBSET Channel] /\ failed' \in [Proc -> BOOLEAN]
      /\ pc'[p] = "restore" /\ todo'[p] = Managed(cfg[p])
      /\ \A q \in Proc : q # p => pc'[q] = pc[q] /\ todo'[q] = todo[q] /\ failed'[q] = failed[q]
  BY <1>1, <1>2, EnterType
<1>4. TypeInv'
  BY <1>1, <1>2, <1>3 DEF TypeInv, TypeOK, Blank
<1>5. /\ Others(p) /\ Live(p) /\ alone'[p] = FALSE /\ cfg'[p] = cfg[p]
      /\ pwm' = pwm /\ faults' >= faults
  BY <1>1, <1>2, <1>3 DEF Others, Live, TypeInv, TypeOK
<1> QED BY <1>2, <1>4, <1>5, WayOut

LEMMA PanicKeeps ==
  ASSUME ChannelInv, NEW p \in Proc, Panic(p) PROVE ChannelInv'
<1>1. TypeInv
  BY DEF ChannelInv
<1>2. /\ pc[p] \in {"set", "release"} /\ Enter(p, "drop")
      /\ faults' = faults + 1 /\ faults + 1 <= MaxFaults
      /\ told' = [told EXCEPT ![p] = "now"] /\ said' = [said EXCEPT ![p] = "nothing"]
      /\ alone' = [alone EXCEPT ![p] = FALSE]
      /\ UNCHANGED <<pwm, taken, conf, sight, svc, cfg>>
  BY DEF Panic, Told, Says, Alone, Fault
<1>3. /\ pc' \in [Proc -> {"gone", "idle", "set", "release", "restore", "drop"}]
      /\ todo' \in [Proc -> SUBSET Channel] /\ failed' \in [Proc -> BOOLEAN]
      /\ pc'[p] = "drop" /\ todo'[p] = Managed(cfg[p])
      /\ \A q \in Proc : q # p => pc'[q] = pc[q] /\ todo'[q] = todo[q] /\ failed'[q] = failed[q]
  BY <1>1, <1>2, EnterType
<1>4. TypeInv'
  <2>1. faults' \in 0..MaxFaults
    BY <1>1, <1>2 DEF TypeInv, TypeOK
  <2>2. /\ told' \in [Proc -> {"no", "after", "now"}] /\ alone' \in [Proc -> BOOLEAN]
        /\ said' \in [Proc -> {"nothing", "claimed", "error"}]
    BY <1>1, <1>2 DEF TypeInv, TypeOK
  <2>3. /\ pwm' = pwm /\ taken' = taken /\ conf' = conf /\ sight' = sight
        /\ svc' = svc /\ cfg' = cfg
    BY <1>2
  <2>4. TypeOK'
    <3>1. \A q \in Proc : todo'[q] \subseteq Managed(cfg'[q])
      BY <1>1, <1>3, <2>3 DEF TypeInv, TypeOK
    <3> QED BY <1>1, <1>3, <2>1, <2>2, <2>3, <3>1 DEF TypeInv, TypeOK
  <2>5. Blank'
    BY <1>1, <1>3, <2>3 DEF TypeInv, Blank
  <2> QED BY <2>4, <2>5 DEF TypeInv
<1>5. /\ Others(p) /\ Live(p) /\ alone'[p] = FALSE /\ cfg'[p] = cfg[p]
      /\ pwm' = pwm /\ faults' >= faults /\ faults' >= 1
  BY <1>1, <1>2, <1>3 DEF Others, Live, TypeInv, TypeOK
<1> QED BY <1>2, <1>4, <1>5, WayOut

\* A process that vanishes leaves nothing behind but the channels.
LEMMA VanishKeeps ==
  ASSUME ChannelInv, NEW p \in Proc, Vanishes(p), UNCHANGED <<taken, conf, sight, svc>>,
         pwm' \in [Channel -> {"auto", "stale", "driven"}], faults' \in 0..MaxFaults
  PROVE  TypeInv' /\ Others(p) /\ Knows(p)'
<1>1. TypeInv
  BY DEF ChannelInv
<1>2. Managed(NoWiring) = {}
  BY DEF Managed, NoWiring
<1> DEFINE Gone ==
      /\ pc' \in [Proc -> {"gone", "idle", "set", "release", "restore", "drop"}]
      /\ todo' \in [Proc -> SUBSET Channel] /\ failed' \in [Proc -> BOOLEAN]
      /\ cfg' \in [Proc -> Wirings \cup {NoWiring}] /\ alone' \in [Proc -> BOOLEAN]
      /\ told' \in [Proc -> {"no", "after", "now"}]
      /\ said' \in [Proc -> {"nothing", "claimed", "error"}]
<1>3. /\ pc'[p] = "gone" /\ todo'[p] = {} /\ failed'[p] = FALSE /\ cfg'[p] = NoWiring
      /\ told'[p] = "no" /\ said'[p] = "nothing" /\ alone'[p] = FALSE
      /\ \A q \in Proc : q # p =>
           /\ pc'[q] = pc[q] /\ todo'[q] = todo[q] /\ failed'[q] = failed[q]
           /\ cfg'[q] = cfg[q] /\ told'[q] = told[q] /\ said'[q] = said[q]
           /\ alone'[q] = alone[q]
  BY <1>1, VanishType
<1>4. Gone
  BY <1>1, VanishType
<1>5. \A q \in Proc : todo'[q] \subseteq Managed(cfg'[q])
  BY <1>1, <1>2, <1>3 DEF TypeInv, TypeOK
<1>6. Blank'
  BY <1>1, <1>3 DEF TypeInv, Blank
<1>7. TypeInv'
  BY <1>1, <1>4, <1>5, <1>6 DEF TypeInv, TypeOK
<1> QED BY <1>3, <1>7 DEF Others, Knows

LEMMA ExitKeeps ==
  ASSUME ChannelInv, NEW p \in Proc, Exit(p) PROVE ChannelInv'
<1>1. TypeInv /\ Knows(p)
  BY DEF ChannelInv
<1>2. /\ pc[p] \in {"restore", "drop"} /\ todo[p] = {}
      /\ UNCHANGED <<pwm, faults, taken, conf, sight, svc>>
  BY DEF Exit, chip
<1>3. Live(p) /\ faults' >= faults
  BY <1>1, <1>2 DEF Live, TypeInv, TypeOK
<1>4. CASE StaysArmed(p)
  <2>1. Enter(p, "drop") /\ UNCHANGED <<cfg, told, said, alone>>
    BY <1>4 DEF Exit
  <2>2. /\ pc' \in [Proc -> {"gone", "idle", "set", "release", "restore", "drop"}]
        /\ todo' \in [Proc -> SUBSET Channel] /\ failed' \in [Proc -> BOOLEAN]
        /\ pc'[p] = "drop" /\ todo'[p] = Managed(cfg[p]) /\ failed'[p] = FALSE
        /\ \A q \in Proc : q # p => pc'[q] = pc[q] /\ todo'[q] = todo[q] /\ failed'[q] = failed[q]
    BY <1>1, <2>1, EnterType
  <2>3. TypeInv'
    BY <1>1, <1>2, <2>1, <2>2 DEF TypeInv, TypeOK, Blank
  <2>4. failed[p] /\ faults' >= 1
    BY <1>1, <1>2, <1>4 DEF StaysArmed, Knows
  <2>5. alone'[p] => Live(p)' /\ OthersGone(p)'
    BY <1>1, <2>1, <2>2 DEF Knows, Live, OthersGone
  <2>6. Knows(p)'
    BY <2>2, <2>4, <2>5 DEF Knows
  <2>7. Others(p)
    BY <2>1, <2>2 DEF Others
  <2>8. \A c \in Channel : pwm'[c] # "auto" =>
          faults' >= 2 \/ Owes(p, c)' \/ (pwm[c] # "auto" /\ ~Owes(p, c))
    BY <1>2, <2>1, <2>2 DEF Owes
  <2> QED BY <1>3, <2>3, <2>6, <2>7, <2>8, OneSteps
<1>5. CASE ~StaysArmed(p)
  <2>1. Vanishes(p) /\ ~(pc[p] = "restore" /\ failed[p])
    BY <1>5 DEF Exit, StaysArmed
  <2>2. TypeInv' /\ Others(p) /\ Knows(p)'
    <3>1. pwm' \in [Channel -> {"auto", "stale", "driven"}] /\ faults' \in 0..MaxFaults
      BY <1>1, <1>2 DEF TypeInv, TypeOK
    <3> QED BY <1>2, <2>1, <3>1, VanishKeeps
  <2>3. \A c \in Channel : pwm'[c] # "auto" => pwm[c] # "auto" /\ ~Owes(p, c)
    BY <1>2, <2>1 DEF Owes
  <2> QED BY <1>3, <2>2, <2>3, OneSteps
<1> QED BY <1>4, <1>5

LEMMA KillKeeps ==
  ASSUME ChannelInv, NEW p \in Proc, Kill(p) PROVE ChannelInv'
<1>1. TypeInv
  BY DEF ChannelInv
<1>2. /\ Live(p) /\ Vanishes(p) /\ UNCHANGED <<taken, conf, sight, svc>>
      /\ faults' = faults + 2 /\ faults + 2 <= MaxFaults
  BY DEF Kill, Fault
<1>3. pwm' \in [Channel -> {"auto", "stale", "driven"}]
  <2>1. CASE UNCHANGED pwm
    BY <1>1, <2>1 DEF TypeInv, TypeOK
  <2>2. CASE Becomes(Turn(p), "stale")
    BY <1>1, <2>2 DEF TypeInv, TypeOK, Becomes
  <2> QED BY <2>1, <2>2 DEF Kill
<1>4. faults' \in 0..MaxFaults /\ faults' >= 2 /\ faults' >= faults
  BY <1>1, <1>2 DEF TypeInv, TypeOK
<1>5. TypeInv' /\ Others(p) /\ Knows(p)'
  BY <1>2, <1>3, <1>4, VanishKeeps
<1> QED BY <1>2, <1>4, <1>5, OneSteps

-----------------------------------------------------------------------------
(* Everything else.                                                            *)

\* A step that touches neither the channels nor what a process knows of them.
LEMMA Aside ==
  ASSUME ChannelInv, TypeOK', UNCHANGED <<pwm, taken, faults, pc, cfg, todo, failed, said, alone>>
  PROVE  ChannelInv'
BY DEF ChannelInv, TypeInv, Blank, Knows, Kept, Owed, Owes, Live, OthersGone

\* The newcomer owes what it may touch, and nobody is alone any more.
LEMMA StartKeeps ==
  ASSUME ChannelInv, NEW p \in Proc, Start(p) PROVE ChannelInv'
<1>1. TypeInv
  BY DEF ChannelInv
<1>2. /\ pc[p] = "gone" /\ pc' = [pc EXCEPT ![p] = "idle"]
      /\ cfg' = [cfg EXCEPT ![p] = conf] /\ alone' = [q \in Proc |-> FALSE]
      /\ UNCHANGED <<pwm, faults, taken, conf, sight, svc, todo, failed, told, said>>
  BY DEF Start, Goto, chip
<1>3. /\ pc'[p] = "idle" /\ cfg'[p] = conf /\ todo[p] = {} /\ cfg[p] = NoWiring
      /\ \A q \in Proc : alone'[q] = FALSE
      /\ \A q \in Proc : q # p => pc'[q] = pc[q] /\ cfg'[q] = cfg[q]
  BY <1>1, <1>2 DEF TypeInv, TypeOK, Blank
<1>4. alone' \in [Proc -> BOOLEAN] /\ pc' \in [Proc -> {"gone", "idle", "set", "release", "restore", "drop"}]
      /\ cfg' \in [Proc -> Wirings \cup {NoWiring}]
  BY <1>1, <1>2 DEF TypeInv, TypeOK
<1>5. TypeInv'
  BY <1>1, <1>2, <1>3, <1>4 DEF TypeInv, TypeOK, Blank
<1>6. ASSUME NEW q \in Proc PROVE Knows(q)'
  BY <1>2, <1>3 DEF ChannelInv, Knows
<1>7. Owed'
  <2> SUFFICES ASSUME NEW c \in Channel, pwm[c] # "auto", ~(faults >= 2)
               PROVE  \E q \in Proc : Owes(q, c)'
    BY <1>2 DEF Owed
  <2>1. PICK q \in Proc : Owes(q, c)
    BY DEF ChannelInv, Owed
  <2>2. q # p
    BY <1>2, <2>1 DEF Owes
  <2> QED BY <1>2, <1>3, <2>1, <2>2 DEF Owes
<1> QED BY <1>5, <1>6, <1>7 DEF ChannelInv

\* With every process gone, what is left in manual mode has cost two faults; the
\* one-shot hands each channel back or counts one more.
LEMMA OneShotKeeps ==
  ASSUME ChannelInv, OneShot
  PROVE  /\ ChannelInv'
         /\ (\A c \in Managed(conf) : pwm'[c] = "auto") \/ faults' >= 3
<1>1. TypeInv
  BY DEF ChannelInv
<1>2. PICK deaf \in SUBSET Managed(conf) :
        /\ Fault(Cardinality(deaf))
        /\ pwm' = [c \in Channel |-> IF c \in Managed(conf) \ deaf THEN "auto" ELSE pwm[c]]
  BY DEF OneShot
<1>3. /\ \A p \in Proc : ~Live(p)
      /\ svc' = "down" /\ UNCHANGED <<taken, conf, sight, pc, cfg, todo, failed, told, said, alone>>
  BY DEF OneShot, process
<1>4. Managed(conf) \in SUBSET Channel /\ deaf \in SUBSET Channel
  BY <1>1, ManagedChannels DEF TypeInv, TypeOK
<1>5. Cardinality(deaf) \in Nat /\ (Cardinality(deaf) = 0 <=> deaf = {})
  BY <1>4, DeafCounted
<1> DEFINE n == Cardinality(deaf)
<1>6. n \in Nat /\ faults' = faults + n /\ faults + n <= MaxFaults
  BY <1>2, <1>5 DEF Fault
<1> HIDE DEF n
<1>7. faults \in Nat /\ faults' \in 0..MaxFaults /\ faults' >= faults
  BY <1>1, <1>6 DEF TypeInv, TypeOK
<1>8. ASSUME NEW c \in Channel, pwm'[c] # "auto"
      PROVE  pwm[c] # "auto" /\ faults >= 2 /\ (c \in Managed(conf) => deaf # {})
  <2>1. pwm[c] # "auto" /\ (c \in Managed(conf) => c \in deaf)
    BY <1>2, <1>8
  <2>2. ~(\E p \in Proc : Owes(p, c))
    BY <1>3 DEF Live, Owes
  <2> QED BY <2>1, <2>2 DEF ChannelInv, Owed
<1>9. TypeInv'
  BY <1>1, <1>2, <1>3, <1>7 DEF TypeInv, TypeOK, Blank
<1>10. ASSUME NEW p \in Proc PROVE Knows(p)'
  BY <1>3, <1>6, <1>7 DEF ChannelInv, Knows, Live
<1>11. Owed'
  BY <1>7, <1>8 DEF Owed
<1>12. ASSUME NEW c \in Managed(conf), pwm'[c] # "auto" PROVE faults' >= 3
  <2>1. faults >= 2 /\ deaf # {}
    BY <1>4, <1>8, <1>12
  <2>2. n # 0
    BY <1>5, <2>1 DEF n
  <2> QED BY <1>6, <1>7, <2>1, <2>2
<1> QED BY <1>9, <1>10, <1>11, <1>12 DEF ChannelInv

\* What the EC takes back is nobody's to hand back any more, and is still kept.
LEMMA ReclaimKeeps ==
  ASSUME ChannelInv, NEW c \in Channel, Reclaim(c) PROVE ChannelInv'
<1>1. TypeInv
  BY DEF ChannelInv
<1>2. /\ pwm' = [pwm EXCEPT ![c] = "auto"] /\ taken' = taken \cup {c}
      /\ UNCHANGED <<faults, conf, sight, svc, pc, cfg, todo, failed, told, said, alone>>
  BY DEF Reclaim, Becomes, process
<1>3. /\ pwm' \in [Channel -> {"auto", "stale", "driven"}] /\ taken' \subseteq Channel
      /\ pwm'[c] = "auto" /\ \A d \in Channel : d # c => pwm'[d] = pwm[d]
  BY <1>1, <1>2 DEF TypeInv, TypeOK
<1>4. TypeInv'
  BY <1>1, <1>2, <1>3 DEF TypeInv, TypeOK, Blank
<1>5. \A d \in Channel : (Kept(d) => Kept(d)') /\ (pwm[d] = "auto" => pwm'[d] = "auto")
  BY <1>2, <1>3 DEF Kept
<1>6. ASSUME NEW p \in Proc PROVE Knows(p)'
  <2>1. Knows(p) /\ Managed(cfg[p]) \subseteq Channel
    BY <1>1, ManagedChannels DEF ChannelInv, TypeInv, TypeOK
  <2> QED BY <1>2, <1>5, <2>1 DEF Knows, Live, OthersGone
<1>7. Owed'
  BY <1>2, <1>5 DEF ChannelInv, Owed, Owes
<1> QED BY <1>4, <1>6, <1>7 DEF ChannelInv

LEMMA ChannelInit == Init => ChannelInv
<1> SUFFICES ASSUME Init PROVE ChannelInv
  OBVIOUS
<1>1. \A p \in Proc : Knows(p)
  BY DEF Init, Knows
<1> QED BY <1>1, TypeInvInit DEF Init, ChannelInv, Owed

LEMMA ChannelStep == ChannelInv /\ [Next]_vars => ChannelInv'
<1> SUFFICES ASSUME ChannelInv, [Next]_vars PROVE ChannelInv'
  OBVIOUS
<1>0. TypeOK
  BY DEF ChannelInv, TypeInv
<1>1. ASSUME NEW p \in Proc, ProcessStep(p) PROVE ChannelInv'
  BY <1>1, HandBackKeeps, BeginKeeps, SetKeeps, AnswerKeeps, LeaveKeeps, ExitKeeps DEF ProcessStep
<1>2. ASSUME NEW p \in Proc, Start(p) PROVE ChannelInv'
  BY <1>2, StartKeeps
<1>3. ASSUME NEW p \in Proc, Dismiss(p) PROVE ChannelInv'
  <2>1. UNCHANGED <<pwm, faults, taken, conf, sight, svc, pc, cfg, todo, failed, said, alone>>
    BY <1>3 DEF Dismiss, chip
  <2>2. told' \in [Proc -> {"no", "after", "now"}]
    <3>1. \/ told' = [told EXCEPT ![p] = "after"]
          \/ told' = [told EXCEPT ![p] = "now"]
      BY <1>3 DEF Dismiss, Told
    <3> QED BY <1>0, <3>1 DEF TypeOK
  <2>3. TypeOK'
    BY <1>0, <2>1, <2>2 DEF TypeOK
  <2> QED BY <2>1, <2>3, Aside
<1>4. ASSUME NEW p \in Proc, Panic(p) PROVE ChannelInv'
  BY <1>4, PanicKeeps
<1>5. ASSUME NEW p \in Proc, Kill(p) PROVE ChannelInv'
  BY <1>5, KillKeeps
<1>6. CASE Edit \/ Restart
  BY <1>0, <1>6, Aside DEF Edit, Restart, chip, process, TypeOK
<1>7. CASE Look
  <2>1. UNCHANGED <<pwm, faults, taken, conf, svc, pc, cfg, todo, failed, told, said, alone>>
    BY <1>7 DEF Look, chip, process
  <2>2. sight' \in BOOLEAN
    BY <1>7, Zenon DEF Look
  <2>3. TypeOK'
    BY <1>0, <2>1, <2>2 DEF TypeOK
  <2> QED BY <2>1, <2>3, Aside
<1>8. CASE Stop
  <2>1. UNCHANGED <<pwm, faults, taken, conf, sight, pc, cfg, todo, failed, said, alone>> /\ svc' = "stopping"
    BY <1>8 DEF Stop, chip
  <2>2. told' \in [Proc -> {"no", "after", "now"}]
    BY <1>0, <1>8 DEF Stop, TypeOK
  <2>3. TypeOK'
    BY <1>0, <2>1, <2>2 DEF TypeOK
  <2> QED BY <2>1, <2>3, Aside
<1>9. CASE OneShot
  BY <1>9, OneShotKeeps
<1>10. ASSUME NEW c \in Channel, Reclaim(c) PROVE ChannelInv'
  BY <1>10, ReclaimKeeps
<1>11. CASE UNCHANGED vars
  BY <1>0, <1>11, Aside DEF vars, chip, process, TypeOK
<1> QED BY <1>1, <1>2, <1>3, <1>4, <1>5, <1>6, <1>7, <1>8, <1>9, <1>10, <1>11 DEF Next

LEMMA ChannelAlways == Spec => []ChannelInv
<1> QED BY ChannelInit, ChannelStep, PTL DEF Spec

-----------------------------------------------------------------------------
(* The theorems.                                                               *)

\* Every variable of the device keeps its type, and a loop stays within the
\* channels its process has read from it87.conf.
THEOREM ChannelTypes == Spec => []TypeOK
<1>1. ChannelInv => TypeOK
  BY DEF ChannelInv, TypeInv
<1> QED BY <1>1, ChannelAlways, PTL

\* apply_duties of it87/main.rs: a report is about all of the channels, however
\* many there are and wherever a write of the loop failed.
THEOREM ReportIsWhole == Spec => []AllOrNothing
<1>1. ChannelInv => AllOrNothing
  BY DEF ChannelInv, Knows, AllOrNothing
<1> QED BY <1>1, ChannelAlways, PTL

\* restore, drop and one-shot of it87/main.rs: with fewer than three disturbances
\* a stopped service leaves every channel of the wiring file to the firmware.
THEOREM ChannelsGoBack == Spec => NotStranded
<1>1. ASSUME ChannelInv, [Next]_vars, svc = "stopping", svc' = "down" PROVE OneShot
  <2>1. svc' # svc
    BY <1>1
  <2>2. ASSUME NEW p \in Proc, ProcessStep(p) \/ Start(p) \/ Dismiss(p) \/ Panic(p) \/ Kill(p)
        PROVE  svc' = svc
    BY <2>2 DEF ProcessStep, HandBack, Begin, Set, Answer, Leave, Exit, Start, Dismiss, Panic, Kill
  <2>3. ASSUME NEW c \in Channel, Reclaim(c) PROVE svc' = svc
    BY <2>3 DEF Reclaim
  <2>4. ~(Edit \/ Look \/ Stop \/ Restart \/ UNCHANGED vars)
    BY <1>1 DEF Edit, Look, Stop, Restart, vars
  <2> QED BY <1>1, <2>1, <2>2, <2>3, <2>4 DEF Next
<1>2. ChannelInv /\ [Next]_vars =>
        [svc = "stopping" /\ svc' = "down" =>
           (\A c \in Managed(conf) : pwm'[c] = "auto") \/ faults' >= 3]_vars
  BY <1>1, OneShotKeeps
<1> QED BY <1>2, ChannelAlways, PTL DEF Spec, NotStranded
===============================================================================
