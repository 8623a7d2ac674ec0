----------------------------- MODULE MCRome2dFans -----------------------------
(* Surroundings of the rome2d-fans process for TLC.                            *)
EXTENDS Rome2dFans, TLC

\* Files.
Line(cold, hot) ==
  [kind |-> "object", sensitivity |-> Unset,
   entries |-> << [good |-> TRUE, temp |-> 40, duty |-> cold],
                  [good |-> TRUE, temp |-> 44, duty |-> hot] >>]
Absent  == [kind |-> "missing", entries |-> <<>>, sensitivity |-> Unset]
Garbled == [kind |-> "garbled", entries |-> <<>>, sensitivity |-> Unset]
Sparse  == [kind |-> "object", sensitivity |-> 400,
            entries |-> << [good |-> FALSE, temp |-> 0, duty |-> 0] >>]
Falling == Line(60, 30)
Steady(file) == [made |-> file, probed |-> file, used |-> file]
Changing(made, probed, used) == [made |-> made, probed |-> probed, used |-> used]

NoPolicy == [kind |-> "missing", version |-> 0, enabled |-> FALSE, rules |-> <<>>]
BadPolicy == [NoPolicy EXCEPT !.kind = "garbled"]
AnySignal == [f \in Field |-> {}]
From(module) == [AnySignal EXCEPT !["module"] = {module}]
NoLabels == [l \in {} |-> {}]
Rule(name, module, curve, required) ==
  [name |-> name, match |-> From(module), labels |-> NoLabels, curve |-> curve,
   basename |-> TRUE, required |-> required]
Policy(rules) == [kind |-> "object", version |-> PolicyVersion, enabled |-> TRUE, rules |-> rules]
Off == [Policy(<<>>) EXCEPT !.enabled = FALSE]
Future == [Policy(<<>>) EXCEPT !.version = 2]

\* Signals.
Temp(module, value) ==
  [role |-> "producer", kind |-> "temperature", value |-> value, labels |-> NoLabels,
   field |-> [f \in Field |-> IF f = "module" THEN module ELSE "x"]]

AllSpin == [f \in Fan |-> 900]
Stands(f) == [AllSpin EXCEPT ![f] = 0]
Unread(f) == [AllSpin EXCEPT ![f] = Unset]

Plain == [main |-> Line(30, 38), cpuFile |-> Steady(Absent), caseFile |-> Steady(Absent),
          policy |-> NoPolicy, curves |-> [c \in {} |-> Absent],
          inputs |-> {Temp("nvme", 40)}, cpu |-> {40}, local |-> {Temp("self", 40)},
          rpm |-> AllSpin, obeys |-> TRUE]
Hot(s) == [s EXCEPT !.cpu = {44}, !.local = {Temp("self", 44)}]
Zoned == [Plain EXCEPT !.cpuFile = Steady(Line(30, 38)), !.caseFile = Steady(Line(40, 52))]
TwoRules == Policy(<<Rule("disks", "nvme", "a", FALSE), Rule("gpus", "gpu", "b", TRUE)>>)
Curves == ("a" :> Line(50, 60)) @@ ("b" :> Line(45, 80))
Ruled == [Plain EXCEPT !.policy = TwoRules, !.curves = Curves,
                       !.inputs = {Temp("nvme", 40), Temp("gpu", 40)}]

TheSurroundings ==
     "zoned"      :> Zoned
  @@ "cpuHot"     :> Hot(Zoned)
  @@ "caseHot"    :> [Zoned EXCEPT !.inputs = {Temp("nvme", 44)}]
  @@ "noInput"    :> [Zoned EXCEPT !.inputs = {}]
  @@ "noCpu"      :> [Zoned EXCEPT !.cpu = {}]
  @@ "zoneEdit"   :> [Zoned EXCEPT !.caseFile = Steady(Garbled)]
  @@ "zoneTorn"   :> [Zoned EXCEPT !.caseFile = Changing(Line(40, 52), Line(40, 52), Garbled)]
  @@ "zoneLost"   :> [Zoned EXCEPT !.cpuFile = Changing(Garbled, Line(30, 38), Absent)]
  @@ "zoneLate"   :> [Zoned EXCEPT !.caseFile = Changing(Absent, Line(40, 52), Line(40, 52))]
  @@ "zoneFails"  :> [Zoned EXCEPT !.obeys = FALSE]
  @@ "plain"      :> Plain
  @@ "hot"        :> [Hot(Plain) EXCEPT !.main = Sparse]
  @@ "edited"     :> [Plain EXCEPT !.main = Line(35, 120)]
  @@ "blind"      :> [Plain EXCEPT !.inputs = {}, !.cpu = {}, !.local = {}, !.main = Garbled]
  @@ "fails"      :> [Plain EXCEPT !.obeys = FALSE]
  @@ "ruled"      :> Ruled
  @@ "gpuHot"     :> [Ruled EXCEPT !.inputs = {Temp("nvme", 40), Temp("gpu", 44)}]
  @@ "noDisk"     :> [Ruled EXCEPT !.inputs = {Temp("gpu", 40)}]
  @@ "noGpu"      :> [Ruled EXCEPT !.inputs = {Temp("nvme", 44)}]
  @@ "latent"     :> [Ruled EXCEPT !.curves = ("a" :> Falling) @@ ("b" :> Line(45, 80)),
                                   !.inputs = {Temp("gpu", 40)}]
  @@ "deleted"    :> [Ruled EXCEPT !.policy = NoPolicy]
  @@ "broken"     :> [Ruled EXCEPT !.policy = BadPolicy]
  @@ "future"     :> [Ruled EXCEPT !.policy = Future]
  @@ "off"        :> [Ruled EXCEPT !.policy = Off]
  @@ "ruledFails" :> [Ruled EXCEPT !.obeys = FALSE]
  @@ "stands"     :> [Plain EXCEPT !.rpm = Stands(3)]
  @@ "unread"     :> [Plain EXCEPT !.rpm = Unread(3)]
  @@ "cpuStands"  :> [Plain EXCEPT !.rpm = Stands(1)]
  @@ "idle"       :> [Plain EXCEPT !.main = Line(10, 38), !.rpm = Stands(3)]

TheNames == DOMAIN TheSurroundings
TheWorlds == { {"zoned", "cpuHot", "caseHot", "noInput", "noCpu", "zoneEdit", "zoneTorn", "zoneLost",
                "zoneLate", "zoneFails"},
               {"plain", "hot", "edited", "blind", "fails"},
               {"ruled", "gpuHot", "noDisk", "noGpu", "latent", "deleted", "broken",
                "future", "off", "ruledFails"},
               {"plain", "stands", "unread", "cpuStands", "idle", "fails"} }
=============================================================================
