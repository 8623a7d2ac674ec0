--------------------------- MODULE Rome2dFansProofs ---------------------------
(***************************************************************************)
(* Lemmas about the damper of Curves, and the theorems of Rome2dFans: a    *)
(* fan is declared dead only when that is earned, none is commanded below  *)
(* its curve, editing curve files does not cost control, an overlay that   *)
(* cannot be judged fails high, and an outage is forgotten.                *)
(***************************************************************************)
EXTENDS Rome2dFans, WellFoundedInduction, TLAPS

-----------------------------------------------------------------------------
(* The damper.                                                             *)

\* The deadband never answers with less than the curve asks for, nor with three
\* points more, whatever duty it held before (Damper::deadband).
LEMMA DeadbandBounds ==
  ASSUME NEW d, NEW target \in 0..100, d.applied \in {Unset} \cup 0..100
  PROVE  /\ Deadband(d, target) \in 0..100
         /\ target <= Deadband(d, target)
         /\ Deadband(d, target) < target + DeadbandPct
  BY DEF Deadband, DeadbandPct, Unset

\* A fall of three points or more is followed at once, and so is every rise:
\* what is held back never adds up over several ticks.
LEMMA DeadbandFollows ==
  ASSUME NEW d, NEW target \in 0..100, d.applied \in {Unset} \cup 0..100,
         d.applied <= target \/ target + DeadbandPct <= d.applied
  PROVE  Deadband(d, target) = target
  BY DEF Deadband, DeadbandPct, Unset

\* The clamp of Controller::duty yields a percentage.
LEMMA ClampBounds ==
  ASSUME NEW x \in Int
  PROVE  /\ Clamp(x, 0, 100) \in 0..100
         /\ x \in 0..100 => Clamp(x, 0, 100) = x
  BY DEF Clamp

\* The average moves towards the reading and not past it, except that it reaches
\* the next half of a degree (Damper::smooth).
LEMMA SmoothMovesTowards ==
  ASSUME NEW d, NEW alpha \in 1..100, NEW raw \in Nat, d.smoothed \in Nat
  PROVE  /\ d.smoothed <= raw * Unit =>
              d.smoothed <= Smooth(d, alpha, raw) /\ Smooth(d, alpha, raw) <= raw * Unit
         /\ raw * Unit < d.smoothed =>
              raw * Unit <= Smooth(d, alpha, raw) /\ Smooth(d, alpha, raw) <= d.smoothed
<1> DEFINE s == d.smoothed
           r == raw * Unit
           mix == alpha * r + (100 - alpha) * s
<1>1. s \in Nat /\ r \in Nat /\ s # Unset
  BY DEF Unit, Unset
<1>2. mix \in Int /\ alpha * (r - s) \in Int /\ mix = 100 * s + alpha * (r - s)
  BY <1>1
<1>0. alpha * raw * Unit = alpha * r
  BY DEF Unit
<1>3. CASE s <= r
  <2>1. 0 <= alpha * (r - s) /\ alpha * (r - s) <= 100 * (r - s)
    BY <1>1, <1>3
  <2>2. 100 * s <= mix /\ mix <= 100 * r
    BY <1>1, <1>2, <2>1
  <2>3. s <= (mix + 99) \div 100 /\ (mix + 99) \div 100 <= r
    <3> HIDE DEF s, r, mix
    <3> QED BY <1>1, <1>2, <2>2
  <2>4. Smooth(d, alpha, raw) = (mix + 99) \div 100
    BY <1>0, <1>1, <1>3 DEF Smooth
  <2> QED BY <1>1, <1>3, <2>3, <2>4
<1>4. CASE r < s
  <2>1. alpha * (r - s) <= 0 /\ 100 * (r - s) <= alpha * (r - s)
    BY <1>1, <1>4
  <2>2. mix <= 100 * s /\ 100 * r <= mix
    BY <1>1, <1>2, <2>1
  <2>3. r <= mix \div 100 /\ mix \div 100 <= s
    <3> HIDE DEF s, r, mix
    <3> QED BY <1>1, <1>2, <2>2
  <2>4. Smooth(d, alpha, raw) = mix \div 100
    BY <1>0, <1>1, <1>4 DEF Smooth
  <2> QED BY <1>1, <1>4, <2>3, <2>4
<1> QED BY <1>1, <1>3, <1>4

-----------------------------------------------------------------------------
(* The curve.                                                              *)

\* Bounded sets of numbers have a least and a greatest element.
LEMMA LeastIn ==
  ASSUME NEW S \in SUBSET Nat, S # {}
  PROVE  Min(S) \in S /\ \A y \in S : Min(S) <= y
<1> DEFINE R == OpToRel(<, Nat)
<1>1. IsWellFoundedOn(R, Nat)
  BY NatLessThanWellFounded
<1>2. \A x, y \in Nat : <<x, y>> \in R <=> x < y
  BY DEF OpToRel
<1> HIDE DEF R
<1>3. \E x \in S : \A y \in S : ~(<<y, x>> \in R)
  BY <1>1, WFMin
<1>4. PICK x \in S : \A y \in S : ~(<<y, x>> \in R)
  BY <1>3
<1>5. ASSUME NEW y \in S PROVE x <= y
  <2>1. x \in Nat /\ y \in Nat /\ ~(<<y, x>> \in R)
    BY <1>4
  <2>2. ~(y < x)
    BY <1>2, <2>1
  <2> QED BY <2>1, <2>2
<1> QED BY <1>5 DEF Min

LEMMA GreatestIn ==
  ASSUME NEW S \in SUBSET Nat, S # {}, NEW b \in Nat, \A y \in S : y <= b
  PROVE  Max(S) \in S /\ \A y \in S : y <= Max(S)
<1> DEFINE B == {n \in Nat : \A y \in S : y <= n}
           m == Min(B)
<1>1. m \in B /\ \A n \in B : m <= n
  <2>1. B \in SUBSET Nat /\ b \in B
    OBVIOUS
  <2> HIDE DEF B
  <2> QED BY <2>1, LeastIn
<1>2. m \in Nat /\ \A y \in S : y <= m
  BY <1>1
<1>3. m \in S
  <2> SUFFICES ASSUME m \notin S PROVE FALSE
    OBVIOUS
  <2>1. \A y \in S : y <= m - 1
    BY <1>2
  <2>2. m - 1 \in Nat
    <3>1. PICK y \in S : y \in Nat /\ y <= m - 1
      BY <2>1
    <3> QED BY <1>2, <3>1
  <2>3. m - 1 \in B
    BY <2>1, <2>2
  <2>4. m <= m - 1
    BY <1>1, <2>3
  <2> QED BY <1>2, <2>4
<1> HIDE DEF m
<1>4. PICK x \in S : \A y \in S : x >= y
  BY <1>2, <1>3
<1> QED BY <1>4 DEF Max

Curve == UNION {[D -> Int] : D \in SUBSET Nat}
Percent == {Unset} \cup 0..100
Damper == [smoothed : Average, applied : Percent]
Controller == [curve : Curve, alpha : 1..100, smoothed : Average, applied : Percent]

\* What a curve holds where it is defined.
LEMMA CurvePoints ==
  ASSUME NEW curve \in Curve
  PROVE  DOMAIN curve \in SUBSET Nat /\ \A t \in DOMAIN curve : curve[t] \in Int
BY DEF Curve

\* Between two points the curve is an integer again (Curve::eval).
LEMMA EvalType ==
  ASSUME NEW curve \in Curve, NEW t \in Nat
  PROVE  Eval(curve, t) \in Int
<1> DEFINE below == {p \in DOMAIN curve : p <= t}
           above == {p \in DOMAIN curve : p >= t}
<1>1. DOMAIN curve \in SUBSET Nat /\ \A p \in DOMAIN curve : curve[p] \in Int
  BY CurvePoints
<1>2. below # {} => Max(below) \in DOMAIN curve /\ Max(below) <= t
  <2>1. below \in SUBSET Nat /\ \A y \in below : y <= t
    BY <1>1
  <2>2. below # {} => Max(below) \in below
    <3> HIDE DEF below
    <3> QED BY <2>1, GreatestIn
  <2> QED BY <2>2
<1>3. above # {} => Min(above) \in DOMAIN curve /\ Min(above) >= t
  <2>1. above \in SUBSET Nat
    BY <1>1
  <2>2. above # {} => Min(above) \in above
    <3> HIDE DEF above
    <3> QED BY <2>1, LeastIn
  <2> QED BY <2>2
<1>4. Usable(curve) => below # {} \/ above # {}
  <2> SUFFICES ASSUME NEW p \in DOMAIN curve PROVE p \in below \/ p \in above
    BY DEF Usable
  <2> QED BY <1>1
<1> HIDE DEF below, above
<1> DEFINE lo == Max(below)
           hi == Min(above)
<1>5. CASE below # {} /\ above # {} /\ lo # hi
  <2>1. lo \in Nat /\ hi \in Nat /\ lo < hi /\ curve[lo] \in Int /\ curve[hi] \in Int
    BY <1>1, <1>2, <1>3, <1>5
  <2> DEFINE w == hi - lo
             x == curve[lo] * w + (t - lo) * (curve[hi] - curve[lo])
  <2>2. w \in Nat /\ w > 0
    BY <2>1
  <2>3. x \in Int
    <3> HIDE DEF lo, hi, w
    <3>1. t - lo \in Int /\ curve[hi] - curve[lo] \in Int
      BY <2>1
    <3>2. curve[lo] * w \in Int /\ (t - lo) * (curve[hi] - curve[lo]) \in Int
      BY <2>1, <2>2, <3>1
    <3> QED BY <3>2
  <2>4. x \div w \in Int
    <3> HIDE DEF x, w
    <3> QED BY <2>2, <2>3
  <2>5. Eval(curve, t) = 0 \/ Eval(curve, t) = x \div w
    BY <1>5 DEF Eval, below, above
  <2> QED BY <2>4, <2>5
<1>6. CASE ~(below # {} /\ above # {} /\ lo # hi)
  <2>1. Eval(curve, t) = 0 \/ (above # {} /\ Eval(curve, t) = curve[hi])
        \/ (below # {} /\ Eval(curve, t) = curve[lo])
    BY <1>4, <1>6 DEF Eval, below, above
  <2> QED BY <1>1, <1>2, <1>3, <2>1
<1> QED BY <1>5, <1>6

\* Curve::from_json: a function from degrees to numbers, with a point for each
\* good entry.
LEMMA FromJsonType ==
  ASSUME NEW file \in File
  PROVE  FromJson(file) \in Curve /\ (GoodEntries(file) # {} => Usable(FromJson(file)))
<1> DEFINE good == GoodEntries(file)
           at(t) == {i \in good : file.entries[i].temp = t}
           D == {file.entries[i].temp : i \in good}
           n == Len(file.entries)
<1>1. /\ n \in Nat /\ DOMAIN file.entries = 1..n
      /\ \A i \in 1..n : file.entries[i].temp \in Nat /\ file.entries[i].duty \in Int
  <2> DEFINE Entry == [good : BOOLEAN, temp : Nat, duty : Int]
  <2>1. file.entries \in Seq(Entry)
    BY DEF File
  <2>2. \A e \in Entry : e.temp \in Nat /\ e.duty \in Int
    OBVIOUS
  <2> HIDE DEF Entry
  <2>3. n \in Nat /\ DOMAIN file.entries = 1..n /\ \A i \in 1..n : file.entries[i] \in Entry
    BY <2>1
  <2> HIDE DEF n
  <2> QED BY <2>2, <2>3
<1>2. good \in SUBSET (1..n)
  BY <1>1 DEF GoodEntries
<1>3. D \in SUBSET Nat /\ (good # {} => D # {})
  BY <1>1, <1>2
<1>4. ASSUME NEW t \in D PROVE file.entries[Max(at(t))].duty \in Int
  <2>1. at(t) # {} /\ at(t) \in SUBSET Nat /\ \A i \in at(t) : i <= n
    BY <1>2, <1>4
  <2>2. Max(at(t)) \in at(t)
    <3> HIDE DEF at, n
    <3> QED BY <1>1, <2>1, GreatestIn
  <2> QED BY <1>1, <1>2, <2>2
<1>5. FromJson(file) = [t \in D |-> file.entries[Max(at(t))].duty]
  BY DEF FromJson
<1> HIDE DEF at, D, good
<1>6. FromJson(file) \in [D -> Int]
  BY <1>4, <1>5
<1>7. DOMAIN FromJson(file) = D
  BY <1>5
<1> QED BY <1>3, <1>6, <1>7 DEF Curve, Usable, good

-----------------------------------------------------------------------------
(* The controller.                                                         *)

LEMMA SmoothType ==
  ASSUME NEW d, d.smoothed \in Average, NEW alpha \in 1..100, NEW raw \in Nat
  PROVE  Smooth(d, alpha, raw) \in Nat /\ Degrees(Smooth(d, alpha, raw)) \in Nat
<1>1. Smooth(d, alpha, raw) \in Nat
  <2>1. CASE d.smoothed = Unset
    BY <2>1 DEF Smooth, Unit
  <2>2. CASE d.smoothed # Unset
    <3> DEFINE s == d.smoothed
               r == raw * Unit
               mix == alpha * r + (100 - alpha) * s
    <3>1. s \in Nat /\ r \in Nat
      BY <2>2 DEF Average, Unit
    <3>2. alpha * r \in Nat /\ (100 - alpha) * s \in Nat
      <4> HIDE DEF r, s
      <4>1. alpha \in Nat /\ 100 - alpha \in Nat
        OBVIOUS
      <4> QED BY <3>1, <4>1
    <3>3. mix \in Nat
      BY <3>2
    <3>4. alpha * raw * Unit = alpha * r
      BY DEF Unit
    <3>5. (mix + 99) \div 100 \in Nat /\ mix \div 100 \in Nat
      <4> HIDE DEF mix
      <4> QED BY <3>3
    <3>6. Smooth(d, alpha, raw) \in {(mix + 99) \div 100, mix \div 100}
      BY <2>2, <3>4 DEF Smooth
    <3> QED BY <3>5, <3>6
  <2> QED BY <2>1, <2>2
<1>2. ASSUME NEW a \in Nat PROVE Degrees(a) \in Nat
  BY DEF Degrees, Unit
<1> QED BY <1>1, <1>2

\* What the damper is asked for, and what it answers.
Target(d, curve, alpha, raw) == Clamp(Eval(curve, Degrees(Smooth(d, alpha, raw))), 0, 100)
Answer(d, curve, alpha, raw) == Deadband(d, Target(d, curve, alpha, raw))

\* The damped answer: a percentage, and never less than the curve asks for at the
\* average it is damped to.
LEMMA DampedDoes ==
  ASSUME NEW d, d.smoothed \in Average, d.applied \in Percent,
         NEW curve \in Curve, NEW alpha \in 1..100, NEW raw \in Nat
  PROVE  /\ Smooth(d, alpha, raw) \in Nat
         /\ Answer(d, curve, alpha, raw) \in 0..100
         /\ Answer(d, curve, alpha, raw) >= Target(d, curve, alpha, raw)
<1>1. Smooth(d, alpha, raw) \in Nat /\ Degrees(Smooth(d, alpha, raw)) \in Nat
  BY SmoothType
<1>2. Target(d, curve, alpha, raw) \in 0..100
  BY <1>1, EvalType, ClampBounds DEF Target
<1>3. /\ Answer(d, curve, alpha, raw) \in 0..100
      /\ Target(d, curve, alpha, raw) <= Answer(d, curve, alpha, raw)
  BY <1>2, DeadbandBounds DEF Percent, Answer
<1> QED BY <1>1, <1>2, <1>3

\* Reloading never loses a curve that could be used, and takes one up as soon as
\* the file has a good entry.
LEMMA ReloadDoes ==
  ASSUME NEW c \in Controller, NEW file \in File
  PROVE  /\ Reload(c, file) \in Controller
         /\ Usable(c.curve) => Usable(Reload(c, file).curve)
         /\ file.kind = "object" /\ GoodEntries(file) # {} => Usable(Reload(c, file).curve)
<1>1. CASE file.kind # "object" \/ GoodEntries(file) = {}
  BY <1>1 DEF Reload
<1>2. CASE ~(file.kind # "object" \/ GoodEntries(file) = {})
  <2>1. PICK a \in 1..100 : Reload(c, file) = [c EXCEPT !.curve = FromJson(file), !.alpha = a]
    BY <1>2 DEF Reload, Controller
  <2>2. FromJson(file) \in Curve /\ Usable(FromJson(file))
    BY <1>2, FromJsonType
  <2>3. Reload(c, file) \in Controller /\ Reload(c, file).curve = FromJson(file)
    BY <2>1, <2>2 DEF Controller
  <2> QED BY <2>2, <2>3
<1> QED BY <1>1, <1>2

LEMMA NewControllerDoes ==
  ASSUME NEW file \in File
  PROVE  /\ NewController(file) \in Controller
         /\ Usable(NewController(file).curve) => file.kind = "object" /\ GoodEntries(file) # {}
<1> DEFINE blank == [curve |-> NoCurve, alpha |-> DefaultAlpha, smoothed |-> Unset, applied |-> Unset]
<1>1. NoCurve \in [{} -> Int] /\ ~Usable(NoCurve)
  BY DEF NoCurve, Usable
<1>2. NoCurve \in Curve
  BY <1>1 DEF Curve
<1>3. blank \in Controller /\ blank.curve = NoCurve
  BY <1>2 DEF Controller, DefaultAlpha, Average, Percent
<1>4. NewController(file) = Reload(blank, file)
  BY DEF NewController
<1> HIDE DEF blank
<1>5. file.kind # "object" \/ GoodEntries(file) = {} => NewController(file) = blank
  BY <1>4 DEF Reload
<1> QED BY <1>1, <1>3, <1>4, <1>5, ReloadDoes

\* Controller::duty: with a curve, held or read just now, there is always a duty.
LEMMA DutyDoes ==
  ASSUME NEW c \in Controller, NEW file \in File, NEW raw \in Nat
  PROVE  LET e == Duty(c, file, raw) IN
         /\ e \in Controller
         /\ Usable(c.curve) \/ Whole(file) => Usable(e.curve)
         /\ Usable(e.curve) => e.applied \in 0..100 /\ e.applied >= Demand(e)
         /\ ~Usable(e.curve) => e.applied = Unset
<1> DEFINE l == Reload(c, file)
           e == Duty(c, file, raw)
<1>1. l \in Controller
  BY ReloadDoes
<1>2. Usable(c.curve) \/ Whole(file) => Usable(l.curve)
  BY ReloadDoes, NewControllerDoes DEF Whole
<1> HIDE DEF l
<1>3. CASE Usable(l.curve)
  <2>1. e = Damped(l, l.curve, Clamp(l.alpha, 1, 100), raw)
    BY <1>3 DEF Duty, l
  <2>2. l.curve \in Curve /\ Clamp(l.alpha, 1, 100) \in 1..100
    BY <1>1 DEF Controller, Clamp
  <2>3. l.smoothed \in Average /\ l.applied \in Percent
    BY <1>1 DEF Controller
  <2> DEFINE a == Clamp(l.alpha, 1, 100)
             x == l.curve
             average == Smooth(l, a, raw)
             answer == Answer(l, x, a, raw)
  <2>4. average \in Nat /\ answer \in 0..100 /\ answer >= Target(l, x, a, raw)
    <3>1. a \in 1..100 /\ x \in Curve
      BY <2>2
    <3> HIDE DEF a, x
    <3> QED BY <2>3, <3>1, DampedDoes
  <2>5. e = [l EXCEPT !.smoothed = average, !.applied = answer]
    BY <2>1 DEF Damped, Answer, Target
  <2>6. /\ e.smoothed = average /\ e.applied = answer /\ e.curve = l.curve
        /\ e \in Controller
    <3> HIDE DEF e, average, answer
    <3> QED BY <1>1, <2>4, <2>5 DEF Controller, Average, Percent
  <2>7. Demand(e) = Target(l, x, a, raw)
    <3> HIDE DEF e
    <3> QED BY <2>6 DEF Demand, Target
  <2> HIDE DEF e, a, x, average, answer
  <2>8. e.applied \in 0..100 /\ e.applied >= Demand(e)
    BY <2>4, <2>6, <2>7
  <2> QED BY <1>3, <2>6, <2>8 DEF e
<1>4. CASE ~Usable(l.curve)
  <2>1. e = [l EXCEPT !.smoothed = Unset, !.applied = Unset]
    BY <1>4 DEF Duty, Reset, l
  <2>2. e \in Controller /\ e.applied = Unset /\ ~Usable(e.curve)
    BY <1>1, <1>4, <2>1 DEF Controller, Average, Percent
  <2> QED BY <1>2, <1>4, <2>2
<1> QED BY <1>3, <1>4

LEMMA ResetDoes ==
  ASSUME NEW c \in Controller
  PROVE  Reset(c) \in Controller /\ Reset(c).curve = c.curve
BY DEF Reset, Controller, Average, Percent

-----------------------------------------------------------------------------
(* The temperatures.                                                       *)

LEMMA ReadingBounded ==
  /\ Unset \in Reading
  /\ \A x \in Reading : x # Unset => x \in Nat
  /\ \E b \in Nat : \A x \in Reading : x <= b
<1>1. MaxReading \in Nat
  BY SMT DEF MaxReading
<1>2. Unset \in Reading
  BY DEF Reading, Unset
<1>3. ASSUME NEW x \in Reading PROVE x <= MaxReading /\ (x # Unset => x \in Nat)
  BY <1>1 DEF Reading, Unset
<1> QED BY <1>1, <1>2, <1>3

LEMMA MaxOrUnsetIn ==
  ASSUME NEW S \in SUBSET (Reading \ {Unset})
  PROVE  /\ S = {} => MaxOrUnset(S) = Unset
         /\ S # {} => MaxOrUnset(S) \in S
         /\ MaxOrUnset(S) \in Reading
<1>1. PICK b \in Nat : \A x \in Reading : x <= b
  BY ReadingBounded
<1>2. S \in SUBSET Nat /\ \A y \in S : y <= b
  BY <1>1, ReadingBounded
<1>3. S # {} => Max(S) \in S
  BY <1>2, GreatestIn
<1> QED BY <1>3, ReadingBounded DEF MaxOrUnset

\* A tick has a temperature to regulate by exactly when some reading is there.
LEMMA Temperatures ==
  ASSUME NEW n \in Surrounding
  PROVE  /\ CpuMax(At[n]) \in Reading /\ InputMax(At[n]) \in Reading
         /\ RawMax(At[n]) \in Reading
         /\ RawMax(At[n]) = Unset => CpuMax(At[n]) = Unset /\ InputMax(At[n]) = Unset
<1> DEFINE s == At[n]
           I == {x.value : x \in {y \in s.inputs : y.kind = "temperature"}} \ {Unset}
           C == s.cpu \ {Unset}
           R == {CpuMax(s), InputMax(s)} \ {Unset}
<1>1. s.cpu \subseteq Reading /\ \A x \in s.inputs : x.value \in Reading
  BY SurroundingsAssumption
<1>2. I \in SUBSET (Reading \ {Unset}) /\ C \in SUBSET (Reading \ {Unset})
  BY <1>1
<1>3. CpuMax(s) \in Reading /\ InputMax(s) \in Reading
  <2> HIDE DEF I, C
  <2>1. MaxOrUnset(I) \in Reading /\ MaxOrUnset(C) \in Reading
    BY <1>2, MaxOrUnsetIn
  <2> QED BY <2>1 DEF CpuMax, InputMax, I, C
<1>4. R \in SUBSET (Reading \ {Unset})
  BY <1>3
<1>5. RawMax(s) = MaxOrUnset(R)
  BY DEF RawMax
<1>6. R = {} => CpuMax(s) = Unset /\ InputMax(s) = Unset
  OBVIOUS
<1> HIDE DEF R
<1>7. RawMax(s) \in Reading /\ (R # {} => RawMax(s) \in R)
  BY <1>4, <1>5, MaxOrUnsetIn
<1> QED BY <1>3, <1>4, <1>6, <1>7

-----------------------------------------------------------------------------
(* The baseline.                                                           *)

Pair == [made : {TRUE}, cpu : Controller, case : Controller]

\* The main curve is never lost; the zone controllers may have none.
ControlInv ==
  /\ ctrl \in Controller /\ Usable(ctrl.curve)
  /\ zones = NoZones \/ zones \in Pair

\* What each of the reads of a zone file gives is a file.
LEMMA ReadsAreFiles ==
  ASSUME NEW n \in Surrounding
  PROVE  /\ At[n].cpuFile.made \in File /\ At[n].cpuFile.used \in File
         /\ At[n].caseFile.made \in File /\ At[n].caseFile.used \in File
BY SurroundingsAssumption DEF Reads

LEMMA ZonesType ==
  ASSUME ControlInv, NEW n \in Surrounding
  PROVE  Zones(At[n]) \in Pair
<1> DEFINE cpu == NewController(At[n].cpuFile.made)
           case == NewController(At[n].caseFile.made)
<1>2. cpu \in Controller /\ case \in Controller
  BY ReadsAreFiles, NewControllerDoes
<1>3. zones.made => zones \in Pair
  BY DEF ControlInv, NoZones
<1>4. [made |-> TRUE, cpu |-> cpu, case |-> case] \in Pair
  <2> HIDE DEF cpu, case
  <2> QED BY <1>2 DEF Pair
<1> QED BY <1>3, <1>4 DEF Zones

\* What a tick makes of the temperatures and the files: a duty for each zone, at
\* least what its curve asks for; or none, and then a temperature is missing or
\* the file of a zone without a curve broke after the probe.
LEMMA BaselineDoes ==
  ASSUME ControlInv, NEW n \in Surrounding, NEW b, b = Baseline(At[n])
  PROVE  /\ b.mode \in {"zone", "uniform"}
         /\ b.ctrl \in Controller /\ Usable(b.ctrl.curve) /\ b.zones \in Pair
         /\ b.ok => b.cpu \in 0..100 /\ b.case \in 0..100
         /\ b.ok /\ b.mode = "uniform" => b.cpu >= Demand(b.ctrl) /\ b.case >= Demand(b.ctrl)
         /\ b.ok /\ b.mode = "zone" =>
              b.cpu >= Demand(b.zones.cpu) /\ b.case >= Demand(b.zones.case)
         /\ ~b.ok /\ b.mode = "uniform" => CpuMax(At[n]) = Unset /\ InputMax(At[n]) = Unset
         /\ ~b.ok /\ b.mode = "zone" =>
              \/ CpuMax(At[n]) = Unset \/ InputMax(At[n]) = Unset
              \/ Torn(Zones(At[n]).cpu, At[n].cpuFile)
              \/ Torn(Zones(At[n]).case, At[n].caseFile)
<1> DEFINE s == At[n]
           z == Zones(s)
<1>1. s.main \in File /\ s.cpuFile.used \in File /\ s.caseFile.used \in File
  BY SurroundingsAssumption, ReadsAreFiles
<1>2. CpuMax(s) \in Reading /\ InputMax(s) \in Reading /\ RawMax(s) \in Reading
      /\ (RawMax(s) = Unset => CpuMax(s) = Unset /\ InputMax(s) = Unset)
  BY Temperatures
<1>3. z \in Pair /\ z.cpu \in Controller /\ z.case \in Controller
  BY ZonesType DEF Pair
<1> HIDE DEF z
<1>4. CASE ZoneMode(s)
  <2>2. b = ZoneBaseline(s)
    BY <1>4 DEF Baseline
  <2> DEFINE seeing == CpuMax(s) # Unset /\ InputMax(s) # Unset
             cpu == Duty(z.cpu, s.cpuFile.used, CpuMax(s))
             case == Duty(z.case, s.caseFile.used, InputMax(s))
             after == IF seeing THEN [z EXCEPT !.cpu = cpu, !.case = case] ELSE z
  <2>3. seeing => /\ cpu \in Controller /\ case \in Controller
                  /\ cpu.applied # Unset => cpu.applied \in 0..100 /\ cpu.applied >= Demand(cpu)
                  /\ case.applied # Unset => case.applied \in 0..100 /\ case.applied >= Demand(case)
                  /\ cpu.applied = Unset => Torn(z.cpu, s.cpuFile)
                  /\ case.applied = Unset => Torn(z.case, s.caseFile)
    <3>1. CASE ~seeing
      BY <3>1
    <3>2. CASE seeing
      <4>1. CpuMax(s) \in Nat /\ InputMax(s) \in Nat
        BY <1>2, <3>2, ReadingBounded
      <4>2. /\ cpu \in Controller
            /\ Usable(z.cpu.curve) \/ Whole(s.cpuFile.used) => Usable(cpu.curve)
            /\ Usable(cpu.curve) => cpu.applied \in 0..100 /\ cpu.applied >= Demand(cpu)
            /\ ~Usable(cpu.curve) => cpu.applied = Unset
        BY <1>1, <1>3, <4>1, DutyDoes
      <4>3. /\ case \in Controller
            /\ Usable(z.case.curve) \/ Whole(s.caseFile.used) => Usable(case.curve)
            /\ Usable(case.curve) => case.applied \in 0..100 /\ case.applied >= Demand(case)
            /\ ~Usable(case.curve) => case.applied = Unset
        BY <1>1, <1>3, <4>1, DutyDoes
      <4> HIDE DEF cpu, case, seeing
      <4> QED BY <4>2, <4>3 DEF Torn, Unset
    <3> QED BY <3>1, <3>2
  <2> HIDE DEF cpu, case
  <2>4. /\ after \in Pair
        /\ seeing => after.cpu = cpu /\ after.case = case
    BY <1>3, <2>3 DEF Pair
  <2> DEFINE ok == seeing /\ after.cpu.applied # Unset /\ after.case.applied # Unset
  <2>5. b = [ok |-> ok, mode |-> "zone", ctrl |-> ctrl,
             zones |-> IF ok THEN after ELSE ResetZones(after),
             cpu |-> after.cpu.applied, case |-> after.case.applied]
    BY <2>2 DEF ZoneBaseline, z, cpu, case
  <2> HIDE DEF after
  <2>6. /\ ok => seeing /\ cpu.applied # Unset /\ case.applied # Unset
        /\ ~ok => \/ CpuMax(s) = Unset \/ InputMax(s) = Unset
                  \/ Torn(z.cpu, s.cpuFile) \/ Torn(z.case, s.caseFile)
    <3> HIDE DEF z
    <3> QED BY <2>3, <2>4
  <2>7. ResetZones(after) \in Pair
    <3>1. after.cpu \in Controller /\ after.case \in Controller
      BY <2>4 DEF Pair
    <3>2. Reset(after.cpu) \in Controller /\ Reset(after.case) \in Controller
      BY <3>1, ResetDoes
    <3> QED BY <2>4, <3>2 DEF ResetZones, Pair
  <2> HIDE DEF ok
  <2>8. b.mode = "zone" /\ b.ctrl = ctrl /\ b.zones \in Pair /\ (b.ok <=> ok)
        /\ b.cpu = after.cpu.applied /\ b.case = after.case.applied
        /\ (ok => b.zones = after)
    <3>1. (IF ok THEN after ELSE ResetZones(after)) \in Pair
      BY <2>4, <2>7
    <3> QED BY <2>5, <3>1
  <2>9. ~b.ok => \/ CpuMax(s) = Unset \/ InputMax(s) = Unset
                 \/ Torn(Zones(s).cpu, s.cpuFile) \/ Torn(Zones(s).case, s.caseFile)
    BY <2>6, <2>8 DEF z
  <2> QED BY <2>3, <2>4, <2>6, <2>8, <2>9 DEF ControlInv
<1>5. CASE ~ZoneMode(s)
  <2>1. b = UniformBaseline(s)
    BY <1>5 DEF Baseline
  <2> DEFINE raw == RawMax(s)
             after == IF raw = Unset THEN ctrl ELSE Duty(ctrl, s.main, raw)
  <2>2. /\ after \in Controller /\ Usable(after.curve)
        /\ raw # Unset => after.applied \in 0..100 /\ after.applied >= Demand(after)
    <3>1. CASE raw = Unset
      BY <3>1 DEF ControlInv
    <3>2. CASE raw # Unset
      <4>1. raw \in Nat /\ after = Duty(ctrl, s.main, raw)
        BY <1>2, <3>2, ReadingBounded
      <4> HIDE DEF after, raw
      <4> QED BY <1>1, <4>1, DutyDoes DEF ControlInv
    <3> QED BY <3>1, <3>2
  <2> DEFINE ok == raw # Unset /\ after.applied # Unset
  <2>3. b = [ok |-> ok, mode |-> "uniform", ctrl |-> after,
             zones |-> z, cpu |-> after.applied, case |-> after.applied]
    BY <2>1 DEF UniformBaseline, z
  <2> HIDE DEF after
  <2>4. ok <=> raw # Unset
    BY <2>2 DEF Unset
  <2> HIDE DEF ok
  <2>5. b.mode = "uniform" /\ b.ctrl = after /\ b.zones = z /\ (b.ok <=> ok)
        /\ b.cpu = after.applied /\ b.case = after.applied
    BY <2>3
  <2> QED BY <1>2, <1>3, <2>2, <2>4, <2>5
<1> QED BY <1>4, <1>5

-----------------------------------------------------------------------------
(* The overlay.                                                            *)

\* One damper per rule of the configuration adopted last.
PolicyOK(p) ==
  /\ p = [seen |-> p.seen, active |-> p.active, dampers |-> p.dampers]
  /\ p.seen \in BOOLEAN
  /\ DOMAIN p.dampers = DOMAIN p.active.rules
  /\ \A i \in DOMAIN p.dampers : p.dampers[i] \in Damper

LEMMA FreshDamper == Fresh \in Damper
  BY DEF Fresh, Damper, Average, Percent

LEMMA NewPolicyOK == PolicyOK(NewPolicy) /\ ~NewPolicy.seen
<1>1. DOMAIN <<>> = {} /\ NoConfig.rules = <<>>
  BY DEF NoConfig
<1> QED BY <1>1 DEF PolicyOK, NewPolicy

\* Failing high asks for 100% and remembers nothing.
LEMMA FailHighDoes ==
  ASSUME NEW p, PolicyOK(p)
  PROVE  /\ FailHigh(p).overlay = 100
         /\ PolicyOK(FailHigh(p).policy) /\ FailHigh(p).policy.seen = p.seen
<1> DEFINE d == [i \in DOMAIN p.dampers |-> Fresh]
           q == FailHigh(p).policy
<1>1. q = [p EXCEPT !.dampers = d] /\ FailHigh(p).overlay = 100
  BY DEF FailHigh
<1>2. p = [seen |-> p.seen, active |-> p.active, dampers |-> p.dampers]
  BY DEF PolicyOK
<1>3. DOMAIN d = DOMAIN p.dampers /\ \A i \in DOMAIN d : d[i] \in Damper
  BY FreshDamper
<1> HIDE DEF d, q
<1>4. q = [seen |-> p.seen, active |-> p.active, dampers |-> d]
  BY <1>1, <1>2
<1>5. PolicyOK(q)
  BY <1>3, <1>4 DEF PolicyOK
<1> QED BY <1>1, <1>4, <1>5 DEF q

LEMMA SeenDoes ==
  ASSUME NEW p, PolicyOK(p), NEW b \in BOOLEAN
  PROVE  PolicyOK([p EXCEPT !.seen = b]) /\ [p EXCEPT !.seen = b].seen = b
<1> DEFINE q == [p EXCEPT !.seen = b]
<1>1. p = [seen |-> p.seen, active |-> p.active, dampers |-> p.dampers]
  BY DEF PolicyOK
<1>2. q = [seen |-> b, active |-> p.active, dampers |-> p.dampers]
  BY <1>1
<1> HIDE DEF q
<1>3. PolicyOK(q) /\ q.seen = b
  BY <1>2 DEF PolicyOK
<1> QED BY <1>3 DEF q

LEMMA AdoptedDoes ==
  ASSUME NEW p, PolicyOK(p), NEW config
  PROVE  /\ PolicyOK(Adopted(p, config)) /\ Adopted(p, config).seen
         /\ Adopted(p, config).active = config
<1> DEFINE q == Adopted(p, config)
<1>1. p = [seen |-> p.seen, active |-> p.active, dampers |-> p.dampers]
  BY DEF PolicyOK
<1>2. CASE p.active = config
  <2>1. q = [seen |-> TRUE, active |-> p.active, dampers |-> p.dampers]
    BY <1>1, <1>2 DEF Adopted
  <2> QED BY <1>2, <2>1 DEF PolicyOK
<1>3. CASE p.active # config
  <2> DEFINE d == [i \in DOMAIN config.rules |-> Fresh]
  <2>1. q = [seen |-> TRUE, active |-> config, dampers |-> d]
    BY <1>3 DEF Adopted
  <2>2. DOMAIN d = DOMAIN config.rules /\ \A i \in DOMAIN d : d[i] \in Damper
    BY FreshDamper
  <2> HIDE DEF d
  <2> QED BY <2>1, <2>2 DEF PolicyOK
<1> QED BY <1>2, <1>3

\* A rule's curve file is some file, and has a weight if it is accepted.
LEMMA CurveFileIn ==
  ASSUME NEW n \in Surrounding, NEW rule
  PROVE  /\ CurveFile(At[n].curves, rule) \in File
         /\ Strict(CurveFile(At[n].curves, rule)) =>
              StrictAlpha(CurveFile(At[n].curves, rule)) \in 1..100
<1> DEFINE none == [kind |-> "missing", entries |-> <<>>, sensitivity |-> Unset]
           file == CurveFile(At[n].curves, rule)
<1>1. none \in File
  BY DEF File, Unset
<1>2. file \in File
  <2>1. \A c \in DOMAIN At[n].curves : At[n].curves[c] \in File
    BY SurroundingsAssumption
  <2>2. file = none \/ \E c \in DOMAIN At[n].curves : file = At[n].curves[c]
    BY DEF CurveFile
  <2> HIDE DEF none, file
  <2> QED BY <1>1, <2>1, <2>2
<1>3. Strict(file) => StrictAlpha(file) \in 1..100
  BY DEF Strict, StrictAlpha, DefaultAlpha
<1> QED BY <1>2, <1>3

\* What a rule hears are readings, and there is a greatest one.
LEMMA MatchedIn ==
  ASSUME NEW n \in Surrounding, NEW rule
  PROVE  LET heard == Matched(rule, At[n].inputs \cup At[n].local) IN
         heard # {} => Max(heard) \in Nat
<1> DEFINE heard == Matched(rule, At[n].inputs \cup At[n].local)
<1>1. heard \in SUBSET (Reading \ {Unset})
  BY SurroundingsAssumption DEF Matched, Matches, Numeric
<1>2. PICK b \in Nat : \A x \in Reading : x <= b
  BY ReadingBounded
<1> HIDE DEF heard
<1>3. heard \in SUBSET Nat /\ \A y \in heard : y <= b
  BY <1>1, <1>2, ReadingBounded
<1>4. heard # {} => Max(heard) \in heard
  BY <1>3, GreatestIn
<1> QED BY <1>3, <1>4 DEF heard

\* With every curve accepted, the overlay is a percentage or asks for nothing.
LEMMA AppliedDoes ==
  ASSUME NEW p, PolicyOK(p), NEW n \in Surrounding,
         ~Broken(p, At[n].curves, At[n].inputs \cup At[n].local)
  PROVE  LET r == Applied(p, At[n].curves, At[n].inputs \cup At[n].local) IN
         /\ r.overlay \in Percent /\ PolicyOK(r.policy) /\ r.policy.seen = p.seen
<1> DEFINE dir == At[n].curves
           signals == At[n].inputs \cup At[n].local
           rules == p.active.rules
           heard == {i \in DOMAIN rules : Matched(rules[i], signals) # {}}
           answer(i) == Damped(p.dampers[i], FromJson(CurveFile(dir, rules[i])),
                               StrictAlpha(CurveFile(dir, rules[i])),
                               Max(Matched(rules[i], signals)))
           ds == [i \in DOMAIN rules |-> IF i \in heard THEN answer(i) ELSE Fresh]
           r == Applied(p, dir, signals)
<1>1. ASSUME NEW i \in heard
      PROVE  answer(i) \in Damper /\ answer(i).applied \in 0..100
  <2> DEFINE d == p.dampers[i]
             curve == FromJson(CurveFile(dir, rules[i]))
             alpha == StrictAlpha(CurveFile(dir, rules[i]))
             raw == Max(Matched(rules[i], signals))
             average == Smooth(d, alpha, raw)
             duty_ == Answer(d, curve, alpha, raw)
  <2>1. i \in DOMAIN rules /\ Strict(CurveFile(dir, rules[i]))
    BY DEF Broken
  <2>2. d \in Damper /\ d.smoothed \in Average /\ d.applied \in Percent
    BY <2>1 DEF PolicyOK, Damper
  <2>3. alpha \in 1..100 /\ CurveFile(dir, rules[i]) \in File
    BY <2>1, CurveFileIn
  <2>4. curve \in Curve
    BY <2>3, FromJsonType
  <2>5. raw \in Nat
    BY MatchedIn
  <2>6. answer(i) = [d EXCEPT !.smoothed = average, !.applied = duty_]
    BY DEF Damped, Answer, Target
  <2>7. average \in Nat /\ duty_ \in 0..100
    <3> HIDE DEF d, curve, alpha, raw
    <3> QED BY <2>2, <2>3, <2>4, <2>5, DampedDoes
  <2> HIDE DEF answer, d, average, duty_
  <2> QED BY <2>2, <2>6, <2>7 DEF Damper, Average, Percent
<1>2. DOMAIN ds = DOMAIN p.dampers /\ DOMAIN ds = DOMAIN rules
  BY DEF PolicyOK
<1>3. \A i \in DOMAIN ds : ds[i] \in Damper
  <2> HIDE DEF answer, heard
  <2> QED BY <1>1, FreshDamper
<1> DEFINE after == [p EXCEPT !.dampers = ds]
           duties == {ds[i].applied : i \in heard}
           pct == Max(duties)
<1>4. PolicyOK(after) /\ after.seen = p.seen
  <2>1. p = [seen |-> p.seen, active |-> p.active, dampers |-> p.dampers]
    BY DEF PolicyOK
  <2> HIDE DEF ds
  <2>2. after = [seen |-> p.seen, active |-> p.active, dampers |-> ds]
    BY <2>1
  <2> QED BY <1>2, <1>3, <2>2 DEF PolicyOK
<1>5. duties \in SUBSET (0..100) /\ (heard # {} => duties # {})
  <2> HIDE DEF answer
  <2> QED BY <1>1
<1>6. heard # {} => pct \in 0..100
  <2> HIDE DEF duties
  <2>1. duties \in SUBSET Nat /\ \A y \in duties : y <= 100
    BY <1>5
  <2>2. duties # {} => Max(duties) \in duties
    BY <2>1, GreatestIn
  <2> QED BY <1>5, <2>2
<1>7. /\ heard = {} => r = Inactive(after)
      /\ heard # {} => r.policy = after /\ r.overlay = pct
  BY DEF Applied
<1> HIDE DEF after, pct, heard, r
<1>8. /\ heard = {} => r.policy = after /\ r.overlay = Unset
      /\ heard # {} => r.policy = after /\ r.overlay = pct
  BY <1>7 DEF Inactive
<1>9. r.overlay \in Percent /\ r.policy = after
  BY <1>6, <1>8 DEF Percent
<1> QED BY <1>4, <1>9 DEF r

\* The policy file is unreadable, or gone after it was seen, or one of its rules
\* cannot be judged.
Unjudged(rule, s) ==
  \/ ~Strict(CurveFile(s.curves, rule))
  \/ rule.required /\ Matched(rule, s.inputs \cup s.local) = {}

\* What SignalCurvePolicy::evaluate makes of a policy file; whatever cannot be
\* judged asks for 100%.
LEMMA OverlayDoes ==
  ASSUME PolicyOK(policy), asked \in BOOLEAN, asked => policy.seen, NEW n \in Surrounding
  PROVE  LET s == At[n]
             r == Overlay(s)
         IN /\ r.overlay \in Percent /\ PolicyOK(r.policy)
            /\ Asks(s) \in BOOLEAN /\ (Asks(s) => r.policy.seen)
            /\ (\/ Loaded(s.policy) = "invalid"
                \/ Loaded(s.policy) = "missing" /\ asked
                \/ /\ Loaded(s.policy) = "config" /\ s.policy.enabled
                   /\ \E i \in DOMAIN s.policy.rules : Unjudged(s.policy.rules[i], s))
               => r.overlay = 100
<1> DEFINE s == At[n]
           r == Overlay(s)
           signals == s.inputs \cup s.local
           a == Adopted(policy, s.policy)
<1>1. CASE Loaded(s.policy) = "missing"
  <2>1. Asks(s) = asked
    BY <1>1 DEF Asks
  <2>2. CASE policy.seen
    <3>1. r = FailHigh(policy)
      BY <1>1, <2>2 DEF Overlay, Evaluate
    <3> QED BY <1>1, <2>1, <2>2, <3>1, FailHighDoes DEF Percent
  <2>3. CASE ~policy.seen
    <3>1. r = Inactive(policy)
      BY <1>1, <2>3 DEF Overlay, Evaluate
    <3>2. r.overlay = Unset /\ r.policy = policy
      BY <3>1 DEF Inactive
    <3> HIDE DEF r
    <3> QED BY <1>1, <2>1, <2>3, <3>2 DEF Percent, r
  <2> QED BY <2>2, <2>3
<1>2. CASE Loaded(s.policy) = "invalid"
  <2> DEFINE q == [policy EXCEPT !.seen = TRUE]
  <2>1. Asks(s) = TRUE
    BY <1>2 DEF Asks
  <2>2. r = FailHigh(q)
    BY <1>2 DEF Overlay, Evaluate
  <2>3. PolicyOK(q) /\ q.seen
    <3>1. PolicyOK([policy EXCEPT !.seen = TRUE]) /\ [policy EXCEPT !.seen = TRUE].seen = TRUE
      BY SeenDoes, Zenon
    <3> QED BY <3>1
  <2> HIDE DEF q, r
  <2>4. r.overlay = 100 /\ PolicyOK(r.policy) /\ r.policy.seen
    <3>1. /\ FailHigh(q).overlay = 100 /\ PolicyOK(FailHigh(q).policy)
          /\ FailHigh(q).policy.seen = q.seen
      BY <2>3, FailHighDoes
    <3> QED BY <2>2, <2>3, <3>1, Zenon
  <2>5. Asks(s) \in BOOLEAN
    BY <2>1, Zenon
  <2>6. r.overlay \in Percent
    BY <2>4 DEF Percent
  <2> QED BY <2>4, <2>5, <2>6, Zenon DEF r
<1>3. CASE Loaded(s.policy) = "config" /\ ~s.policy.enabled
  <2>1. Asks(s) = s.policy.enabled /\ s.policy.enabled \in BOOLEAN
    BY <1>3, SurroundingsAssumption DEF Asks
  <2>2. r = Inactive(NewPolicy)
    BY <1>3 DEF Overlay, Evaluate
  <2>3. r.overlay = Unset /\ r.policy = NewPolicy
    BY <2>2 DEF Inactive
  <2> HIDE DEF r
  <2> QED BY <1>3, <2>1, <2>3, NewPolicyOK DEF Percent, r
<1>4. CASE Loaded(s.policy) = "config" /\ s.policy.enabled
  <2>1. Asks(s) = s.policy.enabled /\ s.policy.enabled \in BOOLEAN
    BY <1>4, SurroundingsAssumption DEF Asks
  <2>2. r = IF Broken(a, s.curves, signals) THEN FailHigh(a) ELSE Applied(a, s.curves, signals)
    BY <1>4 DEF Overlay, Evaluate
  <2>3. PolicyOK(a) /\ a.seen /\ a.active = s.policy
    BY AdoptedDoes
  <2>4. Broken(a, s.curves, signals)
          <=> \E i \in DOMAIN s.policy.rules : Unjudged(s.policy.rules[i], s)
    BY <2>3 DEF Broken, Unjudged
  <2> HIDE DEF a, r
  <2>5. CASE Broken(a, s.curves, signals)
    <3>1. r = FailHigh(a)
      BY <2>2, <2>5
    <3> QED BY <1>4, <2>1, <2>3, <3>1, FailHighDoes DEF Percent, r
  <2>6. CASE ~Broken(a, s.curves, signals)
    <3>1. r = Applied(a, s.curves, signals)
      BY <2>2, <2>6
    <3>2. r.overlay \in Percent /\ PolicyOK(r.policy) /\ r.policy.seen = a.seen
      BY <2>3, <2>6, <3>1, AppliedDoes
    <3> QED BY <1>4, <2>1, <2>3, <2>4, <2>6, <3>2 DEF r
  <2> QED BY <2>5, <2>6
<1>5. Loaded(s.policy) \in {"missing", "invalid", "config"}
  BY DEF Loaded
<1> QED BY <1>1, <1>2, <1>3, <1>4, <1>5

-----------------------------------------------------------------------------
(* The faults.                                                             *)

FaultRecord == [above : 0..StreakCap, fault : 0..StreakCap, confirmed : BOOLEAN]

\* What makes it inductive: the ticks a fan has stood still began after the grace.
Earned(f) ==
  /\ f.fault > 0 => f.above = StreakCap \/ f.above >= SpinupGraceTicks + f.fault
  /\ f.confirmed => f.fault >= FaultTicks

EarnedInv == faults \in [Fan -> FaultRecord] /\ \A f \in Fan : Earned(faults[f])

\* One judgement of fault.rs keeps it, whatever was commanded and read.
LEMMA JudgedEarns ==
  ASSUME NEW f \in FaultRecord, Earned(f), NEW commanded, NEW rpm
  PROVE  Judged(f, commanded, rpm) \in FaultRecord /\ Earned(Judged(f, commanded, rpm))
<1> USE DEF FaultRecord, Earned, Counted, StreakCap, SpinupGraceTicks, FaultTicks
<1> DEFINE above == Counted(f.above)
<1>1. above \in 0..5 /\ f.above <= above /\ (f.above < 5 => above = f.above + 1)
  OBVIOUS
<1>2. NoFault \in FaultRecord /\ Earned(NoFault)
  BY DEF NoFault
<1>3. /\ [NoFault EXCEPT !.above = above] \in FaultRecord
      /\ Earned([NoFault EXCEPT !.above = above])
  <2> HIDE DEF above
  <2>1. NoFault.fault = 0 /\ NoFault.confirmed = FALSE
    BY DEF NoFault
  <2> QED BY <1>1, <1>2, <2>1
<1>4. /\ [f EXCEPT !.above = above] \in FaultRecord
      /\ Earned([f EXCEPT !.above = above])
  BY <1>1
<1>5. ASSUME ~(above <= SpinupGraceTicks)
      PROVE  LET g == [above |-> above, fault |-> Counted(f.fault),
                       confirmed |-> f.confirmed \/ Counted(f.fault) >= FaultTicks]
             IN  g \in FaultRecord /\ Earned(g)
  <2> DEFINE fault == Counted(f.fault)
  <2>1. fault \in 0..5 /\ f.fault <= fault /\ (f.fault < 5 => fault = f.fault + 1)
    OBVIOUS
  <2>2. (f.confirmed \/ fault >= FaultTicks) \in BOOLEAN
    BY Zenon
  <2>3. f.confirmed \/ fault >= FaultTicks => fault >= FaultTicks
    BY <2>1
  <2>4. above = 5 \/ above >= 2 + fault
    BY <1>1, <1>5, <2>1
  <2> HIDE DEF above, fault
  <2> QED BY <1>1, <2>1, <2>2, <2>3, <2>4
<1> HIDE DEF above, FaultRecord, Earned
<1> QED BY <1>2, <1>3, <1>4, <1>5 DEF Judged, above

LEMMA FreshFaults ==
  [f \in Fan |-> NoFault] \in [Fan -> FaultRecord] /\ Earned(NoFault)
  BY DEF FaultRecord, Earned, NoFault, StreakCap, SpinupGraceTicks, FaultTicks

LEMMA EarnedInit == Init => EarnedInv
  BY FreshFaults DEF Init, EarnedInv

LEMMA EarnedStep == EarnedInv /\ [Next]_vars => EarnedInv'
<1> SUFFICES ASSUME EarnedInv, [Next]_vars PROVE EarnedInv'
  OBVIOUS
<1>1. ASSUME UNCHANGED faults PROVE EarnedInv'
  BY <1>1 DEF EarnedInv
<1>2. ASSUME NEW n \in world, Release(n) PROVE EarnedInv'
  BY <1>1, <1>2 DEF Release
<1>3. ASSUME NEW n \in world, Set(n) PROVE EarnedInv'
  <2>1. faults' = [f \in Fan |-> Judged(faults[f], duty'[f], ReadFanRpms(At[n])[f])]
    BY <1>3 DEF Set
  <2>2. ASSUME NEW f \in Fan
        PROVE  /\ Judged(faults[f], duty'[f], ReadFanRpms(At[n])[f]) \in FaultRecord
               /\ Earned(Judged(faults[f], duty'[f], ReadFanRpms(At[n])[f]))
    BY JudgedEarns DEF EarnedInv
  <2> QED BY <2>1, <2>2 DEF EarnedInv
<1>4. ASSUME NEW n \in world, Fail(n) PROVE EarnedInv'
  BY <1>1, <1>4 DEF Fail
<1>5. ASSUME NEW n \in world, Replace(n) PROVE EarnedInv'
  <2>1. faults' = [f \in Fan |-> NoFault]
    BY <1>5 DEF Replace, Opened
  <2> QED BY <2>1, FreshFaults DEF EarnedInv
<1>6. ASSUME UNCHANGED vars PROVE EarnedInv'
  BY <1>1, <1>6 DEF vars, device
<1> QED BY <1>2, <1>3, <1>4, <1>5, <1>6 DEF Next, Tick

LEMMA EarnedImplies == EarnedInv => ConfirmedIsEarned
  BY DEF EarnedInv, ConfirmedIsEarned, Earned, FaultRecord, StreakCap, SpinupGraceTicks, FaultTicks

\* A fan is declared dead only after the grace and three ticks of standing still,
\* for every set of fans, every surrounding and any number of processes.
THEOREM ConfirmedEarned == Spec => []ConfirmedIsEarned
  BY EarnedInit, EarnedStep, EarnedImplies, PTL DEF Spec

-----------------------------------------------------------------------------
(* From tick to tick.                                                      *)

\* What every tick relies on: controllers of which the main one always has a
\* curve, a policy that remembers what the operator asked for, and the types.
RomeInv ==
  /\ world \in Worlds
  /\ ControlInv
  /\ PolicyOK(policy)
  /\ asked \in BOOLEAN /\ (asked => policy.seen)
  /\ EarnedInv
  /\ factors \subseteq Fan
  /\ board \in {"auto", "manual", "unknown"}
  /\ duty \in [Fan -> 0..100]
  /\ last.did \in {"started", "released", "set", "failed"}
  /\ last.mode \in {"zone", "uniform"} /\ last.found \in world
  /\ beat \in BOOLEAN

LEMMA NamesInWorld ==
  ASSUME RomeInv, NEW n \in world
  PROVE  n \in Surrounding
BY WorldsAssumption DEF RomeInv

\* A process starts with a main curve, no zones, and no policy seen.
LEMMA FreshProcess ==
  ASSUME NEW n \in Surrounding, Usable(NewController(At[n].main).curve)
  PROVE  NewController(At[n].main) \in Controller
BY SurroundingsAssumption, NewControllerDoes

LEMMA RomeInit == Init => RomeInv
<1> SUFFICES ASSUME Init PROVE RomeInv
  OBVIOUS
<1>1. EarnedInv
  BY EarnedInit
<1>2. world \in Worlds /\ policy = NewPolicy /\ zones = NoZones /\ asked = FALSE /\ beat = FALSE
      /\ board = "auto" /\ duty = [f \in Fan |-> 0]
  BY DEF Init
<1>3. PICK n \in world :
        /\ Usable(NewController(At[n].main).curve)
        /\ ctrl = NewController(At[n].main)
        /\ last = [did |-> "started", mode |-> "uniform", found |-> n]
        /\ factors = Answering(At[n])
  BY DEF Init
<1>4. n \in Surrounding
  BY <1>2, WorldsAssumption
<1>5. ControlInv
  BY <1>2, <1>3, <1>4, FreshProcess DEF ControlInv
<1>6. factors \subseteq Fan
  BY <1>3 DEF Answering
<1>7. PolicyOK(policy)
  BY <1>2, NewPolicyOK
<1>8. duty \in [Fan -> 0..100] /\ last.did = "started" /\ last.mode = "uniform" /\ last.found = n
  BY <1>2, <1>3
<1>9. asked \in BOOLEAN /\ beat \in BOOLEAN /\ ~asked
  BY <1>2, Zenon
<1> QED BY <1>1, <1>2, <1>3, <1>5, <1>6, <1>7, <1>8, <1>9 DEF RomeInv

\* The duties after the overlay and the compensation: at least the baseline, at
\* most 100%, and 100% for every case fan whose overlay asks for that.
LEMMA CommandedDoes ==
  ASSUME NEW b, b.cpu \in 0..100, b.case \in 0..100, NEW overlay \in Percent
  PROVE  LET d == Compensated(Requested(b, overlay)) IN
         /\ d \in [Fan -> 0..100]
         /\ \A f \in CpuZone : d[f] >= b.cpu
         /\ \A f \in CaseZone : d[f] >= b.case /\ (overlay = 100 => d[f] = 100)
<1> DEFINE q == Requested(b, overlay)
           d == Compensated(q)
<1>1. ASSUME NEW f \in Fan
      PROVE  /\ q[f] \in 0..100
             /\ f \in CpuZone => q[f] = b.cpu
             /\ f \in CaseZone => q[f] >= b.case /\ (overlay = 100 => q[f] = 100)
  <2>1. q[f] = IF f \in CpuZone THEN b.cpu
               ELSE IF overlay > b.case THEN overlay ELSE b.case
    BY DEF Requested
  <2>2. f \in CaseZone => f \notin CpuZone
    BY ZonesAssumption
  <2> HIDE DEF q
  <2> QED BY <2>1, <2>2 DEF Percent, Unset
<1> HIDE DEF q
<1>2. ASSUME NEW f \in Fan PROVE d[f] = 100 \/ d[f] = q[f]
  BY DEF Compensated
<1>3. d \in [Fan -> 0..100]
  <2>1. d = [f \in Fan |-> d[f]]
    BY DEF Compensated
  <2> HIDE DEF d
  <2>2. \A f \in Fan : d[f] \in 0..100
    BY <1>1, <1>2
  <2> QED BY <2>1, <2>2
<1> HIDE DEF d
<1>4. ASSUME NEW f \in CpuZone PROVE d[f] >= b.cpu
  BY <1>1, <1>2 DEF Fan
<1>5. ASSUME NEW f \in CaseZone PROVE d[f] >= b.case /\ (overlay = 100 => d[f] = 100)
  BY <1>1, <1>2 DEF Fan
<1> QED BY <1>3, <1>4, <1>5 DEF d, q

LEMMA RomeStep == RomeInv /\ [Next]_vars => RomeInv'
<1> SUFFICES ASSUME RomeInv, [Next]_vars PROVE RomeInv'
  OBVIOUS
<1> USE DEF RomeInv
<1>0. EarnedInv'
  BY EarnedStep
<1>1. ASSUME NEW n \in world, Release(n) PROVE RomeInv'
  <2> DEFINE b == Baseline(At[n])
  <2>1. n \in Surrounding
    BY NamesInWorld
  <2>2. b.ctrl \in Controller /\ Usable(b.ctrl.curve) /\ b.zones \in Pair
        /\ b.mode \in {"zone", "uniform"}
    BY <2>1, BaselineDoes
  <2> HIDE DEF b
  <2>3. /\ ctrl' = Reset(b.ctrl) /\ zones' = b.zones
        /\ last' = [did |-> "released", mode |-> b.mode, found |-> n] /\ beat' = ~beat
        /\ board' \in {"auto", "unknown"}
        /\ UNCHANGED <<world, policy, faults, factors, duty, asked>>
    BY <1>1 DEF Release, Did, b
  <2>4. ControlInv'
    BY <2>2, <2>3, ResetDoes DEF ControlInv
  <2>5. last'.did = "released" /\ last'.mode = b.mode /\ last'.found = n
    BY <2>3
  <2>6. beat' \in BOOLEAN
    BY <2>3, Zenon
  <2>7. PolicyOK(policy)'
    BY <2>3 DEF PolicyOK
  <2> QED BY <1>0, <2>2, <2>3, <2>4, <2>5, <2>6, <2>7
<1>2. ASSUME NEW n \in world, Set(n) \/ Fail(n) PROVE RomeInv'
  <2> DEFINE b == Baseline(At[n])
             r == Overlay(At[n])
  <2>1. n \in Surrounding
    BY NamesInWorld
  <2>2. b.ctrl \in Controller /\ Usable(b.ctrl.curve) /\ b.zones \in Pair
        /\ b.mode \in {"zone", "uniform"}
        /\ (b.ok => b.cpu \in 0..100 /\ b.case \in 0..100)
    BY <2>1, BaselineDoes
  <2>3. /\ r.overlay \in Percent /\ PolicyOK(r.policy)
        /\ Asks(At[n]) \in BOOLEAN /\ (Asks(At[n]) => r.policy.seen)
    BY <2>1, OverlayDoes
  <2>4. b.ok => Commanded(At[n]) \in [Fan -> 0..100]
    BY <2>2, <2>3, CommandedDoes DEF Commanded
  <2> HIDE DEF b, r
  <2>5. /\ ctrl' = b.ctrl \/ ctrl' = Reset(b.ctrl)
        /\ zones' = b.zones /\ policy' = r.policy /\ asked' = Asks(At[n])
        /\ last'.did \in {"set", "failed"} /\ last'.mode = b.mode /\ last'.found = n
        /\ beat' = ~beat /\ board' \in {"manual", "unknown"}
        /\ duty' = duty \/ (b.ok /\ duty' = Commanded(At[n]))
        /\ factors' \in {factors, factors \cup Answering(At[n])}
        /\ world' = world
    BY <1>2 DEF Set, Fail, Did, b, r
  <2>6. ControlInv'
    BY <2>2, <2>5, ResetDoes DEF ControlInv
  <2>7. beat' \in BOOLEAN
    BY <2>5, Zenon
  <2>8. factors' \subseteq Fan
    BY <2>5 DEF Answering
  <2>9. PolicyOK(policy)' /\ asked' \in BOOLEAN /\ (asked' => policy'.seen)
    BY <2>3, <2>5 DEF PolicyOK
  <2> QED BY <1>0, <2>2, <2>4, <2>5, <2>6, <2>7, <2>8, <2>9
<1>3. ASSUME NEW n \in world, Replace(n) PROVE RomeInv'
  <2>1. n \in Surrounding
    BY NamesInWorld
  <2>2. /\ Usable(NewController(At[n].main).curve)
        /\ ctrl' = NewController(At[n].main) /\ zones' = NoZones /\ policy' = NewPolicy
        /\ factors' = Answering(At[n]) /\ board' \in {"auto", "unknown"}
        /\ last'.did = "started" /\ last'.mode = "uniform" /\ last'.found = n
        /\ asked' = FALSE
        /\ UNCHANGED <<world, duty, beat>>
    BY <1>3 DEF Replace, Opened
  <2>3. ControlInv'
    BY <2>1, <2>2, FreshProcess DEF ControlInv
  <2>4. PolicyOK(policy)'
    BY <2>2, NewPolicyOK DEF PolicyOK
  <2>5. asked' \in BOOLEAN /\ ~asked'
    BY <2>2, Zenon
  <2>6. factors' \subseteq Fan
    BY <2>2 DEF Answering
  <2> QED BY <1>0, <2>2, <2>3, <2>4, <2>5, <2>6
<1>4. ASSUME UNCHANGED vars PROVE RomeInv'
  <2>1. UNCHANGED <<world, ctrl, zones, policy, faults, factors, board, duty, last, beat, asked>>
    BY <1>4 DEF vars, device
  <2>2. ControlInv' /\ PolicyOK(policy)'
    BY <2>1 DEF ControlInv, PolicyOK
  <2> QED BY <1>0, <2>1, <2>2
<1> QED BY <1>1, <1>2, <1>3, <1>4 DEF Next, Tick

LEMMA RomeTypes == RomeInv => TypeOK
<1> SUFFICES ASSUME RomeInv PROVE TypeOK
  OBVIOUS
<1>1. DamperOK(ctrl)
  BY DEF RomeInv, ControlInv, Controller, Percent, DamperOK
<1>2. DamperOK(zones.cpu) /\ DamperOK(zones.case)
  <2>1. CASE zones = NoZones
    <3>1. zones.cpu = Fresh /\ zones.case = Fresh
      BY <2>1 DEF NoZones
    <3> QED BY <3>1 DEF DamperOK, Fresh, Average
  <2>2. CASE zones \in Pair
    <3>1. zones.cpu \in Controller /\ zones.case \in Controller
      BY <2>2 DEF Pair
    <3> QED BY <3>1 DEF Controller, DamperOK, Percent
  <2> QED BY <2>1, <2>2 DEF RomeInv, ControlInv
<1>3. policy.seen \in BOOLEAN /\ \A i \in DOMAIN policy.dampers : DamperOK(policy.dampers[i])
  BY DEF RomeInv, PolicyOK, Damper, Percent, DamperOK
<1> QED BY <1>1, <1>2, <1>3 DEF RomeInv, TypeOK, EarnedInv, FaultRecord

\* Every variable has its type, for all zones, surroundings and worlds.
THEOREM BoardTypes == Spec => []TypeOK
  BY RomeInit, RomeStep, RomeTypes, PTL DEF Spec

-----------------------------------------------------------------------------
(* What each tick owes the fans.                                           *)

LEMMA DemandBounds ==
  ASSUME NEW c \in Controller
  PROVE  Demand(c) \in 0..100
<1>1. c.curve \in Curve /\ c.smoothed \in Average
  BY DEF Controller
<1>2. Degrees(c.smoothed) \in Nat
  BY <1>1 DEF Average, Unset, Degrees, Unit
<1>3. Eval(c.curve, Degrees(c.smoothed)) \in Int
  BY <1>1, <1>2, EvalType
<1> QED BY <1>3, ClampBounds DEF Demand

\* A tick that sets the fans gives each at least what the curve of its zone asks
\* for at the average that this very tick has come to.
LEMMA CurveStep == RomeInv /\ NeverUnderCurve /\ [Next]_vars => NeverUnderCurve'
<1> SUFFICES ASSUME RomeInv, NeverUnderCurve, [Next]_vars PROVE NeverUnderCurve'
  OBVIOUS
<1>1. ASSUME NEW n \in world, Release(n) \/ Fail(n) \/ Replace(n) PROVE NeverUnderCurve'
  <2>1. last'.did # "set"
    BY <1>1 DEF Release, Fail, Replace, Did
  <2> QED BY <2>1 DEF NeverUnderCurve
<1>2. ASSUME NEW n \in world, Set(n) PROVE NeverUnderCurve'
  <2> DEFINE b == Baseline(At[n])
             r == Overlay(At[n])
  <2>1. n \in Surrounding
    BY NamesInWorld
  <2>2. b.ok
    BY <1>2 DEF Set
  <2>3. /\ b.mode \in {"zone", "uniform"} /\ b.ctrl \in Controller /\ b.zones \in Pair
        /\ b.cpu \in 0..100 /\ b.case \in 0..100
        /\ b.mode = "uniform" => b.cpu >= Demand(b.ctrl) /\ b.case >= Demand(b.ctrl)
        /\ b.mode = "zone" => b.cpu >= Demand(b.zones.cpu) /\ b.case >= Demand(b.zones.case)
    BY <2>1, <2>2, BaselineDoes DEF RomeInv
  <2>4. r.overlay \in Percent
    BY <2>1, OverlayDoes DEF RomeInv
  <2> DEFINE d == Compensated(Requested(b, r.overlay))
  <2>5. /\ d \in [Fan -> 0..100]
        /\ \A f \in CpuZone : d[f] >= b.cpu
        /\ \A f \in CaseZone : d[f] >= b.case
    BY <2>3, <2>4, CommandedDoes
  <2>6. ctrl' = b.ctrl /\ zones' = b.zones /\ duty' = d /\ last'.mode = b.mode
    BY <1>2 DEF Set, Did, Commanded
  <2> HIDE DEF b, d
  <2>7. /\ Demand(ctrl)' = Demand(b.ctrl) /\ Demand(zones.cpu)' = Demand(b.zones.cpu)
        /\ Demand(zones.case)' = Demand(b.zones.case)
    BY <2>6 DEF Demand
  <2>8. /\ Demand(b.ctrl) \in Int /\ Demand(b.zones.cpu) \in Int
        /\ Demand(b.zones.case) \in Int
    <3>1. b.zones.cpu \in Controller /\ b.zones.case \in Controller
      BY <2>3 DEF Pair
    <3> QED BY <2>3, <3>1, DemandBounds
  <2>9. ASSUME NEW f \in Fan
        PROVE  duty'[f] >= CASE last'.mode = "uniform"                 -> Demand(ctrl)'
                             [] last'.mode = "zone" /\ f \in CpuZone   -> Demand(zones.cpu)'
                             [] last'.mode = "zone" /\ f \in CaseZone  -> Demand(zones.case)'
    <3>1. f \in CpuZone \/ f \in CaseZone
      BY DEF Fan
    <3>2. d[f] \in 0..100
      BY <2>5
    <3>3. CASE b.mode = "uniform"
      <4>1. d[f] >= Demand(b.ctrl)
        BY <2>3, <2>5, <2>8, <3>1, <3>2, <3>3
      <4> QED BY <2>6, <2>7, <3>3, <4>1
    <3>4. CASE b.mode = "zone" /\ f \in CpuZone
      <4>1. d[f] >= Demand(b.zones.cpu) /\ f \notin CaseZone
        BY <2>3, <2>5, <2>8, <3>2, <3>4, ZonesAssumption
      <4> QED BY <2>6, <2>7, <3>4, <4>1
    <3>5. CASE b.mode = "zone" /\ f \in CaseZone
      <4>1. d[f] >= Demand(b.zones.case) /\ f \notin CpuZone
        BY <2>3, <2>5, <2>8, <3>2, <3>5, ZonesAssumption
      <4> QED BY <2>6, <2>7, <3>5, <4>1
    <3> QED BY <2>3, <3>1, <3>3, <3>4, <3>5
  <2> QED BY <2>9 DEF NeverUnderCurve
<1>3. ASSUME UNCHANGED vars PROVE NeverUnderCurve'
  BY <1>3 DEF NeverUnderCurve, Demand, vars, device
<1> QED BY <1>1, <1>2, <1>3 DEF Next, Tick

\* A tick that hands the board back misses a temperature of its mode, or the file
\* of a zone without a curve broke between the probe and the read.
ReleasedForCause ==
  last'.did = "released" =>
    LET s == Found'
        z == Zones(s)
    IN CASE last'.mode = "uniform" -> CpuMax(s) = Unset /\ InputMax(s) = Unset
         [] last'.mode = "zone"    -> \/ CpuMax(s) = Unset \/ InputMax(s) = Unset
                                      \/ Torn(z.cpu, s.cpuFile) \/ Torn(z.case, s.caseFile)

LEMMA EditsStep == RomeInv /\ [Next]_vars => [ReleasedForCause]_vars
<1> SUFFICES ASSUME RomeInv, Next PROVE ReleasedForCause
  OBVIOUS
<1>1. ASSUME NEW n \in world, Set(n) \/ Fail(n) \/ Replace(n) PROVE ReleasedForCause
  <2>1. last'.did # "released"
    BY <1>1 DEF Set, Fail, Replace, Did
  <2> QED BY <2>1 DEF ReleasedForCause
<1>2. ASSUME NEW n \in world, Release(n) PROVE ReleasedForCause
  <2> DEFINE b == Baseline(At[n])
             z == Zones(At[n])
  <2>1. n \in Surrounding
    BY NamesInWorld
  <2>2. ~b.ok /\ last'.mode = b.mode /\ last'.found = n
    BY <1>2 DEF Release, Did
  <2>3. /\ b.mode \in {"zone", "uniform"}
        /\ b.mode = "uniform" => CpuMax(At[n]) = Unset /\ InputMax(At[n]) = Unset
        /\ b.mode = "zone" => \/ CpuMax(At[n]) = Unset \/ InputMax(At[n]) = Unset
                              \/ Torn(z.cpu, At[n].cpuFile) \/ Torn(z.case, At[n].caseFile)
    BY <2>1, <2>2, BaselineDoes DEF RomeInv
  <2> HIDE DEF b
  <2>4. Found' = At[n]
    BY <2>2 DEF Found
  <2> QED BY <2>2, <2>3, <2>4 DEF ReleasedForCause
<1> QED BY <1>1, <1>2 DEF Next, Tick

\* A tick that finds an overlay it cannot judge runs the case fans at 100%.
LEMMA FailsHighStep == RomeInv /\ FailsHigh /\ [Next]_vars => FailsHigh'
<1> SUFFICES ASSUME RomeInv, FailsHigh, [Next]_vars PROVE FailsHigh'
  OBVIOUS
<1>1. ASSUME NEW n \in world, Release(n) \/ Fail(n) \/ Replace(n) PROVE FailsHigh'
  <2>1. last'.did # "set"
    BY <1>1 DEF Release, Fail, Replace, Did
  <2> QED BY <2>1 DEF FailsHigh
<1>2. ASSUME NEW n \in world, Set(n) PROVE FailsHigh'
  <2> DEFINE s == At[n]
             b == Baseline(s)
             r == Overlay(s)
             alarm == \/ Loaded(s.policy) = "invalid"
                      \/ Loaded(s.policy) = "missing" /\ asked
                      \/ /\ Loaded(s.policy) = "config" /\ s.policy.enabled
                         /\ \E i \in DOMAIN s.policy.rules : Unjudged(s.policy.rules[i], s)
  <2>1. n \in Surrounding /\ b.ok
    BY <1>2, NamesInWorld DEF Set
  <2>2. b.cpu \in 0..100 /\ b.case \in 0..100
    BY <2>1, BaselineDoes DEF RomeInv
  <2>3. r.overlay \in Percent /\ (alarm => r.overlay = 100)
    BY <2>1, OverlayDoes DEF RomeInv
  <2>4. duty' = Compensated(Requested(b, r.overlay)) /\ last'.found = n /\ asked' = Asks(s)
    BY <1>2 DEF Set, Did, Commanded
  <2>5. alarm => \A f \in CaseZone : duty'[f] = 100
    <3> HIDE DEF b, r, alarm
    <3> QED BY <2>2, <2>3, <2>4, CommandedDoes
  <2>6. Found' = s
    BY <2>4 DEF Found
  <2>7. Loaded(s.policy) = "missing" => asked' = asked
    BY <2>4 DEF Asks
  <2> HIDE DEF s
  <2> QED BY <2>5, <2>6, <2>7 DEF FailsHigh, Unjudged
<1>3. ASSUME UNCHANGED vars PROVE FailsHigh'
  BY <1>3 DEF FailsHigh, Found, vars, device
<1> QED BY <1>1, <1>2, <1>3 DEF Next, Tick

LEMMA NothingDone == Init => NeverUnderCurve /\ FailsHigh
<1> SUFFICES ASSUME Init PROVE last.did = "started"
  BY DEF NeverUnderCurve, FailsHigh
<1> QED BY DEF Init

\* No fan is commanded below its curve, whatever the damper, the overlay and the
\* compensation make of it, for all files, signals and zones.
THEOREM CurveIsFloor == Spec => []NeverUnderCurve
<1>1. Init => RomeInv /\ NeverUnderCurve
  BY RomeInit, NothingDone
<1>2. RomeInv /\ NeverUnderCurve /\ [Next]_vars => RomeInv' /\ NeverUnderCurve'
  BY RomeStep, CurveStep
<1> QED BY <1>1, <1>2, PTL DEF Spec

\* Whatever is done to the curve files, and whenever in a tick, the board is handed
\* back only when a temperature is missing, or a zone file breaks between the probe
\* and the read while its controller never had a curve: for all files and histories.
THEOREM ControlSurvivesEdits == Spec => EditsKeepControl
<1>1. Spec => []RomeInv
  BY RomeInit, RomeStep, PTL DEF Spec
<1>2. Spec => [][ReleasedForCause]_vars
  BY <1>1, EditsStep, PTL DEF Spec
<1> QED BY <1>2 DEF EditsKeepControl, ReleasedForCause

\* An overlay that cannot be judged means full speed for the case fans, for all
\* policies, curves and signals.
THEOREM OverlayFailsHigh == Spec => []FailsHigh
<1>1. Init => RomeInv /\ FailsHigh
  BY RomeInit, NothingDone
<1>2. RomeInv /\ FailsHigh /\ [Next]_vars => RomeInv' /\ FailsHigh'
  BY RomeStep, FailsHighStep
<1> QED BY <1>1, <1>2, PTL DEF Spec

-----------------------------------------------------------------------------
(* Outages.                                                                *)

\* A controller without an average takes the reading as it is.
LEMMA DutyFresh ==
  ASSUME NEW c \in Controller, NEW file \in File, NEW raw \in Nat,
         Usable(c.curve), c.smoothed = Unset
  PROVE  Duty(c, file, raw).smoothed = raw * Unit
<1> DEFINE l == Reload(c, file)
<1>1. l \in Controller /\ Usable(l.curve)
  BY ReloadDoes
<1>2. l.smoothed = Unset
  <2>1. l = c \/ \E a : l = [c EXCEPT !.curve = FromJson(file), !.alpha = a]
    BY DEF Reload
  <2>2. c.smoothed = l.smoothed
    <3> HIDE DEF l
    <3> QED BY <2>1 DEF Controller
  <2> QED BY <2>2
<1>3. Duty(c, file, raw) = [l EXCEPT !.smoothed = Smooth(l, Clamp(l.alpha, 1, 100), raw),
                                     !.applied = Answer(l, l.curve, Clamp(l.alpha, 1, 100), raw)]
  BY <1>1 DEF Duty, Damped, Answer, Target
<1> HIDE DEF l
<1>4. Smooth(l, Clamp(l.alpha, 1, 100), raw) = raw * Unit
  BY <1>2 DEF Smooth
<1> DEFINE average == Smooth(l, Clamp(l.alpha, 1, 100), raw)
           answer == Answer(l, l.curve, Clamp(l.alpha, 1, 100), raw)
<1> HIDE DEF average, answer
<1>5. Duty(c, file, raw) = [l EXCEPT !.smoothed = average, !.applied = answer]
  BY <1>3 DEF average, answer
<1>6. Duty(c, file, raw).smoothed = average
  BY <1>1, <1>5 DEF Controller
<1> QED BY <1>4, <1>6 DEF average

\* A tick that fails leaves the main controller without an average.
OutageInv == last.did \in {"released", "failed"} => ctrl.smoothed = Unset

ResumesFresh ==
  last.did \in {"released", "failed"} /\ last'.did = "set" /\ last'.mode = "uniform"
    => StartsFresh(ctrl', RawMax(Found'))

LEMMA OutageStep == RomeInv /\ OutageInv /\ [Next]_vars => OutageInv'
<1> SUFFICES ASSUME RomeInv, OutageInv, [Next]_vars PROVE OutageInv'
  OBVIOUS
<1>1. ASSUME NEW n \in world, Release(n) \/ Fail(n) PROVE OutageInv'
  <2> DEFINE b == Baseline(At[n])
  <2>1. b.ctrl \in Controller
    BY NamesInWorld, BaselineDoes DEF RomeInv
  <2>2. ctrl' = Reset(b.ctrl)
    BY <1>1 DEF Release, Fail
  <2> HIDE DEF b
  <2> QED BY <2>1, <2>2 DEF OutageInv, Reset, Controller
<1>2. ASSUME NEW n \in world, Set(n) \/ Replace(n) PROVE OutageInv'
  BY <1>2 DEF Set, Replace, Did, OutageInv
<1>3. ASSUME UNCHANGED vars PROVE OutageInv'
  BY <1>3 DEF OutageInv, vars, device
<1> QED BY <1>1, <1>2, <1>3 DEF Next, Tick

LEMMA ResumesStep == RomeInv /\ OutageInv /\ [Next]_vars => [ResumesFresh]_vars
<1> SUFFICES ASSUME RomeInv, OutageInv, Next PROVE ResumesFresh
  OBVIOUS
<1>1. ASSUME NEW n \in world, Release(n) \/ Fail(n) \/ Replace(n) PROVE ResumesFresh
  <2>1. last'.did # "set"
    BY <1>1 DEF Release, Fail, Replace, Did
  <2> QED BY <2>1 DEF ResumesFresh
<1>2. ASSUME NEW n \in world, Set(n), last.did \in {"released", "failed"}, last'.mode = "uniform"
      PROVE  StartsFresh(ctrl', RawMax(Found'))
  <2> DEFINE s == At[n]
  <2>1. n \in Surrounding
    BY NamesInWorld
  <2>2. Baseline(s).ok /\ Baseline(s).mode = "uniform" /\ ctrl' = Baseline(s).ctrl
        /\ last'.found = n
    BY <1>2 DEF Set, Did
  <2>3. Baseline(s) = UniformBaseline(s)
    BY <2>2 DEF Baseline, ZoneBaseline
  <2>4. RawMax(s) # Unset /\ ctrl' = Duty(ctrl, s.main, RawMax(s))
    <3> DEFINE raw == RawMax(s)
               after == IF raw = Unset THEN ctrl ELSE Duty(ctrl, s.main, raw)
               ok == raw # Unset /\ after.applied # Unset
               z == Zones(s)
    <3>1. Baseline(s) = [ok |-> ok, mode |-> "uniform", ctrl |-> after,
                         zones |-> z, cpu |-> after.applied, case |-> after.applied]
      BY <2>3 DEF UniformBaseline
    <3> HIDE DEF after, ok, z
    <3>2. ok /\ ctrl' = after
      BY <2>2, <3>1
    <3> QED BY <3>2 DEF ok, after
  <2>5. s.main \in File /\ RawMax(s) \in Nat
    BY <2>1, <2>4, SurroundingsAssumption, Temperatures, ReadingBounded
  <2>6. ctrl \in Controller /\ Usable(ctrl.curve) /\ ctrl.smoothed = Unset
    BY <1>2 DEF RomeInv, ControlInv, OutageInv
  <2>7. ctrl'.smoothed = RawMax(s) * Unit
    BY <2>4, <2>5, <2>6, DutyFresh
  <2>8. Found' = s
    BY <2>2 DEF Found
  <2> QED BY <2>7, <2>8 DEF StartsFresh
<1> QED BY <1>1, <1>2 DEF Next, Tick, ResumesFresh

\* After an outage the uniform controller starts from the first reading, for all
\* files, signals and boards.
THEOREM OutageForgets == Spec => UniformStartsFresh
<1>1. Init => RomeInv /\ OutageInv
  BY RomeInit DEF Init, OutageInv
<1>2. RomeInv /\ OutageInv /\ [Next]_vars => RomeInv' /\ OutageInv'
  BY RomeStep, OutageStep
<1>3. Spec => [][ResumesFresh]_vars
  BY <1>1, <1>2, ResumesStep, PTL DEF Spec
<1> QED BY <1>3 DEF UniformStartsFresh, ResumesFresh

=============================================================================
