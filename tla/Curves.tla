-------------------------------- MODULE Curves --------------------------------
(* Temperature to fan duty: the curve, its live file, the damper and the       *)
(* controller every fan module shares (anemos/src/curve.rs, damper.rs,         *)
(* controller.rs), and the strict reading of an overlay's curve                *)
(* (signal_curve_policy.rs, load_curve).  Pure operators.                      *)
(*                                                                             *)
(* A file is what reading it gives: [kind, entries, sensitivity].  kind is     *)
(* "missing" (or unreadable), "garbled" (not a JSON object) or "object"; an    *)
(* entry is good when key and value are numbers, and holds them rounded.       *)
(* Sensitivity (the EMA weight, code: 0.01..1) is in percent, temperatures are *)
(* natural numbers, and an average is kept to 1/Unit of a degree, rounded      *)
(* towards the reading, where the code keeps an f64.                           *)
EXTENDS Integers, Sequences, FiniteSetsExt

Unit == 2
DefaultAlpha == 50
DeadbandPct == 3
Unset == -1   \* Option::None of a damper's fields, and an absent sensitivity

File == [kind : {"missing", "garbled", "object"},
         entries : Seq([good : BOOLEAN, temp : Nat, duty : Int]), sensitivity : Int]

\* What a sensor can say: a temperature from 0 to the largest i32, or nothing.
MaxReading == 2147483647
Reading == {x \in Int : x = Unset \/ x \in 0..MaxReading}

\* Mutant of Clamp: bounded below only.
Clamp_Below(x, lo, hi) == IF x < lo THEN lo ELSE x

Clamp(x, lo, hi) == IF x < lo THEN lo ELSE IF x > hi THEN hi ELSE x

-----------------------------------------------------------------------------
(* The curve: a function from temperatures to duties.                          *)

NoCurve == <<>>
Usable(curve) == DOMAIN curve # {}

\* Curve::eval.  The sum is what `as i32` truncates; a negative one is clamped
\* by every caller.
Eval(curve, t) ==
  LET below == {p \in DOMAIN curve : p <= t}
      above == {p \in DOMAIN curve : p >= t}
  IN IF ~Usable(curve) THEN 0
     ELSE IF below = {} THEN curve[Min(above)]
     ELSE IF above = {} THEN curve[Max(below)]
     ELSE LET lo == Max(below)
              hi == Min(above)
          IN IF lo = hi THEN curve[lo]
             ELSE (curve[lo] * (hi - lo) + (t - lo) * (curve[hi] - curve[lo])) \div (hi - lo)

GoodEntries(file) == {i \in DOMAIN file.entries : file.entries[i].good}

\* Curve::from_json: bad entries are skipped, the last one for a degree counts.
FromJson(file) ==
  LET good == GoodEntries(file)
      at(t) == {i \in good : file.entries[i].temp = t}
  IN [t \in {file.entries[i].temp : i \in good} |-> file.entries[Max(at(t))].duty]

\* load_curve of the overlay policy: nothing is skipped and nothing is guessed.
Strict(file) ==
  /\ file.kind = "object"
  /\ file.sensitivity \in {Unset} \cup 1..100
  /\ file.entries # <<>>
  /\ GoodEntries(file) = DOMAIN file.entries
  /\ \A i \in DOMAIN file.entries : file.entries[i].duty \in 0..100
  /\ \A i, j \in DOMAIN file.entries :
       i # j => file.entries[i].temp # file.entries[j].temp
  /\ \A i, j \in DOMAIN file.entries :
       file.entries[i].temp < file.entries[j].temp =>
         file.entries[i].duty <= file.entries[j].duty

StrictAlpha(file) == IF file.sensitivity = Unset THEN DefaultAlpha ELSE file.sensitivity

-----------------------------------------------------------------------------
(* A controller: the curve cache and the damper it owns.                       *)

Fresh == [smoothed |-> Unset, applied |-> Unset]   \* Damper::default
Reset(c) == [c EXCEPT !.smoothed = Unset, !.applied = Unset]

\* Mutant of Reload: whatever the file holds becomes the curve.
Reload_Trusting(c, file) ==
  [c EXCEPT !.curve = IF file.kind = "object" THEN FromJson(file) ELSE NoCurve]

\* CurveCache::reload: a file without a usable curve changes nothing; a bad
\* sensitivity leaves the weight as it was.
Reload(c, file) ==
  IF file.kind # "object" \/ GoodEntries(file) = {} THEN c
  ELSE [c EXCEPT !.curve = FromJson(file),
                 !.alpha = IF file.sensitivity \in 1..100 THEN file.sensitivity ELSE @]

\* CurveCache::new and Controller::new
NewController(file) ==
  Reload([curve |-> NoCurve, alpha |-> DefaultAlpha, smoothed |-> Unset, applied |-> Unset],
         file)

\* Mutant of Smooth: the average is kept in whole degrees.
Smooth_Whole(d, alpha, raw) ==
  IF d.smoothed = Unset THEN raw * Unit
  ELSE Unit * ((alpha * raw * Unit + (100 - alpha) * d.smoothed) \div (100 * Unit))

\* Damper::smooth: the first reading seeds the average.
Smooth(d, alpha, raw) ==
  LET mix == alpha * raw * Unit + (100 - alpha) * d.smoothed
  IN IF d.smoothed = Unset THEN raw * Unit
     ELSE IF raw * Unit >= d.smoothed THEN (mix + 99) \div 100 ELSE mix \div 100

Degrees(average) == (average + Unit \div 2) \div Unit

\* Mutant of Deadband: a small increase is held like a small decrease.
Deadband_Symmetric(d, target) ==
  IF d.applied # Unset /\ target - d.applied \in (1 - DeadbandPct) .. (DeadbandPct - 1)
  THEN d.applied ELSE target

\* Damper::deadband: only a small decrease is held.
Deadband(d, target) ==
  IF d.applied # Unset /\ target < d.applied /\ d.applied - target < DeadbandPct
  THEN d.applied ELSE target

\* The damped answer of a curve to a reading: the damper afterwards, whose
\* `applied` is the commanded duty.
Damped(d, curve, alpha, raw) ==
  LET average == Smooth(d, alpha, raw)
      target == Clamp(Eval(curve, Degrees(average)), 0, 100)
  IN [d EXCEPT !.smoothed = average, !.applied = Deadband(d, target)]

\* Controller::duty: the controller afterwards; no duty (Unset) without a curve.
Duty(c, file, raw) ==
  LET loaded == Reload(c, file)
  IN IF Usable(loaded.curve)
     THEN Damped(loaded, loaded.curve, Clamp(loaded.alpha, 1, 100), raw)
     ELSE Reset(loaded)
=============================================================================
