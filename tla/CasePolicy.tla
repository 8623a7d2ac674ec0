------------------------------ MODULE CasePolicy ------------------------------
(* The case-fan overlay: a live policy file whose rules match signals and ask  *)
(* for a duty by a curve each (anemos/src/signal_curve_policy.rs), for the     *)
(* devices that take max(baseline, overlay).  Pure operators.                  *)
(*                                                                             *)
(* A policy file is [kind, version, enabled, rules]; a rule [name, match,      *)
(* labels, curve, basename, required], `match` and `labels` giving the         *)
(* accepted values per field and label; a signal [role, value, field, labels]. *)
(* Signals of the module itself have module and instance "self".               *)
EXTENDS Curves

PolicyVersion == 1
Field == {"module", "instance", "signal", "component", "uom"}
NoConfig == [kind |-> "none", version |-> 0, enabled |-> FALSE, rules |-> <<>>]

\* SignalCurvePolicy::new: the rules adopted last, their dampers, configured_seen.
NewPolicy == [seen |-> FALSE, active |-> NoConfig, dampers |-> <<>>]

-----------------------------------------------------------------------------
(* Reading the policy.                                                         *)

ValidRule(rule) ==
  /\ rule.name # ""
  /\ rule.basename                  \* validate_curve_name: one normal component
  /\ \A f \in Field : "" \notin rule.match[f]
  /\ \A l \in DOMAIN rule.labels : l # "" /\ rule.labels[l] # {} /\ "" \notin rule.labels[l]

\* validate_policy: a disabled policy needs a known version only.
ValidPolicy(file) ==
  /\ file.version = PolicyVersion
  /\ file.enabled =>
       /\ file.rules # <<>>
       /\ \A i \in DOMAIN file.rules : ValidRule(file.rules[i])
       /\ \A i, j \in DOMAIN file.rules :
            i # j => file.rules[i].name # file.rules[j].name

\* load_policy: only a missing file is no error.
Loaded(file) ==
  CASE file.kind = "missing"                       -> "missing"
    [] file.kind = "object" /\ ValidPolicy(file)   -> "config"
    [] OTHER                                       -> "invalid"

\* The file of a rule's curve; one that resolves outside the directory is refused.
CurveFile(dir, rule) ==
  IF rule.curve \in DOMAIN dir THEN dir[rule.curve]
  ELSE [kind |-> "missing", entries |-> <<>>, sensitivity |-> Unset]

-----------------------------------------------------------------------------
(* Matching signals.                                                           *)

\* numeric_producer: a finite number in the range of i32, rounded.
Numeric(signal) == signal.role = "producer" /\ signal.value # Unset

\* Selector::matches: an empty list accepts everything, also an absent unit.
Matches(rule, signal) ==
  /\ Numeric(signal)
  /\ \A f \in Field : rule.match[f] = {} \/ signal.field[f] \in rule.match[f]
  /\ \A l \in DOMAIN rule.labels :
       l \in DOMAIN signal.labels /\ signal.labels[l] \in rule.labels[l]

Matched(rule, signals) == {s.value : s \in {x \in signals : Matches(rule, x)}}

-----------------------------------------------------------------------------
(* Evaluating it: the policy afterwards and what it asks of the case fans.     *)

Inactive(p) == [policy |-> p, overlay |-> Unset, rule |-> 0, failed |-> FALSE]

\* fail_high: 100% and no memory of the readings before.
FailHigh(p) ==
  [policy |-> [p EXCEPT !.dampers = [i \in DOMAIN @ |-> Fresh]],
   overlay |-> 100, rule |-> 0, failed |-> TRUE]

\* The rules are rebuilt only when the configuration has changed.
Adopted(p, config) ==
  IF p.active = config THEN [p EXCEPT !.seen = TRUE]
  ELSE [seen |-> TRUE, active |-> config,
        dampers |-> [i \in DOMAIN config.rules |-> Fresh]]

\* Every curve is validated on every tick, and a required rule needs a signal.
Broken(p, dir, signals) ==
  \E i \in DOMAIN p.active.rules :
    LET rule == p.active.rules[i] IN
    \/ ~Strict(CurveFile(dir, rule))
    \/ rule.required /\ Matched(rule, signals) = {}

\* A rule without signals forgets its readings and asks for nothing; the largest
\* duty wins, the first rule among equals.
Applied(p, dir, signals) ==
  LET rules == p.active.rules
      heard == {i \in DOMAIN rules : Matched(rules[i], signals) # {}}
      file(i) == CurveFile(dir, rules[i])
      dampers == [i \in DOMAIN rules |->
                    IF i \in heard
                    THEN Damped(p.dampers[i], FromJson(file(i)), StrictAlpha(file(i)),
                                Max(Matched(rules[i], signals)))
                    ELSE Fresh]
      pct == Max({dampers[i].applied : i \in heard})
      after == [p EXCEPT !.dampers = dampers]
  IN IF heard = {} THEN Inactive(after)
     ELSE [policy |-> after, overlay |-> pct,
           rule |-> Min({i \in heard : dampers[i].applied = pct}), failed |-> FALSE]

\* Mutant of Evaluate: only a policy that could be read counts as configured.
Evaluate_ForgetsErrors(p, file, dir, signals) ==
  CASE Loaded(file) = "missing" -> IF p.seen THEN FailHigh(p) ELSE Inactive(p)
    [] Loaded(file) = "invalid" -> FailHigh(p)
    [] Loaded(file) = "config" /\ ~file.enabled -> Inactive(NewPolicy)
    [] OTHER -> LET adopted == Adopted(p, file) IN
                IF Broken(adopted, dir, signals) THEN FailHigh(adopted)
                ELSE Applied(adopted, dir, signals)

\* SignalCurvePolicy::evaluate.  Disabling forgets that one was ever configured.
Evaluate(p, file, dir, signals) ==
  CASE Loaded(file) = "missing" -> IF p.seen THEN FailHigh(p) ELSE Inactive(p)
    [] Loaded(file) = "invalid" -> FailHigh([p EXCEPT !.seen = TRUE])
    [] Loaded(file) = "config" /\ ~file.enabled -> Inactive(NewPolicy)
    [] OTHER -> LET adopted == Adopted(p, file) IN
                IF Broken(adopted, dir, signals) THEN FailHigh(adopted)
                ELSE Applied(adopted, dir, signals)
=============================================================================
