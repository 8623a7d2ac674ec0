-------------------------------- MODULE Config --------------------------------
(***************************************************************************)
(* What aiolos.conf means (aiolos/src/config.rs, registry.rs) and when an  *)
(* instance is due (main.rs).  A file is a sequence of lines that are      *)
(* already cut into words: blanks and comments are gone, a global line is  *)
(* its key and its value, a module line its name and its directives.       *)
(* A value is a number with a suffix, or "bad" where the code finds no     *)
(* number or one whose milliseconds overflow.  Durations are milliseconds. *)
(***************************************************************************)
EXTENDS Naturals, Sequences
LOCAL INSTANCE SequencesExt
LOCAL INSTANCE FiniteSetsExt

CONSTANT Unroutable  \* the names that are empty or hold a ':'

DefaultBaseTick == 100
MinBaseTick == 10
DefaultEvery == 1000
DefaultTimeout == 5000
DefaultDetectEvery == 10
DefaultMaxBackoff == 300
MinMaxBackoff == 1

\* parse_dur_ms: a suffix decides the scale, a bare number takes the line's own.
Millis(text, bare) ==
  text.num * CASE text.suffix = "ms" -> 1
               [] text.suffix = "s" -> 1000
               [] OTHER -> bare

Globals(file) == SelectSeq(file, LAMBDA l : l.kind = "global")

\* parse refuses the file: a bad base_tick, or seconds that are not a bare number.
Refused(file) ==
  \E l \in ToSet(Globals(file)) :
    \/ l.key = "base_tick" /\ l.text.suffix = "bad"
    \/ l.key \in {"detect_every", "max_backoff"} /\ l.text.suffix # "none"

\* The last line of a key wins; the obsolete and the unknown ones are ignored.
Global(file, key, default, bare) ==
  FoldLeft(LAMBDA v, l : IF l.key = key THEN Millis(l.text, bare) ELSE v,
           default, Globals(file))

BaseTick(file) == Max({MinBaseTick, Global(file, "base_tick", DefaultBaseTick, 1)})
DetectEvery(file) == Global(file, "detect_every", DefaultDetectEvery, 1)
MaxBackoff(file) ==
  Max({MinMaxBackoff, Global(file, "max_backoff", DefaultMaxBackoff, 1)})

\* parse_module_line: the peers of all `input=` words, in order and once each.
Inputs(line) ==
  FoldLeft(LAMBDA peers, p : IF p = "" \/ p \in ToSet(peers) THEN peers
                             ELSE Append(peers, p),
           <<>>, FlattenSeq([i \in DOMAIN line.words |->
                   IF line.words[i].key = "input" THEN line.words[i].peers ELSE <<>>]))

\* The module lines that are kept.  A name may occur twice.
Registry(file) == SelectSeq(file, LAMBDA l : l.kind = "module" /\ l.name \notin Unroutable)
Names(file) == {l.name : l \in ToSet(Registry(file))}

\* main's input_map: of two lines with one name the later one's inputs.
InputMap(file) ==
  [m \in Names(file) |->
     Inputs(Last(SelectSeq(Registry(file), LAMBDA l : l.name = m)))]

\* The last usable word of a key on a line; zero is no timeout.
Directive(line, key, default) ==
  FoldLeft(LAMBDA v, w :
             IF /\ w.key = key /\ w.text.suffix # "bad"
                /\ key = "timeout" => w.text.num > 0
             THEN Millis(w.text, 1000) ELSE v,
           default, line.words)

\* build_schedules: no cadence is finer than a wake.
Schedules(file) ==
  [m \in Names(file) |->
     LET line == Last(SelectSeq(Registry(file), LAMBDA l : l.name = m))
     IN  [every |-> Max({BaseTick(file), Directive(line, "every", DefaultEvery)}),
          timeout |-> Directive(line, "timeout", DefaultTimeout)]]

ScheduleFor(file, m) ==
  IF m \in Names(file) THEN Schedules(file)[m]
  ELSE [every |-> Max({BaseTick(file), DefaultEvery}), timeout |-> DefaultTimeout]

MaxApplyTimeout(file) ==
  IF Names(file) = {} THEN DefaultTimeout
  ELSE Max({Schedules(file)[m].timeout : m \in Names(file)})

\* should_dispatch: `last` is empty before the first dispatch; the subtraction
\* saturates, so a clock that stands still never makes an instance due early.
ShouldDispatch(busy, last, now, every) ==
  /\ ~busy
  /\ \/ last = <<>>
     \/ now >= last[1] + every
     \/ now < last[1] /\ every = 0

=============================================================================
