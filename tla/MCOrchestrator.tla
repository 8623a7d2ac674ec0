---------------------------- MODULE MCOrchestrator ----------------------------
(***************************************************************************)
(* Small instances of Orchestrator for TLC, and what the configuration     *)
(* file promises it, over all files of two lines.                          *)
(***************************************************************************)
EXTENDS OrchestratorTenancy, SequencesExt

CONSTANTS m1, m2, i1

File == INSTANCE Config WITH Unroutable <- {"bad:name"}

\* m2 takes m1's signals, twice named, and those of a module that is not there.
Wired ==
  <<[kind |-> "module", name |-> m1, words |-> <<>>],
    [kind |-> "module", name |-> m2,
     words |-> <<[key |-> "input", peers |-> <<m1, "absent">>],
                 [key |-> "input", peers |-> <<"", m1>>]>>]>>

\* No module takes inputs; m2 takes those of m1.
NoSources == [m \in Module |-> {}]
Routed    == [m \in Module |-> ToSet(File!InputMap(Wired)[m]) \cap Module]

\* Unit lists: every id once; any set of ids; an id named twice.
Stable    == {[i \in Id |-> 1]}
Hotplug   == [Id -> {0, 1}]
Ambiguous == [Id -> 0 .. 2]

-----------------------------------------------------------------------------
\* Values around every clamp, with every suffix.
Texts == [num : {0, 1, 7}, suffix : {"ms", "s", "none"}] \cup {[num |-> 0, suffix |-> "bad"]}
Lines ==
  [kind : {"global"}, key : {"base_tick", "max_backoff", "timeout"}, text : Texts] \cup
  {[kind |-> "module", name |-> n, words |-> <<[key |-> k, text |-> t]>>] :
     n \in {"fans", "bad:name"}, k \in {"every", "timeout"}, t \in Texts}
Files == {f \in [1 .. 2 -> Lines] : ~File!Refused(f)}

\* No file makes the loop spin or an apply time out at once: a wake is at least
\* 10 ms, a cadence at least a wake, a timeout and a backoff never 0, whatever
\* the last or the bad lines say, for a module without a line of its own too.
ASSUME ConfigIsUsable ==
  \A f \in Files : \A m \in {"fans", "bad:name", "absent"} :
    /\ File!BaseTick(f) >= 10
    /\ File!MaxBackoff(f) >= 1
    /\ File!ScheduleFor(f, m).every >= File!BaseTick(f)
    /\ File!ScheduleFor(f, m).timeout >= 1

\* The grace of a shutdown, sized by the largest timeout, covers every apply a
\* configured module can have in flight.
ASSUME ShutdownGraceCoversApplies ==
  \A f \in Files : \A m \in File!Names(f) :
    File!ScheduleFor(f, m).timeout <= File!MaxApplyTimeout(f)

\* A name with a ':' never becomes a module or a source of one: the routing key
\* "module:id" of another module could begin like it.
ASSUME NamesAreRoutable ==
  \A f \in Files : "bad:name" \notin File!Names(f)

\* The loop wakes every `tick`.  An instance that is idle at every wake is given
\* an apply at the first one, and then once per cadence: never earlier, and never
\* a whole wake late.  A busy one is left alone.
ASSUME CadenceIsKept ==
  \A tick \in 1 .. 3, every \in 1 .. 7, last \in 0 .. 4 :
    LET wakes == {last + n * tick : n \in 1 .. 8}
        next  == CHOOSE w \in wakes :
                   /\ File!ShouldDispatch(FALSE, <<last>>, w, every)
                   /\ \A v \in wakes :
                        v < w => ~File!ShouldDispatch(FALSE, <<last>>, v, every)
    IN  /\ File!ShouldDispatch(FALSE, <<>>, last, every)
        /\ next - last \in every .. every + tick - 1
        /\ \A w \in wakes : ~File!ShouldDispatch(TRUE, <<last>>, w, every)

=============================================================================
