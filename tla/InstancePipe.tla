---------------------------- MODULE InstancePipe ----------------------------
(* One instance from spawn to respawn: the worker's deadline-bounded requests  *)
(* (aiolos/src/instance.rs), the run loop of its child over two byte pipes     *)
(* (anemos/src/run.rs, stdio.rs), and the backoff of the supervisor            *)
(* (aiolos/src/module.rs).  Bytes are tokens <<what, tag>>; the tag says to    *)
(* which request a token belongs, which neither side can see.                  *)
EXTENDS Integers, SequencesExt

CONSTANTS
  Bodies,      \* how many tokens a request has before its newline
  Noise,       \* the kinds of token a device may print on stdout while it applies
  Cap,         \* the capacity of a pipe
  Chunk,       \* what one read takes at most
  MaxLine,     \* MAX_LINE of instance.rs
  MaxStdin,    \* MAX_LINE of stdio.rs
  Backoffs,    \* the max_backoff values, in seconds
  Saturate     \* BACKOFF_SATURATE_SHIFT: 2^Saturate is above every backoff

ASSUME SizesAssumption == {Cap, Chunk, MaxLine, MaxStdin} \subseteq Nat \ {0} /\ Bodies \subseteq Nat \ {0}
ASSUME BackoffsAssumption == \A b \in Backoffs : b \in Nat /\ b < 2 ^ Saturate
ASSUME SaturateAssumption ==
  Saturate \in Nat \ {0} /\ \A n \in 1..Saturate + 1 : 2 ^ n \in Nat \ {0}
\* "stdout is protocol-only": a device may print, but no report of its own.
ASSUME NoiseAssumption == Noise \cap {"ok", "error", "fatal"} = {}

VARIABLES
  worker,   \* where the worker is; "ended" when the supervisor has reaped it
  exit,     \* why it ended: "ended", "fatal", "dismissed"
  late,     \* the deadline of what it does has passed
  tag,      \* of its last request
  toWrite,  \* what is left of the line it writes
  rbuf,     \* LineReader::buf
  got,      \* the tag of the report it accepted for its last request
  down, up, \* the stdin and the stdout pipe
  eof,      \* the write end of stdin is closed
  child,    \* where the child is
  term,     \* SHUTDOWN of stdio.rs
  sbuf,     \* StdinReader::buf
  toSay,    \* what is left of the line it prints
  serving,  \* the tag of the request it serves
  extra,    \* applies begun since term was set
  backoff,  \* max_backoff
  count,    \* failures in the backoff entry of the id, 0 when there is none
  healthy,  \* history: the instance has answered ok since it was spawned
  wait      \* seconds since the worker was reaped

asking == <<worker, exit, late, tag, toWrite, rbuf, got>>
pipes == <<down, up, eof>>
serves == <<child, term, sbuf, toSay, serving, extra>>
respawn == <<backoff, count, healthy, wait>>
vars == <<asking, pipes, serves, respawn>>

Tag == {0, 1}
NoTag == 2

Line(what, t, n) == [i \in 1..n |-> <<IF i = 1 THEN what ELSE "more", t>>] \o << <<"nl", t>> >>
HasLine(buf) == \E i \in DOMAIN buf : buf[i][1] = "nl"
Newline(buf) == CHOOSE i \in DOMAIN buf : buf[i][1] = "nl" /\ \A j \in 1..i - 1 : buf[j][1] # "nl"
FirstLine(buf) == SubSeq(buf, 1, Newline(buf))
AfterLine(buf) == SubSeq(buf, Newline(buf) + 1, Len(buf))

\* A line that parses: what it begins with, and nothing of another line after it.
Parse(line, kinds) ==
  IF line[1][1] \in kinds /\ \A i \in 2..Len(line) : line[i][1] \in {"more", "nl"}
  THEN line[1][1] ELSE "malformed"

Init ==
  /\ worker = "idle" /\ exit = "none" /\ late = FALSE /\ tag = 0
  /\ toWrite = <<>> /\ rbuf = <<>> /\ got = NoTag
  /\ down = <<>> /\ up = <<>> /\ eof = FALSE
  /\ child = "poll" /\ term = FALSE /\ sbuf = <<>> /\ toSay = <<>> /\ serving = 0 /\ extra = 0
  /\ backoff \in Backoffs /\ count = 0 /\ healthy = FALSE /\ wait = 0

-----------------------------------------------------------------------------
(* The child's end, whoever brings it about.                                   *)

Gone == child = "gone"

\* What is in its stdout pipe can still be read.
Dies ==
  /\ child' = "gone" /\ term' = FALSE /\ extra' = 0
  /\ down' = <<>> /\ sbuf' = <<>> /\ toSay' = <<>> /\ serving' = 0

Kill == Dies /\ UNCHANGED up
Spare == UNCHANGED <<serves, down, up>>

-----------------------------------------------------------------------------
(* The worker: Instance::tick.                                                 *)

Goto(l) == worker' = l

\* A command arrives: an apply, of whatever size its inputs make it.
Tick ==
  /\ worker = "idle"
  /\ \E n \in Bodies : toWrite' = Line("apply", 1 - tag, n)
  /\ tag' = 1 - tag /\ got' = NoTag /\ late' = FALSE
  /\ Goto("write")
  /\ UNCHANGED <<exit, rbuf, pipes, serves, respawn>>

\* The loop of the worker ends, and dropping the instance closes stdin.
End(why) == Goto("drop") /\ exit' = why /\ eof' = TRUE /\ late' = FALSE /\ rbuf' = <<>>

\* write_line_deadline: as many tokens as the pipe takes, any number at a time.
Write ==
  /\ worker \in {"write", "bye"} /\ ~late /\ ~Gone /\ toWrite # <<>> /\ Len(down) < Cap
  /\ down' = Append(down, Head(toWrite))
  /\ toWrite' = Tail(toWrite)
  /\ UNCHANGED <<worker, exit, late, tag, rbuf, got, up, eof, serves, respawn>>

Written ==
  /\ worker = "write" /\ toWrite = <<>>
  /\ Goto("read")
  /\ UNCHANGED <<exit, late, tag, toWrite, rbuf, got, pipes, serves, respawn>>

\* The deadline, which kills, or EPIPE.
WriteFails ==
  /\ worker = "write" /\ toWrite # <<>> /\ (late \/ Gone)
  /\ toWrite' = <<>>
  /\ Kill /\ End("ended")
  /\ UNCHANGED <<tag, got, respawn>>

\* read_line_deadline has a line: a hello is skipped, a report accepted, anything
\* else kills.
TakeLine ==
  /\ worker = "read" /\ HasLine(rbuf)
  /\ LET said == Parse(FirstLine(rbuf), {"hello", "ok", "error", "fatal"})
         rest == AfterLine(rbuf)
     IN /\ got' = IF said \in {"ok", "error", "fatal"} THEN rbuf[1][2] ELSE got
        /\ healthy' = (healthy \/ said = "ok")
        /\ \/ /\ said \in {"hello", "ok", "error"}
              /\ Goto(IF said = "hello" THEN "read" ELSE "idle")
              /\ rbuf' = rest /\ late' = (late /\ said = "hello")
              /\ Spare /\ UNCHANGED <<exit, eof>>
           \/ said = "fatal" /\ End("fatal") /\ Spare
           \/ said = "malformed" /\ End("ended") /\ Kill
  /\ UNCHANGED <<tag, toWrite, backoff, count, wait>>

\* Mutant of ReadMore: whatever fits the local buffer.
ReadMore_WholeChunk ==
  /\ worker = "read" /\ ~HasLine(rbuf) /\ Len(rbuf) =< MaxLine /\ ~late /\ up # <<>>
  /\ rbuf' = rbuf \o SubSeq(up, 1, Min({Chunk, Len(up)}))
  /\ up' = SubSeq(up, Min({Chunk, Len(up)}) + 1, Len(up))
  /\ UNCHANGED <<worker, exit, late, tag, toWrite, got, down, eof, serves, respawn>>

\* Mutant of ReadMore: the deadline is for waiting only.
ReadMore_Late ==
  /\ worker = "read" /\ ~HasLine(rbuf) /\ Len(rbuf) =< MaxLine /\ up # <<>>
  /\ LET n == Min({Chunk, MaxLine - Len(rbuf) + 1, Len(up)})
     IN rbuf' = rbuf \o SubSeq(up, 1, n) /\ up' = SubSeq(up, n + 1, Len(up))
  /\ UNCHANGED <<worker, exit, late, tag, toWrite, got, down, eof, serves, respawn>>

\* One read never takes the buffer further than one token over the limit.
ReadMore ==
  /\ worker = "read" /\ ~HasLine(rbuf) /\ Len(rbuf) =< MaxLine /\ ~late /\ up # <<>>
  /\ LET n == Min({Chunk, MaxLine - Len(rbuf) + 1, Len(up)})
     IN rbuf' = rbuf \o SubSeq(up, 1, n) /\ up' = SubSeq(up, n + 1, Len(up))
  /\ UNCHANGED <<worker, exit, late, tag, toWrite, got, down, eof, serves, respawn>>

\* Mutant of ReadFails: an apply that is late is an error of that apply only.
ReadFails_Spares ==
  /\ worker = "read" /\ ~HasLine(rbuf)
  /\ \/ Len(rbuf) > MaxLine /\ End("ended") /\ Kill
     \/ /\ Len(rbuf) =< MaxLine /\ late
        /\ Goto("idle") /\ Spare /\ UNCHANGED <<exit, late, eof, rbuf>>
     \/ Len(rbuf) =< MaxLine /\ ~late /\ up = <<>> /\ Gone /\ End("ended") /\ Spare
  /\ UNCHANGED <<tag, toWrite, got, respawn>>

\* A flood and the deadline kill; the end of stdout needs no kill.
ReadFails ==
  /\ worker = "read" /\ ~HasLine(rbuf)
  /\ \/ Len(rbuf) > MaxLine /\ End("ended") /\ Kill
     \/ Len(rbuf) =< MaxLine /\ late /\ End("ended") /\ Kill
     \/ Len(rbuf) =< MaxLine /\ ~late /\ up = <<>> /\ Gone /\ End("ended") /\ Spare
  /\ UNCHANGED <<tag, toWrite, got, respawn>>

-----------------------------------------------------------------------------
(* The worker: Instance::shutdown and Instance::drop.                          *)

Dismiss ==
  /\ worker = "idle"
  /\ toWrite' = Line("shutdown", 1 - tag, 1)
  /\ tag' = 1 - tag /\ got' = NoTag /\ late' = FALSE
  /\ Goto("bye")
  /\ UNCHANGED <<exit, rbuf, pipes, serves, respawn>>

\* However the write went, stdin is closed behind it.
CloseStdin ==
  /\ worker = "bye" /\ (toWrite = <<>> \/ late \/ Gone)
  /\ toWrite' = <<>> /\ eof' = TRUE /\ exit' = "dismissed"
  /\ Goto("grace")
  /\ UNCHANGED <<late, tag, rbuf, got, down, up, serves, respawn>>

\* Mutant of Escalate: drop closes stdin and leaves the rest to the child.
Escalate_NoKill ==
  /\ worker \in {"grace", "drop", "term"} /\ ~Gone /\ late
  /\ IF worker = "grace" THEN Kill /\ UNCHANGED <<worker, late>>
     ELSE /\ Goto("term") /\ term' = TRUE /\ UNCHANGED late
          /\ UNCHANGED <<child, sbuf, toSay, serving, extra, down, up>>
  /\ UNCHANGED <<exit, tag, toWrite, rbuf, got, eof, respawn>>

\* The grace is over: shutdown kills; drop sends SIGTERM first.
Escalate ==
  /\ worker \in {"grace", "drop", "term"} /\ ~Gone /\ late
  /\ IF worker = "drop"
     THEN /\ Goto("term") /\ term' = TRUE /\ late' = FALSE
          /\ UNCHANGED <<child, sbuf, toSay, serving, extra, down, up>>
     ELSE Kill /\ UNCHANGED <<worker, late>>
  /\ UNCHANGED <<exit, tag, toWrite, rbuf, got, eof, respawn>>

WorkerDone == worker \in {"grace", "drop", "term"} /\ Gone

WorkerStep ==
  \/ Write \/ Written \/ WriteFails \/ TakeLine \/ ReadMore \/ ReadFails
  \/ CloseStdin \/ Escalate

-----------------------------------------------------------------------------
(* The supervisor: backoff.                                                    *)

\* Mutant of Failures: a declared fatal counts as any other end.
Failures_NoJump(why) == IF why = "dismissed" THEN 0 ELSE count + 1

\* A vanished id forgets its failures; a declared fatal jumps, the rest counts up.
Failures(why) ==
  IF why = "dismissed" THEN 0
  ELSE IF why = "fatal" THEN Saturate
  ELSE Min({count + 1, Saturate + 1})

Reap ==
  /\ WorkerDone
  /\ Goto("ended")
  /\ count' = Failures(exit) /\ wait' = 0
  /\ up' = <<>> /\ rbuf' = <<>> /\ late' = FALSE
  /\ UNCHANGED <<exit, tag, toWrite, got, down, eof, serves, backoff, healthy>>

\* backoff_delay_secs
Delay(n) == Min({2 ^ n, Max({backoff, 1})})

BackoffExpired == count = 0 \/ wait >= Delay(count)

Respawn ==
  /\ worker = "ended" /\ BackoffExpired
  /\ Goto("idle") /\ child' = "poll" /\ eof' = FALSE
  /\ exit' = "none" /\ healthy' = FALSE /\ got' = NoTag /\ wait' = 0
  /\ UNCHANGED <<late, tag, toWrite, rbuf, down, up, term, sbuf, toSay, serving, extra,
                 backoff, count>>

\* Time passes for whoever has a deadline or a backoff.
TimePasses ==
  \/ /\ worker \notin {"idle", "ended"} /\ ~late
     /\ late' = TRUE
     /\ UNCHANGED <<worker, exit, tag, toWrite, rbuf, got, pipes, serves, respawn>>
  \/ /\ worker = "ended" /\ wait < Max(Backoffs \cup {1})
     /\ wait' = wait + 1
     /\ UNCHANGED <<asking, pipes, serves, backoff, count, healthy>>

-----------------------------------------------------------------------------
(* The child: StdinReader::next_event and run_loop.                            *)

\* take_line drops a flood.
Kept(buf) == IF Len(buf) > MaxStdin /\ ~HasLine(buf) THEN <<>> ELSE buf

Say(what, t) == toSay' = << <<what, t>>, <<"nl", t>> >>

Leave == child' = "restore" /\ toSay' = <<>> /\ UNCHANGED <<serving, extra, down>>

ServeLine ==
  /\ child = "poll" /\ HasLine(sbuf)
  /\ LET asked == Parse(FirstLine(sbuf), {"apply", "shutdown"})
         t     == sbuf[Newline(sbuf)][2]
     IN /\ serving' = t
        /\ extra' = IF term /\ asked = "apply" THEN extra + 1 ELSE extra
        /\ \/ asked = "apply" /\ child' = "apply" /\ UNCHANGED toSay
           \/ asked = "shutdown" /\ child' = "restore" /\ Say("ok", t)
           \/ asked = "malformed" /\ child' = "report" /\ Say("error", t)
  /\ sbuf' = AfterLine(sbuf)
  /\ UNCHANGED <<asking, pipes, term, respawn>>

\* Mutant of Signalled: the flag is looked at when there is nothing to read.
Signalled_Idle == term /\ down = <<>>

Signalled == term

NextEvent ==
  /\ child = "poll" /\ ~HasLine(sbuf)
  /\ \/ Signalled /\ Leave /\ sbuf' = Kept(sbuf)
     \/ /\ ~Signalled /\ down # <<>>
        /\ LET n == Min({Chunk, Len(down)})
           IN /\ sbuf' = Kept(sbuf) \o SubSeq(down, 1, n)
              /\ down' = SubSeq(down, n + 1, Len(down))
        /\ UNCHANGED <<child, toSay, serving, extra>>
     \/ ~Signalled /\ down = <<>> /\ eof /\ Leave /\ sbuf' = Kept(sbuf)
  /\ UNCHANGED <<asking, up, eof, term, respawn>>

\* emit_report, as fast as the pipe takes it.
Emit ==
  /\ child \in {"report", "farewell"} /\ toSay # <<>> /\ Len(up) < Cap
  /\ up' = Append(up, Head(toSay))
  /\ toSay' = Tail(toSay)
  /\ UNCHANGED <<asking, down, eof, child, term, sbuf, serving, extra, respawn>>

Emitted ==
  /\ child \in {"report", "farewell"} /\ toSay = <<>>
  /\ IF child = "report"
     THEN child' = "poll" /\ serving' = 0 /\ UNCHANGED <<down, term, sbuf, toSay, extra>>
     ELSE Dies
  /\ UNCHANGED <<asking, up, eof, respawn>>

\* Device::apply returns.  A child that never opened its device exits after the
\* fatal (startup_curve_fatal_loop) or goes on (open failed).
Applied ==
  /\ child = "apply"
  /\ \/ child' = "report" /\ \E s \in {"ok", "error", "fatal"} : Say(s, serving)
     \/ child' = "farewell" /\ Say("fatal", serving)
  /\ UNCHANGED <<asking, pipes, term, sbuf, serving, extra, respawn>>

\* Device::restore returns; a shutdown line is answered, a signal or EOF is not.
Restored ==
  /\ child = "restore"
  /\ child' = "farewell"
  /\ UNCHANGED <<asking, pipes, term, sbuf, toSay, serving, extra, respawn>>

\* The device, or a library below it, prints while it works; or it crashes.
Prints ==
  /\ child = "apply" /\ Len(up) < Cap
  /\ \E n \in Noise : up' = Append(up, <<n, serving>>)
  /\ UNCHANGED <<asking, down, eof, serves, respawn>>

Crash ==
  /\ child = "apply" /\ Dies
  /\ UNCHANGED <<asking, up, eof, respawn>>

\* systemd's SIGTERM, to every process of the unit.
Sigterm ==
  /\ ~Gone /\ ~term
  /\ term' = TRUE
  /\ UNCHANGED <<asking, pipes, child, sbuf, toSay, serving, extra, respawn>>

ChildStep == ServeLine \/ NextEvent \/ Emit \/ Emitted

Next ==
  \/ WorkerStep \/ ChildStep \/ TimePasses
  \/ Tick \/ Dismiss \/ Reap \/ Respawn
  \/ Applied \/ Restored \/ Prints \/ Crash \/ Sigterm

\* Threads and processes are scheduled and time passes.  A device call may hang.
Spec ==
  /\ Init /\ [][Next]_vars
  /\ WF_vars(WorkerStep) /\ WF_vars(Reap) /\ WF_vars(ChildStep) /\ WF_vars(TimePasses)

-----------------------------------------------------------------------------
(* Properties.                                                                 *)

Token == {"apply", "shutdown", "more", "nl", "ok", "error", "fatal"} \cup Noise
IsBytes(s) == s \in Seq(Token \X Tag)

\* Every variable has its type; no buffer grows beyond its limit and one read.
TypeOK ==
  /\ worker \in {"idle", "write", "read", "bye", "grace", "drop", "term", "ended"}
  /\ exit \in {"none", "ended", "fatal", "dismissed"}
  /\ {late, eof, term, healthy} \subseteq BOOLEAN
  /\ {tag, serving} \subseteq Tag /\ got \in Tag \cup {NoTag}
  /\ \A s \in {toWrite, rbuf, down, up, sbuf, toSay} : IsBytes(s)
  /\ Len(rbuf) =< MaxLine + 1 /\ Len(sbuf) =< MaxStdin + Chunk
  /\ Len(down) =< Cap /\ Len(up) =< Cap
  /\ child \in {"poll", "apply", "report", "restore", "farewell", "gone"}
  /\ backoff \in Backoffs /\ count \in 0..Saturate + 1 /\ wait \in Nat /\ extra \in Nat

\* A report the worker accepts answers the request it has just written, however
\* the bytes of both were split, delayed, cut or mixed with noise; and what is on
\* its way to the child is of one request, of none when the worker is idle.
HalfDuplex ==
  /\ got \in {NoTag, tag}
  /\ \A s \in {sbuf, down} : \A i \in DOMAIN s : worker # "idle" /\ s[i][2] = tag

\* A child that was told to stop by a signal begins one more apply at most: the
\* one whose line it had already read.
SignalIsHeard == extra =< 1

\* Whatever the child does or does not print, the worker is back from tick.
TickReturns == worker \in {"write", "read"} ~> worker \in {"idle", "drop"}

\* A worker that leaves takes its child with it, even one whose device call hangs.
LeavesNoChild == worker \in {"bye", "drop"} ~> worker = "ended" /\ Gone

\* A respawn is never immediate after a failure, waits for the whole cap after a
\* declared fatal, and is due when the cap has passed.
RespawnIsPaced ==
  worker = "ended" /\ exit # "dismissed" =>
    /\ BackoffExpired => wait >= 1 /\ (exit = "fatal" => wait >= backoff)
    /\ wait >= Max({backoff, 1}) => BackoffExpired

\* An instance that has worked and then fails once is back after the first, short
\* delay: "exponential backoff delay for `count` consecutive failures".
OneFailureIsShort ==
  worker = "ended" /\ exit = "ended" /\ healthy =>
    (wait >= 2 => BackoffExpired)
=============================================================================
