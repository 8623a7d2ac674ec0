---------------------------- MODULE InFlightProofs -----------------------------
(***************************************************************************)
(* At most one apply of an instance is in flight, and the scheduler sees   *)
(* it as a busy slot: while no supervisor panics, for any detect replies.  *)
(***************************************************************************)
EXTENDS OrchestratorProofs, FiniteSetTheorems

\* How many elements of the sequence s are in S.
Count(s, S) == Cardinality({i \in DOMAIN s : s[i] \in S})

LEMMA CountNat ==
  ASSUME NEW T, NEW s \in Seq(T), NEW S
  PROVE  /\ IsFiniteSet({i \in DOMAIN s : s[i] \in S})
         /\ Count(s, S) \in Nat
<1>1. DOMAIN s = 1 .. Len(s) /\ Len(s) \in Nat
  OBVIOUS
<1>2. IsFiniteSet(1 .. Len(s))
  BY <1>1, FS_Interval
<1>3. IsFiniteSet({i \in DOMAIN s : s[i] \in S})
  BY <1>1, <1>2, FS_Subset
<1> QED BY <1>3, FS_CardinalityType DEF Count

LEMMA CountEmpty == ASSUME NEW S PROVE Count(<<>>, S) = 0
<1>1. {i \in DOMAIN <<>> : <<>>[i] \in S} = {}
  OBVIOUS
<1> QED BY <1>1, FS_EmptySet DEF Count

\* A send adds what is sent to the queue.
LEMMA CountAppend ==
  ASSUME NEW T, NEW s \in Seq(T), NEW x \in T, NEW S
  PROVE  Count(Append(s, x), S) = Count(s, S) + (IF x \in S THEN 1 ELSE 0)
<1> DEFINE Is == {i \in DOMAIN s : s[i] \in S}
           n  == Len(s) + 1
           Js == {i \in DOMAIN Append(s, x) : Append(s, x)[i] \in S}
<1>0. Count(s, S) = Cardinality(Is) /\ Count(Append(s, x), S) = Cardinality(Js)
  BY DEF Count
<1>1. IsFiniteSet(Is) /\ Count(s, S) \in Nat
  BY CountNat
<1>4. n \notin Is
  OBVIOUS
<1>2. Js = IF x \in S THEN Is \cup {n} ELSE Is
  OBVIOUS
<1> HIDE DEF Is, Js
<1>3. Cardinality(Is \cup {n}) = Cardinality(Is) + 1
  BY <1>1, <1>4, FS_AddElement
<1> QED BY <1>0, <1>1, <1>2, <1>3

\* A receive takes the first element away.
LEMMA CountTail ==
  ASSUME NEW T, NEW s \in Seq(T), s # <<>>, NEW S
  PROVE  Count(s, S) = Count(Tail(s), S) + (IF Head(s) \in S THEN 1 ELSE 0)
<1> DEFINE Is == {i \in DOMAIN s : s[i] \in S}
           Ts == {i \in DOMAIN Tail(s) : Tail(s)[i] \in S}
           f  == [i \in Ts |-> i + 1]
<1>0. Count(s, S) = Cardinality(Is) /\ Count(Tail(s), S) = Cardinality(Ts)
  BY DEF Count
<1>1. /\ Len(s) \in Nat /\ Len(s) >= 1 /\ DOMAIN s = 1 .. Len(s)
      /\ Tail(s) \in Seq(T) /\ DOMAIN Tail(s) = 1 .. Len(s) - 1
      /\ \A i \in 1 .. Len(s) - 1 : Tail(s)[i] = s[i + 1]
      /\ Head(s) = s[1]
  OBVIOUS
<1>2. IsFiniteSet(Is) /\ IsFiniteSet(Ts) /\ Cardinality(Is) \in Nat
  BY <1>1, CountNat DEF Count
<1>3. f \in Bijection(Ts, Is \ {1})
  <2>1. \A i \in Ts : i \in Nat /\ f[i] = i + 1 /\ i + 1 \in Is \ {1}
    BY <1>1
  <2>2. \A j \in Is \ {1} : j - 1 \in Ts /\ f[j - 1] = j
    BY <1>1
  <2> HIDE DEF Ts, Is
  <2>3. f \in [Ts -> Is \ {1}]
    BY <2>1
  <2>4. \A a, b \in Ts : f[a] = f[b] => a = b
    BY <2>1
  <2>5. \A j \in Is \ {1} : \E i \in Ts : f[i] = j
    BY <2>2
  <2> QED BY <2>3, <2>4, <2>5, SMTT(30) DEF Bijection, Injection, Surjection, IsInjective
<1>4. Cardinality(Ts) = Cardinality(Is \ {1})
  BY <1>2, <1>3, FS_Bijection DEF ExistsBijection
<1>5. Cardinality(Is \ {1}) = IF 1 \in Is THEN Cardinality(Is) - 1 ELSE Cardinality(Is)
  BY <1>2, FS_RemoveElement
<1>6. 1 \in Is <=> Head(s) \in S
  BY <1>1
<1> HIDE DEF Is, Ts
<1> QED BY <1>0, <1>2, <1>4, <1>5, <1>6

-----------------------------------------------------------------------------
(* InFlight as a sum of counts.                                            *)

Ticks        == {"Tick"}
ReportsOf(w) == {r \in Report : r.inc = w}

Sending(w)  == Cardinality({t \in toSend : t.inc = w})
Applying(w) == IF wpc[w] = "apply" THEN 1 ELSE 0

\* No two dispatches in hand are for one instance.
SendOnce == \A t, u \in toSend : t.inc = u.inc => t = u

LEMMA SendingIs ==
  ASSUME SendOnce, NEW w
  PROVE  Sending(w) = IF \E t \in toSend : t.inc = w THEN 1 ELSE 0
<1>1. CASE \E t \in toSend : t.inc = w
  <2>1. PICK t \in toSend : t.inc = w
    BY <1>1
  <2>2. {u \in toSend : u.inc = w} = {t}
    BY <2>1 DEF SendOnce
  <2> QED BY <1>1, <2>2, FS_Singleton DEF Sending
<1>2. CASE ~ \E t \in toSend : t.inc = w
  <2>1. {u \in toSend : u.inc = w} = {}
    BY <1>2
  <2> QED BY <1>2, <2>1, FS_EmptySet DEF Sending
<1> QED BY <1>1, <1>2

\* What is in flight is the sum of what is in hand, queued, running, reported
\* and reaped.
Parts ==
  \A w \in Inc :
    /\ InFlight(w) = Sending(w) + Count(cmds[w], Ticks) + Applying(w)
                     + Count(results, ReportsOf(w)) + Count(batch, ReportsOf(w))
    /\ Sending(w) = IF \E t \in toSend : t.inc = w THEN 1 ELSE 0
    /\ Sending(w) \in Nat /\ Count(cmds[w], Ticks) \in Nat /\ Applying(w) \in Nat
    /\ Count(results, ReportsOf(w)) \in Nat /\ Count(batch, ReportsOf(w)) \in Nat
    /\ InFlight(w) \in Nat

LEMMA InFlightParts == TypeOK /\ SendOnce => Parts
<1> SUFFICES ASSUME TypeOK, SendOnce, NEW w \in Inc
             PROVE  /\ InFlight(w) = Sending(w) + Count(cmds[w], Ticks) + Applying(w)
                                     + Count(results, ReportsOf(w)) + Count(batch, ReportsOf(w))
                    /\ Sending(w) = IF \E t \in toSend : t.inc = w THEN 1 ELSE 0
                    /\ Sending(w) \in Nat /\ Count(cmds[w], Ticks) \in Nat
                    /\ Applying(w) \in Nat
                    /\ Count(results, ReportsOf(w)) \in Nat
                    /\ Count(batch, ReportsOf(w)) \in Nat
                    /\ InFlight(w) \in Nat
  BY DEF Parts
<1>1. /\ cmds[w] \in Seq(Cmd) /\ results \in Seq(Report) /\ batch \in Seq(Report)
  BY DEF TypeOK
<1>2. {i \in DOMAIN cmds[w] : cmds[w][i] \in Ticks} = {i \in DOMAIN cmds[w] : cmds[w][i] = "Tick"}
  BY DEF Ticks
<1>3. {i \in DOMAIN results : results[i] \in ReportsOf(w)} = {i \in DOMAIN results : results[i].inc = w}
  BY <1>1 DEF ReportsOf
<1>4. {i \in DOMAIN batch : batch[i] \in ReportsOf(w)} = {i \in DOMAIN batch : batch[i].inc = w}
  BY <1>1 DEF ReportsOf
<1>5. InFlight(w) = Sending(w) + Count(cmds[w], Ticks) + Applying(w)
                    + Count(results, ReportsOf(w)) + Count(batch, ReportsOf(w))
  BY <1>2, <1>3, <1>4, Zenon DEF InFlight, Occurs, Sending, Count, Applying
<1>6. Count(cmds[w], Ticks) \in Nat
  BY <1>1, CountNat
<1>7. Count(results, ReportsOf(w)) \in Nat
  BY <1>1, CountNat
<1>8. Count(batch, ReportsOf(w)) \in Nat
  BY <1>1, CountNat
<1>9. Sending(w) \in Nat /\ Applying(w) \in Nat
  BY SendingIs DEF Applying
<1> QED BY <1>5, <1>6, <1>7, <1>8, <1>9, SendingIs

LEMMA InFlightPartsNext == TypeOK' /\ SendOnce' => Parts'
BY InFlightParts, PTL

-----------------------------------------------------------------------------
(* The inductive invariant.                                                *)

\* No entry is published for the incarnation that is about to be.
Unpublished ==
  \A m \in Module : spc[m] = "publish" => \A k \in Key : instances[k] # cur[m]

\* Nothing was sent to an incarnation before its entry is published.
Untouched ==
  \A w \in Inc :
    wpc[w] = "unborn" \/ (\E m \in Module : spc[m] = "publish" /\ cur[m] = w)
      => InFlight(w) = 0

\* A dispatch in hand is for its instance's own key; where that key has another
\* holder by now, nothing was sent to the holder since.
SendsRight ==
  \A t \in toSend :
    /\ key[t.inc] = t.key
    /\ instances[t.key] \notin {None, t.inc} => InFlight(instances[t.key]) = 0

Flights ==
  /\ SendOnce /\ SendsRight /\ Unpublished /\ Untouched
  /\ OneApplyInFlight /\ InFlightIsBusy

FlightInv == GenInv /\ Flights

\* Nothing was ever sent to such an incarnation.
Fresh(w) == wpc[w] = "unborn" \/ \E m \in Module : spc[m] = "publish" /\ cur[m] = w

LEMMA FlightParts == FlightInv => TypeOK /\ Parts
BY InFlightParts DEF FlightInv, Flights, GenInv, OrphanInv

\* A step that puts nothing in flight keeps it, when it idles or replaces only
\* entries whose instance has nothing in flight.
LEMMA NothingSent ==
  ASSUME FlightInv, TypeOK', SendOnce', Unpublished',
         toSend' \subseteq toSend,
         \A w \in Inc : InFlight(w)' <= InFlight(w),
         \A w \in Inc : Fresh(w)' => Fresh(w),
         \A w \in Inc : wpc[w] # "unborn" => key'[w] = key[w],
         \A k \in Key : \/ instances'[k] = instances[k] /\ sched'[k] = sched[k]
                        \/ instances'[k] = None
                        \/ instances'[k] \in Inc /\ (InFlight(instances[k]) = 0)'
  PROVE  Flights'
<1>1. Parts /\ Parts' /\ TypeOK
  BY FlightParts, InFlightPartsNext
<1>2. \A w \in Inc : InFlight(w) \in Nat /\ InFlight(w)' \in Nat
  BY <1>1 DEF Parts
<1>3. Untouched'
  BY <1>2 DEF FlightInv, Flights, Untouched, Fresh
<1>4. OneApplyInFlight'
  BY <1>2 DEF FlightInv, Flights, OneApplyInFlight
<1>5. \A k \in Key : instances'[k] # None /\ instances'[k] = instances[k] =>
                       instances[k] \in Inc /\ (InFlight(instances[k]))' <= InFlight(instances[k])
  BY <1>1 DEF TypeOK
<1>6. InFlightIsBusy'
  BY <1>2, <1>5 DEF FlightInv, Flights, InFlightIsBusy
<1>7. SendsRight'
  <2> SUFFICES ASSUME NEW t \in toSend'
               PROVE  /\ key'[t.inc] = t.key
                      /\ instances'[t.key] \notin {None, t.inc} => (InFlight(instances[t.key]) = 0)'
    BY DEF SendsRight
  <2>1. t \in toSend /\ t.inc \in Inc /\ t.key \in Key
    BY <1>1 DEF TypeOK, Send
  <2>2. wpc[t.inc] # "unborn"
    <3>1. Sending(t.inc) = 1
      BY <1>1, <2>1 DEF Parts
    <3>2. InFlight(t.inc) # 0
      BY <1>1, <2>1, <3>1 DEF Parts
    <3> QED BY <2>1, <3>2 DEF FlightInv, Flights, Untouched
  <2>3. key'[t.inc] = t.key
    BY <2>1, <2>2 DEF FlightInv, Flights, SendsRight
  <2>4. instances[t.key] \notin {None, t.inc} => InFlight(instances[t.key]) = 0
    BY <2>1 DEF FlightInv, Flights, SendsRight
  <2> QED BY <1>2, <1>5, <2>1, <2>3, <2>4
<1> QED BY <1>3, <1>4, <1>6, <1>7 DEF Flights

\* A worker, or its child, passes the request on and adds none.
LEMMA FlightWorker ==
  ASSUME FlightInv, GenInv', NEW w \in Inc, WorkerStep(w) \/ ChildEof(w)
  PROVE  Flights'
<1>1. /\ UNCHANGED <<shared, supVars, key, gen, toSend, batch>>
      /\ wpc[w] # "unborn" /\ \A v \in Inc : wpc'[v] = "unborn" => wpc[v] = "unborn"
  <2>1. wpc \in [Inc -> WorkPc]
    BY FlightParts DEF TypeOK
  <2> QED BY <2>1 DEF WorkerStep, ChildEof, Begin, TakeTick, TakeShutdown, Disconnected,
         ChildGone, Discarded, EndThread, Post, Alive, AliveIn, mainVars
<1>2. TypeOK /\ TypeOK' /\ Parts /\ SendOnce
  BY FlightParts DEF FlightInv, Flights, GenInv, OrphanInv
<1>3. SendOnce' /\ Parts' /\ \A v \in Inc : Sending(v)' = Sending(v)
  BY <1>1, <1>2, InFlightPartsNext DEF SendOnce, Sending
<1>4. \A v \in Inc : InFlight(v)' <= InFlight(v)
  <2> SUFFICES ASSUME NEW v \in Inc
               PROVE  Count(cmds'[v], Ticks) + Applying(v)' + Count(results', ReportsOf(v))
                        <= Count(cmds[v], Ticks) + Applying(v) + Count(results, ReportsOf(v))
    BY <1>1, <1>2, <1>3 DEF Parts
  <2>1. /\ wpc \in [Inc -> WorkPc] /\ cmds \in [Inc -> Seq(Cmd)] /\ results \in Seq(Report)
        /\ Count(cmds[v], Ticks) \in Nat /\ Count(results, ReportsOf(v)) \in Nat
    BY <1>2 DEF TypeOK, Parts
  <2>2. CASE TakeTick(w)
    <3>1. cmds[w] # <<>> /\ Head(cmds[w]) \in Ticks /\ cmds[w] \in Seq(Cmd)
      BY <2>1, <2>2 DEF TakeTick, Ticks
    <3>2. Count(cmds[w], Ticks) = Count(Tail(cmds[w]), Ticks) + 1
      BY <3>1, CountTail
    <3>3. Count(Tail(cmds[w]), Ticks) \in Nat
      <4>1. Tail(cmds[w]) \in Seq(Cmd)
        BY <3>1
      <4> QED BY <4>1, CountNat
    <3>4. /\ UNCHANGED results /\ cmds' = [cmds EXCEPT ![w] = Tail(@)]
          /\ wpc[w] = "recv" /\ wpc' = [wpc EXCEPT ![w] = "apply"]
      BY <2>2 DEF TakeTick
    <3> QED BY <2>1, <3>2, <3>3, <3>4 DEF Applying
  <2>3. CASE TakeShutdown(w)
    <3>1. cmds[w] # <<>> /\ Head(cmds[w]) \notin Ticks /\ cmds[w] \in Seq(Cmd)
      BY <2>1, <2>3 DEF TakeShutdown, Ticks
    <3>2. Count(cmds[w], Ticks) = Count(Tail(cmds[w]), Ticks) + 0
      BY <3>1, CountTail
    <3>3. Count(Tail(cmds[w]), Ticks) \in Nat
      <4>1. Tail(cmds[w]) \in Seq(Cmd)
        BY <3>1
      <4> QED BY <4>1, CountNat
    <3>4. /\ UNCHANGED results /\ cmds' = [cmds EXCEPT ![w] = Tail(@)]
          /\ wpc[w] = "recv" /\ wpc' = [wpc EXCEPT ![w] = "shutdown"]
      BY <2>3 DEF TakeShutdown
    <3> QED BY <2>1, <3>2, <3>3, <3>4 DEF Applying
  <2>4. ASSUME NEW s \in Outcomes, Post(w, s)
        PROVE  Count(cmds'[v], Ticks) + Applying(v)' + Count(results', ReportsOf(v))
                 <= Count(cmds[v], Ticks) + Applying(v) + Count(results, ReportsOf(v))
    <3> DEFINE r == [inc |-> w, status |-> s]
    <3>1. r \in Report /\ (r \in ReportsOf(v) <=> v = w)
      BY ConstantsAssumption DEF Report, ReportsOf
    <3>2. Count(Append(results, r), ReportsOf(v))
            = Count(results, ReportsOf(v)) + (IF r \in ReportsOf(v) THEN 1 ELSE 0)
      BY <2>1, <3>1, CountAppend
    <3>3. /\ UNCHANGED cmds /\ results' = Append(results, r) /\ wpc[w] = "apply"
          /\ wpc'[w] # "apply" /\ \A u \in Inc : u # w => wpc'[u] = wpc[u]
      BY <2>1, <2>4 DEF Post
    <3> HIDE DEF r
    <3> QED BY <2>1, <3>1, <3>2, <3>3 DEF Applying
  <2>5. CASE Discarded(w) \/ EndThread(w)
    <3>1. /\ UNCHANGED results /\ cmds' = [cmds EXCEPT ![w] = <<>>]
          /\ wpc' = [wpc EXCEPT ![w] = "gone"]
      BY <2>5 DEF Discarded, EndThread
    <3>2. Count(<<>>, Ticks) = 0
      BY CountEmpty
    <3> QED BY <2>1, <3>1, <3>2 DEF Applying
  <2>6. CASE Begin(w) \/ Disconnected(w) \/ ChildGone(w) \/ ChildEof(w)
    <3>1. /\ UNCHANGED <<results, cmds>> /\ wpc'[w] # "apply"
          /\ \A u \in Inc : u # w => wpc'[u] = wpc[u]
      BY <2>1, <2>6 DEF Begin, Disconnected, ChildGone, ChildEof
    <3> QED BY <2>1, <3>1 DEF Applying
  <2> QED BY <2>2, <2>3, <2>4, <2>5, <2>6 DEF WorkerStep
<1>5. Unpublished'
  BY <1>1 DEF FlightInv, Flights, Unpublished, shared, supVars
<1>6. \A v \in Inc : Fresh(v)' => Fresh(v)
  BY <1>1 DEF Fresh, supVars
<1> QED BY <1>1, <1>2, <1>3, <1>4, <1>5, <1>6, NothingSent DEF shared

\* A Shutdown in the queue is no request.
LEMMA SentShutdown ==
  ASSUME TypeOK, NEW v \in Inc, NEW w \in Inc
  PROVE  Count(Sent(v, "Shutdown")[w], Ticks) = Count(cmds[w], Ticks)
<1>1. cmds[v] \in Seq(Cmd) /\ "Shutdown" \in Cmd /\ "Shutdown" \notin Ticks
  BY DEF TypeOK, Cmd, Ticks
<1>2. Count(Append(cmds[v], "Shutdown"), Ticks) = Count(cmds[v], Ticks) + 0
  BY <1>1, CountAppend
<1>3. Count(cmds[v], Ticks) \in Nat
  BY <1>1, CountNat
<1> QED BY <1>2, <1>3 DEF TypeOK, Sent

\* A supervisor sends no request, and publishes only what has none.
LEMMA FlightSupervisor ==
  ASSUME FlightInv, GenInv', NEW m \in Module, SupervisorStep(m)
  PROVE  Flights'
<1>1. /\ GenInv /\ TypeOK /\ TypeOK' /\ Parts /\ SendOnce
  BY FlightParts DEF FlightInv, Flights, GenInv, OrphanInv
<1>2. /\ spc \in [Module -> SupPc] /\ cur \in [Module -> Inc \cup {None}]
      /\ running \in [Key -> Inc \cup {None}] /\ instances \in [Key -> Inc \cup {None}]
      /\ sched \in [Key -> {"absent", "idle", "busy"}]
      /\ wpc \in [Inc -> WorkPc] /\ None \notin Inc /\ KeysOf(m) \subseteq Key
  BY <1>1, KeyFacts DEF TypeOK
<1>3. /\ UNCHANGED <<toSend, results, batch>>
  BY DEF SupervisorStep, DetectKeep, RemoveState, Publish, StartThread, Return, Awake,
         ReapedAll, ReapDead, Unwind, EndDrop, DetectOk, ForgetVanished, DropRunning,
         CollectToSpawn, SpawnNothing, SpawnChild, mainVars
<1>4. SendOnce' /\ Parts' /\ \A v \in Inc : Sending(v)' = Sending(v)
  BY <1>1, <1>3, InFlightPartsNext DEF SendOnce, Sending
<1>5. \A v \in Inc : /\ Count(cmds'[v], Ticks) = Count(cmds[v], Ticks)
                     /\ Applying(v)' <= Applying(v)
  <2>1. ASSUME NEW k \in KeysOf(m), ForgetVanished(m, k) \/ DropRunning(m, k)
        PROVE  \A v \in Inc : /\ Count(cmds'[v], Ticks) = Count(cmds[v], Ticks)
                              /\ Applying(v)' <= Applying(v)
    <3>1. running[k] \in Inc /\ UNCHANGED wpc /\ cmds' = Sent(running[k], "Shutdown")
      BY <1>2, <2>1 DEF ForgetVanished, DropRunning, Vanished
    <3> QED BY <1>1, <3>1, SentShutdown DEF Applying
  <2>2. CASE StartThread(m) \/ \E i \in Id, w \in Inc : SpawnChild(m, i, w)
    <3>1. UNCHANGED cmds
      BY <2>2 DEF StartThread, SpawnChild
    <3>2. \E w, p : p # "apply" /\ wpc' = [wpc EXCEPT ![w] = p]
      BY <2>2 DEF StartThread, SpawnChild
    <3>3. \A v \in Inc : wpc'[v] = "apply" => wpc[v] = "apply"
      BY <1>2, <3>2
    <3> QED BY <3>1, <3>3 DEF Applying
  <2>3. CASE UNCHANGED <<wpc, cmds>>
    BY <2>3 DEF Applying
  <2> QED BY <2>1, <2>2, <2>3 DEF SupervisorStep, DetectKeep, RemoveState, Publish, Return,
         Awake, ReapedAll, ReapDead, Unwind, EndDrop, DetectOk, CollectToSpawn, SpawnNothing,
         workVars
<1>6. \A v \in Inc : InFlight(v)' <= InFlight(v)
  BY <1>1, <1>3, <1>4, <1>5 DEF Parts
<1>7. \A v \in Inc : wpc[v] # "unborn" => wpc'[v] # "unborn" /\ key'[v] = key[v]
  BY <1>1, GenerationsStep DEF Born
<1>8. ASSUME NEW n \in Module, n # m
      PROVE  /\ spc'[n] = spc[n] /\ cur'[n] = cur[n]
             /\ spc[n] = "publish" => cur[n] \in Inc /\ wpc[cur[n]] # "unborn"
                                      /\ key[cur[n]] \in KeysOf(n)
  BY <1>1, <1>8, OthersAlone DEF GenInv, Generations, KeyedRight, Born
<1>9. CASE Publish(m)
  <2> DEFINE p == key[cur[m]]
  <2>1. /\ spc[m] = "publish" /\ cur[m] \in Inc /\ p \in KeysOf(m) /\ p \in Key
        /\ spc' = [spc EXCEPT ![m] = "thread"] /\ UNCHANGED <<cur, key, wpc, sched>>
        /\ instances' = [instances EXCEPT ![p] = cur[m]]
    BY <1>1, <1>2, <1>9 DEF Publish, GenInv, Generations, KeyedRight, Born, workVars
  <2>2. InFlight(cur[m]) = 0
    BY <2>1 DEF FlightInv, Flights, Untouched
  <2>3. InFlight(cur[m])' = 0
    <3>1. cur'[m] = cur[m] /\ (\A v \in Inc : InFlight(v)' \in Nat)
      BY <1>4, <2>1 DEF Parts
    <3> DEFINE c == cur[m]
    <3>2. \A v \in Inc : v = c => InFlight(v)' = 0
      BY <1>6, <2>2, <3>1
    <3> QED BY <2>1, <3>1, <3>2
  <2>4. \A k \in Key : \/ instances'[k] = instances[k] /\ sched'[k] = sched[k]
                       \/ instances'[k] \in Inc /\ (InFlight(instances[k]) = 0)'
    <3> SUFFICES ASSUME NEW k \in Key, k = p
                 PROVE  instances'[k] \in Inc /\ (InFlight(instances[k]) = 0)'
      BY <1>2, <2>1
    <3>1. instances'[k] = cur[m] /\ cur'[m] = cur[m]
      BY <1>2, <2>1
    <3> QED BY <2>1, <2>3, <3>1
  <2>5. Unpublished'
    <3> SUFFICES ASSUME NEW n \in Module, spc'[n] = "publish", NEW k \in Key
                 PROVE  instances'[k] # cur'[n]
      BY DEF Unpublished
    <3>1. n # m
      BY <1>2, <2>1
    <3>2. instances[k] # cur[n] /\ cur[n] # cur[m]
      BY <1>8, <2>1, <3>1 DEF FlightInv, Flights, Unpublished, KeysOf
    <3> QED BY <1>2, <2>1, <3>2
  <2>6. \A v \in Inc : Fresh(v)' => Fresh(v)
    BY <1>2, <2>1 DEF Fresh
  <2> QED BY <1>1, <1>3, <1>4, <1>6, <1>7, <2>4, <2>5, <2>6, NothingSent
<1>10. CASE ~Publish(m)
  <2>1. \A k \in Key : \/ instances'[k] = instances[k] /\ sched'[k] = sched[k]
                       \/ instances'[k] = None
    <3>1. CASE RemoveState(m) \/ \E k \in KeysOf(m) : ReapDead(m, k)
      BY <1>2, <3>1 DEF RemoveState, ReapDead, Removed
    <3> QED BY <1>10, <3>1 DEF SupervisorStep, DetectKeep, StartThread, Return, Awake,
           ReapedAll, Unwind, EndDrop, DetectOk, ForgetVanished, DropRunning, CollectToSpawn,
           SpawnNothing, SpawnChild, shared
  <2>2. spc'[m] = "publish" =>
          cur'[m] \in Inc /\ wpc[cur'[m]] = "unborn" /\ UNCHANGED <<instances>>
    <3>1. CASE StartThread(m) \/ (\E expired \in SUBSET Id : CollectToSpawn(m, expired))
               \/ \E i \in Id : SpawnNothing(m, i)
      BY <1>2, <3>1 DEF StartThread, CollectToSpawn, SpawnNothing, NextSpawn
    <3>2. ASSUME NEW i \in Id, NEW w \in Inc, SpawnChild(m, i, w)
          PROVE  cur'[m] \in Inc /\ wpc[cur'[m]] = "unborn" /\ UNCHANGED <<instances>>
      BY <1>2, <3>2 DEF SpawnChild, shared
    <3> QED BY <1>2, <1>10, <3>1, <3>2 DEF SupervisorStep, DetectKeep, RemoveState, Return,
           Awake, ReapedAll, ReapDead, Unwind, EndDrop, DetectOk, ForgetVanished, DropRunning
  <2>3. Unpublished'
    <3> SUFFICES ASSUME NEW n \in Module, spc'[n] = "publish", NEW k \in Key
                 PROVE  instances'[k] # cur'[n]
      BY DEF Unpublished
    <3>1. CASE n = m
      <4>1. instances[k] # None => wpc[instances[k]] # "unborn"
        BY <1>1 DEF GenInv, Generations, KeyedRight, Born
      <4> QED BY <1>2, <2>2, <3>1, <4>1
    <3>2. CASE n # m
      <4>1. instances[k] # cur[n] /\ cur[n] \in Inc /\ cur'[n] = cur[n]
        BY <1>8, <3>2 DEF FlightInv, Flights, Unpublished
      <4> QED BY <1>2, <2>1, <4>1
    <3> QED BY <3>1, <3>2
  <2>4. \A v \in Inc : Fresh(v)' => Fresh(v)
    BY <1>7, <1>8, <2>2 DEF Fresh
  <2> QED BY <1>1, <1>3, <1>4, <1>6, <1>7, <2>1, <2>3, <2>4, NothingSent
<1> QED BY <1>9, <1>10

\* Every step of the main loop but a dispatch takes requests on, or loses them.
LEMMA FlightMain ==
  ASSUME FlightInv, GenInv', MainStep, ~Dispatch PROVE Flights'
<1>1. TypeOK /\ TypeOK' /\ Parts /\ SendOnce /\ GenInv
  BY FlightParts DEF FlightInv, Flights, GenInv, OrphanInv
<1>2. /\ instances \in [Key -> Inc \cup {None}] /\ sched \in [Key -> {"absent", "idle", "busy"}]
      /\ cmds \in [Inc -> Seq(Cmd)] /\ results \in Seq(Report) /\ batch \in Seq(Report)
      /\ None \notin Inc
  BY <1>1, KeyFacts DEF TypeOK
<1>3. \A m \in Module : ~Respawn(m)
  BY <1>1 DEF GenInv, Generations, Steady, Respawn
<1>4. UNCHANGED <<instances, supVars, key, gen, wpc>> /\ toSend' \subseteq toSend
  BY <1>3 DEF MainStep, Wake, Reap, ApplyReport, StartShutdown, ExitClean,
         ExitForced, SendTick, shared, supVars, workVars
<1>5. SendOnce' /\ Unpublished' /\ Parts'
  BY <1>1, <1>4, InFlightPartsNext DEF SendOnce, FlightInv, Flights, Unpublished, supVars
<1>6. \A v \in Inc : Applying(v)' = Applying(v) /\ (Fresh(v)' => Fresh(v))
  BY <1>4 DEF Applying, Fresh, supVars
<1>7. \A v \in Inc : Sending(v)' <= Sending(v)
  BY <1>1, <1>4, <1>5 DEF Parts
<1>15. \A v \in Inc :
        /\ Sending(v) \in Nat /\ Sending(v)' \in Nat
        /\ Count(cmds[v], Ticks) \in Nat /\ Count(cmds'[v], Ticks) \in Nat
        /\ Count(results, ReportsOf(v)) \in Nat /\ Count(results', ReportsOf(v)) \in Nat
        /\ Count(batch, ReportsOf(v)) \in Nat /\ Count(batch', ReportsOf(v)) \in Nat
        /\ InFlight(v)' \in Nat
  BY <1>1, <1>5 DEF Parts
<1>8. ASSUME NEW v \in Inc,
             Count(cmds'[v], Ticks) + Sending(v)' <= Count(cmds[v], Ticks) + Sending(v),
             Count(results', ReportsOf(v)) + Count(batch', ReportsOf(v))
               <= Count(results, ReportsOf(v)) + Count(batch, ReportsOf(v))
      PROVE  InFlight(v)' <= InFlight(v)
  BY <1>1, <1>5, <1>6, <1>8 DEF Parts
<1>9. CASE Wake \/ ExitClean \/ ExitForced
  <2>1. UNCHANGED <<cmds, results, batch, sched>>
    BY <1>9 DEF Wake, ExitClean, ExitForced, shared, workVars
  <2>2. \A v \in Inc : InFlight(v)' <= InFlight(v)
    BY <1>7, <1>8, <1>15, <2>1
  <2> QED BY <1>1, <1>4, <1>5, <1>6, <2>1, <2>2, NothingSent
<1>10. CASE Reap
  <2>1. UNCHANGED <<cmds, sched>> /\ batch' = results /\ results' = <<>>
    BY <1>10 DEF Reap, shared, workVars
  <2>2. \A v \in Inc : Count(results', ReportsOf(v)) = 0
    BY <2>1, CountEmpty
  <2>3. \A v \in Inc : InFlight(v)' <= InFlight(v)
    BY <1>7, <1>8, <1>15, <2>1, <2>2
  <2> QED BY <1>1, <1>4, <1>5, <1>6, <2>1, <2>3, NothingSent
<1>11. CASE StartShutdown
  <2>1. UNCHANGED <<results, batch, sched>>
    BY <1>11 DEF StartShutdown, shared
  <2>2. \A v \in Inc : Count(cmds'[v], Ticks) = Count(cmds[v], Ticks)
    <3> SUFFICES ASSUME NEW v \in Inc PROVE Count(cmds'[v], Ticks) = Count(cmds[v], Ticks)
      OBVIOUS
    <3>1. cmds'[v] = cmds[v] \/ cmds'[v] = Append(cmds[v], "Shutdown")
      BY <1>11 DEF StartShutdown
    <3>2. cmds[v] \in Seq(Cmd) /\ "Shutdown" \in Cmd /\ "Shutdown" \notin Ticks
      BY <1>2 DEF Cmd, Ticks
    <3>3. Count(Append(cmds[v], "Shutdown"), Ticks) = Count(cmds[v], Ticks) + 0
      BY <3>2, CountAppend
    <3>4. Count(Append(cmds[v], "Shutdown"), Ticks) = Count(cmds[v], Ticks)
      BY <3>3, <1>15
    <3> QED BY <3>1, <3>4, Zenon
  <2>3. \A v \in Inc : InFlight(v)' <= InFlight(v)
    BY <1>7, <1>8, <1>15, <2>1, <2>2
  <2> QED BY <1>1, <1>4, <1>5, <1>6, <2>1, <2>3, NothingSent
<1>12. CASE ApplyReport
  <2> DEFINE r == Head(batch)
             k == key[r.inc]
  <2>1. /\ batch # <<>> /\ r \in Report /\ r.inc \in Inc /\ Tail(batch) \in Seq(Report)
    <3>1. batch # <<>>
      BY <1>1, <1>12 DEF ApplyReport, TypeOK, BatchInv
    <3>2. r \in Report /\ Tail(batch) \in Seq(Report)
      BY <1>2, <3>1
    <3> QED BY <3>1, <3>2 DEF Report
  <2>2. \A v \in Inc : r \in ReportsOf(v) <=> v = r.inc
    BY <2>1 DEF ReportsOf
  <2>3. \A v \in Inc : /\ Count(batch, ReportsOf(v)) = Count(Tail(batch), ReportsOf(v))
                            + (IF r \in ReportsOf(v) THEN 1 ELSE 0)
                       /\ Count(Tail(batch), ReportsOf(v)) \in Nat
    BY <1>2, <2>1, CountTail, CountNat
  <2>4. UNCHANGED <<cmds, results, toSend>> /\ batch' = Tail(batch)
    BY <1>12 DEF ApplyReport, workVars
  <2>5. \A v \in Inc : Count(batch', ReportsOf(v)) <= Count(batch, ReportsOf(v))
    BY <2>3, <2>4
  <2>6. \A v \in Inc : InFlight(v)' <= InFlight(v)
    BY <1>7, <1>8, <1>15, <2>4, <2>5
  <2>7. InFlight(r.inc) = 1 /\ \A v \in Inc : v = r.inc => InFlight(v)' = 0
    <3> DEFINE w == r.inc
    <3>1. Count(batch, ReportsOf(w)) >= 1 /\ InFlight(w) <= 1
      BY <2>1, <2>2, <2>3 DEF FlightInv, Flights, OneApplyInFlight
    <3>2. InFlight(w) = 1 /\ Count(batch, ReportsOf(w)) = 1
          /\ Sending(w) = 0 /\ Count(cmds[w], Ticks) = 0 /\ Applying(w) = 0
          /\ Count(results, ReportsOf(w)) = 0
      <4> HIDE DEF w
      <4> QED BY <1>1, <2>1, <3>1 DEF Parts, w
    <3>3. Count(Tail(batch), ReportsOf(w)) = 0
      BY <2>1, <2>2, <2>3, <3>2
    <3>4. ASSUME NEW v \in Inc, v = w PROVE InFlight(v)' = 0
      BY <1>1, <1>5, <1>6, <1>7, <2>4, <3>2, <3>3, <3>4 DEF Parts
    <3> QED BY <2>1, <3>2, <3>4
  <2>8. \A x \in Key : \/ instances'[x] = instances[x] /\ sched'[x] = sched[x]
                       \/ instances'[x] = None
                       \/ instances'[x] \in Inc /\ (InFlight(instances[x]) = 0)'
    <3>1. CASE ~Owned(r) \/ k \notin Key
      <4>1. sched' = [sched EXCEPT ![k] = Idled(@, r.status)] \/ sched' = sched
        BY <1>12 DEF ApplyReport
      <4> QED BY <1>2, <1>4, <3>1, <4>1, <1>12 DEF ApplyReport
    <3>2. CASE Owned(r) /\ k \in Key
      <4>1. Born(r.inc)
        BY <2>1, <2>7 DEF Born, FlightInv, Flights, Untouched
      <4>2. /\ instances[k] # None /\ gen[instances[k]] = gen[r.inc]
            /\ Born(instances[k]) /\ key[instances[k]] = k
        BY <1>1, <3>2 DEF Owned, GenInv, Generations, KeyedRight
      <4>3. instances[k] = r.inc
        BY <1>1, <2>1, <4>1, <4>2 DEF GenInv, Generations, GenerationsDiffer, Born
      <4>4. sched' = [sched EXCEPT ![k] = Idled(@, r.status)]
        BY <1>12, <3>2 DEF ApplyReport
      <4>5. \A x \in Key : x = k => instances'[x] \in Inc /\ (InFlight(instances[x]) = 0)'
        <5>1. instances[k] \in Inc /\ instances'[k] = instances[k]
          BY <1>4, <2>1, <4>3
        <5>2. ASSUME NEW x \in Key, x = k PROVE (InFlight(instances[x]) = 0)'
          <6>1. instances'[x] = r.inc /\ r.inc \in Inc
            BY <1>4, <2>1, <4>3, <5>2
          <6> QED BY <2>7, <6>1
        <5> QED BY <5>1, <5>2, <3>2
      <4> QED BY <1>2, <1>4, <4>4, <4>5
    <3> QED BY <3>1, <3>2
  <2> QED BY <1>1, <1>4, <1>5, <1>6, <2>6, <2>8, NothingSent
<1>13. ASSUME NEW t \in toSend, SendTick(t) PROVE Flights'
  <2> DEFINE w == t.inc
  <2>1. /\ w \in Inc /\ t.key \in Key /\ cmds[w] \in Seq(Cmd)
        /\ UNCHANGED <<results, batch>> /\ toSend' = toSend \ {t}
        /\ cmds' = Sent(w, "Tick")
        /\ sched' = [sched EXCEPT ![t.key] = IF Finished(w) /\ @ = "busy" THEN "idle" ELSE @]
    BY <1>1, <1>2, <1>13 DEF SendTick, TypeOK, Send
  <2>2. Sending(w) = 1 /\ Sending(w)' = 0
    BY <1>1, <1>5, <2>1 DEF Parts, SendOnce
  <2>3. \A v \in Inc : Sending(v)' <= Sending(v)
    BY <1>7
  <2>4. /\ \A v \in Inc : v # w => cmds'[v] = cmds[v]
        /\ cmds'[w] = IF Finished(w) THEN cmds[w] ELSE Append(cmds[w], "Tick")
    BY <1>2, <2>1 DEF Sent
  <2>5. Count(Append(cmds[w], "Tick"), Ticks) = Count(cmds[w], Ticks) + 1
    <3>1. "Tick" \in Cmd /\ "Tick" \in Ticks
      BY DEF Cmd, Ticks
    <3> QED BY <2>1, <3>1, CountAppend
  <2>6. \A v \in Inc : InFlight(v)' <= InFlight(v)
    <3> SUFFICES ASSUME NEW v \in Inc
                 PROVE  Count(cmds'[v], Ticks) + Sending(v)' <= Count(cmds[v], Ticks) + Sending(v)
      BY <1>8, <2>1, <1>15
    <3>1. Count(cmds[v], Ticks) \in Nat /\ Sending(v) \in Nat /\ Sending(v)' \in Nat
      BY <1>1, <1>5 DEF Parts
    <3>2. CASE v = w
      <4> HIDE DEF w
      <4> QED BY <2>2, <2>4, <2>5, <3>1, <3>2
    <3>3. CASE v # w
      BY <2>3, <2>4, <3>1, <3>3
    <3> QED BY <3>2, <3>3
  <2>7. ASSUME Finished(w), NEW v \in Inc, v = w PROVE InFlight(v)' = 0
    <3>1. InFlight(v) <= 1 /\ Sending(v) = 1 /\ Sending(v)' = 0
      BY <2>2, <2>7 DEF FlightInv, Flights, OneApplyInFlight
    <3>2. Count(cmds'[v], Ticks) = Count(cmds[v], Ticks)
      BY <2>4, <2>7
    <3>3. /\ Count(cmds[v], Ticks) = 0 /\ Applying(v) = 0
          /\ Count(results, ReportsOf(v)) = 0 /\ Count(batch, ReportsOf(v)) = 0
      BY <1>1, <3>1 DEF Parts
    <3> QED BY <1>5, <1>6, <2>1, <3>1, <3>2, <3>3 DEF Parts
  <2>8. \A x \in Key : \/ instances'[x] = instances[x] /\ sched'[x] = sched[x]
                       \/ instances'[x] = None
                       \/ instances'[x] \in Inc /\ (InFlight(instances[x]) = 0)'
    <3> SUFFICES ASSUME NEW x \in Key, x = t.key, Finished(w), instances[x] # None
                 PROVE  instances'[x] \in Inc /\ (InFlight(instances[x]) = 0)'
      BY <1>2, <1>4, <2>1
    <3>1. instances[x] \in Inc /\ instances'[x] = instances[x]
      BY <1>2, <1>4
    <3>2. CASE instances[x] = w
      BY <2>7, <3>1, <3>2
    <3>3. CASE instances[x] # w
      <4>1. InFlight(instances[x]) = 0
        BY <3>3 DEF FlightInv, Flights, SendsRight
      <4>2. \A v \in Inc : InFlight(v)' \in Nat
        BY <1>5 DEF Parts
      <4>3. ASSUME NEW v \in Inc, v = instances[x] PROVE InFlight(v)' = 0
        BY <2>6, <4>1, <4>2, <4>3
      <4> QED BY <3>1, <4>3
    <3> QED BY <3>2, <3>3
  <2> QED BY <1>1, <1>4, <1>5, <1>6, <2>6, <2>8, NothingSent
<1> QED BY <1>3, <1>9, <1>10, <1>11, <1>12, <1>13 DEF MainStep

\* A dispatch puts one request in flight to instances that have none.
LEMMA FlightDispatch ==
  ASSUME FlightInv, GenInv', Dispatch PROVE Flights'
<1>1. TypeOK /\ TypeOK' /\ Parts /\ GenInv
  BY FlightParts DEF FlightInv, Flights, GenInv, OrphanInv
<1>2. UNCHANGED <<instances, supVars, workVars, results, batch>>
  BY DEF Dispatch
<1>3. PICK due \in SUBSET Key :
        LET live  == {k \in Key : instances[k] # None}
            ready == {k \in live : sched[k] = "absent" \/ k \in due}
        IN /\ due \subseteq {k \in Key : sched[k] = "idle"}
           /\ sched' = [k \in Key |-> IF k \notin live THEN "absent"
                                      ELSE IF k \in ready THEN "busy"
                                      ELSE sched[k]]
           /\ toSend' = {[key |-> k, inc |-> instances[k], inputs |-> InputsOf(k[1])]
                           : k \in ready}
  BY DEF Dispatch
<1> DEFINE Ready(k) == k \in Key /\ instances[k] # None /\ (sched[k] = "absent" \/ k \in due)
<1>4. \A k \in Key : instances[k] # None =>
        instances[k] \in Inc /\ key[instances[k]] = k /\ wpc[instances[k]] # "unborn"
  BY <1>1 DEF GenInv, Generations, KeyedRight, Born
<1>5. \A k : Ready(k) => sched[k] # "busy"
  BY <1>3
<1>6. \A t \in toSend' : Ready(t.key) /\ t.inc = instances[t.key]
                         /\ t = [key |-> t.key, inc |-> t.inc, inputs |-> InputsOf(t.key[1])]
  BY <1>3
<1>7. \A k : Ready(k) => \E t \in toSend' : t.key = k /\ t.inc = instances[k]
  <2> SUFFICES ASSUME NEW k, Ready(k)
               PROVE  \E t \in toSend' : t.key = k /\ t.inc = instances[k]
    OBVIOUS
  <2> DEFINE t == [key |-> k, inc |-> instances[k], inputs |-> InputsOf(k[1])]
  <2>1. t \in toSend'
    BY <1>3
  <2> QED BY <2>1
<1>8. SendOnce'
  <2> SUFFICES ASSUME NEW t \in toSend', NEW u \in toSend', t.inc = u.inc PROVE t = u
    BY DEF SendOnce
  <2>1. t.key = u.key
    BY <1>4, <1>6
  <2> HIDE DEF Ready
  <2> QED BY <1>6, <2>1, Zenon
<1> HIDE DEF Ready
<1>9. Parts' /\ \A v \in Inc : Applying(v)' = Applying(v)
  BY <1>1, <1>2, <1>8, InFlightPartsNext DEF Applying, workVars
<1>10. ASSUME NEW k, Ready(k), k \in Key, NEW v \in Inc, v = instances[k] PROVE InFlight(v)' = 1
  <2>1. InFlight(v) = 0
    BY <1>1, <1>4, <1>5, <1>10 DEF Ready, FlightInv, Flights, InFlightIsBusy, Parts
  <2>2. /\ Count(cmds[v], Ticks) = 0 /\ Applying(v) = 0
        /\ Count(results, ReportsOf(v)) = 0 /\ Count(batch, ReportsOf(v)) = 0
    <3>1. /\ InFlight(v) = Sending(v) + Count(cmds[v], Ticks) + Applying(v)
                           + Count(results, ReportsOf(v)) + Count(batch, ReportsOf(v))
          /\ Sending(v) \in Nat /\ Count(cmds[v], Ticks) \in Nat /\ Applying(v) \in Nat
          /\ Count(results, ReportsOf(v)) \in Nat /\ Count(batch, ReportsOf(v)) \in Nat
      BY <1>1, <1>10 DEF Parts
    <3> QED BY <2>1, <3>1
  <2>3. Sending(v)' = 1
    BY <1>7, <1>9, <1>10 DEF Parts
  <2> QED BY <1>2, <1>9, <2>2, <2>3 DEF Parts, workVars
<1>11. ASSUME NEW v \in Inc, \A k : Ready(k) => v # instances[k] PROVE InFlight(v)' <= InFlight(v)
  <2>1. Sending(v)' = 0
    BY <1>6, <1>9, <1>11 DEF Parts
  <2> QED BY <1>1, <1>2, <1>9, <2>1 DEF Parts, workVars
<1>12. OneApplyInFlight'
  <2> SUFFICES ASSUME NEW v \in Inc PROVE InFlight(v)' <= 1
    BY DEF OneApplyInFlight
  <2>1. InFlight(v) <= 1 /\ InFlight(v) \in Nat /\ InFlight(v)' \in Nat
    BY <1>1, <1>9 DEF Parts, FlightInv, Flights, OneApplyInFlight
  <2> QED BY <1>10, <1>11, <2>1 DEF Ready
<1>13. InFlightIsBusy'
  <2> SUFFICES ASSUME NEW k \in Key, instances'[k] # None, (InFlight(instances[k]) > 0)'
               PROVE  sched'[k] = "busy"
    BY DEF InFlightIsBusy
  <2> DEFINE v == instances[k]
  <2>1. v \in Inc /\ instances'[k] = v /\ key[v] = k /\ instances[k] # None
    BY <1>2, <1>4
  <2>2. CASE Ready(k)
    BY <1>3, <2>1, <2>2 DEF Ready
  <2>3. CASE ~Ready(k)
    <3>1. \A x : Ready(x) => v # instances[x]
      BY <1>4, <2>1, <2>3 DEF Ready
    <3>2. ASSUME NEW u \in Inc, u = v PROVE InFlight(u) > 0
      <4>1. InFlight(u)' > 0
        BY <2>1, <3>2
      <4>2. InFlight(u)' <= InFlight(u)
        BY <1>11, <3>1, <3>2
      <4> QED BY <1>1, <1>9, <4>1, <4>2 DEF Parts
    <3>3. sched[k] = "busy"
      BY <2>1, <3>2 DEF FlightInv, Flights, InFlightIsBusy
    <3> QED BY <1>3, <2>1, <2>3, <3>3 DEF Ready
  <2> QED BY <2>2, <2>3
<1>14. SendsRight'
  BY <1>2, <1>4, <1>6 DEF SendsRight, Ready, workVars
<1>15. Unpublished'
  BY <1>2 DEF FlightInv, Flights, Unpublished, supVars
<1>16. Untouched'
  <2> SUFFICES ASSUME NEW w \in Inc, Fresh(w)' PROVE InFlight(w)' = 0
    BY DEF Untouched, Fresh
  <2>1. Fresh(w) /\ InFlight(w) = 0
    BY <1>2 DEF Fresh, supVars, workVars, FlightInv, Flights, Untouched
  <2>2. \A k : Ready(k) => w # instances[k]
    BY <1>4, <2>1 DEF Ready, Fresh, FlightInv, Flights, Unpublished
  <2>3. InFlight(w)' <= InFlight(w) /\ InFlight(w)' \in Nat
    BY <1>9, <1>11, <2>2 DEF Parts
  <2> QED BY <2>1, <2>3
<1> QED BY <1>8, <1>12, <1>13, <1>14, <1>15, <1>16 DEF Flights

LEMMA FlightInit == Init => FlightInv
<1> SUFFICES ASSUME Init PROVE Flights
  BY GenInit DEF FlightInv
<1>1. TypeOK /\ SendOnce /\ Parts
  BY TypeInit, InFlightParts DEF Init, SendOnce
<1>2. \A S : Count(<<>>, S) = 0
  BY CountEmpty
<1>3. \A w \in Inc : InFlight(w) = 0
  BY <1>1, <1>2 DEF Init, Parts, Applying
<1>4. Untouched /\ OneApplyInFlight
  BY <1>3 DEF Untouched, OneApplyInFlight
<1>5. SendsRight /\ Unpublished /\ InFlightIsBusy
  BY DEF Init, SendsRight, Unpublished, InFlightIsBusy
<1> QED BY <1>1, <1>4, <1>5 DEF Flights

LEMMA FlightStep ==
  ASSUME NoPanics PROVE FlightInv /\ [Next]_vars => FlightInv'
<1> SUFFICES ASSUME FlightInv, [Next]_vars PROVE GenInv' /\ Flights'
  BY DEF FlightInv
<1>1. GenInv'
  BY GenStep DEF FlightInv
<1>2. CASE Signal \/ Terminated \/ UNCHANGED vars
  <2>1. UNCHANGED <<shared, supVars, workVars, toSend, results, batch>>
    BY <1>2 DEF Signal, Terminated, vars, mainVars
  <2>2. TypeOK' /\ SendOnce' /\ Unpublished'
    BY <1>1, <2>1 DEF GenInv, OrphanInv, FlightInv, Flights, SendOnce, Unpublished, shared,
       supVars
  <2>3. \A v \in Inc : Sending(v)' = Sending(v) /\ Applying(v)' = Applying(v)
                       /\ (Fresh(v)' => Fresh(v))
    BY <2>1 DEF Sending, Applying, Fresh, supVars, workVars
  <2>4. \A v \in Inc : InFlight(v)' <= InFlight(v)
    <3>1. Parts /\ Parts'
      BY <2>2, FlightParts, InFlightPartsNext
    <3> QED BY <2>1, <2>3, <3>1 DEF Parts, workVars
  <2>5. UNCHANGED <<instances, sched, key, toSend>>
    BY <2>1 DEF shared, workVars
  <2> QED BY <1>1, <2>2, <2>3, <2>4, <2>5, NothingSent
<1>3. ASSUME NEW m \in Module, Panic(m) PROVE FALSE
  BY <1>3 DEF Panic, NoPanics, FlightInv, GenInv, OrphanInv, TypeOK
<1> QED BY <1>1, <1>2, <1>3, FlightMain, FlightDispatch, FlightSupervisor, FlightWorker DEF Next

\* An instance never has two applies in flight, however dispatch, send, worker,
\* reap and clean-up interleave: for any detect replies, as long as no supervisor
\* panics.
THEOREM OneInFlight ==
  ASSUME NoPanics PROVE Spec => []OneApplyInFlight
<1>1. FlightInv => OneApplyInFlight
  BY DEF FlightInv, Flights
<1> QED BY <1>1, FlightInit, FlightStep, PTL DEF Spec

\* Under the same assumption the slot of an instance is busy while a request to
\* it is in flight.
THEOREM BusyWhileInFlight ==
  ASSUME NoPanics PROVE Spec => []InFlightIsBusy
<1>1. FlightInv => InFlightIsBusy
  BY DEF FlightInv, Flights
<1> QED BY <1>1, FlightInit, FlightStep, PTL DEF Spec

=============================================================================
