-------------------------- MODULE InstancePipeProofs ---------------------------
(***************************************************************************)
(* One request on the wire at a time, one more apply after a signal at     *)
(* most, and respawns that keep their distance: for pipes, buffers, lines  *)
(* and backoffs of any size.                                               *)
(***************************************************************************)
EXTENDS InstancePipe, SequenceTheorems, WellFoundedInduction, TLAPS

Bytes == Seq(Token \X Tag)

-----------------------------------------------------------------------------
(* Least and greatest of a few.                                            *)

LEMMA MinOfTwo ==
  ASSUME NEW a \in Int, NEW b \in Int
  PROVE  Min({a, b}) \in {a, b} /\ Min({a, b}) <= a /\ Min({a, b}) <= b
<1>1. \E x \in {a, b} : \A y \in {a, b} : x =< y
  OBVIOUS
<1> QED BY <1>1 DEF Min

LEMMA MinOfThree ==
  ASSUME NEW a \in Int, NEW b \in Int, NEW c \in Int
  PROVE  /\ Min({a, b, c}) \in {a, b, c}
         /\ Min({a, b, c}) <= a /\ Min({a, b, c}) <= b /\ Min({a, b, c}) <= c
<1>1. \E x \in {a, b, c} : \A y \in {a, b, c} : x =< y
  OBVIOUS
<1> QED BY <1>1 DEF Min

LEMMA MaxOfTwo ==
  ASSUME NEW a \in Int, NEW b \in Int
  PROVE  Max({a, b}) \in {a, b} /\ Max({a, b}) >= a /\ Max({a, b}) >= b
<1>1. \E x \in {a, b} : \A y \in {a, b} : x >= y
  OBVIOUS
<1> QED BY <1>1 DEF Max

-----------------------------------------------------------------------------
(* Queues of bytes.                                                        *)

\* Three parts in a row, indexed through.
LEMMA Triple ==
  ASSUME NEW T, NEW a \in Seq(T), NEW b \in Seq(T), NEW c \in Seq(T)
  PROVE  LET w == (a \o b) \o c IN
         /\ w \in Seq(T)
         /\ Len(w) = Len(a) + Len(b) + Len(c)
         /\ \A i \in 1..Len(a) : w[i] = a[i]
         /\ \A i \in 1..Len(b) : w[Len(a) + i] = b[i]
         /\ \A i \in 1..Len(c) : w[Len(a) + Len(b) + i] = c[i]
<1> DEFINE u == a \o b
           w == u \o c
<1>1. Len(a) \in Nat /\ Len(b) \in Nat /\ Len(c) \in Nat
  BY LenProperties
<1>2. /\ u \in Seq(T) /\ Len(u) = Len(a) + Len(b)
      /\ \A i \in 1..Len(a) + Len(b) : u[i] = IF i <= Len(a) THEN a[i] ELSE b[i - Len(a)]
  BY ConcatProperties
<1> HIDE DEF u
<1>3. /\ w \in Seq(T) /\ Len(w) = Len(u) + Len(c)
      /\ \A i \in 1..Len(u) + Len(c) : w[i] = IF i <= Len(u) THEN u[i] ELSE c[i - Len(u)]
  <2>1. u \in Seq(T)
    BY <1>2
  <2> QED BY <2>1, ConcatProperties
<1> HIDE DEF w
<1>4. ASSUME NEW i \in 1..Len(a) PROVE w[i] = a[i]
  <2>1. i \in 1..Len(u) + Len(c) /\ i <= Len(u) /\ i \in 1..Len(a) + Len(b)
    BY <1>1, <1>2
  <2> QED BY <1>2, <1>3, <2>1
<1>5. ASSUME NEW i \in 1..Len(b) PROVE w[Len(a) + i] = b[i]
  <2> DEFINE j == Len(a) + i
  <2>1. /\ j \in 1..Len(u) + Len(c) /\ j <= Len(u) /\ j \in 1..Len(a) + Len(b)
        /\ ~(j <= Len(a)) /\ j - Len(a) = i
    BY <1>1, <1>2
  <2> HIDE DEF j
  <2>2. w[j] = b[i]
    BY <1>2, <1>3, <2>1
  <2> QED BY <2>2 DEF j
<1>6. ASSUME NEW i \in 1..Len(c) PROVE w[Len(a) + Len(b) + i] = c[i]
  <2> DEFINE j == Len(a) + Len(b) + i
  <2>1. j \in 1..Len(u) + Len(c) /\ ~(j <= Len(u)) /\ j - Len(u) = i
    BY <1>1, <1>2
  <2> HIDE DEF j
  <2>2. w[j] = c[i]
    BY <1>3, <2>1
  <2> QED BY <2>2 DEF j
<1> QED BY <1>2, <1>3, <1>4, <1>5, <1>6 DEF w, u

\* Bytes that move from the front of one part to the end of the one before it
\* leave the queue as it is.
LEMMA Moved ==
  ASSUME NEW T, NEW a \in Seq(T), NEW b \in Seq(T), NEW n \in 1..Len(b)
  PROVE  /\ SubSeq(b, 1, n) \in Seq(T) /\ SubSeq(b, n + 1, Len(b)) \in Seq(T)
         /\ Len(SubSeq(b, 1, n)) = n /\ Len(SubSeq(b, n + 1, Len(b))) = Len(b) - n
         /\ (a \o SubSeq(b, 1, n)) \o SubSeq(b, n + 1, Len(b)) = a \o b
<1> DEFINE p == SubSeq(b, 1, n)
           q == SubSeq(b, n + 1, Len(b))
<1>1. Len(b) \in Nat /\ \A i \in 1..Len(b) : b[i] \in T
  BY LenProperties, ElementOfSeq
<1>2. p \in Seq(T) /\ Len(p) = n
  BY <1>1, SubSeqProperties
<1>3. q \in Seq(T) /\ Len(q) = Len(b) - n
  <2>1. \A i \in n + 1..Len(b) : b[i] \in T
    BY <1>1
  <2>2. Len(q) = IF n + 1 <= Len(b) THEN Len(b) - (n + 1) + 1 ELSE 0
    BY <1>1, <2>1, SubSeqProperties
  <2>3. q \in Seq(T)
    BY <1>1, <2>1, SubSeqProperties
  <2> QED BY <1>1, <2>2, <2>3
<1>4. p \o q = b
  <2>1. SubSeq(b, 1, n) \o SubSeq(b, n + 1, Len(b)) = SubSeq(b, 1, Len(b))
    <3>1. 1 \in 1..Len(b) + 1 /\ n \in 0..Len(b) /\ Len(b) \in n..Len(b)
      BY <1>1
    <3> QED BY <3>1, ConcatAdjacentSubSeq
  <2> QED BY <2>1, SubSeqFull
<1> HIDE DEF p, q
<1>5. (a \o p) \o q = a \o b
  <2>1. p \in Seq(T) /\ q \in Seq(T)
    BY <1>2, <1>3
  <2>2. (a \o p) \o q = a \o (p \o q)
    BY <2>1, ConcatAssociative, SMTT(30)
  <2> QED BY <1>4, <2>2, SMTT(30)
<1> QED BY <1>2, <1>3, <1>5 DEF p, q

LEMMA MovedOne ==
  ASSUME NEW T, NEW a \in Seq(T), NEW b \in Seq(T), b # <<>>
  PROVE  /\ Append(a, Head(b)) \in Seq(T) /\ Tail(b) \in Seq(T)
         /\ Len(Append(a, Head(b))) = Len(a) + 1
         /\ Append(a, Head(b)) \o Tail(b) = a \o b
<1>1. Head(b) \in T /\ Tail(b) \in Seq(T) /\ Len(b) \in Nat \ {0}
  BY HeadTailProperties, EmptySeq
<1>2. Append(a, Head(b)) \in Seq(T) /\ Append(a, Head(b)) = a \o <<Head(b)>>
      /\ Len(Append(a, Head(b))) = Len(a) + 1
  BY <1>1, AppendProperties, AppendIsConcat
<1>3. <<Head(b)>> \in Seq(T)
  BY <1>1
<1>4. <<Head(b)>> \o Tail(b) = b
  <2>1. Len(b) \in 1..Len(b) /\ 1 \in 1..Len(b)
    BY <1>1
  <2>2. SubSeq(b, 1, Len(b)) = <<b[1]>> \o SubSeq(b, 2, Len(b))
    BY <2>1, SubSeqRecursiveFirst
  <2>3. SubSeq(b, 1, Len(b)) = b /\ Tail(b) = SubSeq(b, 2, Len(b)) /\ Head(b) = b[1]
    BY SubSeqFull, TailIsSubSeq
  <2> QED BY <2>2, <2>3
<1>5. (a \o <<Head(b)>>) \o Tail(b) = a \o b
  BY <1>1, <1>3, <1>4, ConcatAssociative
<1> QED BY <1>1, <1>2, <1>5

\* s is a run of the elements of q; a suffix is one that goes to the end.
Infix(s, q) == \E k \in Nat : k + Len(s) <= Len(q) /\ \A i \in 1..Len(s) : s[i] = q[k + i]
Suffix(s, q) == \E k \in Nat : k + Len(s) = Len(q) /\ \A i \in 1..Len(s) : s[i] = q[k + i]

LEMMA SuffixCases ==
  ASSUME NEW T, NEW q \in Seq(T)
  PROVE  /\ Suffix(q, q) /\ Suffix(<<>>, q)
         /\ Infix(q, q) /\ Infix(<<>>, q)
         /\ \A n \in 0..Len(q) : /\ SubSeq(q, n + 1, Len(q)) \in Seq(T)
                                 /\ Suffix(SubSeq(q, n + 1, Len(q)), q)
<1>1. Len(q) \in Nat /\ \A i \in 1..Len(q) : q[i] \in T
  BY LenProperties, ElementOfSeq
<1>2. Suffix(q, q) /\ Infix(q, q)
  <2>1. 0 \in Nat /\ 0 + Len(q) = Len(q) /\ 0 + Len(q) <= Len(q)
        /\ \A i \in 1..Len(q) : q[i] = q[0 + i]
    BY <1>1
  <2> QED BY <2>1 DEF Suffix, Infix
<1>3. Suffix(<<>>, q) /\ Infix(<<>>, q)
  <2>1. Len(<<>>) = 0
    OBVIOUS
  <2> DEFINE s == <<>>
  <2>2. /\ Len(q) \in Nat /\ Len(q) + Len(s) = Len(q) /\ Len(q) + Len(s) <= Len(q)
        /\ \A i \in 1..Len(s) : s[i] = q[Len(q) + i]
    BY <1>1, <2>1
  <2> HIDE DEF s
  <2>3. Suffix(s, q) /\ Infix(s, q)
    BY <2>2 DEF Suffix, Infix
  <2> QED BY <2>3 DEF s
<1>4. ASSUME NEW n \in 0..Len(q)
      PROVE  /\ SubSeq(q, n + 1, Len(q)) \in Seq(T) /\ Suffix(SubSeq(q, n + 1, Len(q)), q)
  <2> DEFINE s == SubSeq(q, n + 1, Len(q))
  <2>1. \A i \in n + 1..Len(q) : q[i] \in T
    BY <1>1
  <2>2. /\ s \in Seq(T) /\ Len(s) = IF n + 1 <= Len(q) THEN Len(q) - (n + 1) + 1 ELSE 0
        /\ \A i \in 1..Len(q) - (n + 1) + 1 : s[i] = q[n + 1 + i - 1]
    BY <1>1, <2>1, SubSeqProperties
  <2> HIDE DEF s
  <2>3. n + Len(s) = Len(q) /\ Len(s) = Len(q) - (n + 1) + 1
    BY <1>1, <2>2
  <2>4. \A i \in 1..Len(s) : s[i] = q[n + i]
    <3> TAKE i \in 1..Len(s)
    <3>1. n + 1 + i - 1 = n + i
      OBVIOUS
    <3> QED BY <2>2, <2>3, <3>1
  <2>5. Suffix(s, q)
    BY <2>3, <2>4, SMTT(30) DEF Suffix
  <2> QED BY <2>2, <2>5 DEF s
<1> QED BY <1>2, <1>3, <1>4

\* The front part loses bytes at its front, the last part is kept or dropped.
LEMMA Trimmed ==
  ASSUME NEW T, NEW a \in Seq(T), NEW b \in Seq(T), NEW c \in Seq(T),
         NEW d \in Seq(T), Suffix(d, a), NEW e \in {c, <<>>}
  PROVE  Infix((d \o b) \o e, (a \o b) \o c)
<1> DEFINE v == (d \o b) \o e
           w == (a \o b) \o c
<1>1. PICK k \in Nat : k + Len(d) = Len(a) /\ \A i \in 1..Len(d) : d[i] = a[k + i]
  BY DEF Suffix
<1>2. e \in Seq(T) /\ Len(<<>>) = 0
  BY EmptySeq
<1>3. /\ Len(w) = Len(a) + Len(b) + Len(c)
      /\ \A i \in 1..Len(a) : w[i] = a[i]
      /\ \A i \in 1..Len(b) : w[Len(a) + i] = b[i]
      /\ \A i \in 1..Len(c) : w[Len(a) + Len(b) + i] = c[i]
  BY Triple
<1>4. /\ Len(v) = Len(d) + Len(b) + Len(e)
      /\ \A i \in 1..Len(d) : v[i] = d[i]
      /\ \A i \in 1..Len(b) : v[Len(d) + i] = b[i]
      /\ \A i \in 1..Len(e) : v[Len(d) + Len(b) + i] = e[i]
  BY <1>2, Triple
<1>5. Len(a) \in Nat /\ Len(b) \in Nat /\ Len(c) \in Nat /\ Len(d) \in Nat /\ Len(e) \in Nat
      /\ Len(e) <= Len(c)
  BY <1>2, LenProperties
<1> HIDE DEF v, w
<1>6. k + Len(v) <= Len(w)
  BY <1>1, <1>3, <1>4, <1>5
<1>7. ASSUME NEW i \in 1..Len(v) PROVE v[i] = w[k + i]
  <2>0. i \in Int /\ 1 <= i /\ i <= Len(d) + Len(b) + Len(e)
    BY <1>4, <1>5
  <2>1. CASE i <= Len(d)
    <3>1. i \in 1..Len(d) /\ k + i \in 1..Len(a)
      BY <1>1, <1>5, <2>1
    <3> QED BY <1>1, <1>3, <1>4, <3>1
  <2>2. CASE Len(d) < i /\ i <= Len(d) + Len(b)
    <3> DEFINE j == i - Len(d)
    <3>1. j \in 1..Len(b) /\ i = Len(d) + j /\ k + i = Len(a) + j
      <4>1. j \in Int /\ 1 <= j /\ j <= Len(b)
        BY <1>5, <2>0, <2>2
      <4>2. k \in Nat /\ k + Len(d) = Len(a)
        BY <1>1
      <4>3. i = Len(d) + j
        BY <1>5, <2>0
      <4> HIDE DEF j
      <4>4. k + i = Len(a) + j
        BY <1>5, <4>1, <4>2, <4>3
      <4> QED BY <1>5, <4>1, <4>3, <4>4
    <3> HIDE DEF j
    <3> QED BY <1>3, <1>4, <3>1
  <2>3. CASE Len(d) + Len(b) < i
    <3> DEFINE j == i - Len(d) - Len(b)
    <3>1. j \in 1..Len(e) /\ i = Len(d) + Len(b) + j /\ k + i = Len(a) + Len(b) + j
      <4>1. j \in Int /\ 1 <= j /\ j <= Len(e)
        BY <1>5, <2>0, <2>3
      <4>2. k \in Nat /\ k + Len(d) = Len(a)
        BY <1>1
      <4>3. i = Len(d) + Len(b) + j
        BY <1>5, <2>0
      <4> HIDE DEF j
      <4>4. k + i = Len(a) + Len(b) + j
        BY <1>5, <4>1, <4>2, <4>3, SMTT(30)
      <4> QED BY <1>5, <4>1, <4>3, <4>4, SMTT(30)
    <3>2. e = c
      BY <1>2, <3>1
    <3> HIDE DEF j
    <3> QED BY <1>3, <1>4, <3>1, <3>2
  <2> QED BY <1>4, <1>5, <2>1, <2>2, <2>3
<1> QED BY <1>6, <1>7 DEF Infix, v, w

\* Two parts are gone, and the third is kept.
LEMMA Bared ==
  ASSUME NEW T, NEW a \in Seq(T), NEW b \in Seq(T), NEW c \in Seq(T)
  PROVE  /\ (<<>> \o <<>>) \o c = c
         /\ Infix(c, (a \o b) \o c)
<1>1. (<<>> \o <<>>) \o c = c
  BY ConcatEmptySeq, EmptySeq
<1> DEFINE w == (a \o b) \o c
           k == Len(a) + Len(b)
<1>2. /\ Len(w) = Len(a) + Len(b) + Len(c)
      /\ \A i \in 1..Len(c) : w[Len(a) + Len(b) + i] = c[i]
  BY Triple
<1>3. Len(a) \in Nat /\ Len(b) \in Nat /\ Len(c) \in Nat
  BY LenProperties
<1>4. k \in Nat /\ k + Len(c) <= Len(w) /\ \A i \in 1..Len(c) : c[i] = w[k + i]
  BY <1>2, <1>3
<1> HIDE DEF w, k
<1>5. Infix(c, w)
  BY <1>4 DEF Infix
<1> QED BY <1>1, <1>5 DEF w

-----------------------------------------------------------------------------
(* What is on the wire.                                                    *)

\* The request on its way to the child, and the answer on its way back.
Asked == (sbuf \o down) \o toWrite
Said == (rbuf \o up) \o toSay

Reports == {"ok", "error", "fatal"}
Ends(q) == \A i \in 1..Len(q) : q[i][1] = "nl" => i = Len(q)
Quiet(q) == \A i \in 1..Len(q) : q[i][1] \notin Reports
\* A report is the last thing said; only a child that dies leaves it unfinished.
Concluded(q) ==
  \A i \in 1..Len(q) : q[i][1] \in Reports =>
    i >= Len(q) - 1 /\ (i = Len(q) - 1 => q[Len(q)][1] = "nl")
Tagged(q, t) == \A i \in 1..Len(q) : q[i][2] = t

\* One request is on the wire, and it is not answered before it has been read to
\* its end.
Wire ==
  /\ Ends(Asked) /\ Tagged(Asked, tag)
  /\ Concluded(Said) /\ Tagged(Said, tag)
  /\ Said # <<>> => Asked = <<>>
  /\ child = "apply" => Asked = <<>> /\ toSay = <<>> /\ serving = tag /\ Quiet(Said)

\* When the worker is idle the wire is bare and the child not at work.
Bare == worker \in {"idle", "ended"} => Asked = <<>> /\ Said = <<>> /\ child # "apply"

Control ==
  /\ worker = "ended" => Gone
  /\ toWrite # <<>> => worker \in {"write", "bye"}
  /\ toSay # <<>> => child \in {"report", "restore", "farewell"}
  /\ Gone => sbuf = <<>> /\ down = <<>> /\ toSay = <<>>

Matched == got \in {NoTag, tag}

\* A signalled child has read no further line when it begins its last apply.
Heard ==
  /\ extra \in {0, 1}
  /\ extra = 1 => term /\ ~HasLine(sbuf)
  /\ Gone => extra = 0

\* The failures counted say how the instance ended.
Paced ==
  worker = "ended" /\ exit # "dismissed" => count >= 1 /\ (exit = "fatal" => count = Saturate)

PipeInv == TypeOK /\ Wire /\ Bare /\ Control /\ Matched /\ Heard /\ Paced

-----------------------------------------------------------------------------
(* Lines.                                                                  *)

LEMMA ByteParts ==
  ASSUME NEW q \in Bytes
  PROVE  /\ Len(q) \in Nat /\ DOMAIN q = 1..Len(q)
         /\ \A i \in 1..Len(q) : q[i][1] \in Token /\ q[i][2] \in Tag
<1>1. Len(q) \in Nat /\ DOMAIN q = 1..Len(q) /\ \A i \in 1..Len(q) : q[i] \in Token \X Tag
  BY LenProperties, ElementOfSeq DEF Bytes
<1>2. \A x \in Token \X Tag : x[1] \in Token /\ x[2] \in Tag
  OBVIOUS
<1> QED BY <1>1, <1>2

LEMMA LeastOf ==
  ASSUME NEW S \in SUBSET Nat, S # {}
  PROVE  \E x \in S : \A y \in S : x <= y
<1> DEFINE R == OpToRel(<, Nat)
<1>1. IsWellFoundedOn(R, Nat)
  BY NatLessThanWellFounded
<1>2. \A x, y \in Nat : <<x, y>> \in R <=> x < y
  BY DEF OpToRel
<1> HIDE DEF R
<1>3. \E x \in S : \A y \in S : ~(<<y, x>> \in R)
  BY <1>1, WFMin
<1>4. PICK x \in S : \A y \in S : ~(<<y, x>> \in R)
  BY <1>3
<1>5. ASSUME NEW y \in S PROVE x <= y
  <2>1. x \in Nat /\ y \in Nat /\ ~(<<y, x>> \in R)
    BY <1>4
  <2>2. ~(y < x)
    BY <1>2, <2>1
  <2> QED BY <2>1, <2>2
<1> QED BY <1>5

\* The first newline of a buffer that has one; what follows it is shorter.
LEMMA LineIs ==
  ASSUME NEW buf \in Bytes, HasLine(buf)
  PROVE  /\ Newline(buf) \in 1..Len(buf) /\ buf[Newline(buf)][1] = "nl"
         /\ AfterLine(buf) \in Bytes /\ Suffix(AfterLine(buf), buf)
         /\ Len(AfterLine(buf)) = Len(buf) - Newline(buf)
         /\ FirstLine(buf)[1] = buf[1]
<1>1. Len(buf) \in Nat /\ DOMAIN buf = 1..Len(buf) /\ \A i \in 1..Len(buf) : buf[i] \in Token \X Tag
  BY ByteParts, ElementOfSeq DEF Bytes
<1> DEFINE N == {i \in 1..Len(buf) : buf[i][1] = "nl"}
           n == Newline(buf)
<1>2. N \in SUBSET Nat /\ N # {}
  BY <1>1 DEF HasLine
<1>3. PICK x \in N : \A y \in N : x <= y
  <2> HIDE DEF N
  <2> QED BY <1>2, LeastOf
<1>4. \E i \in DOMAIN buf : buf[i][1] = "nl" /\ \A j \in 1..i - 1 : buf[j][1] # "nl"
  <2>1. x \in DOMAIN buf /\ x \in 1..Len(buf) /\ buf[x][1] = "nl"
    BY <1>1, <1>3
  <2>2. ASSUME NEW j \in 1..x - 1 PROVE buf[j][1] # "nl"
    <3>1. j \in 1..Len(buf) /\ ~(x <= j)
      BY <1>1, <2>1
    <3> QED BY <1>3, <3>1
  <2> QED BY <2>1, <2>2
<1>5. n \in 1..Len(buf) /\ buf[n][1] = "nl"
  BY <1>1, <1>4 DEF Newline
<1> HIDE DEF n
<1>6. SubSeq(buf, n + 1, Len(buf)) \in Bytes /\ Suffix(SubSeq(buf, n + 1, Len(buf)), buf)
  <2>1. n \in 0..Len(buf)
    BY <1>1, <1>5
  <2> QED BY <2>1, SuffixCases DEF Bytes
<1>7. Len(SubSeq(buf, n + 1, Len(buf))) = Len(buf) - n
  <2>1. n \in 1..Len(buf)
    BY <1>5
  <2> QED BY <2>1, Moved, EmptySeq DEF Bytes
<1>8. SubSeq(buf, 1, n)[1] = buf[1]
  <2>1. \A i \in 1..n : buf[i] \in Token \X Tag
    BY <1>1, <1>5
  <2>2. \A i \in 1..n - 1 + 1 : SubSeq(buf, 1, n)[i] = buf[1 + i - 1]
    BY <1>1, <1>5, <2>1, SubSeqProperties
  <2>3. \A i \in 1..n : SubSeq(buf, 1, n)[i] = buf[i]
    <3> TAKE i \in 1..n
    <3>1. i \in 1..n - 1 + 1 /\ 1 + i - 1 = i
      BY <1>1, <1>5
    <3> QED BY <2>2, <3>1
  <2>4. 1 \in 1..n
    BY <1>1, <1>5
  <2> QED BY <2>3, <2>4
<1> QED BY <1>5, <1>6, <1>7, <1>8 DEF n, AfterLine, FirstLine

\* A request has one newline, at its end, and one tag.
LEMMA LineOf ==
  ASSUME NEW what \in Token \ {"nl"}, NEW t \in Tag, NEW n \in Nat \ {0}
  PROVE  /\ Line(what, t, n) \in Bytes /\ Line(what, t, n) # <<>>
         /\ Ends(Line(what, t, n)) /\ Tagged(Line(what, t, n), t)
<1> DEFINE head == [i \in 1..n |-> <<IF i = 1 THEN what ELSE "more", t>>]
           nl == << <<"nl", t>> >>
           q == Line(what, t, n)
<1>1. "more" \in Token /\ "nl" \in Token
  BY DEF Token
<1>2. head \in Bytes /\ Len(head) = n
      /\ \A i \in 1..n : head[i][1] # "nl" /\ head[i][2] = t
  <2>1. \A i \in 1..n : <<IF i = 1 THEN what ELSE "more", t>> \in Token \X Tag
    BY <1>1
  <2>2. head \in [1..n -> Token \X Tag]
    BY <2>1
  <2>3. head \in Bytes
    BY <2>2, SeqDef DEF Bytes
  <2>4. DOMAIN head = 1..n
    OBVIOUS
  <2>5. Len(head) = n
    <3> HIDE DEF head
    <3>1. DOMAIN head = 1..Len(head) /\ Len(head) \in Nat
      BY <2>3, LenProperties DEF Bytes
    <3> QED BY <2>4, <3>1
  <2>6. ASSUME NEW i \in 1..n PROVE head[i][1] # "nl" /\ head[i][2] = t
    <3>1. head[i] = <<IF i = 1 THEN what ELSE "more", t>>
      OBVIOUS
    <3> HIDE DEF head
    <3> QED BY <3>1
  <2> QED BY <2>3, <2>5, <2>6
<1>3. nl \in Bytes /\ Len(nl) = 1 /\ nl[1] = <<"nl", t>>
  BY <1>1 DEF Bytes
<1>4. q = head \o nl
  BY DEF Line
<1> HIDE DEF head, nl, q
<1>5. /\ q \in Bytes /\ Len(q) = n + 1
      /\ \A i \in 1..n + 1 : q[i] = IF i <= n THEN head[i] ELSE nl[i - n]
  <2>1. /\ head \o nl \in Bytes /\ Len(head \o nl) = Len(head) + Len(nl)
        /\ \A i \in 1..Len(head) + Len(nl) :
             (head \o nl)[i] = IF i <= Len(head) THEN head[i] ELSE nl[i - Len(head)]
    BY <1>2, <1>3, ConcatProperties, SMTT(30) DEF Bytes
  <2> QED BY <1>2, <1>3, <1>4, <2>1, SMTT(30)
<1>6. \A i \in 1..n + 1 : (q[i][1] = "nl" => i = n + 1) /\ q[i][2] = t
  <2> TAKE i \in 1..n + 1
  <2>1. CASE i <= n
    BY <1>2, <1>5, <2>1
  <2>2. CASE ~(i <= n)
    <3>1. i = n + 1 /\ i - n = 1
      BY <2>2
    <3> QED BY <1>3, <1>5, <2>2, <3>1
  <2> QED BY <2>1, <2>2
<1>7. q # <<>>
  BY <1>5
<1> QED BY <1>5, <1>6, <1>7 DEF q, Ends, Tagged

\* A part of the wire is no worse than the whole.
LEMMA InfixKeeps ==
  ASSUME NEW s \in Bytes, NEW q \in Bytes, Infix(s, q)
  PROVE  /\ Ends(q) => Ends(s)
         /\ Concluded(q) => Concluded(s)
         /\ Quiet(q) => Quiet(s)
         /\ \A t : Tagged(q, t) => Tagged(s, t)
         /\ q = <<>> => s = <<>>
<1>1. PICK k \in Nat : k + Len(s) <= Len(q) /\ \A i \in 1..Len(s) : s[i] = q[k + i]
  BY DEF Infix
<1>2. Len(s) \in Nat /\ Len(q) \in Nat
  BY ByteParts
<1>3. \A i \in 1..Len(s) : k + i \in 1..Len(q)
  BY <1>1, <1>2
<1>4. Ends(q) => Ends(s)
  BY <1>1, <1>2, <1>3 DEF Ends
<1>5. Concluded(q) => Concluded(s)
  <2> SUFFICES ASSUME Concluded(q), NEW i \in 1..Len(s), s[i][1] \in Reports
               PROVE  i >= Len(s) - 1 /\ (i = Len(s) - 1 => s[Len(s)][1] = "nl")
    BY DEF Concluded
  <2>1. q[k + i][1] \in Reports /\ k + i \in 1..Len(q)
    BY <1>1, <1>3
  <2>2. k + i >= Len(q) - 1 /\ (k + i = Len(q) - 1 => q[Len(q)][1] = "nl")
    BY <2>1 DEF Concluded
  <2>3. i >= Len(s) - 1
    BY <1>1, <1>2, <2>2
  <2>4. ASSUME i = Len(s) - 1 PROVE s[Len(s)][1] = "nl"
    <3>1. k + i = Len(q) - 1 /\ k + Len(s) = Len(q) /\ Len(s) \in 1..Len(s)
      BY <1>1, <1>2, <2>2, <2>4
    <3> QED BY <1>1, <2>2, <3>1
  <2> QED BY <2>3, <2>4
<1>6. Quiet(q) => Quiet(s)
  BY <1>1, <1>3 DEF Quiet
<1>7. ASSUME NEW t, Tagged(q, t) PROVE Tagged(s, t)
  BY <1>1, <1>3, <1>7 DEF Tagged
<1>8. q = <<>> => s = <<>>
  <2>1. q = <<>> => Len(s) = 0
    BY <1>1, <1>2
  <2>2. s # <<>> => Len(s) \in Nat \ {0}
    BY EmptySeq DEF Bytes
  <2> QED BY <2>1, <2>2
<1> QED BY <1>4, <1>5, <1>6, <1>7, <1>8

-----------------------------------------------------------------------------
(* Types.                                                                  *)

Places ==
  /\ worker \in {"idle", "write", "read", "bye", "grace", "drop", "term", "ended"}
  /\ exit \in {"none", "ended", "fatal", "dismissed"}
  /\ child \in {"poll", "apply", "report", "restore", "farewell", "gone"}
Flags == late \in BOOLEAN /\ eof \in BOOLEAN /\ term \in BOOLEAN /\ healthy \in BOOLEAN
Tags == tag \in Tag /\ serving \in Tag /\ got \in Tag \cup {NoTag}
Counters == extra \in Nat /\ backoff \in Backoffs /\ count \in 0..Saturate + 1 /\ wait \in Nat
Buffers ==
  /\ toWrite \in Bytes /\ rbuf \in Bytes /\ down \in Bytes
  /\ up \in Bytes /\ sbuf \in Bytes /\ toSay \in Bytes
Bounded ==
  /\ Len(rbuf) =< MaxLine + 1 /\ Len(sbuf) =< MaxStdin + Chunk
  /\ Len(down) =< Cap /\ Len(up) =< Cap

LEMMA TypedParts ==
  TypeOK <=> Places /\ Flags /\ Tags /\ Counters /\ Buffers /\ Bounded
<1>1. TypeOK => Places /\ Flags /\ Tags /\ Counters
  BY DEF TypeOK, Places, Flags, Tags, Counters
<1>2. TypeOK => Buffers /\ Bounded
  BY DEF TypeOK, Buffers, Bounded, IsBytes, Bytes
<1>3. ASSUME Places, Flags, Tags, Counters, Buffers, Bounded PROVE TypeOK
  <2>1. {late, eof, term, healthy} \subseteq BOOLEAN /\ {tag, serving} \subseteq Tag
    BY <1>3 DEF Flags, Tags
  <2>2. \A s \in {toWrite, rbuf, down, up, sbuf, toSay} : IsBytes(s)
    BY <1>3 DEF Buffers, IsBytes, Bytes
  <2> QED BY <1>3, <2>1, <2>2, Zenon DEF TypeOK, Places, Tags, Counters, Bounded
<1> QED BY <1>1, <1>2, <1>3

LEMMA Sizes ==
  /\ Cap \in Nat \ {0} /\ Chunk \in Nat \ {0} /\ MaxLine \in Nat \ {0}
  /\ MaxStdin \in Nat \ {0} /\ Saturate \in Nat \ {0}
  BY SizesAssumption, SaturateAssumption

LEMMA Empty == <<>> \in Bytes /\ Len(<<>>) = 0
  BY EmptySeq DEF Bytes

LEMMA TypeInit == Init => TypeOK
<1> SUFFICES ASSUME Init PROVE TypeOK
  OBVIOUS
<1>1. Places
  BY DEF Init, Places
<1>2. Flags
  BY DEF Init, Flags
<1>3. Tags
  BY DEF Init, Tags, Tag, NoTag
<1>4. Counters
  BY Sizes DEF Init, Counters
<1>5. Buffers
  BY Empty, Zenon DEF Init, Buffers
<1>6. Bounded
  <2>1. Len(down) = 0 /\ Len(up) = 0 /\ Len(rbuf) = 0 /\ Len(sbuf) = 0
    BY Empty, Zenon DEF Init
  <2> QED BY <2>1, Sizes DEF Bounded
<1> QED BY <1>1, <1>2, <1>3, <1>4, <1>5, <1>6, TypedParts

LEMMA PlacesKept ==
  ASSUME TypeOK, [Next]_vars
  PROVE  Places'
<1>0. Places
  BY TypedParts
<1> USE DEF Kill, Dies, Spare, End, Goto, Gone, Leave, asking, pipes, serves, respawn
<1>1. CASE Write
  BY <1>0, <1>1 DEF Write, Places
<1>2. CASE Written
  BY <1>0, <1>2 DEF Written, Places
<1>3. CASE WriteFails
  BY <1>0, <1>3 DEF WriteFails, Places
<1>4. CASE TakeLine
  BY <1>0, <1>4 DEF TakeLine, Places
<1>5. CASE ReadMore
  BY <1>0, <1>5 DEF ReadMore, Places
<1>6. CASE ReadFails
  BY <1>0, <1>6 DEF ReadFails, Places
<1>7. CASE CloseStdin
  BY <1>0, <1>7 DEF CloseStdin, Places
<1>8. CASE Escalate
  BY <1>0, <1>8 DEF Escalate, Places
<1>9. CASE ServeLine
  BY <1>0, <1>9 DEF ServeLine, Places
<1>10. CASE NextEvent
  BY <1>0, <1>10 DEF NextEvent, Places
<1>11. CASE Emit
  BY <1>0, <1>11 DEF Emit, Places
<1>12. CASE Emitted
  BY <1>0, <1>12 DEF Emitted, Places
<1>13. CASE TimePasses
  BY <1>0, <1>13 DEF TimePasses, Places
<1>14. CASE Tick
  BY <1>0, <1>14 DEF Tick, Places
<1>15. CASE Dismiss
  BY <1>0, <1>15 DEF Dismiss, Places
<1>16. CASE Reap
  BY <1>0, <1>16 DEF Reap, Places
<1>17. CASE Respawn
  BY <1>0, <1>17 DEF Respawn, Places
<1>18. CASE Applied
  BY <1>0, <1>18 DEF Applied, Places
<1>19. CASE Restored
  BY <1>0, <1>19 DEF Restored, Places
<1>20. CASE Prints
  BY <1>0, <1>20 DEF Prints, Places
<1>21. CASE Crash
  BY <1>0, <1>21 DEF Crash, Places
<1>22. CASE Sigterm
  BY <1>0, <1>22 DEF Sigterm, Places
<1>23. CASE UNCHANGED vars
  BY <1>0, <1>23 DEF vars, Places
<1> QED
  BY <1>1, <1>2, <1>3, <1>4, <1>5, <1>6, <1>7, <1>8, <1>9, <1>10, <1>11, <1>12, <1>13, <1>14, <1>15, <1>16, <1>17, <1>18, <1>19, <1>20, <1>21, <1>22, <1>23
     DEF Next, WorkerStep, ChildStep

LEMMA FlagsKept ==
  ASSUME TypeOK, [Next]_vars
  PROVE  Flags'
<1>0. Flags
  BY TypedParts
<1> USE DEF Kill, Dies, Spare, End, Goto, Gone, Leave, asking, pipes, serves, respawn
<1>1. CASE Write
  BY <1>0, <1>1 DEF Write, Flags
<1>2. CASE Written
  BY <1>0, <1>2 DEF Written, Flags
<1>3. CASE WriteFails
  BY <1>0, <1>3 DEF WriteFails, Flags
<1>4. CASE TakeLine
  BY <1>0, <1>4 DEF TakeLine, Flags
<1>5. CASE ReadMore
  BY <1>0, <1>5 DEF ReadMore, Flags
<1>6. CASE ReadFails
  BY <1>0, <1>6 DEF ReadFails, Flags
<1>7. CASE CloseStdin
  BY <1>0, <1>7 DEF CloseStdin, Flags
<1>8. CASE Escalate
  BY <1>0, <1>8 DEF Escalate, Flags
<1>9. CASE ServeLine
  BY <1>0, <1>9 DEF ServeLine, Flags
<1>10. CASE NextEvent
  BY <1>0, <1>10 DEF NextEvent, Flags
<1>11. CASE Emit
  BY <1>0, <1>11 DEF Emit, Flags
<1>12. CASE Emitted
  BY <1>0, <1>12 DEF Emitted, Flags
<1>13. CASE TimePasses
  BY <1>0, <1>13 DEF TimePasses, Flags
<1>14. CASE Tick
  BY <1>0, <1>14 DEF Tick, Flags
<1>15. CASE Dismiss
  BY <1>0, <1>15 DEF Dismiss, Flags
<1>16. CASE Reap
  BY <1>0, <1>16 DEF Reap, Flags
<1>17. CASE Respawn
  BY <1>0, <1>17 DEF Respawn, Flags
<1>18. CASE Applied
  BY <1>0, <1>18 DEF Applied, Flags
<1>19. CASE Restored
  BY <1>0, <1>19 DEF Restored, Flags
<1>20. CASE Prints
  BY <1>0, <1>20 DEF Prints, Flags
<1>21. CASE Crash
  BY <1>0, <1>21 DEF Crash, Flags
<1>22. CASE Sigterm
  BY <1>0, <1>22 DEF Sigterm, Flags
<1>23. CASE UNCHANGED vars
  BY <1>0, <1>23 DEF vars, Flags
<1> QED
  BY <1>1, <1>2, <1>3, <1>4, <1>5, <1>6, <1>7, <1>8, <1>9, <1>10, <1>11, <1>12, <1>13, <1>14, <1>15, <1>16, <1>17, <1>18, <1>19, <1>20, <1>21, <1>22, <1>23
     DEF Next, WorkerStep, ChildStep

\* A byte of a buffer carries a tag.
LEMMA BytesTagged ==
  ASSUME TypeOK
  PROVE  /\ HasLine(rbuf) => rbuf[1][2] \in Tag
         /\ HasLine(sbuf) => sbuf[Newline(sbuf)][2] \in Tag
<1>1. rbuf \in Bytes /\ sbuf \in Bytes
  BY TypedParts DEF Buffers
<1>2. ASSUME NEW q \in Bytes, HasLine(q) PROVE q[1][2] \in Tag /\ q[Newline(q)][2] \in Tag
  <2>1. Newline(q) \in 1..Len(q) /\ Len(q) \in Nat
    BY <1>2, LineIs, ByteParts
  <2>2. 1 \in 1..Len(q)
    BY <2>1
  <2> QED BY <2>1, <2>2, ByteParts
<1> QED BY <1>1, <1>2

LEMMA TagsKept ==
  ASSUME TypeOK, [Next]_vars
  PROVE  Tags'
<1>0. Tags
  BY TypedParts
<1> USE DEF Kill, Dies, Spare, End, Goto, Gone, Leave, asking, pipes, serves, respawn
<1>1. CASE Write
  BY <1>0, <1>1 DEF Write, Tags, Tag, NoTag
<1>2. CASE Written
  BY <1>0, <1>2 DEF Written, Tags, Tag, NoTag
<1>3. CASE WriteFails
  BY <1>0, <1>3 DEF WriteFails, Tags, Tag, NoTag
<1>4. CASE TakeLine
  BY <1>0, <1>4, BytesTagged DEF TakeLine, Tags, Tag, NoTag
<1>5. CASE ReadMore
  BY <1>0, <1>5 DEF ReadMore, Tags, Tag, NoTag
<1>6. CASE ReadFails
  BY <1>0, <1>6 DEF ReadFails, Tags, Tag, NoTag
<1>7. CASE CloseStdin
  BY <1>0, <1>7 DEF CloseStdin, Tags, Tag, NoTag
<1>8. CASE Escalate
  BY <1>0, <1>8 DEF Escalate, Tags, Tag, NoTag
<1>9. CASE ServeLine
  BY <1>0, <1>9, BytesTagged DEF ServeLine, Tags, Tag, NoTag
<1>10. CASE NextEvent
  BY <1>0, <1>10 DEF NextEvent, Tags, Tag, NoTag
<1>11. CASE Emit
  BY <1>0, <1>11 DEF Emit, Tags, Tag, NoTag
<1>12. CASE Emitted
  BY <1>0, <1>12 DEF Emitted, Tags, Tag, NoTag
<1>13. CASE TimePasses
  BY <1>0, <1>13 DEF TimePasses, Tags, Tag, NoTag
<1>14. CASE Tick
  BY <1>0, <1>14 DEF Tick, Tags, Tag, NoTag
<1>15. CASE Dismiss
  BY <1>0, <1>15 DEF Dismiss, Tags, Tag, NoTag
<1>16. CASE Reap
  BY <1>0, <1>16 DEF Reap, Tags, Tag, NoTag
<1>17. CASE Respawn
  BY <1>0, <1>17 DEF Respawn, Tags, Tag, NoTag
<1>18. CASE Applied
  BY <1>0, <1>18 DEF Applied, Tags, Tag, NoTag
<1>19. CASE Restored
  BY <1>0, <1>19 DEF Restored, Tags, Tag, NoTag
<1>20. CASE Prints
  BY <1>0, <1>20 DEF Prints, Tags, Tag, NoTag
<1>21. CASE Crash
  BY <1>0, <1>21 DEF Crash, Tags, Tag, NoTag
<1>22. CASE Sigterm
  BY <1>0, <1>22 DEF Sigterm, Tags, Tag, NoTag
<1>23. CASE UNCHANGED vars
  BY <1>0, <1>23 DEF vars, Tags
<1> QED
  BY <1>1, <1>2, <1>3, <1>4, <1>5, <1>6, <1>7, <1>8, <1>9, <1>10, <1>11, <1>12, <1>13, <1>14, <1>15, <1>16, <1>17, <1>18, <1>19, <1>20, <1>21, <1>22, <1>23
     DEF Next, WorkerStep, ChildStep

LEMMA FailuresTyped ==
  ASSUME count \in 0..Saturate + 1, NEW why
  PROVE  /\ Failures(why) \in 0..Saturate + 1
         /\ why # "dismissed" => Failures(why) >= 1
         /\ why = "fatal" => Failures(why) = Saturate
<1>1. Min({count + 1, Saturate + 1}) \in {count + 1, Saturate + 1}
      /\ Min({count + 1, Saturate + 1}) <= Saturate + 1
  BY Sizes, MinOfTwo
<1> QED BY <1>1, Sizes DEF Failures

LEMMA CountersKept ==
  ASSUME TypeOK, [Next]_vars
  PROVE  Counters'
<1>0. Counters
  BY TypedParts
<1> USE DEF Kill, Dies, Spare, End, Goto, Gone, Leave, asking, pipes, serves, respawn
<1>1. CASE Write
  BY <1>0, <1>1 DEF Write, Counters
<1>2. CASE Written
  BY <1>0, <1>2 DEF Written, Counters
<1>3. CASE WriteFails
  BY <1>0, <1>3 DEF WriteFails, Counters
<1>4. CASE TakeLine
  BY <1>0, <1>4 DEF TakeLine, Counters
<1>5. CASE ReadMore
  BY <1>0, <1>5 DEF ReadMore, Counters
<1>6. CASE ReadFails
  BY <1>0, <1>6 DEF ReadFails, Counters
<1>7. CASE CloseStdin
  BY <1>0, <1>7 DEF CloseStdin, Counters
<1>8. CASE Escalate
  <2>1. extra' \in {extra, 0} /\ UNCHANGED <<backoff, count, wait>>
    BY <1>8 DEF Escalate
  <2> QED BY <1>0, <2>1 DEF Counters
<1>9. CASE ServeLine
  BY <1>0, <1>9 DEF ServeLine, Counters
<1>10. CASE NextEvent
  BY <1>0, <1>10 DEF NextEvent, Counters
<1>11. CASE Emit
  BY <1>0, <1>11 DEF Emit, Counters
<1>12. CASE Emitted
  BY <1>0, <1>12 DEF Emitted, Counters
<1>13. CASE TimePasses
  BY <1>0, <1>13 DEF TimePasses, Counters
<1>14. CASE Tick
  BY <1>0, <1>14 DEF Tick, Counters
<1>15. CASE Dismiss
  BY <1>0, <1>15 DEF Dismiss, Counters
<1>16. CASE Reap
  BY <1>0, <1>16, FailuresTyped DEF Reap, Counters
<1>17. CASE Respawn
  BY <1>0, <1>17 DEF Respawn, Counters
<1>18. CASE Applied
  BY <1>0, <1>18 DEF Applied, Counters
<1>19. CASE Restored
  BY <1>0, <1>19 DEF Restored, Counters
<1>20. CASE Prints
  BY <1>0, <1>20 DEF Prints, Counters
<1>21. CASE Crash
  BY <1>0, <1>21 DEF Crash, Counters
<1>22. CASE Sigterm
  BY <1>0, <1>22 DEF Sigterm, Counters
<1>23. CASE UNCHANGED vars
  BY <1>0, <1>23 DEF vars, Counters
<1> QED
  BY <1>1, <1>2, <1>3, <1>4, <1>5, <1>6, <1>7, <1>8, <1>9, <1>10, <1>11, <1>12, <1>13, <1>14, <1>15, <1>16, <1>17, <1>18, <1>19, <1>20, <1>21, <1>22, <1>23
     DEF Next, WorkerStep, ChildStep

\* One read of at most `limit` bytes.
LEMMA ReadTyped ==
  ASSUME NEW a \in Bytes, NEW b \in Bytes, b # <<>>, NEW n \in 1..Len(b)
  PROVE  /\ a \o SubSeq(b, 1, n) \in Bytes /\ SubSeq(b, n + 1, Len(b)) \in Bytes
         /\ Len(a \o SubSeq(b, 1, n)) = Len(a) + n
         /\ Len(SubSeq(b, n + 1, Len(b))) = Len(b) - n
         /\ (a \o SubSeq(b, 1, n)) \o SubSeq(b, n + 1, Len(b)) = a \o b
<1> DEFINE T == Token \X Tag
<1>1. a \in Seq(T) /\ b \in Seq(T) /\ Bytes = Seq(T)
  BY DEF Bytes
<1> HIDE DEF T
<1>2. /\ SubSeq(b, 1, n) \in Seq(T) /\ SubSeq(b, n + 1, Len(b)) \in Seq(T)
      /\ Len(SubSeq(b, 1, n)) = n /\ Len(SubSeq(b, n + 1, Len(b))) = Len(b) - n
      /\ (a \o SubSeq(b, 1, n)) \o SubSeq(b, n + 1, Len(b)) = a \o b
  <2>1. \A x, y \in Seq(T) : \A k \in 1..Len(y) :
          /\ SubSeq(y, 1, k) \in Seq(T) /\ SubSeq(y, k + 1, Len(y)) \in Seq(T)
          /\ Len(SubSeq(y, 1, k)) = k /\ Len(SubSeq(y, k + 1, Len(y))) = Len(y) - k
          /\ (x \o SubSeq(y, 1, k)) \o SubSeq(y, k + 1, Len(y)) = x \o y
    BY Moved
  <2> QED BY <1>1, <2>1, Zenon
<1> DEFINE q == SubSeq(b, 1, n)
<1>3. q \in Seq(T) /\ Len(q) = n
  BY <1>2
<1> HIDE DEF q
<1>4. a \o q \in Seq(T) /\ Len(a \o q) = Len(a) + n
  BY <1>1, <1>3, ConcatProperties
<1> QED BY <1>1, <1>2, <1>4, Zenon DEF q

LEMMA SayTyped ==
  ASSUME NEW what \in {"ok", "error", "fatal"}, NEW t \in Tag
  PROVE  << <<what, t>>, <<"nl", t>> >> \in Bytes
<1>1. what \in Token /\ "nl" \in Token
  BY DEF Token
<1> QED BY <1>1 DEF Bytes

\* What a read takes at most: the chunk, what there is, and room for it.
LEMMA ReadSize ==
  ASSUME NEW q \in Bytes, q # <<>>
  PROVE  /\ Min({Chunk, Len(q)}) \in 1..Len(q) /\ Min({Chunk, Len(q)}) <= Chunk
         /\ \A r \in Nat \ {0} : /\ Min({Chunk, r, Len(q)}) \in 1..Len(q)
                                 /\ Min({Chunk, r, Len(q)}) <= r
<1> DEFINE l == Len(q)
<1>1. l \in Nat \ {0} /\ Chunk \in Nat \ {0}
  BY Sizes, EmptySeq DEF Bytes
<1> HIDE DEF l
<1>a. l \in Int /\ Chunk \in Int /\ \A r \in Nat \ {0} : r \in Int
  BY <1>1
<1>2. Min({Chunk, l}) \in {Chunk, l} /\ Min({Chunk, l}) <= l
      /\ Min({Chunk, l}) <= Chunk
  BY <1>a, MinOfTwo, Zenon
<1>3. ASSUME NEW r \in Nat \ {0}
      PROVE  /\ Min({Chunk, r, l}) \in {Chunk, r, l}
             /\ Min({Chunk, r, l}) <= l /\ Min({Chunk, r, l}) <= r
  BY <1>a, MinOfThree, Zenon
<1> QED BY <1>1, <1>2, <1>3 DEF l

LEMMA KeptIs ==
  ASSUME sbuf \in Bytes
  PROVE  /\ Kept(sbuf) \in {sbuf, <<>>} /\ Kept(sbuf) \in Bytes
         /\ ~HasLine(sbuf) => Len(Kept(sbuf)) <= MaxStdin
         /\ Suffix(Kept(sbuf), sbuf)
<1>1. Len(sbuf) \in Nat
  BY ByteParts
<1>2. Suffix(sbuf, sbuf) /\ Suffix(<<>>, sbuf)
  BY SuffixCases DEF Bytes
<1>3. Kept(sbuf) \in {sbuf, <<>>}
  BY DEF Kept
<1>4. ~HasLine(sbuf) => Len(Kept(sbuf)) <= MaxStdin
  BY <1>1, Sizes, Empty DEF Kept
<1> QED BY <1>2, <1>3, <1>4, Empty, Zenon

LEMMA BuffersKept ==
  ASSUME TypeOK, [Next]_vars
  PROVE  Buffers' /\ Bounded'
<1>0. Buffers /\ Bounded /\ Tags
  BY TypedParts
<1>a. /\ Len(rbuf) \in Nat /\ Len(sbuf) \in Nat /\ Len(down) \in Nat /\ Len(up) \in Nat
  BY <1>0, ByteParts DEF Buffers
<1>b. /\ <<>> \in Bytes /\ Len(<<>>) <= MaxLine + 1 /\ Len(<<>>) <= MaxStdin + Chunk
      /\ Len(<<>>) <= Cap
  <2>1. \A k : k = 0 => k <= MaxLine + 1 /\ k <= MaxStdin + Chunk /\ k <= Cap
    BY Sizes
  <2> QED BY <2>1, Empty
<1> USE DEF Kill, Dies, Spare, End, Goto, Gone, Leave, asking, pipes, serves, respawn
<1>1. CASE Write
  <2>1. /\ down' = Append(down, Head(toWrite)) /\ toWrite' = Tail(toWrite) /\ toWrite # <<>>
        /\ Len(down) < Cap /\ UNCHANGED <<rbuf, up, sbuf, toSay>>
    BY <1>1 DEF Write
  <2>2. down' \in Bytes /\ toWrite' \in Bytes /\ Len(down') = Len(down) + 1
    BY <1>0, <2>1, MovedOne DEF Bytes, Buffers
  <2>3. Len(down') <= Cap
    BY <2>1, <2>2, <1>a, Sizes
  <2> QED BY <1>0, <2>1, <2>2, <2>3 DEF Buffers, Bounded
<1>2. CASE Written
  BY <1>0, <1>b, <1>2 DEF Written, Buffers, Bounded
<1>3. CASE WriteFails
  BY <1>0, <1>b, <1>3 DEF WriteFails, Buffers, Bounded
<1>4. CASE TakeLine
  <2>1. HasLine(rbuf) /\ rbuf' \in {AfterLine(rbuf), <<>>} /\ down' \in {down, <<>>}
        /\ sbuf' \in {sbuf, <<>>} /\ toSay' \in {toSay, <<>>} /\ UNCHANGED <<toWrite, up>>
    <3>1. HasLine(rbuf) /\ UNCHANGED toWrite
      BY <1>4 DEF TakeLine
    <3>2. \/ rbuf' = AfterLine(rbuf) /\ Spare
          \/ rbuf' = <<>> /\ Spare
          \/ rbuf' = <<>> /\ Kill
      BY <1>4 DEF TakeLine
    <3> QED BY <3>1, <3>2, Zenon
  <2>2. AfterLine(rbuf) \in Bytes /\ Len(AfterLine(rbuf)) <= MaxLine + 1
    <3>1. AfterLine(rbuf) \in Bytes /\ Len(AfterLine(rbuf)) = Len(rbuf) - Newline(rbuf)
          /\ Newline(rbuf) \in 1..Len(rbuf)
      BY <1>0, <2>1, LineIs DEF Buffers
    <3> QED BY <1>0, <1>a, <3>1, Sizes DEF Bounded
  <2> QED BY <1>0, <1>b, <2>1, <2>2 DEF Buffers, Bounded
<1>5. CASE ReadMore
  <2> DEFINE n == Min({Chunk, MaxLine - Len(rbuf) + 1, Len(up)})
  <2>1. /\ Len(rbuf) =< MaxLine /\ up # <<>>
        /\ rbuf' = rbuf \o SubSeq(up, 1, n) /\ up' = SubSeq(up, n + 1, Len(up))
        /\ UNCHANGED <<toWrite, down, sbuf, toSay>>
    BY <1>5 DEF ReadMore
  <2>2. n \in 1..Len(up) /\ n <= MaxLine - Len(rbuf) + 1
    <3> DEFINE r == MaxLine - Len(rbuf) + 1
    <3>1. r \in Nat \ {0}
      BY <1>a, <2>1, Sizes
    <3> HIDE DEF r
    <3>2. up \in Bytes /\ up # <<>>
      BY <1>0, <2>1 DEF Buffers
    <3>3. Min({Chunk, r, Len(up)}) \in 1..Len(up) /\ Min({Chunk, r, Len(up)}) <= r
      BY <3>1, <3>2, ReadSize
    <3> QED BY <3>3 DEF r
  <2> HIDE DEF n
  <2>3. /\ rbuf' \in Bytes /\ up' \in Bytes
        /\ Len(rbuf') = Len(rbuf) + n /\ Len(up') = Len(up) - n
    BY <1>0, <2>1, <2>2, ReadTyped DEF Buffers
  <2>4. Len(rbuf') <= MaxLine + 1 /\ Len(up') <= Cap
    BY <1>0, <1>a, <2>2, <2>3, Sizes DEF Bounded
  <2> QED BY <1>0, <2>1, <2>3, <2>4 DEF Buffers, Bounded
<1>6. CASE ReadFails
  BY <1>0, <1>b, <1>6 DEF ReadFails, Buffers, Bounded
<1>7. CASE CloseStdin
  BY <1>0, <1>b, <1>7 DEF CloseStdin, Buffers, Bounded
<1>8. CASE Escalate
  BY <1>0, <1>b, <1>8 DEF Escalate, Buffers, Bounded
<1>9. CASE ServeLine
  <2>1. /\ HasLine(sbuf) /\ sbuf' = AfterLine(sbuf) /\ UNCHANGED <<toWrite, rbuf, down, up>>
        /\ toSay' = toSay \/ \E s \in {"ok", "error"} : Say(s, sbuf[Newline(sbuf)][2])
    BY <1>9 DEF ServeLine
  <2>2. sbuf[Newline(sbuf)][2] \in Tag
    BY <2>1, BytesTagged
  <2>3. toSay' \in Bytes
    BY <1>0, <2>1, <2>2, SayTyped DEF Say, Buffers
  <2>4. sbuf' \in Bytes /\ Len(sbuf') <= MaxStdin + Chunk
    <3>1. AfterLine(sbuf) \in Bytes /\ Len(AfterLine(sbuf)) = Len(sbuf) - Newline(sbuf)
          /\ Newline(sbuf) \in 1..Len(sbuf)
      BY <1>0, <2>1, LineIs DEF Buffers
    <3> QED BY <1>0, <1>a, <2>1, <3>1, Sizes DEF Bounded
  <2> QED BY <1>0, <2>1, <2>3, <2>4 DEF Buffers, Bounded
<1>10. CASE NextEvent
  <2>0. ~HasLine(sbuf) /\ UNCHANGED <<toWrite, rbuf, up>>
    BY <1>10 DEF NextEvent
  <2>1. /\ Kept(sbuf) \in Bytes /\ Len(Kept(sbuf)) <= MaxStdin /\ Len(Kept(sbuf)) \in Nat
    BY <1>0, <2>0, KeptIs, ByteParts DEF Buffers
  <2>2. CASE sbuf' = Kept(sbuf) /\ down' = down /\ toSay' = <<>>
    <3>1. Len(sbuf') <= MaxStdin + Chunk
      BY <2>1, <2>2, Sizes
    <3> QED BY <1>0, <1>b, <2>0, <2>1, <2>2, <3>1 DEF Buffers, Bounded
  <2> DEFINE n == Min({Chunk, Len(down)})
  <2>3. CASE /\ down # <<>> /\ sbuf' = Kept(sbuf) \o SubSeq(down, 1, n)
             /\ down' = SubSeq(down, n + 1, Len(down)) /\ toSay' = toSay
    <3>1. n \in 1..Len(down) /\ n <= Chunk
      BY <1>0, <2>3, ReadSize DEF Buffers
    <3> HIDE DEF n
    <3>2. /\ sbuf' \in Bytes /\ down' \in Bytes
          /\ Len(sbuf') = Len(Kept(sbuf)) + n /\ Len(down') = Len(down) - n
      BY <1>0, <2>1, <2>3, <3>1, ReadTyped DEF Buffers
    <3>3. Len(sbuf') <= MaxStdin + Chunk /\ Len(down') <= Cap
      <4>1. n \in Nat /\ Len(Kept(sbuf)) + n <= MaxStdin + Chunk /\ Len(down) - n <= Cap
        BY <1>0, <1>a, <2>1, <3>1, Sizes DEF Bounded
      <4> QED BY <3>2, <4>1
    <3> QED BY <1>0, <2>0, <2>3, <3>2, <3>3 DEF Buffers, Bounded
  <2> HIDE DEF n
  <2>4. \/ sbuf' = Kept(sbuf) /\ down' = down /\ toSay' = <<>>
        \/ /\ down # <<>> /\ sbuf' = Kept(sbuf) \o SubSeq(down, 1, n)
           /\ down' = SubSeq(down, n + 1, Len(down)) /\ toSay' = toSay
    BY <1>10 DEF NextEvent, n
  <2> QED BY <2>2, <2>3, <2>4
<1>11. CASE Emit
  <2>1. /\ up' = Append(up, Head(toSay)) /\ toSay' = Tail(toSay) /\ toSay # <<>>
        /\ Len(up) < Cap /\ UNCHANGED <<toWrite, rbuf, down, sbuf>>
    BY <1>11 DEF Emit
  <2>2. up' \in Bytes /\ toSay' \in Bytes /\ Len(up') = Len(up) + 1
    BY <1>0, <2>1, MovedOne DEF Bytes, Buffers
  <2>3. Len(up') <= Cap
    BY <2>1, <2>2, <1>a, Sizes
  <2> QED BY <1>0, <2>1, <2>2, <2>3 DEF Buffers, Bounded
<1>12. CASE Emitted
  BY <1>0, <1>b, <1>12 DEF Emitted, Buffers, Bounded
<1>13. CASE TimePasses
  BY <1>0, <1>b, <1>13 DEF TimePasses, Buffers, Bounded
<1>14. CASE Tick
  <2>1. PICK n \in Bodies : toWrite' = Line("apply", 1 - tag, n)
    BY <1>14 DEF Tick
  <2>2. "apply" \in Token \ {"nl"} /\ n \in Nat \ {0} /\ 1 - tag \in Tag
    BY <1>0, SizesAssumption DEF Token, Tags, Tag
  <2>3. toWrite' \in Bytes
    BY <2>1, <2>2, LineOf
  <2> QED BY <1>0, <1>14, <2>3 DEF Tick, Buffers, Bounded
<1>15. CASE Dismiss
  <2>1. "shutdown" \in Token \ {"nl"} /\ 1 \in Nat \ {0} /\ 1 - tag \in Tag
    BY <1>0 DEF Token, Tags, Tag
  <2>2. toWrite' \in Bytes
    BY <1>15, <2>1, LineOf DEF Dismiss
  <2> QED BY <1>0, <1>15, <2>2 DEF Dismiss, Buffers, Bounded
<1>16. CASE Reap
  BY <1>0, <1>b, <1>16 DEF Reap, Buffers, Bounded
<1>17. CASE Respawn
  BY <1>0, <1>b, <1>17 DEF Respawn, Buffers, Bounded
<1>18. CASE Applied
  <2>1. \E s \in {"ok", "error", "fatal"} : Say(s, serving)
    BY <1>18 DEF Applied
  <2>2. toSay' \in Bytes
    BY <1>0, <2>1, SayTyped DEF Say, Tags
  <2> QED BY <1>0, <1>18, <2>2 DEF Applied, Buffers, Bounded
<1>19. CASE Restored
  BY <1>0, <1>b, <1>19 DEF Restored, Buffers, Bounded
<1>20. CASE Prints
  <2>1. PICK n \in Noise : up' = Append(up, <<n, serving>>)
    BY <1>20 DEF Prints
  <2>2. <<n, serving>> \in Token \X Tag
    BY <1>0 DEF Token, Tags
  <2>3. up' \in Bytes /\ Len(up') = Len(up) + 1
    BY <1>0, <2>1, <2>2, AppendProperties DEF Bytes, Buffers
  <2>4. Len(up') <= Cap
    BY <1>20, <2>3, <1>a, Sizes DEF Prints
  <2> QED BY <1>0, <1>20, <2>3, <2>4 DEF Prints, Buffers, Bounded
<1>21. CASE Crash
  BY <1>0, <1>b, <1>21 DEF Crash, Buffers, Bounded
<1>22. CASE Sigterm
  BY <1>0, <1>b, <1>22 DEF Sigterm, Buffers, Bounded
<1>23. CASE UNCHANGED vars
  BY <1>0, <1>23 DEF vars, Buffers, Bounded
<1> QED
  BY <1>1, <1>2, <1>3, <1>4, <1>5, <1>6, <1>7, <1>8, <1>9, <1>10, <1>11, <1>12, <1>13, <1>14, <1>15, <1>16, <1>17, <1>18, <1>19, <1>20, <1>21, <1>22, <1>23
     DEF Next, WorkerStep, ChildStep

LEMMA TypesKept == TypeOK /\ [Next]_vars => TypeOK'
<1>1. TypeOK /\ [Next]_vars =>
        Places' /\ Flags' /\ Tags' /\ Counters' /\ Buffers' /\ Bounded'
  BY PlacesKept, FlagsKept, TagsKept, CountersKept, BuffersKept, Zenon
<1> QED BY <1>1, TypedParts, PTL

\* Everything has its type; a line that never ends and a child that never stops
\* printing fill no buffer beyond its limit and one read.
THEOREM PipeTypes == Spec => []TypeOK
<1> QED BY TypesKept, TypeInit, PTL DEF Spec

-----------------------------------------------------------------------------
(* Where worker and child stand.                                           *)

LEMMA ControlKept ==
  ASSUME Control, [Next]_vars
  PROVE  Control'
<1> USE DEF Kill, Dies, Spare, End, Goto, Gone, Leave, Say, WorkerDone, asking, pipes, serves, respawn
<1>1. CASE Write
  BY <1>1 DEF Write, Control
<1>2. CASE Written
  BY <1>2 DEF Written, Control
<1>3. CASE WriteFails
  BY <1>3 DEF WriteFails, Control
<1>4. CASE TakeLine
  BY <1>4 DEF TakeLine, Control
<1>5. CASE ReadMore
  BY <1>5 DEF ReadMore, Control
<1>6. CASE ReadFails
  BY <1>6 DEF ReadFails, Control
<1>7. CASE CloseStdin
  BY <1>7 DEF CloseStdin, Control
<1>8. CASE Escalate
  BY <1>8 DEF Escalate, Control
<1>9. CASE ServeLine
  BY <1>9 DEF ServeLine, Control
<1>10. CASE NextEvent
  BY <1>10 DEF NextEvent, Control
<1>11. CASE Emit
  BY <1>11 DEF Emit, Control
<1>12. CASE Emitted
  BY <1>12 DEF Emitted, Control
<1>13. CASE TimePasses
  BY <1>13 DEF TimePasses, Control
<1>14. CASE Tick
  BY <1>14 DEF Tick, Control
<1>15. CASE Dismiss
  BY <1>15 DEF Dismiss, Control
<1>16. CASE Reap
  BY <1>16 DEF Reap, Control
<1>17. CASE Respawn
  BY <1>17 DEF Respawn, Control
<1>18. CASE Applied
  BY <1>18 DEF Applied, Control
<1>19. CASE Restored
  BY <1>19 DEF Restored, Control
<1>20. CASE Prints
  BY <1>20 DEF Prints, Control
<1>21. CASE Crash
  BY <1>21 DEF Crash, Control
<1>22. CASE Sigterm
  BY <1>22 DEF Sigterm, Control
<1>23. CASE UNCHANGED vars
  BY <1>23 DEF vars, Control
<1> QED
  BY <1>1, <1>2, <1>3, <1>4, <1>5, <1>6, <1>7, <1>8, <1>9, <1>10, <1>11, <1>12, <1>13, <1>14, <1>15, <1>16, <1>17, <1>18, <1>19, <1>20, <1>21, <1>22, <1>23
     DEF Next, WorkerStep, ChildStep

-----------------------------------------------------------------------------
(* One request on the wire.                                                *)

\* The three parts of the wire and the whole.
LEMMA Joined ==
  ASSUME NEW a \in Bytes, NEW b \in Bytes, NEW c \in Bytes
  PROVE  LET w == (a \o b) \o c IN
         /\ w \in Bytes
         /\ w = <<>> <=> a = <<>> /\ b = <<>> /\ c = <<>>
         /\ Infix(a, w) /\ Infix(b, w) /\ Infix(c, w)
<1> DEFINE w == (a \o b) \o c
<1>1. /\ w \in Bytes
      /\ Len(w) = Len(a) + Len(b) + Len(c)
      /\ \A i \in 1..Len(a) : w[i] = a[i]
      /\ \A i \in 1..Len(b) : w[Len(a) + i] = b[i]
      /\ \A i \in 1..Len(c) : w[Len(a) + Len(b) + i] = c[i]
  BY Triple DEF Bytes
<1>2. Len(a) \in Nat /\ Len(b) \in Nat /\ Len(c) \in Nat
  BY ByteParts
<1> HIDE DEF w
<1>3. \A q \in Bytes : q = <<>> <=> Len(q) = 0
  BY EmptySeq DEF Bytes
<1>4. w = <<>> <=> a = <<>> /\ b = <<>> /\ c = <<>>
  <2>1. Len(w) = 0 <=> Len(a) = 0 /\ Len(b) = 0 /\ Len(c) = 0
    BY <1>1, <1>2
  <2> QED BY <1>1, <1>3, <2>1, Zenon
<1>5. Infix(a, w)
  <2>1. 0 \in Nat /\ 0 + Len(a) <= Len(w) /\ \A i \in 1..Len(a) : a[i] = w[0 + i]
    BY <1>1, <1>2
  <2> QED BY <2>1, Zenon DEF Infix
<1>6. Infix(b, w)
  <2>1. Len(a) \in Nat /\ Len(a) + Len(b) <= Len(w) /\ \A i \in 1..Len(b) : b[i] = w[Len(a) + i]
    BY <1>1, <1>2
  <2> QED BY <2>1, Zenon DEF Infix
<1>7. Infix(c, w)
  <2> DEFINE k == Len(a) + Len(b)
  <2>1. k \in Nat /\ k + Len(c) <= Len(w) /\ \A i \in 1..Len(c) : c[i] = w[k + i]
    BY <1>1, <1>2
  <2> HIDE DEF k
  <2> QED BY <2>1, Zenon DEF Infix
<1> QED BY <1>1, <1>4, <1>5, <1>6, <1>7 DEF w

\* A byte that goes from the last part to the middle one.
LEMMA Slide ==
  ASSUME NEW a \in Bytes, NEW b \in Bytes, NEW c \in Bytes
  PROVE  c # <<>> => (a \o Append(b, Head(c))) \o Tail(c) = (a \o b) \o c
<1> DEFINE T == Token \X Tag
           x == Append(b, Head(c))
           y == Tail(c)
<1>0. a \in Seq(T) /\ b \in Seq(T) /\ c \in Seq(T)
  BY DEF Bytes
<1> HIDE DEF T, x, y
<1>1. (a \o b) \o c = a \o (b \o c)
  BY <1>0, ConcatAssociative
<1>2. ASSUME x \in Seq(T), y \in Seq(T) PROVE (a \o x) \o y = a \o (x \o y)
  BY <1>0, <1>2, ConcatAssociative, SMTT(30)
<1>3. ASSUME c # <<>> PROVE x \in Seq(T) /\ y \in Seq(T) /\ x \o y = b \o c
  BY <1>0, <1>3, MovedOne DEF x, y
<1> QED BY <1>1, <1>2, <1>3, Zenon DEF x, y

LEMMA WholeTyped ==
  TypeOK =>
         /\ Asked \in Bytes /\ Said \in Bytes
         /\ Asked = <<>> <=> sbuf = <<>> /\ down = <<>> /\ toWrite = <<>>
         /\ Said = <<>> <=> rbuf = <<>> /\ up = <<>> /\ toSay = <<>>
         /\ Infix(Asked, Asked) /\ Infix(Said, Said)
         /\ Infix(sbuf, Asked) /\ Infix(down, Asked) /\ Infix(rbuf, Said)
         /\ Infix(<<>>, Asked) /\ Infix(<<>>, Said)
<1> SUFFICES ASSUME TypeOK
             PROVE  /\ Asked \in Bytes /\ Said \in Bytes
                    /\ Asked = <<>> <=> sbuf = <<>> /\ down = <<>> /\ toWrite = <<>>
                    /\ Said = <<>> <=> rbuf = <<>> /\ up = <<>> /\ toSay = <<>>
                    /\ Infix(Asked, Asked) /\ Infix(Said, Said)
                    /\ Infix(sbuf, Asked) /\ Infix(down, Asked) /\ Infix(rbuf, Said)
                    /\ Infix(<<>>, Asked) /\ Infix(<<>>, Said)
  BY Zenon
<1>1. Buffers
  BY TypedParts
<1>2. /\ Asked \in Bytes
      /\ Asked = <<>> <=> sbuf = <<>> /\ down = <<>> /\ toWrite = <<>>
      /\ Infix(sbuf, Asked) /\ Infix(down, Asked)
  BY <1>1, Joined DEF Buffers, Asked
<1>3. /\ Said \in Bytes
      /\ Said = <<>> <=> rbuf = <<>> /\ up = <<>> /\ toSay = <<>>
      /\ Infix(rbuf, Said)
  BY <1>1, Joined DEF Buffers, Said
<1>4. \A q \in Bytes : Infix(q, q) /\ Infix(<<>>, q)
  BY SuffixCases DEF Bytes
<1> QED BY <1>2, <1>3, <1>4

\* A step that takes from the wire and puts nothing on it.
LEMMA Taken ==
  ASSUME TypeOK, TypeOK', Wire, tag' = tag,
         Infix(Asked', Asked), Infix(Said', Said),
         child' = "apply" => child = "apply" /\ toSay' = toSay /\ serving' = serving
  PROVE  /\ Wire'
         /\ Bare /\ (worker' \in {"idle", "ended"} => worker \in {"idle", "ended"}) => Bare'
<1>1. Asked \in Bytes /\ Said \in Bytes
  BY WholeTyped, Zenon
<1>2. (Asked \in Bytes /\ Said \in Bytes)'
  BY WholeTyped, PTL
<1>3. /\ Ends(Asked) => Ends(Asked')
      /\ Tagged(Asked, tag) => Tagged(Asked', tag)
      /\ Asked = <<>> => Asked' = <<>>
  BY <1>1, <1>2, InfixKeeps, Zenon
<1>4. /\ Concluded(Said) => Concluded(Said')
      /\ Quiet(Said) => Quiet(Said')
      /\ Tagged(Said, tag) => Tagged(Said', tag)
      /\ Said = <<>> => Said' = <<>>
  BY <1>1, <1>2, InfixKeeps, Zenon
<1>5. Wire'
  <2>1. Ends(Asked)' /\ Tagged(Asked, tag)' /\ Concluded(Said)' /\ Tagged(Said, tag)'
    BY <1>3, <1>4, Zenon DEF Wire, Ends, Tagged, Concluded
  <2>2. Quiet(Said) => Quiet(Said)'
    BY <1>4 DEF Quiet
  <2> QED BY <1>3, <1>4, <2>1, <2>2, Zenon DEF Wire
<1>6. ASSUME Bare, worker' \in {"idle", "ended"} => worker \in {"idle", "ended"}
      PROVE  Bare'
  BY <1>3, <1>4, <1>6, Zenon DEF Bare
<1> QED BY <1>5, <1>6

\* A child that dies leaves what it has printed and what has not been written.
LEMMA DeadTakes ==
  ASSUME TypeOK, Dies, up' = up, rbuf' \in {rbuf, <<>>}, toWrite' \in {toWrite, <<>>}
  PROVE  Infix(Asked', Asked) /\ Infix(Said', Said)
<1>1. Buffers
  BY TypedParts
<1>2. Infix(Asked', Asked)
  <2>1. Asked' = (<<>> \o <<>>) \o toWrite'
    BY DEF Asked, Dies
  <2>2. CASE toWrite' = toWrite
    BY <1>1, <2>1, <2>2, Bared DEF Buffers, Bytes, Asked
  <2>3. CASE toWrite' = <<>>
    <3>1. (<<>> \o <<>>) \o <<>> = <<>>
      OBVIOUS
    <3> QED BY <2>1, <2>3, <3>1, WholeTyped, Zenon
  <2> QED BY <2>2, <2>3
<1>3. Infix(Said', Said)
  <2>1. Suffix(rbuf', rbuf) /\ rbuf' \in Bytes
    BY <1>1, SuffixCases, Empty DEF Buffers, Bytes
  <2>2. \A e \in {toSay, <<>>} : Infix((rbuf' \o up) \o e, (rbuf \o up) \o toSay)
    BY <1>1, <2>1, Trimmed DEF Buffers, Bytes
  <2>3. Said' = (rbuf' \o up) \o <<>>
    BY DEF Said, Dies
  <2> QED BY <2>2, <2>3 DEF Said
<1> QED BY <1>2, <1>3

\* So does a worker that reads, drops its buffer or gives up what it writes.
LEMMA SpareTakes ==
  ASSUME TypeOK, Spare, toWrite' = toWrite \/ toWrite' = <<>>,
         rbuf' = rbuf \/ rbuf' = <<>> \/ (HasLine(rbuf) /\ rbuf' = AfterLine(rbuf))
  PROVE  Infix(Asked', Asked) /\ Infix(Said', Said)
<1>0. Buffers
  BY TypedParts
<1>1. rbuf' \in Bytes /\ Suffix(rbuf', rbuf)
  <2>1. Suffix(rbuf, rbuf) /\ Suffix(<<>>, rbuf) /\ rbuf \in Bytes /\ <<>> \in Bytes
    BY <1>0, SuffixCases, Empty DEF Buffers, Bytes
  <2>2. HasLine(rbuf) => AfterLine(rbuf) \in Bytes /\ Suffix(AfterLine(rbuf), rbuf)
    BY <1>0, LineIs DEF Buffers
  <2> QED BY <2>1, <2>2, Zenon
<1>2. \A e \in {toSay, <<>>} : Infix((rbuf' \o up) \o e, (rbuf \o up) \o toSay)
  BY <1>0, <1>1, Trimmed DEF Buffers, Bytes
<1>3. Said' = (rbuf' \o up) \o toSay
  BY DEF Said, Spare, serves
<1>4. \A e \in {toWrite, <<>>} : Infix((sbuf \o down) \o e, (sbuf \o down) \o toWrite)
  BY <1>0, SuffixCases, Trimmed DEF Buffers, Bytes
<1>5. Asked' = (sbuf \o down) \o toWrite'
  BY DEF Asked, Spare, serves
<1>6. Infix(Asked', Asked)
  BY <1>4, <1>5 DEF Asked
<1>7. Infix(Said', Said)
  BY <1>2, <1>3 DEF Said
<1> QED BY <1>6, <1>7

\* What a step that only takes does to the wire.
LEMMA TakesOnly ==
  ASSUME TypeOK, Control,
         \/ Write \/ Written \/ WriteFails \/ TakeLine \/ ReadMore \/ ReadFails
         \/ CloseStdin \/ Escalate \/ NextEvent \/ Emit \/ Emitted \/ TimePasses
         \/ Respawn \/ Restored \/ Crash \/ Sigterm \/ UNCHANGED vars
  PROVE  Infix(Asked', Asked) /\ Infix(Said', Said)
<1>0. Buffers
  BY TypedParts
<1> DEFINE Goal == Infix(Asked', Asked) /\ Infix(Said', Said)
<1>a. ASSUME UNCHANGED <<sbuf, down, toWrite>> PROVE Infix(Asked', Asked)
  <2>1. Asked' = Asked
    BY <1>a DEF Asked
  <2> QED BY <2>1, WholeTyped
<1>b. ASSUME UNCHANGED <<rbuf, up, toSay>> PROVE Infix(Said', Said)
  <2>1. Said' = Said
    BY <1>b DEF Said
  <2> QED BY <2>1, WholeTyped
<1>c. ASSUME UNCHANGED <<sbuf, down, toWrite>>, UNCHANGED <<rbuf, up, toSay>> PROVE Goal
  BY <1>a, <1>b, <1>c
<1>1. CASE Write
  <2>1. /\ down' = Append(down, Head(toWrite)) /\ toWrite' = Tail(toWrite) /\ toWrite # <<>>
        /\ UNCHANGED <<sbuf, rbuf, up, toSay>>
    BY <1>1 DEF Write, serves
  <2>2. (sbuf \o down') \o toWrite' = (sbuf \o down) \o toWrite
    <3>1. sbuf \in Bytes /\ down \in Bytes /\ toWrite \in Bytes
      BY <1>0 DEF Buffers
    <3> QED BY <2>1, <3>1, Slide, Zenon
  <2>3. Asked' = Asked
    BY <2>1, <2>2 DEF Asked
  <2> QED BY <1>b, <2>1, <2>3, WholeTyped
<1>2. CASE Written \/ TimePasses \/ Respawn \/ Restored \/ Sigterm \/ UNCHANGED vars
  BY <1>2, <1>c
     DEF Written, TimePasses, Respawn, Restored, Sigterm, vars, asking, pipes, serves
<1>3. CASE WriteFails
  BY <1>3, DeadTakes DEF WriteFails, Kill, End
<1>4. CASE TakeLine
  <2>1. toWrite' = toWrite /\ HasLine(rbuf)
    BY <1>4 DEF TakeLine
  <2>2. \/ rbuf' \in {AfterLine(rbuf), <<>>} /\ Spare
        \/ rbuf' = <<>> /\ Kill
    BY <1>4 DEF TakeLine, End
  <2>3. CASE rbuf' \in {AfterLine(rbuf), <<>>} /\ Spare
    <3>1. rbuf' = <<>> \/ (HasLine(rbuf) /\ rbuf' = AfterLine(rbuf))
      BY <2>1, <2>3
    <3> QED BY <2>1, <2>3, <3>1, SpareTakes, Zenon
  <2>4. CASE rbuf' = <<>> /\ Kill
    BY <2>1, <2>4, DeadTakes DEF Kill
  <2> QED BY <2>2, <2>3, <2>4
<1>5. CASE ReadMore
  <2> DEFINE n == Min({Chunk, MaxLine - Len(rbuf) + 1, Len(up)})
  <2>1. /\ Len(rbuf) =< MaxLine /\ up # <<>>
        /\ rbuf' = rbuf \o SubSeq(up, 1, n) /\ up' = SubSeq(up, n + 1, Len(up))
        /\ UNCHANGED <<toWrite, down, sbuf, toSay>>
    BY <1>5 DEF ReadMore, serves
  <2>2. n \in 1..Len(up)
    <3> DEFINE r == MaxLine - Len(rbuf) + 1
    <3>1. r \in Nat \ {0}
      <4>1. Len(rbuf) \in Nat
        BY <1>0, ByteParts DEF Buffers
      <4> QED BY <2>1, <4>1, Sizes
    <3> HIDE DEF r
    <3>2. up \in Bytes /\ up # <<>>
      BY <1>0, <2>1 DEF Buffers
    <3>3. Min({Chunk, r, Len(up)}) \in 1..Len(up)
      BY <3>1, <3>2, ReadSize
    <3> QED BY <3>3 DEF r
  <2> HIDE DEF n
  <2>3. (rbuf \o SubSeq(up, 1, n)) \o SubSeq(up, n + 1, Len(up)) = rbuf \o up
    <3>1. rbuf \in Bytes /\ up \in Bytes
      BY <1>0 DEF Buffers
    <3> QED BY <2>1, <2>2, <3>1, ReadTyped, Zenon
  <2>4. Said' = Said
    BY <2>1, <2>3 DEF Said
  <2> QED BY <1>a, <2>1, <2>4, WholeTyped
<1>6. CASE ReadFails
  <2>1. rbuf' = <<>> /\ toWrite' = toWrite /\ (Spare \/ Kill)
    BY <1>6 DEF ReadFails, End
  <2>2. CASE Kill
    BY <2>1, <2>2, DeadTakes DEF Kill
  <2>3. CASE Spare
    BY <2>1, <2>3, SpareTakes, Zenon
  <2> QED BY <2>1, <2>2, <2>3
<1>7. CASE CloseStdin
  <2>1. toWrite' = <<>> /\ rbuf' = rbuf /\ Spare
    BY <1>7, Zenon DEF CloseStdin, Spare
  <2> QED BY <2>1, SpareTakes, Zenon
<1>8. CASE Escalate
  <2>1. \/ UNCHANGED <<sbuf, down, toWrite, rbuf, up, toSay>>
        \/ Kill /\ UNCHANGED <<toWrite, rbuf>>
    <3>1. CASE worker = "drop"
      BY <1>8, <3>1 DEF Escalate
    <3>2. CASE worker # "drop"
      BY <1>8, <3>2 DEF Escalate
    <3> QED BY <3>1, <3>2
  <2>2. CASE Kill /\ UNCHANGED <<toWrite, rbuf>>
    BY <2>2, DeadTakes DEF Kill
  <2> QED BY <1>c, <2>1, <2>2
<1>9. CASE NextEvent
  <2>1. ~HasLine(sbuf) /\ UNCHANGED <<toWrite, rbuf, up>>
    BY <1>9 DEF NextEvent, asking
  <2>2. /\ Kept(sbuf) \in Bytes /\ Suffix(Kept(sbuf), sbuf)
    BY <1>0, KeptIs DEF Buffers
  <2>3. Infix((Kept(sbuf) \o down) \o toWrite, Asked)
    BY <1>0, <2>2, Trimmed DEF Buffers, Bytes, Asked
  <2>4. \A e \in {toSay, <<>>} : Infix((rbuf \o up) \o e, Said)
    BY <1>0, SuffixCases, Trimmed DEF Buffers, Bytes, Said
  <2> DEFINE n == Min({Chunk, Len(down)})
  <2>5. CASE sbuf' = Kept(sbuf) /\ down' = down /\ toSay' = <<>>
    <3>1. Asked' = (Kept(sbuf) \o down) \o toWrite /\ Said' = (rbuf \o up) \o <<>>
      BY <2>1, <2>5 DEF Asked, Said
    <3> QED BY <2>3, <2>4, <3>1
  <2>6. CASE /\ down # <<>> /\ sbuf' = Kept(sbuf) \o SubSeq(down, 1, n)
             /\ down' = SubSeq(down, n + 1, Len(down)) /\ toSay' = toSay
    <3>1. n \in 1..Len(down)
      BY <1>0, <2>6, ReadSize DEF Buffers
    <3> HIDE DEF n
    <3>2. (Kept(sbuf) \o SubSeq(down, 1, n)) \o SubSeq(down, n + 1, Len(down)) = Kept(sbuf) \o down
      <4>1. down \in Bytes
        BY <1>0 DEF Buffers
      <4> QED BY <2>2, <2>6, <3>1, <4>1, ReadTyped, Zenon
    <3>3. Asked' = (Kept(sbuf) \o down) \o toWrite /\ Said' = (rbuf \o up) \o toSay
      BY <2>1, <2>6, <3>2 DEF Asked, Said
    <3> QED BY <2>3, <2>4, <3>3
  <2> HIDE DEF n
  <2>7. \/ sbuf' = Kept(sbuf) /\ down' = down /\ toSay' = <<>>
        \/ /\ down # <<>> /\ sbuf' = Kept(sbuf) \o SubSeq(down, 1, n)
           /\ down' = SubSeq(down, n + 1, Len(down)) /\ toSay' = toSay
    BY <1>9 DEF NextEvent, Leave, n
  <2> QED BY <2>5, <2>6, <2>7
<1>10. CASE Emit
  <2>1. /\ up' = Append(up, Head(toSay)) /\ toSay' = Tail(toSay) /\ toSay # <<>>
        /\ UNCHANGED <<toWrite, rbuf, down, sbuf>>
    BY <1>10 DEF Emit, asking
  <2>2. (rbuf \o up') \o toSay' = (rbuf \o up) \o toSay
    <3>1. rbuf \in Bytes /\ up \in Bytes /\ toSay \in Bytes
      BY <1>0 DEF Buffers
    <3> QED BY <2>1, <3>1, Slide, Zenon
  <2>3. Said' = Said
    BY <2>1, <2>2 DEF Said
  <2> QED BY <1>a, <2>1, <2>3, WholeTyped
<1>11. CASE Emitted
  <2>1. up' = up /\ UNCHANGED <<rbuf, toWrite>>
        /\ (Dies \/ UNCHANGED <<sbuf, down, toSay>>)
    BY <1>11 DEF Emitted, asking
  <2>2. CASE Dies
    BY <2>1, <2>2, DeadTakes
  <2> QED BY <1>c, <2>1, <2>2
<1>12. CASE Crash
  BY <1>12, DeadTakes DEF Crash, asking
<1> QED
  BY <1>1, <1>2, <1>3, <1>4, <1>5, <1>6, <1>7, <1>8, <1>9, <1>10, <1>11, <1>12

\* A report that the worker takes is all there is on the wire, and of its request.
LEMMA Answered ==
  ASSUME TypeOK, Wire, HasLine(rbuf), rbuf[1][1] \in Reports
  PROVE  /\ AfterLine(rbuf) = <<>> /\ up = <<>> /\ toSay = <<>>
         /\ Asked = <<>> /\ child # "apply" /\ rbuf[1][2] = tag
<1> DEFINE N == Newline(rbuf)
<1>0. rbuf \in Bytes /\ up \in Bytes /\ toSay \in Bytes
  BY TypedParts DEF Buffers
<1>1. /\ N \in 1..Len(rbuf) /\ rbuf[N][1] = "nl"
      /\ AfterLine(rbuf) \in Bytes /\ Len(AfterLine(rbuf)) = Len(rbuf) - N
  BY <1>0, LineIs
<1> HIDE DEF N
<1>2. Len(rbuf) \in Nat /\ Len(up) \in Nat /\ Len(toSay) \in Nat
  BY <1>0, ByteParts
<1>3. N # 1 /\ 1 \in 1..Len(rbuf)
  BY <1>1, <1>2 DEF Reports
<1>4. /\ Said \in Bytes /\ Len(Said) = Len(rbuf) + Len(up) + Len(toSay)
      /\ \A i \in 1..Len(rbuf) : Said[i] = rbuf[i]
  BY <1>0, Triple DEF Bytes, Said
<1>5. 1 \in 1..Len(Said) /\ Said[1] = rbuf[1]
  BY <1>2, <1>3, <1>4
<1>6. 1 >= Len(Said) - 1
  BY <1>5 DEF Wire, Concluded
<1>7. Len(rbuf) - N = 0 /\ Len(up) = 0 /\ Len(toSay) = 0
  BY <1>1, <1>2, <1>3, <1>4, <1>6
<1>8. \A q \in Bytes : Len(q) = 0 => q = <<>>
  BY EmptySeq DEF Bytes
<1>9. Said # <<>>
  BY <1>2, <1>3, <1>4, Empty
<1>10. Asked = <<>> /\ child # "apply" /\ rbuf[1][2] = tag
  BY <1>5, <1>9, Zenon DEF Wire, Tagged, Quiet
<1> QED BY <1>0, <1>1, <1>7, <1>8, <1>10, Zenon

\* A line that the child reads is the whole request, and nothing has been said.
LEMMA Served ==
  ASSUME TypeOK, Wire, HasLine(sbuf)
  PROVE  /\ AfterLine(sbuf) = <<>> /\ down = <<>> /\ toWrite = <<>>
         /\ Asked # <<>> /\ Said = <<>> /\ sbuf[Newline(sbuf)][2] = tag
<1> DEFINE N == Newline(sbuf)
<1>0. sbuf \in Bytes /\ down \in Bytes /\ toWrite \in Bytes
  BY TypedParts DEF Buffers
<1>1. /\ N \in 1..Len(sbuf) /\ sbuf[N][1] = "nl"
      /\ AfterLine(sbuf) \in Bytes /\ Len(AfterLine(sbuf)) = Len(sbuf) - N
  BY <1>0, LineIs
<1> HIDE DEF N
<1>2. Len(sbuf) \in Nat /\ Len(down) \in Nat /\ Len(toWrite) \in Nat
  BY <1>0, ByteParts
<1>3. /\ Asked \in Bytes /\ Len(Asked) = Len(sbuf) + Len(down) + Len(toWrite)
      /\ \A i \in 1..Len(sbuf) : Asked[i] = sbuf[i]
  BY <1>0, Triple DEF Bytes, Asked
<1>4. N \in 1..Len(Asked) /\ Asked[N] = sbuf[N]
  BY <1>1, <1>2, <1>3
<1>5. N = Len(Asked)
  BY <1>1, <1>4 DEF Wire, Ends
<1>6. Len(sbuf) - N = 0 /\ Len(down) = 0 /\ Len(toWrite) = 0
  BY <1>1, <1>2, <1>3, <1>5
<1>7. \A q \in Bytes : Len(q) = 0 => q = <<>>
  BY EmptySeq DEF Bytes
<1>8. Asked # <<>>
  BY <1>1, <1>2, <1>5, Empty
<1>9. Said = <<>> /\ sbuf[N][2] = tag
  BY <1>4, <1>8, Zenon DEF Wire, Tagged
<1> QED BY <1>0, <1>1, <1>6, <1>7, <1>8, <1>9, Zenon DEF N

\* A report after what has been said is the last that is said.
LEMMA Reply ==
  ASSUME NEW q \in Bytes, NEW t \in Tag, Quiet(q), Tagged(q, t), NEW what \in Reports
  PROVE  LET w == q \o << <<what, t>>, <<"nl", t>> >>
         IN w \in Bytes /\ Concluded(w) /\ Tagged(w, t)
<1> DEFINE r == << <<what, t>>, <<"nl", t>> >>
           w == q \o r
<1>1. r \in Bytes
  BY SayTyped DEF Reports
<1>2. Len(r) = 2 /\ r[1] = <<what, t>> /\ r[2] = <<"nl", t>>
  OBVIOUS
<1> HIDE DEF r
<1>3. /\ w \in Bytes /\ Len(w) = Len(q) + 2 /\ Len(q) \in Nat
      /\ \A i \in 1..Len(q) + 2 : w[i] = IF i <= Len(q) THEN q[i] ELSE r[i - Len(q)]
  <2>1. /\ q \o r \in Bytes /\ Len(q \o r) = Len(q) + Len(r)
        /\ \A i \in 1..Len(q) + Len(r) :
             (q \o r)[i] = IF i <= Len(q) THEN q[i] ELSE r[i - Len(q)]
    BY <1>1, ConcatProperties DEF Bytes
  <2>2. Len(q) \in Nat
    BY ByteParts
  <2> QED BY <1>2, <2>1, <2>2
<1> HIDE DEF w
<1>4. ASSUME NEW i \in 1..Len(w)
      PROVE  \/ i \in 1..Len(q) /\ w[i] = q[i]
             \/ i = Len(w) - 1 /\ w[i] = <<what, t>>
             \/ i = Len(w) /\ w[i] = <<"nl", t>>
  <2>1. CASE i <= Len(q)
    BY <1>3, <2>1
  <2>2. CASE i = Len(q) + 1
    <3>1. i - Len(q) = 1 /\ ~(i <= Len(q)) /\ i \in 1..Len(q) + 2 /\ i = Len(w) - 1
      BY <1>3, <2>2
    <3> QED BY <1>2, <1>3, <3>1
  <2>3. CASE i = Len(q) + 2
    <3>1. i - Len(q) = 2 /\ ~(i <= Len(q)) /\ i \in 1..Len(q) + 2 /\ i = Len(w)
      BY <1>3, <2>3
    <3> QED BY <1>2, <1>3, <3>1
  <2> QED BY <1>3, <2>1, <2>2, <2>3
<1>5. w[Len(w)][1] = "nl"
  <2>1. Len(w) \in 1..Len(w) /\ ~(Len(w) \in 1..Len(q)) /\ Len(w) # Len(w) - 1
    BY <1>3
  <2> QED BY <1>4, <2>1
<1>6. Concluded(w)
  <2> SUFFICES ASSUME NEW i \in 1..Len(w), w[i][1] \in Reports
               PROVE  i >= Len(w) - 1
    BY <1>5 DEF Concluded
  <2>1. ~(i \in 1..Len(q) /\ w[i] = q[i])
    BY DEF Quiet
  <2>2. i = Len(w) - 1 \/ i = Len(w)
    BY <1>4, <2>1
  <2> QED BY <1>3, <2>2
<1>7. Tagged(w, t)
  <2> SUFFICES ASSUME NEW i \in 1..Len(w) PROVE w[i][2] = t
    BY DEF Tagged
  <2>1. CASE i \in 1..Len(q) /\ w[i] = q[i]
    BY <2>1 DEF Tagged
  <2>2. CASE w[i] = <<what, t>> \/ w[i] = <<"nl", t>>
    BY <2>2
  <2> QED BY <1>4, <2>1, <2>2
<1> QED BY <1>3, <1>6, <1>7 DEF w, r

LEMMA AppendToJoined ==
  ASSUME NEW T, NEW a \in Seq(T), NEW b \in Seq(T), NEW x \in T
  PROVE  a \o Append(b, x) = Append(a \o b, x)
<1>1. a \o b \in Seq(T) /\ <<x>> \in Seq(T)
  BY ConcatProperties
<1>2. Append(b, x) = b \o <<x>> /\ Append(a \o b, x) = (a \o b) \o <<x>>
  BY <1>1, AppendIsConcat
<1>3. (a \o b) \o <<x>> = a \o (b \o <<x>>)
  BY <1>1, ConcatAssociative
<1> QED BY <1>2, <1>3

LEMMA Printed ==
  ASSUME NEW q \in Bytes, NEW t \in Tag, Quiet(q), Tagged(q, t), NEW n \in Noise
  PROVE  LET w == Append(q, <<n, t>>)
         IN w \in Bytes /\ Quiet(w) /\ Concluded(w) /\ Tagged(w, t)
<1> DEFINE x == <<n, t>>
           w == Append(q, x)
<1>1. n \in Token /\ n \notin Reports
  BY NoiseAssumption DEF Token, Reports
<1>2. x \in Token \X Tag /\ x[1] = n /\ x[2] = t
  BY <1>1
<1> HIDE DEF x
<1>3. /\ w \in Bytes /\ Len(w) = Len(q) + 1 /\ Len(q) \in Nat
      /\ \A i \in 1..Len(q) : w[i] = q[i]
      /\ w[Len(q) + 1] = x
  BY <1>2, AppendProperties, ByteParts DEF Bytes
<1> HIDE DEF w
<1>4. ASSUME NEW i \in 1..Len(w) PROVE w[i][1] \notin Reports /\ w[i][2] = t
  <2>1. CASE i \in 1..Len(q)
    BY <1>3, <2>1 DEF Quiet, Tagged
  <2>2. CASE i = Len(q) + 1
    BY <1>1, <1>2, <1>3, <2>2
  <2> QED BY <1>3, <2>1, <2>2
<1>5. Quiet(w) /\ Concluded(w) /\ Tagged(w, t)
  BY <1>4, Zenon DEF Quiet, Concluded, Tagged
<1> QED BY <1>3, <1>5 DEF w, x

\* Who takes from the wire does not begin to apply or come to rest.
LEMMA Steady ==
  ASSUME \/ Write \/ Written \/ WriteFails \/ ReadMore \/ ReadFails
         \/ CloseStdin \/ Escalate \/ NextEvent \/ Emit \/ Emitted \/ TimePasses
         \/ Respawn \/ Restored \/ Crash \/ Sigterm \/ UNCHANGED vars
  PROVE  /\ tag' = tag /\ (got' = got \/ got' = NoTag)
         /\ child' = "apply" => child = "apply" /\ toSay' = toSay /\ serving' = serving
         /\ worker' \in {"idle", "ended"} => worker \in {"idle", "ended"}
<1> USE DEF Kill, Dies, Spare, End, Goto, Gone, Leave, asking, pipes, serves, respawn
<1>1. CASE Write
  BY <1>1 DEF Write
<1>2. CASE Written
  BY <1>2 DEF Written
<1>3. CASE WriteFails
  BY <1>3 DEF WriteFails
<1>4. CASE ReadMore
  BY <1>4 DEF ReadMore
<1>5. CASE ReadFails
  BY <1>5 DEF ReadFails
<1>6. CASE CloseStdin
  BY <1>6 DEF CloseStdin
<1>7. CASE Escalate
  BY <1>7 DEF Escalate
<1>8. CASE NextEvent
  BY <1>8 DEF NextEvent
<1>9. CASE Emit
  BY <1>9 DEF Emit
<1>10. CASE Emitted
  BY <1>10 DEF Emitted
<1>11. CASE TimePasses
  BY <1>11 DEF TimePasses
<1>12. CASE Respawn
  BY <1>12 DEF Respawn
<1>13. CASE Restored
  BY <1>13 DEF Restored
<1>14. CASE Crash
  BY <1>14 DEF Crash
<1>15. CASE Sigterm
  BY <1>15 DEF Sigterm
<1>16. CASE UNCHANGED vars
  BY <1>16 DEF vars
<1> QED
  BY <1>1, <1>2, <1>3, <1>4, <1>5, <1>6, <1>7, <1>8, <1>9, <1>10, <1>11, <1>12, <1>13, <1>14, <1>15, <1>16

LEMMA WireKept ==
  ASSUME TypeOK, TypeOK', Wire, Bare, Control, Control', Matched, [Next]_vars
  PROVE  Wire' /\ Bare' /\ Matched'
<1>0. Buffers /\ Tags
  BY TypedParts
<1>a. ASSUME \/ Write \/ Written \/ WriteFails \/ ReadMore \/ ReadFails
             \/ CloseStdin \/ Escalate \/ NextEvent \/ Emit \/ Emitted \/ TimePasses
             \/ Respawn \/ Restored \/ Crash \/ Sigterm \/ UNCHANGED vars
      PROVE  Wire' /\ Bare' /\ Matched'
  <2>1. Infix(Asked', Asked) /\ Infix(Said', Said)
    BY <1>a, TakesOnly, Zenon
  <2>2. /\ tag' = tag /\ (got' = got \/ got' = NoTag)
        /\ child' = "apply" => child = "apply" /\ toSay' = toSay /\ serving' = serving
        /\ worker' \in {"idle", "ended"} => worker \in {"idle", "ended"}
    BY <1>a, Steady, Zenon
  <2>3. Wire' /\ Bare'
    BY <2>1, <2>2, Taken, Zenon
  <2>4. Matched'
    BY <2>2 DEF Matched
  <2> QED BY <2>3, <2>4
\* A wire that is bare.
<1>b. ASSUME Asked' = <<>>, Said' = <<>>, child' # "apply" PROVE Wire' /\ Bare'
  <2>1. \A i : i \notin 1..Len(<<>>)
    BY Empty
  <2>2. Ends(<<>>) /\ Tagged(<<>>, tag') /\ Concluded(<<>>)
    BY <2>1, Zenon DEF Ends, Tagged, Concluded
  <2> QED BY <1>b, <2>2, Zenon DEF Wire, Bare, Ends, Tagged, Concluded
\* A new request on a bare wire.
<1>c. ASSUME worker = "idle", tag' = 1 - tag, got' = NoTag, worker' \notin {"idle", "ended"},
             UNCHANGED <<rbuf, down, up, sbuf, toSay, child>>,
             NEW what \in Token \ {"nl"}, NEW n \in Nat \ {0}, toWrite' = Line(what, tag', n)
      PROVE  Wire' /\ Bare' /\ Matched'
  <2>1. Asked = <<>> /\ Said = <<>> /\ child # "apply"
    BY <1>c DEF Bare
  <2>2. sbuf = <<>> /\ down = <<>> /\ Said' = Said
    BY <1>c, <2>1, WholeTyped, Zenon DEF Said
  <2>3. tag' \in Tag
    BY <1>0, <1>c DEF Tags, Tag
  <2>4. toWrite' \in Bytes /\ Ends(toWrite') /\ Tagged(toWrite', tag')
    BY <1>c, <2>3, LineOf
  <2>5. (<<>> \o <<>>) \o toWrite' = toWrite'
    BY <2>4, Bared, Empty DEF Bytes
  <2>6. Asked' = toWrite'
    BY <1>c, <2>2, <2>5 DEF Asked
  <2>7. Ends(Asked)' /\ Tagged(Asked, tag)'
    BY <2>4, <2>6 DEF Ends, Tagged
  <2>8. \A i : i \notin 1..Len(<<>>)
    BY Empty
  <2>9. Said' = <<>> /\ child' # "apply"
    BY <1>c, <2>1, <2>2
  <2>10. Concluded(Said)' /\ Tagged(Said, tag)'
    BY <2>8, <2>9, Zenon DEF Concluded, Tagged
  <2> QED BY <1>c, <2>7, <2>9, <2>10, Zenon DEF Wire, Bare, Matched
<1>1. CASE Tick
  <2>1. PICK n \in Bodies : toWrite' = Line("apply", 1 - tag, n)
    BY <1>1 DEF Tick
  <2>2. n \in Nat \ {0} /\ "apply" \in Token \ {"nl"}
    BY SizesAssumption DEF Token
  <2>3. /\ worker = "idle" /\ tag' = 1 - tag /\ got' = NoTag /\ worker' = "write"
        /\ UNCHANGED <<rbuf, down, up, sbuf, toSay, child>>
    BY <1>1 DEF Tick, Goto, pipes, serves
  <2>4. toWrite' = Line("apply", tag', n) /\ worker' \notin {"idle", "ended"}
    BY <2>1, <2>3
  <2> QED BY <1>c, <2>2, <2>3, <2>4
<1>2. CASE Dismiss
  <2>1. 1 \in Nat \ {0} /\ "shutdown" \in Token \ {"nl"}
    BY DEF Token
  <2>2. /\ worker = "idle" /\ tag' = 1 - tag /\ got' = NoTag /\ worker' = "bye"
        /\ UNCHANGED <<rbuf, down, up, sbuf, toSay, child>>
    BY <1>2 DEF Dismiss, Goto, pipes, serves
  <2>3. toWrite' = Line("shutdown", tag', 1) /\ worker' \notin {"idle", "ended"}
    BY <1>2, <2>2 DEF Dismiss
  <2> QED BY <1>c, <2>1, <2>2, <2>3
<1>3. CASE TakeLine
  <2> DEFINE kinds == {"hello", "ok", "error", "fatal"}
             said == Parse(FirstLine(rbuf), kinds)
  <2>1. HasLine(rbuf) /\ worker = "read" /\ tag' = tag /\ UNCHANGED toWrite
    BY <1>3 DEF TakeLine
  <2>2. FirstLine(rbuf)[1] = rbuf[1]
    BY <1>0, <2>1, LineIs DEF Buffers
  <2>3. said \in Reports => rbuf[1][1] \in Reports
    BY <2>2 DEF Parse, Reports
  <2> HIDE DEF said
  <2>4. /\ got' = IF said \in Reports THEN rbuf[1][2] ELSE got
        /\ \/ /\ said \in {"hello", "ok", "error"}
              /\ worker' = IF said = "hello" THEN "read" ELSE "idle"
              /\ rbuf' = AfterLine(rbuf) /\ Spare
           \/ said = "fatal" /\ worker' = "drop" /\ Spare
           \/ said = "malformed" /\ worker' = "drop" /\ Dies
    BY <1>3 DEF TakeLine, Goto, End, Kill, said, Reports
  <2>5. Infix(Asked', Asked) /\ Infix(Said', Said)
    BY <1>3, TakesOnly, Zenon
  <2>6. child' = "apply" => child = "apply" /\ toSay' = toSay /\ serving' = serving
    BY <2>4 DEF Spare, serves, Dies
  <2>7. Wire'
    BY <2>1, <2>5, <2>6, Taken, Zenon
  <2>8. Bare'
    <3>1. CASE worker' # "idle"
      <4>1. worker' \notin {"idle", "ended"}
        BY <2>4, <3>1
      <4> QED BY <4>1 DEF Bare
    <3>2. CASE worker' = "idle"
      <4>1. said \in Reports /\ rbuf' = AfterLine(rbuf) /\ Spare
        BY <2>4, <3>2 DEF Reports
      <4>2. /\ AfterLine(rbuf) = <<>> /\ up = <<>> /\ toSay = <<>>
            /\ Asked = <<>> /\ child # "apply"
        BY <2>1, <2>3, <4>1, Answered
      <4>3. Asked' = <<>> /\ child' # "apply"
        BY <2>1, <4>1, <4>2 DEF Asked, Spare, serves
      <4>4. rbuf' = <<>> /\ up' = <<>> /\ toSay' = <<>>
        BY <4>1, <4>2 DEF Spare, serves
      <4>5. Said' = <<>>
        <5>1. (<<>> \o <<>>) \o <<>> = <<>>
          OBVIOUS
        <5> QED BY <4>4, <5>1, Zenon DEF Said
      <4> QED BY <1>b, <4>3, <4>5
    <3> QED BY <3>1, <3>2
  <2>9. Matched'
    <3>1. said \in Reports => rbuf[1][2] = tag
      BY <2>1, <2>3, Answered
    <3> QED BY <2>1, <2>4, <3>1 DEF Matched
  <2> QED BY <2>7, <2>8, <2>9
<1>4. CASE Reap
  <2>1. /\ worker \in {"grace", "drop", "term"} /\ child = "gone"
        /\ up' = <<>> /\ rbuf' = <<>> /\ UNCHANGED <<tag, toWrite, got, down>> /\ UNCHANGED serves
    BY <1>4 DEF Reap, WorkerDone, Gone
  <2>2. toWrite = <<>> /\ sbuf = <<>> /\ down = <<>> /\ toSay = <<>>
    BY <2>1 DEF Control, Gone
  <2>3. (<<>> \o <<>>) \o <<>> = <<>>
    OBVIOUS
  <2>4. sbuf' = <<>> /\ toSay' = <<>> /\ child' = "gone"
    BY <2>1, <2>2 DEF serves
  <2>5. Asked' = <<>> /\ Said' = <<>> /\ child' # "apply"
    BY <2>1, <2>2, <2>3, <2>4 DEF Asked, Said
  <2> QED BY <1>b, <2>1, <2>5 DEF Matched
<1>5. CASE ServeLine
  <2> DEFINE t == sbuf[Newline(sbuf)][2]
  <2>1. /\ HasLine(sbuf) /\ sbuf' = AfterLine(sbuf) /\ serving' = t
        /\ UNCHANGED <<worker, tag, toWrite, rbuf, got, down, up>>
        /\ \/ child' = "apply" /\ toSay' = toSay
           \/ child' # "apply" /\ \E what \in Reports : toSay' = << <<what, t>>, <<"nl", t>> >>
    BY <1>5 DEF ServeLine, Say, Reports, asking, pipes
  <2>2. /\ AfterLine(sbuf) = <<>> /\ down = <<>> /\ toWrite = <<>>
        /\ Asked # <<>> /\ Said = <<>> /\ t = tag
    BY <2>1, Served
  <2> HIDE DEF t
  <2>3. Asked' = <<>>
    <3>1. (<<>> \o <<>>) \o <<>> = <<>>
      OBVIOUS
    <3> QED BY <2>1, <2>2, <3>1, Zenon DEF Asked
  <2>4. rbuf = <<>> /\ up = <<>> /\ toSay = <<>>
    BY <2>2, WholeTyped, Zenon
  <2>5. worker' \notin {"idle", "ended"}
    BY <2>1, <2>2 DEF Bare
  <2>6. \A i : i \notin 1..Len(<<>>)
    BY Empty
  <2>7. Ends(Asked)' /\ Tagged(Asked, tag)'
    BY <2>3, <2>6, Zenon DEF Ends, Tagged
  <2>8. Quiet(<<>>) /\ Tagged(<<>>, tag) /\ Concluded(<<>>)
    BY <2>6, Zenon DEF Quiet, Tagged, Concluded
  <2>9. CASE child' = "apply" /\ toSay' = toSay
    <3>1. Said' = Said
      BY <2>1, <2>9 DEF Said
    <3>2. Concluded(Said)' /\ Tagged(Said, tag)' /\ Quiet(Said)'
      BY <2>1, <2>2, <2>8, <3>1, Zenon DEF Concluded, Tagged, Quiet
    <3>3. toSay' = <<>> /\ serving' = tag'
      BY <2>1, <2>2, <2>4, <2>9
    <3>4. Wire'
      BY <2>3, <2>7, <3>2, <3>3, Zenon DEF Wire
    <3> QED BY <2>1, <2>5, <3>4 DEF Bare, Matched
  <2>10. CASE child' # "apply" /\ \E what \in Reports : toSay' = << <<what, t>>, <<"nl", t>> >>
    <3>1. PICK what \in Reports : toSay' = << <<what, tag>>, <<"nl", tag>> >>
      BY <2>2, <2>10
    <3> DEFINE w == <<>> \o << <<what, tag>>, <<"nl", tag>> >>
    <3>2. Concluded(w) /\ Tagged(w, tag)
      BY <1>0, <2>8, Reply, Empty DEF Tags
    <3>3. Said' = w
      <4>1. <<>> \o <<>> = <<>>
        OBVIOUS
      <4> HIDE DEF w
      <4>2. Said' = (<<>> \o <<>>) \o << <<what, tag>>, <<"nl", tag>> >>
        BY <2>1, <2>4, <3>1, Zenon DEF Said
      <4> QED BY <4>1, <4>2, Zenon DEF w
    <3> HIDE DEF w
    <3>4. Concluded(Said)' /\ Tagged(Said, tag)'
      BY <2>1, <3>2, <3>3, Zenon DEF Concluded, Tagged
    <3>5. Wire'
      BY <2>3, <2>7, <2>10, <3>4, Zenon DEF Wire
    <3> QED BY <2>1, <2>5, <3>5 DEF Bare, Matched
  <2> QED BY <2>1, <2>9, <2>10
<1>d. ASSUME child = "apply"
      PROVE  /\ worker \notin {"idle", "ended"} /\ Asked = <<>> /\ toSay = <<>> /\ serving = tag
             /\ Said = rbuf \o up /\ rbuf \o up \in Bytes /\ Quiet(rbuf \o up)
             /\ Tagged(rbuf \o up, tag) /\ tag \in Tag
  <2>1. worker \notin {"idle", "ended"} /\ Asked = <<>> /\ toSay = <<>> /\ serving = tag
        /\ Quiet(Said) /\ Tagged(Said, tag) /\ tag \in Tag
    BY <1>0, <1>d DEF Bare, Wire, Tags
  <2>2. rbuf \o up \in Bytes
    BY <1>0, ConcatProperties DEF Buffers, Bytes
  <2>3. (rbuf \o up) \o <<>> = rbuf \o up
    BY <2>2, ConcatEmptySeq DEF Bytes
  <2>4. Said = rbuf \o up
    BY <2>1, <2>3 DEF Said
  <2> QED BY <2>1, <2>2, <2>4, Zenon
<1>6. CASE Applied
  <2>1. /\ child = "apply" /\ child' # "apply"
        /\ \E what \in Reports : toSay' = << <<what, serving>>, <<"nl", serving>> >>
        /\ UNCHANGED <<worker, tag, toWrite, rbuf, got, down, up, sbuf>>
    BY <1>6 DEF Applied, Say, Reports, asking, pipes
  <2>2. /\ worker \notin {"idle", "ended"} /\ Asked = <<>> /\ serving = tag
        /\ rbuf \o up \in Bytes /\ Quiet(rbuf \o up) /\ Tagged(rbuf \o up, tag) /\ tag \in Tag
    BY <1>d, <2>1, Zenon
  <2>3. PICK what \in Reports : toSay' = << <<what, tag>>, <<"nl", tag>> >>
    BY <2>1, <2>2
  <2> DEFINE w == (rbuf \o up) \o << <<what, tag>>, <<"nl", tag>> >>
  <2>4. Concluded(w) /\ Tagged(w, tag)
    BY <2>2, Reply
  <2>5. Said' = w
    BY <2>1, <2>3, Zenon DEF Said
  <2> HIDE DEF w
  <2>6. Concluded(Said)' /\ Tagged(Said, tag)'
    BY <2>1, <2>4, <2>5, Zenon DEF Concluded, Tagged
  <2>7. Asked' = Asked
    BY <2>1 DEF Asked
  <2>8. Ends(Asked)' /\ Tagged(Asked, tag)'
    BY <2>1, <2>7, Zenon DEF Wire, Ends, Tagged
  <2>9. Wire'
    BY <2>1, <2>2, <2>6, <2>7, <2>8, Zenon DEF Wire
  <2> QED BY <2>1, <2>2, <2>9 DEF Bare, Matched
<1>7. CASE Prints
  <2>1. /\ child = "apply" /\ child' = child /\ toSay' = toSay /\ serving' = serving
        /\ \E n \in Noise : up' = Append(up, <<n, serving>>)
        /\ UNCHANGED <<worker, tag, toWrite, rbuf, got, down, sbuf>>
    BY <1>7 DEF Prints, asking, serves
  <2>2. /\ worker \notin {"idle", "ended"} /\ Asked = <<>> /\ serving = tag /\ toSay = <<>>
        /\ rbuf \o up \in Bytes /\ Quiet(rbuf \o up) /\ Tagged(rbuf \o up, tag) /\ tag \in Tag
    BY <1>d, <2>1, Zenon
  <2>3. PICK n \in Noise : up' = Append(up, <<n, tag>>)
    BY <2>1, <2>2
  <2> DEFINE x == <<n, tag>>
             w == Append(rbuf \o up, x)
  <2>4. w \in Bytes /\ Quiet(w) /\ Concluded(w) /\ Tagged(w, tag)
    BY <2>2, Printed
  <2>5. Said' = w
    <3>1. x \in Token \X Tag
      BY <2>2 DEF Token
    <3>2. up' = Append(up, x)
      BY <2>3
    <3> HIDE DEF x
    <3>3. rbuf \o Append(up, x) = Append(rbuf \o up, x)
      BY <1>0, <3>1, AppendToJoined DEF Buffers, Bytes
    <3>4. w \o <<>> = w
      BY <2>4, ConcatEmptySeq DEF Bytes
    <3> QED BY <2>1, <2>2, <3>2, <3>3, <3>4 DEF Said
  <2> HIDE DEF w
  <2>6. Quiet(Said)' /\ Concluded(Said)' /\ Tagged(Said, tag)'
    BY <2>1, <2>4, <2>5, Zenon DEF Quiet, Concluded, Tagged
  <2>7. Asked' = Asked
    BY <2>1 DEF Asked
  <2>8. Ends(Asked)' /\ Tagged(Asked, tag)'
    BY <2>1, <2>7, Zenon DEF Wire, Ends, Tagged
  <2>9. toSay' = <<>> /\ serving' = tag'
    BY <2>1, <2>2
  <2>10. Wire'
    BY <2>2, <2>6, <2>7, <2>8, <2>9, Zenon DEF Wire
  <2> QED BY <2>1, <2>2, <2>10 DEF Bare, Matched
<1> QED
  BY <1>a, <1>1, <1>2, <1>3, <1>4, <1>5, <1>6, <1>7 DEF Next, WorkerStep, ChildStep

-----------------------------------------------------------------------------
(* The signal and the backoff.                                             *)

LEMMA HeardKept ==
  ASSUME TypeOK, Wire, Heard, [Next]_vars
  PROVE  Heard'
<1>0. term \in BOOLEAN
  BY TypedParts DEF Flags
<1>a. ~HasLine(<<>>)
  BY DEF HasLine
<1>b. ASSUME extra' = extra, sbuf' = sbuf \/ sbuf' = <<>>, term => term',
             child' = "gone" => child = "gone"
      PROVE  Heard'
  BY <1>a, <1>b, Zenon DEF Heard, Gone
<1>c. ASSUME Dies PROVE Heard'
  BY <1>c DEF Dies, Heard
<1>d. ASSUME UNCHANGED serves PROVE Heard'
  BY <1>d DEF serves, Heard, Gone
<1>1. CASE WriteFails \/ TakeLine \/ ReadFails
  <2>1. UNCHANGED serves \/ Dies
    BY <1>1 DEF WriteFails, TakeLine, ReadFails, Kill, Spare
  <2> QED BY <1>c, <1>d, <2>1
<1>2. CASE Write \/ Written \/ ReadMore \/ CloseStdin \/ TimePasses \/ Tick \/ Dismiss
           \/ Reap \/ Prints \/ UNCHANGED vars
  <2>1. UNCHANGED serves
    BY <1>2 DEF Write, Written, ReadMore, CloseStdin, TimePasses, Tick, Dismiss, Reap, Prints, vars
  <2> QED BY <1>d, <2>1
<1>3. CASE Escalate
  <2>1. CASE worker = "drop"
    <3>1. extra' = extra /\ sbuf' = sbuf /\ term' /\ child' = child
      BY <1>3, <2>1 DEF Escalate
    <3> QED BY <1>b, <3>1, Zenon
  <2>2. CASE worker # "drop"
    BY <1>3, <1>c, <2>2 DEF Escalate, Kill
  <2> QED BY <2>1, <2>2
<1>4. CASE ServeLine
  <2>1. HasLine(sbuf) /\ sbuf' = <<>> /\ term' = term
    BY <1>4, Served DEF ServeLine
  <2>2. extra = 0
    BY <2>1 DEF Heard
  <2>3. extra' \in {0, 1} /\ (extra' = 1 => term)
    <3>1. CASE term
      BY <1>4, <2>2, <3>1 DEF ServeLine
    <3>2. CASE ~term
      BY <1>4, <2>2, <3>2 DEF ServeLine
    <3> QED BY <3>1, <3>2
  <2>4. child' # "gone"
    BY <1>4 DEF ServeLine
  <2> QED BY <1>a, <2>1, <2>3, <2>4, Zenon DEF Heard, Gone
<1>5. CASE NextEvent
  <2>1. /\ extra' = extra /\ term' = term /\ child' # "gone"
        /\ sbuf' = Kept(sbuf) \/ ~term
    BY <1>5 DEF NextEvent, Leave, Signalled
  <2>2. Kept(sbuf) = sbuf \/ Kept(sbuf) = <<>>
    BY DEF Kept
  <2>3. CASE sbuf' = Kept(sbuf)
    BY <1>b, <2>1, <2>2, <2>3, Zenon
  <2>4. CASE ~term
    BY <2>1, <2>4, Zenon DEF Heard, Gone
  <2> QED BY <2>1, <2>3, <2>4
<1>6. CASE Emit \/ Applied \/ Restored \/ Sigterm \/ Respawn
  <2>1. extra' = extra /\ sbuf' = sbuf /\ (term => term') /\ child' # "gone"
    BY <1>6 DEF Emit, Applied, Restored, Sigterm, Respawn, Gone
  <2> QED BY <1>b, <2>1, Zenon
<1>7. CASE Emitted
  <2>1. \/ Dies
        \/ extra' = extra /\ sbuf' = sbuf /\ term' = term /\ child' # "gone"
    <3>1. CASE child = "report"
      BY <1>7, <3>1 DEF Emitted
    <3>2. CASE child # "report"
      BY <1>7, <3>2 DEF Emitted
    <3> QED BY <3>1, <3>2
  <2> QED BY <1>b, <1>c, <2>1, Zenon
<1>8. CASE Crash
  BY <1>8, <1>c DEF Crash
<1> QED
  BY <1>1, <1>2, <1>3, <1>4, <1>5, <1>6, <1>7, <1>8 DEF Next, WorkerStep, ChildStep

LEMMA PacedKept ==
  ASSUME TypeOK, Paced, [Next]_vars
  PROVE  Paced'
<1>1. CASE Reap
  <2>1. /\ worker' = "ended" /\ exit' = exit /\ count' = Failures(exit)
    BY <1>1 DEF Reap, Goto
  <2>2. count \in 0..Saturate + 1
    BY TypedParts DEF Counters
  <2> QED BY <2>1, <2>2, FailuresTyped DEF Paced
<1>2. CASE UNCHANGED <<worker, exit, count>>
  BY <1>2 DEF Paced
<1>3. CASE worker' # "ended"
  BY <1>3 DEF Paced
<1>4. [Next]_vars => Reap \/ UNCHANGED <<worker, exit, count>> \/ worker' # "ended"
  <2> USE DEF End, Goto, asking, respawn
  <2>1. Write => UNCHANGED <<worker, exit, count>> \/ worker' # "ended"
    BY DEF Write
  <2>2. Written => UNCHANGED <<worker, exit, count>> \/ worker' # "ended"
    BY DEF Written
  <2>3. WriteFails => UNCHANGED <<worker, exit, count>> \/ worker' # "ended"
    BY DEF WriteFails
  <2>4. TakeLine => UNCHANGED <<worker, exit, count>> \/ worker' # "ended"
    BY DEF TakeLine
  <2>5. ReadMore => UNCHANGED <<worker, exit, count>> \/ worker' # "ended"
    BY DEF ReadMore
  <2>6. ReadFails => UNCHANGED <<worker, exit, count>> \/ worker' # "ended"
    BY DEF ReadFails
  <2>7. CloseStdin => UNCHANGED <<worker, exit, count>> \/ worker' # "ended"
    BY DEF CloseStdin
  <2>8. Escalate => UNCHANGED <<worker, exit, count>> \/ worker' # "ended"
    <3>1. CASE worker = "drop"
      BY <3>1 DEF Escalate
    <3>2. CASE worker # "drop"
      BY <3>2 DEF Escalate
    <3> QED BY <3>1, <3>2
  <2>9. ServeLine => UNCHANGED <<worker, exit, count>> \/ worker' # "ended"
    BY DEF ServeLine
  <2>10. NextEvent => UNCHANGED <<worker, exit, count>> \/ worker' # "ended"
    BY DEF NextEvent
  <2>11. Emit => UNCHANGED <<worker, exit, count>> \/ worker' # "ended"
    BY DEF Emit
  <2>12. Emitted => UNCHANGED <<worker, exit, count>> \/ worker' # "ended"
    BY DEF Emitted
  <2>13. TimePasses => UNCHANGED <<worker, exit, count>> \/ worker' # "ended"
    BY DEF TimePasses
  <2>14. Tick => UNCHANGED <<worker, exit, count>> \/ worker' # "ended"
    BY DEF Tick
  <2>15. Dismiss => UNCHANGED <<worker, exit, count>> \/ worker' # "ended"
    BY DEF Dismiss
  <2>16. Respawn => UNCHANGED <<worker, exit, count>> \/ worker' # "ended"
    BY DEF Respawn
  <2>17. Applied => UNCHANGED <<worker, exit, count>> \/ worker' # "ended"
    BY DEF Applied
  <2>18. Restored => UNCHANGED <<worker, exit, count>> \/ worker' # "ended"
    BY DEF Restored
  <2>19. Prints => UNCHANGED <<worker, exit, count>> \/ worker' # "ended"
    BY DEF Prints
  <2>20. Crash => UNCHANGED <<worker, exit, count>> \/ worker' # "ended"
    BY DEF Crash
  <2>21. Sigterm => UNCHANGED <<worker, exit, count>> \/ worker' # "ended"
    BY DEF Sigterm
  <2>22. UNCHANGED vars => UNCHANGED <<worker, exit, count>>
    BY DEF vars
  <2> QED
    BY <2>1, <2>2, <2>3, <2>4, <2>5, <2>6, <2>7, <2>8, <2>9, <2>10, <2>11, <2>12, <2>13, <2>14, <2>15, <2>16, <2>17, <2>18, <2>19, <2>20, <2>21, <2>22
       DEF Next, WorkerStep, ChildStep
<1> QED BY <1>1, <1>2, <1>3, <1>4

-----------------------------------------------------------------------------
(* The theorems.                                                           *)

LEMMA PipeInvInit == Init => PipeInv
<1> SUFFICES ASSUME Init PROVE PipeInv
  OBVIOUS
<1>1. TypeOK
  BY TypeInit
<1>2. Asked = <<>> /\ Said = <<>>
  BY <1>1, WholeTyped, Zenon DEF Init
<1>3. child = "poll" /\ worker = "idle" /\ extra = 0 /\ toWrite = <<>> /\ toSay = <<>> /\ got = NoTag
  BY DEF Init
<1>4. \A i : i \notin 1..Len(<<>>)
  BY Empty
<1>5. Ends(<<>>) /\ Tagged(<<>>, tag) /\ Concluded(<<>>)
  BY <1>4, Zenon DEF Ends, Tagged, Concluded
<1>6. Wire /\ Bare /\ Matched
  BY <1>2, <1>3, <1>5, Zenon DEF Wire, Bare, Matched
<1>7. Control /\ Heard /\ Paced
  BY <1>3 DEF Control, Heard, Paced, Gone
<1> QED BY <1>1, <1>6, <1>7 DEF PipeInv

LEMMA PipeInvKept == PipeInv /\ [Next]_vars => PipeInv'
<1> SUFFICES ASSUME PipeInv, [Next]_vars PROVE PipeInv'
  OBVIOUS
<1>1. TypeOK /\ Wire /\ Bare /\ Control /\ Matched /\ Heard /\ Paced
  BY DEF PipeInv
<1>2. TypeOK'
  BY <1>1, TypesKept
<1>3. Control'
  BY <1>1, ControlKept
<1>4. Wire' /\ Bare' /\ Matched'
  BY <1>1, <1>2, <1>3, WireKept, Zenon
<1>5. Heard' /\ Paced'
  BY <1>1, HeardKept, PacedKept, Zenon
<1> QED BY <1>2, <1>3, <1>4, <1>5 DEF PipeInv

LEMMA PipeInvariant == Spec => []PipeInv
  BY PipeInvInit, PipeInvKept, PTL DEF Spec

\* A report that is accepted answers the request last written, and what is on its
\* way to the child is of that request, for bytes split, delayed, cut or mixed
\* with whatever the device prints that is no report.
THEOREM RepliesMatch == Spec => []HalfDuplex
<1>1. PipeInv => HalfDuplex
  <2> SUFFICES ASSUME PipeInv PROVE HalfDuplex
    OBVIOUS
  <2>1. TypeOK /\ Wire /\ Bare /\ Matched
    BY DEF PipeInv
  <2>2. /\ Asked \in Bytes /\ Infix(sbuf, Asked) /\ Infix(down, Asked)
        /\ Asked = <<>> <=> sbuf = <<>> /\ down = <<>> /\ toWrite = <<>>
    BY <2>1, WholeTyped, Zenon
  <2>3. sbuf \in Bytes /\ down \in Bytes
    BY <2>1, TypedParts DEF Buffers
  <2>4. ASSUME NEW s \in Bytes, Infix(s, Asked), s \in {sbuf, down}
        PROVE  \A i \in DOMAIN s : worker # "idle" /\ s[i][2] = tag
    <3>1. Tagged(s, tag) /\ DOMAIN s = 1..Len(s)
      BY <2>1, <2>2, <2>4, InfixKeeps, ByteParts, Zenon DEF Wire
    <3>2. worker = "idle" => s = <<>>
      BY <2>1, <2>2, <2>4 DEF Bare
    <3>3. \A i : i \notin 1..Len(<<>>)
      BY Empty
    <3> QED BY <3>1, <3>2, <3>3, Zenon DEF Tagged
  <2>5. \A s \in {sbuf, down} : \A i \in DOMAIN s : worker # "idle" /\ s[i][2] = tag
    BY <2>2, <2>3, <2>4
  <2> QED BY <2>1, <2>5 DEF HalfDuplex, Matched
<1> QED BY <1>1, PipeInvariant, PTL

\* A child that a signal tells to stop begins one more apply at most.
THEOREM SignalHeard == Spec => []SignalIsHeard
<1>1. PipeInv => SignalIsHeard
  BY DEF PipeInv, Heard, SignalIsHeard
<1> QED BY <1>1, PipeInvariant, PTL

\* A respawn keeps its distance from a failure, waits for the whole cap after a
\* declared fatal and for no more than the cap after anything.
THEOREM RespawnPaced == Spec => []RespawnIsPaced
<1>1. PipeInv => RespawnIsPaced
  <2> SUFFICES ASSUME PipeInv, worker = "ended", exit # "dismissed"
               PROVE  /\ BackoffExpired => wait >= 1 /\ (exit = "fatal" => wait >= backoff)
                      /\ wait >= Max({backoff, 1}) => BackoffExpired
    BY DEF RespawnIsPaced
  <2>1. /\ backoff \in Backoffs /\ count \in 0..Saturate + 1 /\ wait \in Nat
        /\ count >= 1 /\ (exit = "fatal" => count = Saturate)
    BY TypedParts DEF PipeInv, Counters, Paced
  <2> DEFINE p == 2 ^ count
             m == Max({backoff, 1})
             d == Min({p, m})
  <2>2. p \in Nat \ {0} /\ backoff \in Nat /\ (count = Saturate => p > backoff)
    <3>1. Saturate \in Nat \ {0} /\ count \in 1..Saturate + 1
      BY <2>1, SaturateAssumption
    <3>2. p \in Nat \ {0}
      BY <3>1, SaturateAssumption
    <3>3. backoff \in Nat /\ backoff < 2 ^ Saturate
      BY <2>1, BackoffsAssumption
    <3> QED BY <3>2, <3>3
  <2> HIDE DEF p
  <2>3. m \in {backoff, 1} /\ m >= backoff /\ m >= 1
    <3>1. backoff \in Int /\ 1 \in Int
      BY <2>2
    <3> QED BY <3>1, MaxOfTwo, Zenon
  <2> HIDE DEF m
  <2>4. d \in {p, m} /\ d <= p /\ d <= m
    <3>1. p \in Int /\ m \in Int
      BY <2>2, <2>3
    <3> QED BY <3>1, MinOfTwo, Zenon
  <2> HIDE DEF d
  <2>5. BackoffExpired <=> wait >= d
    BY <2>1 DEF BackoffExpired, Delay, p, m, d
  <2> QED BY <2>1, <2>2, <2>3, <2>4, <2>5 DEF m
<1> QED BY <1>1, PipeInvariant, PTL

===============================================================================
