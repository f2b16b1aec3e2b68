--------------------------- MODULE ObserverProofs ---------------------------
(***************************************************************************)
(* What an observer is promised, for a queue and a ring of any size, reads *)
(* of any sizes, and any number of events.                                 *)
(***************************************************************************)
EXTENDS Observer, SequenceTheorems, WellFoundedInduction, TLAPS

----------------------------------------------------------------------------
(* What the queue holds: Held is a recursive function, and has a value      *)

\* What a recursive count of s is.
Counts(c, s) == c = [i \in 0..Len(s) |-> IF i = 0 THEN 0 ELSE c[i - 1] + Size(s[i])]

\* An event's size is a number.
LEMMA SizeType == ASSUME NEW e \in Events PROVE Size(e) \in Nat
<1>1. CASE e.kind = "output"
  <2>1. e \in [kind : {"output"}, ev : Nat, from : Nat, to : Nat, bytes : Seq(Nat)]
    BY <1>1 DEF Events
  <2>2. e.bytes \in Seq(Nat)
    BY <2>1
  <2> QED BY <1>1, <2>2, LenProperties DEF Size
<1>2. CASE e.kind # "output"
  BY <1>2 DEF Size
<1> QED BY <1>1, <1>2

\* Of the numbers that a set of numbers has, one is the least.
LEMMA LeastOf == ASSUME NEW S, S \subseteq Nat, S # {} PROVE \E m \in S : \A y \in S : m <= y
<1>1. PICK m \in S : \A y \in S : ~(<<y, m>> \in OpToRel(<, Nat))
  BY NatLessThanWellFounded, WFMin
<1>2. ASSUME NEW y \in S PROVE m <= y
  <2>1. <<y, m>> \in Nat \X Nat /\ ~(<<y, m>> \in OpToRel(<, Nat))
    BY <1>1
  <2>2. ~(y < m)
    BY <2>1, Zenon DEF OpToRel
  <2> QED BY <2>2
<1> QED BY <1>2

\* A count, point by point.
LEMMA CountPoints ==
    ASSUME NEW s \in Seq(Events), NEW c
    PROVE  /\ Counts(c, s) => /\ c[0] = 0
                              /\ \A i \in 1..Len(s) : c[i] = c[i - 1] + Size(s[i])
<1> SUFFICES ASSUME Counts(c, s)
             PROVE  c[0] = 0 /\ \A i \in 1..Len(s) : c[i] = c[i - 1] + Size(s[i])
  OBVIOUS
<1>1. Len(s) \in Nat
  BY LenProperties
<1>2. \A i \in 0..Len(s) : c[i] = IF i = 0 THEN 0 ELSE c[i - 1] + Size(s[i])
  BY Zenon DEF Counts
<1> QED BY <1>1, <1>2

\* Every sequence of events has a count.
LEMMA CountExists == ASSUME NEW s \in Seq(Events) PROVE \E c : Counts(c, s)
<1> DEFINE Bad == {n \in Nat : \E t \in Seq(Events) : Len(t) = n /\ ~\E c : Counts(c, t)}
<1> SUFFICES ASSUME Bad # {} PROVE FALSE
  <2>1. Len(s) \in Nat
    BY LenProperties
  <2> QED BY <2>1
<1>1. PICK n \in Bad : \A m \in Bad : n <= m
  BY LeastOf
<1>2. PICK t \in Seq(Events) : Len(t) = n /\ ~\E c : Counts(c, t)
  BY <1>1
<1>3. n # 0
  <2> SUFFICES ASSUME n = 0 PROVE FALSE
    OBVIOUS
  <2> DEFINE z == [i \in 0..0 |-> 0]
  <2>1. z = [i \in 0..Len(t) |-> IF i = 0 THEN 0 ELSE z[i - 1] + Size(t[i])]
    BY <1>2
  <2> QED BY <1>2, <2>1 DEF Counts
<1>4. n - 1 \in Nat /\ n - 1 \notin Bad
  BY <1>1, <1>3
<1> DEFINE f == SubSeq(t, 1, n - 1)
<1>5. f \in Seq(Events) /\ Len(f) = n - 1 /\ \A i \in 1..n - 1 : f[i] = t[i]
  <2>1. \A i \in 1..n - 1 : t[i] \in Events
    BY <1>2, <1>4, ElementOfSeq
  <2> QED BY <1>4, <2>1, SubSeqProperties
<1>6. PICK c : Counts(c, f)
  BY <1>4, <1>5
<1> DEFINE d == [i \in 0..n |-> IF i = n THEN c[n - 1] + Size(t[n]) ELSE c[i]]
<1>7. \A i \in 0..n : d[i] = IF i = 0 THEN 0 ELSE d[i - 1] + Size(t[i])
  <2>1. /\ c[0] = 0
        /\ \A i \in 1..Len(f) : c[i] = c[i - 1] + Size(f[i])
    BY <1>5, <1>6, CountPoints
  <2>2. d[0] = 0
    BY <1>3, <2>1
  <2>3. ASSUME NEW i \in 1..n - 1 PROVE d[i] = d[i - 1] + Size(t[i])
    <3>1. d[i] = c[i] /\ d[i - 1] = c[i - 1]
      BY <1>4
    <3> QED BY <1>5, <2>1, <3>1
  <2>4. d[n] = d[n - 1] + Size(t[n])
    BY <1>4, <1>3
  <2> HIDE DEF d
  <2>5. n \in Nat
    OBVIOUS
  <2>6. \A i \in 0..n : i = 0 \/ i \in 1..n - 1 \/ i = n
    BY <2>5
  <2> QED BY <1>3, <2>2, <2>3, <2>4, <2>6
<1>8. d = [i \in 0..Len(t) |-> IF i = 0 THEN 0 ELSE d[i - 1] + Size(t[i])]
  BY <1>2, <1>7, Zenon
<1> QED BY <1>2, <1>8 DEF Counts

\* What Held answers is the last of a count.
LEMMA HeldIsCounted ==
    ASSUME NEW s \in Seq(Events) PROVE \E c : Counts(c, s) /\ Held(s) = c[Len(s)]
<1> DEFINE c == CHOOSE c : Counts(c, s)
<1>1. Counts(c, s)
  BY CountExists
<1>2. Held(s) = c[Len(s)]
  BY DEF Held, Counts
<1> QED BY <1>1, <1>2

\* Two counts agree where their sequences do.
LEMMA CountsAgree ==
    ASSUME NEW s \in Seq(Events), NEW t \in Seq(Events), NEW c, NEW d, NEW k \in Nat,
           k <= Len(s), k <= Len(t), Counts(c, s), Counts(d, t),
           \A i \in 1..k : s[i] = t[i]
    PROVE  c[k] = d[k]
<1> DEFINE Bad == {n \in Nat : n <= k /\ c[n] # d[n]}
<1> SUFFICES ASSUME Bad # {} PROVE FALSE
  OBVIOUS
<1>1. PICK n \in Bad : \A m \in Bad : n <= m
  BY LeastOf
<1>2. /\ c[0] = 0 /\ \A i \in 1..Len(s) : c[i] = c[i - 1] + Size(s[i])
      /\ d[0] = 0 /\ \A i \in 1..Len(t) : d[i] = d[i - 1] + Size(t[i])
  BY CountPoints
<1>3. n # 0
  BY <1>1, <1>2
<1>4. n - 1 \in Nat /\ c[n - 1] = d[n - 1]
  BY <1>1, <1>3
<1>5. n \in 1..k /\ n \in 1..Len(s) /\ n \in 1..Len(t)
  BY <1>1, <1>3, LenProperties
<1>6. s[n] = t[n] /\ c[n] = c[n - 1] + Size(s[n]) /\ d[n] = d[n - 1] + Size(t[n])
  BY <1>2, <1>5
<1> QED BY <1>1, <1>4, <1>6

\* A count is a number everywhere.
LEMMA CountType ==
    ASSUME NEW s \in Seq(Events), NEW c, Counts(c, s), NEW k \in 0..Len(s)
    PROVE  c[k] \in Nat
<1> DEFINE Bad == {n \in Nat : n <= Len(s) /\ c[n] \notin Nat}
<1>0. Len(s) \in Nat
  BY LenProperties
<1> SUFFICES ASSUME Bad # {} PROVE FALSE
  BY <1>0
<1>1. PICK n \in Bad : \A m \in Bad : n <= m
  BY LeastOf
<1>2. c[0] = 0 /\ \A i \in 1..Len(s) : c[i] = c[i - 1] + Size(s[i])
  BY CountPoints
<1>3. n # 0
  BY <1>1, <1>2
<1>4. n - 1 \in Nat /\ c[n - 1] \in Nat /\ n \in 1..Len(s)
  BY <1>0, <1>1, <1>3
<1>5. Size(s[n]) \in Nat
  BY <1>4, ElementOfSeq, SizeType
<1> QED BY <1>1, <1>2, <1>4, <1>5

\* An empty queue holds nothing.
LEMMA HeldEmpty == Held(<<>>) = 0
<1>1. <<>> \in Seq(Events) /\ Len(<<>>) = 0
  BY EmptySeq
<1>2. PICK c : Counts(c, <<>>) /\ Held(<<>>) = c[0]
  BY <1>1, HeldIsCounted
<1>3. c[0] = 0
  BY <1>1, <1>2, CountPoints
<1> QED BY <1>2, <1>3

\* What a queue holds is what its events but the last hold, and the last.
LEMMA HeldSplitsLast ==
    ASSUME NEW s \in Seq(Events), NEW t \in Seq(Events), Len(t) = Len(s) + 1,
           \A i \in 1..Len(s) : t[i] = s[i]
    PROVE  Held(t) = Held(s) + Size(t[Len(t)]) /\ Held(s) \in Nat
<1>1. PICK c : Counts(c, s) /\ Held(s) = c[Len(s)]
  BY HeldIsCounted
<1>2. PICK d : Counts(d, t) /\ Held(t) = d[Len(t)]
  BY HeldIsCounted
<1>3. Len(s) \in Nat /\ Len(s) <= Len(s) /\ Len(s) <= Len(t) /\ Len(t) \in 1..Len(t)
      /\ Len(t) - 1 = Len(s) /\ Len(s) \in 0..Len(s)
  BY LenProperties
<1>4. c[Len(s)] = d[Len(s)]
  BY <1>1, <1>2, <1>3, CountsAgree
<1>5. d[Len(t)] = d[Len(t) - 1] + Size(t[Len(t)])
  BY <1>2, <1>3, CountPoints
<1>6. c[Len(s)] \in Nat
  BY <1>1, <1>3, CountType
<1> QED BY <1>1, <1>2, <1>3, <1>4, <1>5, <1>6

\* What a queue holds is what its first event holds, and the rest.
LEMMA HeldSplitsFirst ==
    ASSUME NEW s \in Seq(Events), s # <<>>
    PROVE  Held(s) = Size(Head(s)) + Held(Tail(s)) /\ Held(Tail(s)) \in Nat
<1> DEFINE t == Tail(s)
<1>1. t \in Seq(Events) /\ Len(t) = Len(s) - 1 /\ \A i \in 1..Len(t) : t[i] = s[i + 1]
  BY HeadTailProperties
<1>2. Len(s) \in Nat /\ Len(s) >= 1 /\ Head(s) = s[1] /\ Head(s) \in Events
  BY EmptySeq, LenProperties, HeadTailProperties
<1> HIDE DEF t
<1>3. PICK c : Counts(c, s) /\ Held(s) = c[Len(s)]
  BY HeldIsCounted
<1>4. /\ c[0] = 0 /\ \A i \in 1..Len(s) : c[i] = c[i - 1] + Size(s[i])
  BY <1>3, CountPoints
<1>5. \A i \in 0..Len(s) : c[i] \in Nat
  BY <1>3, CountType
<1>6. Size(Head(s)) \in Nat /\ c[1] = Size(Head(s))
  BY <1>2, <1>4, SizeType
<1> DEFINE d == [i \in 0..Len(t) |-> c[i + 1] - c[1]]
<1>7. \A i \in 0..Len(t) : d[i] = IF i = 0 THEN 0 ELSE d[i - 1] + Size(t[i])
  <2>1. d[0] = 0
    BY <1>1, <1>2, <1>5
  <2>2. ASSUME NEW i \in 1..Len(t) PROVE d[i] = d[i - 1] + Size(t[i])
    <3>1. d[i] = c[i + 1] - c[1] /\ d[i - 1] = c[i] - c[1]
      BY <1>1, <1>2
    <3>2. c[i + 1] = c[i] + Size(s[i + 1]) /\ s[i + 1] = t[i]
      BY <1>1, <1>2, <1>4
    <3>3. c[i] \in Nat /\ c[1] \in Nat /\ Size(t[i]) \in Nat
      <4>1. t[i] \in Events
        BY <1>1, ElementOfSeq
      <4> QED BY <1>1, <1>2, <1>5, <4>1, SizeType
    <3> QED BY <3>1, <3>2, <3>3
  <2> HIDE DEF d
  <2>3. \A i \in 0..Len(t) : i = 0 \/ i \in 1..Len(t)
    BY <1>1, <1>2
  <2> QED BY <2>1, <2>2, <2>3
<1>8. Counts(d, t)
  BY <1>7, Zenon DEF Counts
<1>9. PICK e : Counts(e, t) /\ Held(t) = e[Len(t)]
  BY <1>1, HeldIsCounted
<1>10. e[Len(t)] = d[Len(t)]
  <2>1. Len(t) \in Nat /\ Len(t) <= Len(t)
    BY <1>1, <1>2
  <2> HIDE DEF d
  <2> QED BY <1>1, <1>8, <1>9, <2>1, CountsAgree
<1>11. d[Len(t)] = c[Len(s)] - c[1] /\ Len(t) \in 0..Len(t) /\ c[Len(s)] \in Nat
  BY <1>1, <1>2, <1>5
<1>12. e[Len(t)] \in Nat
  BY <1>1, <1>9, <1>11, CountType
<1>13. Held(t) = c[Len(s)] - c[1] /\ Held(t) \in Nat
  BY <1>9, <1>10, <1>11, <1>12
<1>14. Held(s) = Size(Head(s)) + Held(t) /\ Held(t) \in Nat
  BY <1>3, <1>6, <1>11, <1>13
<1> QED BY <1>14 DEF t

----------------------------------------------------------------------------
(* Publishing: what each publish leaves of the queue *)

\* A queue and its count.
Sound(o) == o \in Observers /\ o.queued = Held(o.events) /\ o.queued <= ObserverBuffer

\* The events, by kind.
LEMMA EventKinds ==
    /\ \A e \in Events : e.kind = "output" =>
          e \in [kind : {"output"}, ev : Nat, from : Nat, to : Nat, bytes : Seq(Nat)]
    /\ \A e \in Events : e.kind = "gap" =>
          e \in [kind : {"gap"}, ev : Nat, evFrom : Nat, from : Nat, to : Nat]
    /\ \A e \in Events : e.ev \in Nat /\ e.kind \in {"output", "gap", "resize", "end",
         "opened"}
BY DEF Events

\* What was produced is a sequence.
LEMMA ProducedFacts ==
    ASSUME NEW a \in Nat, NEW n \in Nat
    PROVE  /\ Produced(a, n) \in Seq(Nat) /\ Len(Produced(a, n)) = n
           /\ \A i \in 1..n : Produced(a, n)[i] = a + i - 1
<1>1. Produced(a, n) \in Seq(Nat)
  <2>1. \A i \in 1..n : a + i - 1 \in Nat
    OBVIOUS
  <2> QED BY <2>1, IsASeq DEF Produced
<1>2. DOMAIN Produced(a, n) = 1..n
  BY DEF Produced
<1> QED BY <1>1, <1>2, LenProperties DEF Produced

\* Output that follows what was produced was produced.
LEMMA ProducedJoins ==
    ASSUME NEW a \in Nat, NEW n \in Nat, NEW m \in Nat
    PROVE  Produced(a, n) \o Produced(a + n, m) = Produced(a, n + m)
<1> DEFINE p == Produced(a, n)  q == Produced(a + n, m)  r == Produced(a, n + m)
<1>1. /\ p \in Seq(Nat) /\ Len(p) = n /\ \A i \in 1..n : p[i] = a + i - 1
      /\ q \in Seq(Nat) /\ Len(q) = m /\ \A i \in 1..m : q[i] = a + n + i - 1
      /\ r \in Seq(Nat) /\ Len(r) = n + m /\ \A i \in 1..n + m : r[i] = a + i - 1
  <2>1. a + n \in Nat /\ n + m \in Nat
    OBVIOUS
  <2> QED BY <2>1, ProducedFacts
<1> HIDE DEF p, q, r
<1>2. /\ p \o q \in Seq(Nat) /\ Len(p \o q) = n + m
      /\ \A i \in 1..n + m : (p \o q)[i] = IF i <= n THEN p[i] ELSE q[i - n]
  BY <1>1, ConcatProperties
<1>3. ASSUME NEW i \in 1..n + m PROVE (p \o q)[i] = r[i]
  BY <1>1, <1>2
<1>4. p \o q = r
  BY <1>1, <1>2, <1>3, SeqEqual
<1> QED BY <1>4 DEF p, q, r

\* An event that carries nothing is published.
LEMMA PublishFacts ==
    ASSUME NEW o, Sound(o), ~o.closed, NEW e \in Events, e.kind # "output"
    PROVE  LET r == Publish(o, e) IN
           /\ Sound(r) /\ ~r.closed /\ r.signal /\ r.events = Append(o.events, e)
<1> DEFINE r == Publish(o, e)
<1>1. o \in Observers /\ o.events \in Seq(Events) /\ o.queued \in Nat
  BY DEF Sound, Observers
<1>2. r = [o EXCEPT !.events = Append(o.events, e), !.signal = TRUE]
  BY DEF Publish
<1>3. r.events = Append(o.events, e) /\ r.signal /\ r.queued = o.queued /\ r.closed = o.closed
  BY <1>1, <1>2 DEF Observers
<1>4. r.events \in Seq(Events) /\ Len(r.events) = Len(o.events) + 1
      /\ r.events[Len(r.events)] = e /\ \A i \in 1..Len(o.events) : r.events[i] = o.events[i]
  BY <1>1, <1>3, AppendProperties
<1>5. r \in Observers
  BY <1>1, <1>2, <1>4 DEF Observers
<1>6. Held(r.events) = Held(o.events) + Size(e) /\ Held(o.events) \in Nat
  BY <1>1, <1>4, HeldSplitsLast
<1>7. Size(e) = 0
  BY DEF Size
<1> QED BY <1>3, <1>5, <1>6, <1>7 DEF Sound

\* A replaced last event changes what is held by what it carries more.
LEMMA HeldReplaced ==
    ASSUME NEW s \in Seq(Events), s # <<>>, NEW e \in Events
    PROVE  LET t == [s EXCEPT ![Len(s)] = e] IN
           /\ t \in Seq(Events) /\ Len(t) = Len(s) /\ t[Len(s)] = e
           /\ \A i \in 1..Len(s) - 1 : t[i] = s[i]
           /\ Held(t) = Held(s) + Size(e) - Size(s[Len(s)])
<1> DEFINE n == Len(s)  t == [s EXCEPT ![n] = e]  f == SubSeq(s, 1, n - 1)
<1>1. n \in Nat /\ n >= 1 /\ n \in 1..n /\ s[n] \in Events
  BY EmptySeq, LenProperties, ElementOfSeq
<1>2. t \in Seq(Events) /\ Len(t) = n /\ t[n] = e /\ \A i \in 1..n - 1 : t[i] = s[i]
  BY <1>1, ExceptSeq
<1>3. f \in Seq(Events) /\ Len(f) = n - 1 /\ \A i \in 1..n - 1 : f[i] = s[i]
  <2>1. \A i \in 1..n - 1 : s[i] \in Events
    BY <1>1, ElementOfSeq
  <2>2. n - 1 \in Nat
    BY <1>1
  <2> HIDE DEF n
  <2> QED BY <2>1, <2>2, SubSeqProperties
<1> HIDE DEF f, t
<1>4. Held(s) = Held(f) + Size(s[n]) /\ Held(f) \in Nat
  <2>1. Len(s) = Len(f) + 1 /\ \A i \in 1..Len(f) : s[i] = f[i]
    BY <1>1, <1>3
  <2> QED BY <1>3, <2>1, HeldSplitsLast
<1>5. Held(t) = Held(f) + Size(t[n])
  <2>1. Len(t) = Len(f) + 1 /\ \A i \in 1..Len(f) : t[i] = f[i]
    BY <1>1, <1>2, <1>3
  <2> QED BY <1>2, <1>3, <2>1, HeldSplitsLast
<1>6. Size(s[n]) \in Nat /\ Size(e) \in Nat
  BY <1>1, SizeType
<1>7. Held(t) = Held(s) + Size(e) - Size(s[n])
  BY <1>2, <1>4, <1>5, <1>6
<1> QED BY <1>2, <1>7 DEF t

\* A gap is published: it extends the last queued gap, or follows what is queued.
LEMMA PublishGapFacts ==
    ASSUME NEW o, Sound(o), ~o.closed, NEW g \in Events, g.kind = "gap"
    PROVE  LET r == PublishGap(o, g)  n == Len(o.events) IN
           /\ Sound(r) /\ ~r.closed /\ (o.signal \/ o.events = <<>> => r.signal)
           /\ r.events # <<>>
           /\ \/ r.events = Append(o.events, g)
              \/ /\ o.events # <<>>
                 /\ o.events[n].kind = "gap" /\ o.events[n].ev = g.evFrom
                 /\ r.events = [o.events EXCEPT ![n] =
                                    [o.events[n] EXCEPT !.ev = g.ev, !.to = g.to]]
<1> DEFINE r == PublishGap(o, g)  n == Len(o.events)
           joins == n > 0 /\ o.events[n].kind = "gap" /\ o.events[n].ev = g.evFrom
<1>1. o \in Observers /\ o.events \in Seq(Events) /\ o.queued \in Nat /\ n \in Nat
  BY LenProperties DEF Sound, Observers
<1>2. CASE ~joins
  <2>1. r = Publish(o, g)
    BY <1>2 DEF PublishGap
  <2>2. Append(o.events, g) # <<>>
    BY <1>1, AppendProperties
  <2> QED BY <2>1, <2>2, PublishFacts
<1>3. CASE joins
  <2> DEFINE l == o.events[n]  k == [l EXCEPT !.ev = g.ev, !.to = g.to]
  <2>1. o.events # <<>> /\ l \in Events /\ l.kind = "gap"
    BY <1>1, <1>3, EmptySeq, ElementOfSeq
  <2>2. k \in Events /\ k.kind = "gap"
    <3>1. /\ l \in [kind : {"gap"}, ev : Nat, evFrom : Nat, from : Nat, to : Nat]
          /\ g \in [kind : {"gap"}, ev : Nat, evFrom : Nat, from : Nat, to : Nat]
      BY <2>1, EventKinds
    <3>2. k \in [kind : {"gap"}, ev : Nat, evFrom : Nat, from : Nat, to : Nat]
      BY <3>1
    <3> QED BY <3>2 DEF Events
  <2>3. r = [o EXCEPT !.events[n].ev = g.ev, !.events[n].to = g.to]
    BY <1>3 DEF PublishGap
  <2>4. r = [o EXCEPT !.events = [o.events EXCEPT ![n] = k]]
    <3>1. n \in DOMAIN o.events
      BY <1>1, <1>3, LenProperties
    <3> QED BY <1>1, <2>3, <3>1 DEF Observers
  <2> DEFINE t == [o.events EXCEPT ![n] = k]
  <2>5. t \in Seq(Events) /\ Len(t) = n /\ Held(t) = Held(o.events) + Size(k) - Size(l)
    BY <1>1, <2>1, <2>2, HeldReplaced
  <2>6. Size(k) = 0 /\ Size(l) = 0
    BY <2>1, <2>2 DEF Size
  <2> HIDE DEF t
  <2>7. r = [o EXCEPT !.events = t]
    BY <2>4 DEF t
  <2>8. r.events = t /\ r.signal = o.signal /\ r.queued = o.queued /\ r.closed = o.closed
        /\ r \in Observers
    BY <1>1, <2>5, <2>7 DEF Observers
  <2>9. Sound(r)
    <3>1. Held(t) = Held(o.events)
      BY <1>1, <2>5, <2>6 DEF Sound
    <3> QED BY <2>8, <3>1 DEF Sound
  <2>10. t # <<>>
    BY <1>3, <2>5, EmptySeq
  <2> QED BY <1>3, <2>1, <2>8, <2>9, <2>10 DEF t
<1> QED BY <1>2, <1>3

\* Output is published: it is dropped for a gap, joins the last queued output, or
\* follows what is queued.
LEMMA PublishOutputFacts ==
    ASSUME NEW o, Sound(o), ~o.closed, NEW e \in Events, e.kind = "output"
    PROVE  LET r == PublishOutput(o, e)  n == Len(o.events)
               g == Gap(e.ev, e.ev + 1, e.from, e.to) IN
           /\ Sound(r) /\ ~r.closed /\ (o.signal \/ o.events = <<>> => r.signal)
           /\ r.events # <<>>
           /\ \/ r.events = Append(o.events, e)
              \/ r.events = Append(o.events, g)
              \/ /\ o.events # <<>>
                 /\ o.events[n].kind = "gap" /\ o.events[n].ev = e.ev
                 /\ r.events = [o.events EXCEPT ![n] =
                                    [o.events[n] EXCEPT !.ev = e.ev + 1, !.to = e.to]]
              \/ /\ o.events # <<>>
                 /\ o.events[n].kind = "output" /\ o.events[n].ev + 1 = e.ev
                 /\ o.events[n].to = e.from
                 /\ r.events = [o.events EXCEPT ![n] =
                                    [o.events[n] EXCEPT !.ev = e.ev, !.to = e.to,
                                                        !.bytes = o.events[n].bytes \o e.bytes]]
<1> DEFINE r == PublishOutput(o, e)  n == Len(o.events)
           g == Gap(e.ev, e.ev + 1, e.from, e.to)
<1>1. /\ o \in Observers /\ o.events \in Seq(Events) /\ o.queued \in Nat /\ n \in Nat
      /\ o.queued = Held(o.events) /\ ObserverBuffer \in Nat
  BY LenProperties, ObserverConstants DEF Sound, Observers
<1>2. /\ e \in [kind : {"output"}, ev : Nat, from : Nat, to : Nat, bytes : Seq(Nat)]
      /\ e.bytes \in Seq(Nat) /\ Len(e.bytes) \in Nat /\ Size(e) = Len(e.bytes)
  BY EventKinds, LenProperties DEF Size
<1>3. CASE o.queued + Len(e.bytes) > ObserverBuffer
  <2>1. r = PublishGap(o, g)
    BY <1>3 DEF PublishOutput
  <2>2. g \in Events /\ g.kind = "gap" /\ g.evFrom = e.ev /\ g.ev = e.ev + 1 /\ g.to = e.to
    BY <1>2 DEF Gap, Events
  <2> HIDE DEF g
  <2> DEFINE q == PublishGap(o, g)
  <2>3. /\ Sound(q) /\ ~q.closed /\ (o.signal \/ o.events = <<>> => q.signal)
        /\ q.events # <<>>
        /\ \/ q.events = Append(o.events, g)
           \/ /\ o.events # <<>>
              /\ o.events[n].kind = "gap" /\ o.events[n].ev = g.evFrom
              /\ q.events = [o.events EXCEPT ![n] =
                                 [o.events[n] EXCEPT !.ev = g.ev, !.to = g.to]]
    BY <2>2, PublishGapFacts
  <2> HIDE DEF q
  <2>4. r = q
    BY <2>1 DEF q
  <2> QED BY <2>2, <2>3, <2>4 DEF g
<1>4. CASE ~(o.queued + Len(e.bytes) > ObserverBuffer) /\ Joins(o, e)
  <2> DEFINE l == o.events[n]
             k == [l EXCEPT !.ev = e.ev, !.to = e.to, !.bytes = l.bytes \o e.bytes]
             t == [o.events EXCEPT ![n] = k]
  <2>1. o.events # <<>> /\ l \in Events /\ l.kind = "output" /\ n \in DOMAIN o.events
        /\ l.ev + 1 = e.ev /\ l.to = e.from
    BY <1>1, <1>4, EmptySeq, ElementOfSeq, LenProperties DEF Joins
  <2>2. l \in [kind : {"output"}, ev : Nat, from : Nat, to : Nat, bytes : Seq(Nat)]
    BY <2>1, EventKinds
  <2>3. l.bytes \o e.bytes \in Seq(Nat) /\ Len(l.bytes \o e.bytes) = Len(l.bytes) + Len(e.bytes)
        /\ Len(l.bytes) \in Nat
    BY <1>2, <2>2, ConcatProperties, LenProperties
  <2>4. k \in Events /\ Size(k) = Size(l) + Len(e.bytes) /\ Size(l) \in Nat
    <3>1. k \in [kind : {"output"}, ev : Nat, from : Nat, to : Nat, bytes : Seq(Nat)]
          /\ k.bytes = l.bytes \o e.bytes /\ k.kind = "output"
      BY <1>2, <2>2, <2>3
    <3>2. k \in Events
      BY <3>1 DEF Events
    <3> QED BY <2>1, <2>3, <3>1, <3>2 DEF Size
  <2> HIDE DEF k
  <2>5. t \in Seq(Events) /\ Len(t) = n /\ Held(t) = Held(o.events) + Size(k) - Size(l)
    BY <1>1, <2>1, <2>4, HeldReplaced
  <2>6. Held(t) = o.queued + Len(e.bytes)
    BY <1>1, <1>2, <2>4, <2>5
  <2>7. t # <<>>
    BY <1>4, <2>5, EmptySeq DEF Joins
  <2>8. r = [o EXCEPT !.events = t, !.queued = o.queued + Len(e.bytes), !.signal = TRUE]
    <3>1. [o EXCEPT !.events[n].ev = e.ev, !.events[n].to = e.to,
                    !.events[n].bytes = l.bytes \o e.bytes]
          = [o EXCEPT !.events = t]
      BY <1>1, <2>1, <2>2 DEF Observers, k
    <3>2. r = [[o EXCEPT !.events[n].ev = e.ev, !.events[n].to = e.to,
                         !.events[n].bytes = @ \o e.bytes]
               EXCEPT !.queued = @ + Len(e.bytes), !.signal = TRUE]
      BY <1>4 DEF PublishOutput
    <3> QED BY <1>1, <3>1, <3>2 DEF Observers
  <2> HIDE DEF t
  <2>9. r.events = t /\ r.signal /\ r.queued = o.queued + Len(e.bytes) /\ ~r.closed
        /\ r \in Observers
    <3>1. DOMAIN o = {"events", "queued", "closed", "signal"} /\ o.closed = FALSE
          /\ o.queued + Len(e.bytes) \in Nat
      BY <1>1, <1>2 DEF Observers
    <3>2. r = [events |-> t, queued |-> o.queued + Len(e.bytes), closed |-> FALSE,
               signal |-> TRUE]
      BY <1>1, <3>1, <2>8 DEF Observers
    <3> HIDE DEF r
    <3> QED BY <3>1, <3>2, <2>5 DEF Observers
  <2>10. Sound(r)
    BY <1>1, <1>2, <1>4, <2>6, <2>9 DEF Sound
  <2> QED BY <2>1, <2>7, <2>9, <2>10 DEF t, k
<1>5. CASE ~(o.queued + Len(e.bytes) > ObserverBuffer) /\ ~Joins(o, e)
  <2> DEFINE t == Append(o.events, e)
  <2>1. t \in Seq(Events) /\ t # <<>> /\ Len(t) = n + 1 /\ t[n + 1] = e
        /\ \A i \in 1..n : t[i] = o.events[i]
    BY <1>1, AppendProperties
  <2>2. r = [[o EXCEPT !.events = t] EXCEPT !.queued = @ + Len(e.bytes), !.signal = TRUE]
    BY <1>5 DEF PublishOutput
  <2> HIDE DEF t
  <2>3. Held(t) = Held(o.events) + Size(e)
    BY <1>1, <2>1, HeldSplitsLast
  <2>4. r.events = t /\ r.signal /\ r.queued = o.queued + Len(e.bytes) /\ ~r.closed
        /\ r \in Observers
    <3>1. DOMAIN o = {"events", "queued", "closed", "signal"} /\ o.closed = FALSE
          /\ o.queued + Len(e.bytes) \in Nat
      BY <1>1, <1>2 DEF Observers
    <3>2. r = [events |-> t, queued |-> o.queued + Len(e.bytes), closed |-> FALSE,
               signal |-> TRUE]
      BY <1>1, <3>1, <2>2 DEF Observers
    <3> HIDE DEF r
    <3> QED BY <3>1, <3>2, <2>1 DEF Observers
  <2>5. Sound(r)
    BY <1>1, <1>2, <1>5, <2>3, <2>4 DEF Sound
  <2> QED BY <2>1, <2>4, <2>5 DEF t
<1> QED BY <1>3, <1>4, <1>5

----------------------------------------------------------------------------
(* What an observer was told *)

\* The same, from one coordinate to the next.
LEMMA ProducedBetween ==
    ASSUME NEW a \in Nat, NEW b \in Nat, NEW c \in Nat, a < b, b < c
    PROVE  Produced(a, b - a) \o Produced(b, c - b) = Produced(a, c - a)
<1> DEFINE n == b - a  m == c - b
<1>1. n \in Nat /\ m \in Nat /\ a + n = b /\ n + m = c - a
  OBVIOUS
<1> HIDE DEF n, m
<1>2. Produced(a, n) \o Produced(a + n, m) = Produced(a, n + m)
  BY <1>1, ProducedJoins
<1> QED BY <1>1, <1>2 DEF n, m

\* s tells the session's events below q and its output below w: a gap told last that
\* ends at q is one the next output may extend, and it ends where that output begins.
Told(s, q, w) ==
    /\ s \in Seq(Events)
    /\ Covers(s, w)
    /\ Advances(s)
    /\ \A i \in 1..Len(s) : s[i].kind # "opened" =>
          IF s[i].kind = "gap" THEN s[i].ev <= q ELSE s[i].ev < q
    /\ s # <<>> /\ s[Len(s)].kind = "gap" /\ s[Len(s)].ev = q => s[Len(s)].to = w

\* t is s gone on: its events keep their places and kinds.
GoesOn(s, t) == Len(s) <= Len(t) /\ \A i \in 1..Len(s) : t[i].kind = s[i].kind

\* An event is told after all the others.
LEMMA ToldAppend ==
    ASSUME NEW s, NEW q \in Nat, NEW w \in Nat, Told(s, q, w),
           NEW e \in Events, NEW r \in Nat, NEW v \in Nat, q <= r, w <= v,
           e.kind # "opened" => First(e) >= q \/ \A i \in 1..Len(s) : s[i].kind = "opened",
           e.kind # "opened" => IF e.kind = "gap" THEN e.ev <= r ELSE e.ev < r,
           e.kind = "gap" /\ e.ev = r => e.to = v,
           IsRange(e) => e.from = w /\ e.to = v /\ w < v,
           e.kind = "output" => e.bytes = Produced(w, v - w),
           ~IsRange(e) => v = w
    PROVE  Told(Append(s, e), r, v) /\ GoesOn(s, Append(s, e))
<1> DEFINE t == Append(s, e)  n == Len(s)
<1>1. s \in Seq(Events) /\ n \in Nat
  BY LenProperties DEF Told
<1>2. t \in Seq(Events) /\ t # <<>> /\ Len(t) = n + 1 /\ t[n + 1] = e
      /\ \A i \in 1..n : t[i] = s[i]
  BY <1>1, AppendProperties
<1>3. \A i \in 1..n : s[i] \in Events
  BY <1>1, ElementOfSeq
<1> HIDE DEF t
<1>4. \A i \in 1..n + 1 : i \in 1..n \/ i = n + 1
  BY <1>1
<1>5. \A i \in 1..n : IsRange(s[i]) => s[i].to <= w /\ s[i].to \in Nat /\ s[i].from \in Nat
  BY <1>3, EventKinds DEF Told, Covers, IsRange
<1>6. Covers(t, v)
  <2>1. ASSUME NEW i \in 1..n + 1, IsRange(t[i])
        PROVE  /\ t[i].from < t[i].to /\ t[i].to <= v
               /\ t[i].kind = "output" => t[i].bytes = Produced(t[i].from, t[i].to - t[i].from)
    <3>1. CASE i \in 1..n
      BY <1>2, <1>5, <2>1, <3>1 DEF Told, Covers
    <3>2. CASE i = n + 1
      BY <1>2, <2>1, <3>2
    <3> QED BY <1>4, <3>1, <3>2
  <2>2. ASSUME NEW i \in 1..n + 1, NEW j \in 1..n + 1, i < j, IsRange(t[i]), IsRange(t[j])
        PROVE  t[i].to <= t[j].from
    <3>1. i \in 1..n /\ t[i] = s[i]
      BY <1>1, <1>2, <2>2
    <3>2. CASE j \in 1..n
      BY <1>2, <2>2, <3>1, <3>2 DEF Told, Covers
    <3>3. CASE j = n + 1
      BY <1>2, <1>5, <2>2, <3>1, <3>3
    <3> QED BY <1>4, <3>2, <3>3
  <2>3. ASSUME NEW p \in 0..v - 1
        PROVE  \E i \in 1..n + 1 : IsRange(t[i]) /\ t[i].from <= p /\ p < t[i].to
    <3>1. CASE p < w
      <4>1. PICK i \in 1..n : IsRange(s[i]) /\ s[i].from <= p /\ p < s[i].to
        BY <3>1 DEF Told, Covers
      <4> QED BY <1>1, <1>2, <4>1
    <3>2. CASE ~(p < w)
      <4>1. IsRange(e)
        BY <3>2
      <4> QED BY <1>1, <1>2, <3>2, <4>1
    <3> QED BY <3>1, <3>2
  <2> QED BY <1>2, <2>1, <2>2, <2>3 DEF Covers
<1>7. Advances(t)
  <2>1. ASSUME NEW i \in 1..n + 1, NEW j \in 1..n + 1, i < j, t[i].kind # "opened",
               t[j].kind # "opened"
        PROVE  IF t[i].kind = "gap" THEN First(t[j]) >= t[i].ev ELSE First(t[j]) > t[i].ev
    <3>1. i \in 1..n /\ t[i] = s[i]
      BY <1>1, <1>2, <2>1
    <3>2. CASE j \in 1..n
      BY <1>2, <2>1, <3>1, <3>2 DEF Told, Advances
    <3>3. CASE j = n + 1
      <4>1. First(e) >= q /\ First(e) \in Nat
        BY <1>2, <2>1, <3>1, <3>3, EventKinds DEF First
      <4>2. s[i].ev \in Nat /\ IF s[i].kind = "gap" THEN s[i].ev <= q ELSE s[i].ev < q
        BY <1>3, <2>1, <3>1, EventKinds DEF Told
      <4> QED BY <1>2, <3>1, <3>3, <4>1, <4>2
    <3> QED BY <1>4, <3>2, <3>3
  <2> QED BY <1>2, <2>1 DEF Advances
<1>8. ASSUME NEW i \in 1..n + 1, t[i].kind # "opened"
      PROVE  IF t[i].kind = "gap" THEN t[i].ev <= r ELSE t[i].ev < r
  <2>1. CASE i \in 1..n
    <3>1. s[i].ev \in Nat /\ IF s[i].kind = "gap" THEN s[i].ev <= q ELSE s[i].ev < q
      BY <1>2, <1>3, <1>8, <2>1, EventKinds DEF Told
    <3> QED BY <1>2, <2>1, <3>1
  <2>2. CASE i = n + 1
    BY <1>2, <1>8, <2>2
  <2> QED BY <1>4, <2>1, <2>2
<1>9. Told(t, r, v)
  BY <1>2, <1>6, <1>7, <1>8 DEF Told
<1>10. GoesOn(s, t)
  BY <1>1, <1>2 DEF GoesOn
<1> QED BY <1>9, <1>10 DEF t

\* The last range told is extended by the output that follows it.
LEMMA ToldExtend ==
    ASSUME NEW s, NEW q \in Nat, NEW w \in Nat, Told(s, q, w), s # <<>>,
           NEW e \in Events, NEW v \in Nat, w < v,
           NEW t \in Seq(Events), Len(t) = Len(s), t[Len(s)] = e,
           \A i \in 1..Len(s) - 1 : t[i] = s[i],
           e.kind = s[Len(s)].kind, IsRange(e), s[Len(s)].to = w,
           e.from = s[Len(s)].from, e.to = v, First(e) >= First(s[Len(s)]),
           e.kind = "gap" => e.ev <= q + 1,
           e.kind = "output" =>
               e.ev < q + 1 /\ e.bytes = s[Len(s)].bytes \o Produced(w, v - w)
    PROVE  Told(t, q + 1, v) /\ GoesOn(s, t)
<1> DEFINE n == Len(s)  l == s[n]
<1>1. s \in Seq(Events) /\ n \in Nat /\ n >= 1 /\ n \in 1..n /\ t # <<>>
  BY LenProperties, EmptySeq DEF Told
<1>2. \A i \in 1..n : s[i] \in Events
  BY <1>1, ElementOfSeq
<1> HIDE DEF n
<1>3. Len(t) = n /\ t[n] = e /\ \A i \in 1..n - 1 : t[i] = s[i]
  BY DEF n
<1>4. \A i \in 1..n : i \in 1..n - 1 \/ i = n
  BY <1>1
<1>5. \A i \in 1..n : IsRange(s[i]) => s[i].to <= w /\ s[i].to \in Nat /\ s[i].from \in Nat
  BY <1>2, EventKinds DEF Told, Covers, IsRange, n
<1>6. /\ l \in Events /\ l.kind = e.kind /\ IsRange(l) /\ l.to = w /\ l.from = e.from
      /\ l.from < w /\ l.from \in Nat /\ First(e) >= First(l)
  BY <1>1, <1>2, <1>5 DEF n, IsRange, Told, Covers
<1>7. Covers(t, v)
  <2>1. ASSUME NEW i \in 1..n, IsRange(t[i])
        PROVE  /\ t[i].from < t[i].to /\ t[i].to <= v
               /\ t[i].kind = "output" => t[i].bytes = Produced(t[i].from, t[i].to - t[i].from)
    <3>1. CASE i \in 1..n - 1
      <4>1. t[i] = s[i] /\ IsRange(s[i]) /\ s[i].to <= w /\ s[i].to \in Nat
        BY <1>3, <1>5, <2>1, <3>1
      <4> QED BY <4>1 DEF Told, Covers, n
    <3>2. CASE i = n
      <4>1. t[i].from < t[i].to /\ t[i].to <= v
        BY <1>3, <1>6, <3>2
      <4>2. ASSUME e.kind = "output" PROVE e.bytes = Produced(e.from, v - e.from)
        <5>1. s[n].kind = "output" => s[n].bytes = Produced(s[n].from, s[n].to - s[n].from)
          BY <1>1, <1>6 DEF Told, Covers, n
        <5>2. l.bytes = Produced(l.from, w - l.from)
          BY <1>6, <4>2, <5>1
        <5>3. e.bytes = l.bytes \o Produced(w, v - w)
          BY <4>2 DEF n
        <5>4. Produced(l.from, w - l.from) \o Produced(w, v - w) = Produced(l.from, v - l.from)
          BY <1>6, ProducedBetween
        <5> QED BY <1>6, <5>2, <5>3, <5>4
      <4> QED BY <1>3, <3>2, <4>1, <4>2
    <3> QED BY <1>4, <3>1, <3>2
  <2>2. ASSUME NEW i \in 1..n, NEW j \in 1..n, i < j, IsRange(t[i]), IsRange(t[j])
        PROVE  t[i].to <= t[j].from
    <3>1. i \in 1..n - 1 /\ t[i] = s[i]
      BY <1>1, <1>3, <2>2
    <3>2. CASE j \in 1..n - 1
      BY <1>3, <2>2, <3>1, <3>2 DEF Told, Covers, n
    <3>3. CASE j = n
      <4>1. s[i].to <= l.from
        BY <1>1, <1>6, <2>2, <3>1, <3>3 DEF Told, Covers, n
      <4> QED BY <1>3, <1>6, <3>1, <3>3, <4>1
    <3> QED BY <1>4, <3>2, <3>3
  <2>3. ASSUME NEW p \in 0..v - 1
        PROVE  \E i \in 1..n : IsRange(t[i]) /\ t[i].from <= p /\ p < t[i].to
    <3>1. CASE p < w
      <4>1. PICK i \in 1..n : IsRange(s[i]) /\ s[i].from <= p /\ p < s[i].to
        BY <3>1 DEF Told, Covers, n
      <4>2. CASE i \in 1..n - 1
        BY <1>3, <4>1, <4>2
      <4>3. CASE i = n
        <5>1. l.from <= p /\ p < v
          BY <3>1, <4>1, <4>3
        <5> QED BY <1>1, <1>3, <1>6, <5>1
      <4> QED BY <1>4, <4>2, <4>3
    <3>2. CASE ~(p < w)
      BY <1>1, <1>3, <1>6, <3>2
    <3> QED BY <3>1, <3>2
  <2> QED BY <1>3, <2>1, <2>2, <2>3 DEF Covers
<1>8. Advances(t)
  <2>1. ASSUME NEW i \in 1..n, NEW j \in 1..n, i < j, t[i].kind # "opened",
               t[j].kind # "opened"
        PROVE  IF t[i].kind = "gap" THEN First(t[j]) >= t[i].ev ELSE First(t[j]) > t[i].ev
    <3>1. i \in 1..n - 1 /\ t[i] = s[i] /\ s[i] \in Events /\ s[i].ev \in Nat
      BY <1>1, <1>2, <1>3, <2>1, EventKinds
    <3>2. CASE j \in 1..n - 1
      BY <1>3, <2>1, <3>1, <3>2 DEF Told, Advances, n
    <3>3. CASE j = n
      <4>1. IF s[i].kind = "gap" THEN First(l) >= s[i].ev ELSE First(l) > s[i].ev
        BY <1>1, <1>6, <2>1, <3>1, <3>3 DEF Told, Advances, n, IsRange
      <4>2. First(e) \in Nat /\ First(l) \in Nat
        BY <1>6, EventKinds DEF First
      <4> QED BY <1>3, <1>6, <3>1, <3>3, <4>1, <4>2
    <3> QED BY <1>4, <3>2, <3>3
  <2> QED BY <1>3, <2>1 DEF Advances
<1>9. ASSUME NEW i \in 1..n, t[i].kind # "opened"
      PROVE  IF t[i].kind = "gap" THEN t[i].ev <= q + 1 ELSE t[i].ev < q + 1
  <2>1. CASE i \in 1..n - 1
    <3>1. s[i].ev \in Nat /\ IF s[i].kind = "gap" THEN s[i].ev <= q ELSE s[i].ev < q
      BY <1>2, <1>3, <1>9, <2>1, EventKinds DEF Told, n
    <3> QED BY <1>3, <2>1, <3>1
  <2>2. CASE i = n
    BY <1>3, <2>2 DEF IsRange
  <2> QED BY <1>4, <2>1, <2>2
<1>10. Told(t, q + 1, v)
  BY <1>1, <1>3, <1>7, <1>8, <1>9 DEF Told
<1>11. GoesOn(s, t)
  <2>1. \A i \in 1..n : t[i].kind = s[i].kind
    BY <1>3, <1>4, <1>6
  <2> QED BY <1>1, <1>3, <2>1 DEF GoesOn, n
<1> QED BY <1>10, <1>11

\* An event number passes without being told.
LEMMA ToldSkips ==
    ASSUME NEW s, NEW q \in Nat, NEW w \in Nat, Told(s, q, w) PROVE Told(s, q + 1, w)
<1>1. s \in Seq(Events) /\ \A i \in 1..Len(s) : s[i] \in Events
  BY ElementOfSeq DEF Told
<1>2. ASSUME NEW i \in 1..Len(s), s[i].kind # "opened"
      PROVE  IF s[i].kind = "gap" THEN s[i].ev < q + 1 ELSE s[i].ev < q + 1
  BY <1>1, <1>2, EventKinds DEF Told
<1>3. s # <<>> => Len(s) \in 1..Len(s)
  BY <1>1, EmptySeq
<1>4. ASSUME NEW i \in 1..Len(s), s[i].kind # "opened"
      PROVE  IF s[i].kind = "gap" THEN s[i].ev <= q + 1 ELSE s[i].ev < q + 1
  BY <1>1, <1>4, EventKinds DEF Told
<1>5. ~(s # <<>> /\ s[Len(s)].kind = "gap" /\ s[Len(s)].ev = q + 1)
  BY <1>2, <1>3
<1> QED BY <1>1, <1>4, <1>5 DEF Told

\* What was taken stays in front of what is queued.
LEMMA StreamAppend ==
    ASSUME NEW T \in Seq(Events), NEW s \in Seq(Events), NEW e \in Events
    PROVE  T \o Append(s, e) = Append(T \o s, e) /\ T \o s \in Seq(Events)
<1>1. Append(s, e) = s \o <<e>> /\ <<e>> \in Seq(Events)
  BY AppendIsConcat
<1>2. T \o s \in Seq(Events)
  BY ConcatProperties
<1>3. Append(T \o s, e) = (T \o s) \o <<e>>
  BY <1>2, AppendIsConcat
<1> QED BY <1>1, <1>2, <1>3, ConcatAssociative

\* The last event queued is the last of the stream.
LEMMA StreamReplace ==
    ASSUME NEW T \in Seq(Events), NEW s \in Seq(Events), s # <<>>, NEW e \in Events
    PROVE  LET n == Len(s)  u == T \o s  t == T \o [s EXCEPT ![n] = e] IN
           /\ u \in Seq(Events) /\ u # <<>> /\ u[Len(u)] = s[n]
           /\ t \in Seq(Events) /\ Len(t) = Len(u) /\ t[Len(u)] = e
           /\ \A i \in 1..Len(u) - 1 : t[i] = u[i]
<1> DEFINE n == Len(s)  x == [s EXCEPT ![n] = e]  u == T \o s  t == T \o x  k == Len(T)
<1>1. n \in Nat /\ n >= 1 /\ n \in 1..n /\ k \in Nat
  BY EmptySeq, LenProperties
<1>2. x \in Seq(Events) /\ Len(x) = n /\ x[n] = e /\ \A i \in 1..n - 1 : x[i] = s[i]
  BY <1>1, ExceptSeq
<1>0. n = Len(s) /\ k = Len(T)
  OBVIOUS
<1> HIDE DEF x, n, k
<1>3. /\ u \in Seq(Events) /\ Len(u) = k + n
      /\ \A i \in 1..k + n : u[i] = IF i <= k THEN T[i] ELSE s[i - k]
  BY <1>0, ConcatProperties
<1>4. /\ t \in Seq(Events) /\ Len(t) = k + n
      /\ \A i \in 1..k + n : t[i] = IF i <= k THEN T[i] ELSE x[i - k]
  <2>1. /\ T \o x \in Seq(Events) /\ Len(T \o x) = Len(T) + Len(x)
        /\ \A i \in 1..Len(T) + Len(x) :
              (T \o x)[i] = IF i <= Len(T) THEN T[i] ELSE x[i - Len(T)]
    BY <1>2, ConcatProperties
  <2> QED BY <1>0, <1>2, <2>1
<1> HIDE DEF u, t
<1>5. k + n \in 1..k + n /\ ~(k + n <= k) /\ (k + n) - k = n
  BY <1>1
<1>6. u # <<>> /\ u[k + n] = s[n] /\ t[k + n] = e
  <2>1. u # <<>>
    BY <1>1, <1>3, EmptySeq
  <2>2. u[k + n] = s[(k + n) - k] /\ t[k + n] = x[(k + n) - k]
    BY <1>3, <1>4, <1>5
  <2> QED BY <1>2, <1>5, <2>1, <2>2
<1>7. ASSUME NEW i \in 1..(k + n) - 1 PROVE t[i] = u[i]
  <2>1. i \in 1..k + n
    BY <1>1
  <2>2. CASE i <= k
    BY <1>3, <1>4, <2>1, <2>2
  <2>3. CASE ~(i <= k)
    <3>1. u[i] = s[i - k] /\ t[i] = x[i - k]
      BY <1>3, <1>4, <2>1, <2>3
    <3>2. i - k \in 1..n - 1
      BY <1>1, <2>3
    <3> QED BY <1>2, <3>1, <3>2
  <2> QED BY <2>2, <2>3
<1>8. /\ u \in Seq(Events) /\ u # <<>> /\ u[Len(u)] = s[n]
      /\ t \in Seq(Events) /\ Len(t) = Len(u) /\ t[Len(u)] = e
      /\ \A i \in 1..Len(u) - 1 : t[i] = u[i]
  BY <1>3, <1>4, <1>6, <1>7
<1> QED BY <1>8 DEF x, u, t, n

\* The next output, published to an observer that was told all before it.
LEMMA OutputIsTold ==
    ASSUME NEW T \in Seq(Events), NEW o, Sound(o), ~o.closed,
           NEW q \in Nat, NEW w \in Nat, NEW n \in Nat \ {0}, Told(T \o o.events, q, w)
    PROVE  LET r == PublishOutput(o, Output(q, w, Produced(w, n))) IN
           /\ Sound(r) /\ ~r.closed /\ (o.signal \/ o.events = <<>> => r.signal)
           /\ r.events # <<>>
           /\ Told(T \o r.events, q + 1, w + n)
           /\ GoesOn(T \o o.events, T \o r.events)
<1> DEFINE e == Output(q, w, Produced(w, n))
           r == PublishOutput(o, e)
           s == o.events  m == Len(s)  u == T \o s  t == T \o r.events
           g == Gap(q, q + 1, w, w + n)
<1>1. o \in Observers /\ s \in Seq(Events) /\ q + 1 \in Nat /\ w + n \in Nat
      /\ w < w + n /\ q <= q + 1 /\ w <= w + n /\ (w + n) - w = n
  BY DEF Sound, Observers
<1>2. /\ e \in Events /\ e.kind = "output" /\ e.ev = q /\ e.from = w /\ e.to = w + n
      /\ e.bytes = Produced(w, n) /\ IsRange(e) /\ First(e) = q
  <2>1. Produced(w, n) \in Seq(Nat) /\ Len(Produced(w, n)) = n
    BY ProducedFacts
  <2> QED BY <1>1, <2>1 DEF Output, Events, IsRange, First
<1>3. /\ g \in Events /\ g.kind = "gap" /\ g.ev = q + 1 /\ g.evFrom = q /\ g.from = w
      /\ g.to = w + n /\ IsRange(g) /\ First(g) = q /\ g = Gap(e.ev, e.ev + 1, e.from, e.to)
  BY <1>1, <1>2 DEF Gap, Events, IsRange, First
<1> HIDE DEF e, g
<1>a. LET h == Gap(e.ev, e.ev + 1, e.from, e.to) IN
      /\ Sound(r) /\ ~r.closed /\ (o.signal \/ o.events = <<>> => r.signal)
      /\ r.events # <<>>
      /\ \/ r.events = Append(o.events, e)
         \/ r.events = Append(o.events, h)
         \/ /\ o.events # <<>>
            /\ o.events[m].kind = "gap" /\ o.events[m].ev = e.ev
            /\ r.events = [o.events EXCEPT ![m] =
                               [o.events[m] EXCEPT !.ev = e.ev + 1, !.to = e.to]]
         \/ /\ o.events # <<>>
            /\ o.events[m].kind = "output" /\ o.events[m].ev + 1 = e.ev
            /\ o.events[m].to = e.from
            /\ r.events = [o.events EXCEPT ![m] =
                               [o.events[m] EXCEPT !.ev = e.ev, !.to = e.to,
                                                   !.bytes = o.events[m].bytes \o e.bytes]]
  BY <1>2, PublishOutputFacts
<1> HIDE DEF r
<1>4. /\ Sound(r) /\ ~r.closed /\ (o.signal \/ o.events = <<>> => r.signal)
      /\ r.events # <<>>
      /\ \/ r.events = Append(s, e)
         \/ r.events = Append(s, g)
         \/ /\ s # <<>>
            /\ s[m].kind = "gap" /\ s[m].ev = q
            /\ r.events = [s EXCEPT ![m] = [s[m] EXCEPT !.ev = q + 1, !.to = w + n]]
         \/ /\ s # <<>>
            /\ s[m].kind = "output" /\ s[m].ev + 1 = q /\ s[m].to = w
            /\ r.events = [s EXCEPT ![m] =
                              [s[m] EXCEPT !.ev = q, !.to = w + n,
                                           !.bytes = s[m].bytes \o Produced(w, n)]]
  BY <1>2, <1>3, <1>a
<1> HIDE DEF r, s, u
<1>u. Told(u, q, w)
  BY DEF u, s
<1>5. ASSUME NEW f \in {e, g}, r.events = Append(s, f)
      PROVE  Told(t, q + 1, w + n) /\ GoesOn(u, t)
  <2>1. t = Append(u, f)
    BY <1>1, <1>2, <1>3, <1>5, StreamAppend DEF u
  <2>2. /\ f \in Events /\ f.kind # "opened" /\ First(f) >= q /\ IsRange(f)
        /\ f.from = w /\ f.to = w + n
        /\ IF f.kind = "gap" THEN f.ev <= q + 1 ELSE f.ev < q + 1
        /\ f.kind = "output" => f.bytes = Produced(w, (w + n) - w)
    BY <1>1, <1>2, <1>3
  <2> DEFINE v == w + n
  <2>3. v = w + n /\ v \in Nat /\ w < v /\ w <= v
    BY <1>1
  <2> HIDE DEF v
  <2>4. /\ f.kind # "opened" => First(f) >= q \/ \A i \in 1..Len(u) : u[i].kind = "opened"
        /\ f.kind # "opened" => IF f.kind = "gap" THEN f.ev <= q + 1 ELSE f.ev < q + 1
        /\ f.kind = "gap" /\ f.ev = q + 1 => f.to = v
        /\ IsRange(f) => f.from = w /\ f.to = v /\ w < v
        /\ f.kind = "output" => f.bytes = Produced(w, v - w)
        /\ ~IsRange(f) => v = w
    BY <2>2, <2>3
  <2>5. Told(Append(u, f), q + 1, v) /\ GoesOn(u, Append(u, f))
    BY <1>u, <1>1, <2>2, <2>3, <2>4, ToldAppend
  <2> QED BY <2>1, <2>3, <2>5
<1>6. ASSUME NEW k \in Events, s # <<>>, r.events = [s EXCEPT ![m] = k],
             s[m].to = w, k.kind = s[m].kind, k.from = s[m].from, k.to = w + n,
             IsRange(k), First(k) >= First(s[m]),
             k.kind = "gap" => k.ev <= q + 1,
             k.kind = "output" => k.ev < q + 1 /\ k.bytes = s[m].bytes \o Produced(w, n)
      PROVE  Told(t, q + 1, w + n) /\ GoesOn(u, t)
  <2>1. /\ u # <<>> /\ u[Len(u)] = s[m]
        /\ t \in Seq(Events) /\ Len(t) = Len(u) /\ t[Len(u)] = k
        /\ \A i \in 1..Len(u) - 1 : t[i] = u[i]
    BY <1>1, <1>6, StreamReplace DEF u
  <2> HIDE DEF t
  <2>2. k.kind = "output" =>
            k.ev < q + 1 /\ k.bytes = u[Len(u)].bytes \o Produced(w, (w + n) - w)
    BY <1>1, <1>6, <2>1
  <2> DEFINE v == w + n
  <2>3. v = w + n /\ v \in Nat /\ w < v
    BY <1>1
  <2> HIDE DEF v
  <2>4. /\ k.kind = u[Len(u)].kind /\ IsRange(k) /\ u[Len(u)].to = w
        /\ k.from = u[Len(u)].from /\ k.to = v /\ First(k) >= First(u[Len(u)])
        /\ k.kind = "gap" => k.ev <= q + 1
        /\ k.kind = "output" =>
               k.ev < q + 1 /\ k.bytes = u[Len(u)].bytes \o Produced(w, v - w)
    BY <1>6, <2>1, <2>2, <2>3
  <2>5. Told(t, q + 1, v) /\ GoesOn(u, t)
    <3>1. Len(t) = Len(u) /\ t \in Seq(Events) /\ u # <<>> /\ t[Len(u)] = k
          /\ \A i \in 1..Len(u) - 1 : t[i] = u[i]
      BY <2>1
    <3> QED BY <1>u, <2>3, <2>4, <3>1, ToldExtend, ZenonT(60)
  <2> QED BY <2>3, <2>5
<1>7. ASSUME s # <<>>, s[m].kind = "gap", s[m].ev = q,
             r.events = [s EXCEPT ![m] = [s[m] EXCEPT !.ev = q + 1, !.to = w + n]]
      PROVE  Told(t, q + 1, w + n) /\ GoesOn(u, t)
  <2> DEFINE k == [s[m] EXCEPT !.ev = q + 1, !.to = w + n]
  <2>1. s[m] \in [kind : {"gap"}, ev : Nat, evFrom : Nat, from : Nat, to : Nat]
    <3>1. m \in 1..Len(s)
      BY <1>1, <1>7, EmptySeq
    <3> QED BY <1>1, <1>7, <3>1, ElementOfSeq, EventKinds
  <2>2. k \in [kind : {"gap"}, ev : Nat, evFrom : Nat, from : Nat, to : Nat]
        /\ k.kind = "gap" /\ k.from = s[m].from /\ k.to = w + n /\ k.ev = q + 1
        /\ k.evFrom = s[m].evFrom
    BY <1>1, <2>1
  <2>3. k \in Events
    BY <2>2 DEF Events
  <2>4. s[m].to = w
    <3>1. u # <<>> /\ u[Len(u)] = s[m]
      BY <1>1, <1>7, <1>2, StreamReplace DEF u
    <3> QED BY <1>u, <1>7, <3>1 DEF Told
  <2>5. IsRange(k) /\ First(k) >= First(s[m])
    BY <1>7, <2>1, <2>2 DEF IsRange, First
  <2>6. r.events = [s EXCEPT ![m] = k]
    BY <1>7
  <2> HIDE DEF k
  <2>7. k.ev <= q + 1 /\ k.kind = s[m].kind
    BY <1>1, <1>7, <2>2
  <2> QED BY <1>6, <1>7, <2>2, <2>3, <2>4, <2>5, <2>6, <2>7
<1>8. ASSUME s # <<>>, s[m].kind = "output", s[m].ev + 1 = q, s[m].to = w,
             r.events = [s EXCEPT ![m] = [s[m] EXCEPT !.ev = q, !.to = w + n,
                                            !.bytes = s[m].bytes \o Produced(w, n)]]
      PROVE  Told(t, q + 1, w + n) /\ GoesOn(u, t)
  <2> DEFINE b == s[m].bytes \o Produced(w, n)
             k == [s[m] EXCEPT !.ev = q, !.to = w + n, !.bytes = b]
  <2>1. s[m] \in [kind : {"output"}, ev : Nat, from : Nat, to : Nat, bytes : Seq(Nat)]
    <3>1. m \in 1..Len(s)
      BY <1>1, <1>8, EmptySeq
    <3> QED BY <1>1, <1>8, <3>1, ElementOfSeq, EventKinds
  <2>2. b \in Seq(Nat)
    BY <2>1, ProducedFacts, ConcatProperties
  <2> HIDE DEF b
  <2>3. k \in [kind : {"output"}, ev : Nat, from : Nat, to : Nat, bytes : Seq(Nat)]
        /\ k.kind = "output" /\ k.from = s[m].from /\ k.to = w + n /\ k.ev = q /\ k.bytes = b
    BY <1>1, <2>1, <2>2
  <2>4. k \in Events
    BY <2>3 DEF Events
  <2>5. IsRange(k) /\ First(k) >= First(s[m])
    BY <1>8, <2>1, <2>3 DEF IsRange, First
  <2>6. r.events = [s EXCEPT ![m] = k]
    BY <1>8 DEF b
  <2> HIDE DEF k
  <2>7. k.ev < q + 1 /\ k.bytes = s[m].bytes \o Produced(w, n)
    BY <2>3 DEF b
  <2> QED BY <1>1, <1>6, <1>8, <2>3, <2>4, <2>5, <2>6, <2>7
<1>9. Told(t, q + 1, w + n) /\ GoesOn(u, t)
  BY <1>4, <1>5, <1>7, <1>8
<1> QED BY <1>4, <1>9 DEF e, r, s, u

\* Some event of s names the session.
NamesSession(s) == \E i \in 1..Len(s) : s[i].kind = "opened"

\* r is the observer o after a publish, and tells the events below q and the output below w.
Tells(T, o, r, q, w) ==
    /\ Sound(r) /\ ~r.closed /\ (o.signal \/ o.events = <<>> => r.signal)
    /\ Told(T \o r.events, q, w)
    /\ GoesOn(T \o o.events, T \o r.events)

\* A stream that goes on after its session was named still names it first.
LEMMA NamedGoesOn ==
    ASSUME NEW s \in Seq(Events), NEW t \in Seq(Events), GoesOn(s, t), NamesSession(s)
    PROVE  NamesSession(t) /\ (SessionComesFirst(s) => SessionComesFirst(t))
<1>1. Len(s) \in Nat /\ Len(t) \in Nat
  BY LenProperties
<1>2. PICK k \in 1..Len(s) : s[k].kind = "opened"
  BY DEF NamesSession
<1>3. k \in 1..Len(t) /\ t[k].kind = "opened"
  BY <1>1, <1>2 DEF GoesOn
<1>4. ASSUME SessionComesFirst(s), NEW i \in 1..Len(t), IsRange(t[i])
      PROVE  \E j \in 1..i - 1 : t[j].kind = "opened"
  <2>1. CASE i \in 1..Len(s)
    <3>1. IsRange(s[i])
      BY <1>4, <2>1 DEF GoesOn, IsRange
    <3>2. PICK j \in 1..i - 1 : s[j].kind = "opened"
      BY <1>4, <2>1, <3>1 DEF SessionComesFirst
    <3>3. j \in 1..Len(s)
      BY <1>1, <2>1
    <3> QED BY <3>2, <3>3 DEF GoesOn
  <2>2. CASE i \notin 1..Len(s)
    <3>1. k \in 1..i - 1
      BY <1>1, <2>2
    <3> QED BY <1>3, <3>1
  <2> QED BY <2>1, <2>2
<1> QED BY <1>3, <1>4 DEF NamesSession, SessionComesFirst

\* A stream goes on by what it had and more.
LEMMA GoesOnTransitive ==
    ASSUME NEW s \in Seq(Events), NEW t \in Seq(Events), NEW u \in Seq(Events),
           GoesOn(s, t), GoesOn(t, u)
    PROVE  GoesOn(s, u)
<1>1. Len(s) \in Nat /\ Len(t) \in Nat /\ Len(u) \in Nat
  BY LenProperties
<1> QED BY <1>1 DEF GoesOn

\* A resize, an end or an Opened, published.
LEMMA MarkIsTold ==
    ASSUME NEW T \in Seq(Events), NEW o, Sound(o), ~o.closed, NEW q \in Nat, NEW w \in Nat,
           Told(T \o o.events, q, w), NEW e \in Events, e.kind \in {"resize", "end", "opened"},
           NEW r \in Nat, r = IF e.kind = "opened" THEN q ELSE q + 1,
           e.kind = "opened" \/ e.ev = q
    PROVE  /\ Tells(T, o, Publish(o, e), r, w)
           /\ Publish(o, e).signal
           /\ Publish(o, e).events = Append(o.events, e)
           /\ SessionComesFirst(T \o o.events) => SessionComesFirst(T \o Append(o.events, e))
           /\ e.kind = "opened" => NamesSession(T \o Append(o.events, e))
<1> DEFINE p == Publish(o, e)  s == T \o o.events
<1>1. Sound(p) /\ ~p.closed /\ p.signal /\ p.events = Append(o.events, e)
  BY PublishFacts
<1>2. T \o p.events = Append(s, e) /\ s \in Seq(Events)
  <2>1. o.events \in Seq(Events)
    BY DEF Sound, Observers
  <2> QED BY <1>1, <2>1, StreamAppend
<1> HIDE DEF p, s
<1>3. Told(Append(s, e), r, w) /\ GoesOn(s, Append(s, e))
  <2>1. /\ Told(s, q, w) /\ q <= r /\ w <= w
        /\ e.kind # "opened" => First(e) >= q \/ \A i \in 1..Len(s) : s[i].kind = "opened"
        /\ e.kind # "opened" => IF e.kind = "gap" THEN e.ev <= r ELSE e.ev < r
        /\ e.kind = "gap" /\ e.ev = r => e.to = w
        /\ IsRange(e) => e.from = w /\ e.to = w /\ w < w
        /\ e.kind = "output" => e.bytes = Produced(w, w - w)
        /\ ~IsRange(e) => w = w
    BY DEF s, First, IsRange
  <2> QED BY <2>1, ToldAppend
<1>4. Tells(T, o, p, r, w)
  BY <1>1, <1>2, <1>3 DEF Tells, s
<1>5. /\ Append(s, e) \in Seq(Events) /\ Len(Append(s, e)) = Len(s) + 1 /\ Len(s) \in Nat
      /\ Append(s, e)[Len(s) + 1] = e /\ \A i \in 1..Len(s) : Append(s, e)[i] = s[i]
  BY <1>2, AppendProperties, LenProperties
<1>6. e.kind = "opened" => NamesSession(Append(s, e))
  BY <1>5 DEF NamesSession
<1>7. ASSUME SessionComesFirst(s) PROVE SessionComesFirst(Append(s, e))
  <2>1. ASSUME NEW i \in 1..Len(s) + 1, IsRange(Append(s, e)[i])
        PROVE  \E j \in 1..i - 1 : Append(s, e)[j].kind = "opened"
    <3>1. i \in 1..Len(s) /\ IsRange(s[i])
      BY <1>5, <2>1 DEF IsRange
    <3>2. PICK j \in 1..i - 1 : s[j].kind = "opened"
      BY <1>7, <3>1 DEF SessionComesFirst
    <3>3. j \in 1..Len(s)
      BY <1>5, <3>1
    <3> QED BY <1>5, <3>2, <3>3
  <2> QED BY <1>5, <2>1 DEF SessionComesFirst
<1> QED BY <1>1, <1>2, <1>4, <1>6, <1>7 DEF p, s

\* What the ring no longer holds, published as a gap to an observer that was told of
\* nothing else.
LEMMA LostIsTold ==
    ASSUME NEW T \in Seq(Events), NEW o, Sound(o), ~o.closed, NEW q \in Nat,
           NEW f \in Nat \ {0}, Told(T \o o.events, q, 0),
           \A i \in 1..Len(T \o o.events) : (T \o o.events)[i].kind = "opened"
    PROVE  Tells(T, o, PublishGap(o, Gap(0, q, 0, f)), q, f)
<1> DEFINE g == Gap(0, q, 0, f)  s == T \o o.events  n == Len(o.events)  p == PublishGap(o, g)
<1>1. o.events \in Seq(Events) /\ n \in Nat
  BY LenProperties DEF Sound, Observers
<1>2. /\ g \in Events /\ g.kind = "gap" /\ g.ev = q /\ g.evFrom = 0 /\ g.from = 0
      /\ g.to = f /\ IsRange(g)
  BY DEF Gap, Events, IsRange
<1> HIDE DEF g
<1>3. /\ Sound(p) /\ ~p.closed /\ (o.signal \/ o.events = <<>> => p.signal)
      /\ \/ p.events = Append(o.events, g)
         \/ o.events # <<>> /\ o.events[n].kind = "gap"
  BY <1>2, PublishGapFacts
<1>4. ASSUME o.events # <<>> PROVE o.events[n].kind = "opened"
  <2>1. s \in Seq(Events) /\ s # <<>> /\ s[Len(s)] = o.events[n]
    BY <1>1, <1>2, <1>4, StreamReplace
  <2>2. Len(s) \in 1..Len(s)
    BY <2>1, EmptySeq
  <2> QED BY <2>1, <2>2
<1>5. p.events = Append(o.events, g)
  BY <1>3, <1>4
<1>6. T \o p.events = Append(s, g) /\ s \in Seq(Events)
  BY <1>1, <1>2, <1>5, StreamAppend
<1> HIDE DEF p, s
<1>7. Told(Append(s, g), q, f) /\ GoesOn(s, Append(s, g))
  <2>1. /\ Told(s, q, 0) /\ q <= q /\ 0 <= f
        /\ g.kind # "opened" => First(g) >= q \/ \A i \in 1..Len(s) : s[i].kind = "opened"
        /\ g.kind # "opened" => IF g.kind = "gap" THEN g.ev <= q ELSE g.ev < q
        /\ g.kind = "gap" /\ g.ev = q => g.to = f
        /\ IsRange(g) => g.from = 0 /\ g.to = f /\ 0 < f
        /\ g.kind = "output" => g.bytes = Produced(0, f - 0)
        /\ ~IsRange(g) => f = 0
    BY <1>2 DEF s
  <2> QED BY <1>2, <2>1, ToldAppend
<1>8. Tells(T, o, p, q, f)
  BY <1>3, <1>6, <1>7 DEF Tells, s
<1> QED BY <1>8 DEF p, g

\* What the session retained, published to an observer that was told of nothing else.
LEMMA RetainedIsTold ==
    ASSUME NEW T \in Seq(Events), NEW o, Sound(o), ~o.closed, seq \in Nat, written \in Nat,
           Told(T \o o.events, seq, 0),
           \A i \in 1..Len(T \o o.events) : (T \o o.events)[i].kind = "opened"
    PROVE  LET r == Retained(o) IN
           /\ Sound(r) /\ ~r.closed /\ (o.signal => r.signal)
           /\ Told(T \o r.events, seq + 1, written)
           /\ GoesOn(T \o o.events, T \o r.events)
<1> DEFINE told == IF Floor > 0 THEN PublishGap(o, Gap(0, seq, 0, Floor)) ELSE o
           n == written - Floor
           r == Retained(o)
<1>1. Floor \in Nat /\ Floor <= written /\ (Floor > 0 => Floor < written)
      /\ (written = Floor => written = 0)
  BY ObserverConstants DEF Floor
<1>2. /\ Sound(told) /\ ~told.closed /\ (o.signal => told.signal)
      /\ Told(T \o told.events, seq, Floor)
      /\ GoesOn(T \o o.events, T \o told.events)
  <2>1. CASE Floor > 0
    <3>1. Floor \in Nat \ {0} /\ told = PublishGap(o, Gap(0, seq, 0, Floor))
      BY <1>1, <2>1
    <3>2. Tells(T, o, PublishGap(o, Gap(0, seq, 0, Floor)), seq, Floor)
      BY <3>1, LostIsTold
    <3> HIDE DEF told
    <3> QED BY <3>1, <3>2 DEF Tells
  <2>2. CASE ~(Floor > 0)
    <3>1. Floor = 0 /\ told = o
      BY <1>1, <2>2
    <3>2. GoesOn(T \o o.events, T \o o.events)
      <4>1. T \o o.events \in Seq(Events)
        BY DEF Told
      <4>2. Len(T \o o.events) \in Nat
        BY <4>1, LenProperties
      <4> QED BY <4>2 DEF GoesOn
    <3> HIDE DEF told
    <3> QED BY <3>1, <3>2
  <2> QED BY <2>1, <2>2
<1>3. r = IF written = Floor THEN told
          ELSE PublishOutput(told, Output(seq, Floor, Produced(Floor, n)))
  BY DEF Retained
<1> HIDE DEF told, r, n
<1>4. CASE written = Floor
  <2>1. r = told /\ Floor = written
    BY <1>3, <1>4
  <2>2. Told(T \o told.events, seq + 1, Floor)
    BY <1>1, <1>2, ToldSkips
  <2> QED BY <1>2, <2>1, <2>2 DEF r
<1>5. CASE written # Floor
  <2>1. n \in Nat \ {0} /\ Floor + n = written
    BY <1>1, <1>5 DEF n
  <2> DEFINE p == PublishOutput(told, Output(seq, Floor, Produced(Floor, n)))
  <2>2. /\ Sound(p) /\ ~p.closed /\ (told.signal \/ told.events = <<>> => p.signal)
        /\ Told(T \o p.events, seq + 1, Floor + n)
        /\ GoesOn(T \o told.events, T \o p.events)
    BY <1>1, <1>2, <2>1, OutputIsTold
  <2> HIDE DEF p
  <2>3. r = p
    BY <1>3, <1>5 DEF p
  <2>4. GoesOn(T \o o.events, T \o p.events)
    BY <1>2, <2>2, GoesOnTransitive DEF Told
  <2> QED BY <1>2, <2>1, <2>2, <2>3, <2>4 DEF r
<1> QED BY <1>4, <1>5

----------------------------------------------------------------------------
(* The invariant *)

\* What is there of the session and of the observer before one meets the other.
Beginnings ==
    /\ sess = "absent" => ~registered /\ ~pump /\ seq = 0 /\ written = 0 /\ entry = "none"
    /\ sess \in {"opening", "openingFor"} => written = 0 /\ ~pump
    /\ sess = "openingFor" => kind = "prepared" /\ entry # "none"
    /\ kind = "none" => entry = "none" /\ obs = NewObserver /\ stream = "none"
    /\ entry = "none" => obs.events = <<>> /\ taken = <<>>
    /\ entry = "removed" => obs.closed

\* A member that nobody closed was told everything the session did, and first of all,
\* when it was prepared, which session that is.
MemberIsTold ==
    entry = "member" /\ ~obs.closed =>
        /\ Told(Stream, seq + 1, written)
        /\ kind = "prepared" /\ sess # "openingFor" => NamesSession(Stream)

ObserverInv ==
    /\ TypeOK /\ Beginnings /\ Sound(obs) /\ MemberIsTold /\ EventsAdvance
    /\ WaitingHandlerHasNothing

\* Nothing is published to an observer that was closed.
LEMMA ClosedTakesNothing ==
    ASSUME obs.closed, NEW e
    PROVE  Publish(obs, e) = obs /\ PublishOutput(obs, e) = obs /\ Retained(obs) = obs
BY DEF Publish, PublishOutput, PublishGap, Retained

\* A delivery leaves the observer as the publish did, and nobody waiting that it woke.
LEMMA DeliverFacts ==
    ASSUME TypeOK, Beginnings, WaitingHandlerHasNothing, NEW r, Sound(r), Deliver(r),
           obs.events = <<>> /\ ~obs.closed => r.signal \/ r = obs
    PROVE  /\ obs' \in Observers /\ ~obs'.signal /\ Sound(obs')
           /\ obs'.events = r.events /\ obs'.closed = r.closed
           /\ stream' \in {"none", "ready", "waiting", "over"}
           /\ stream' = "waiting" => stream = "waiting" /\ r = obs
           /\ stream' = "none" <=> stream = "none"
<1>1. r \in Observers /\ r.events \in Seq(Events) /\ r.queued \in Nat
  BY DEF Sound, Observers
<1>2. obs' = [r EXCEPT !.signal = FALSE]
  BY DEF Deliver
<1>3. /\ obs'.events = r.events /\ obs'.queued = r.queued /\ obs'.closed = r.closed
      /\ obs'.signal = FALSE /\ obs' \in Observers
  BY <1>1, <1>2 DEF Observers
<1>4. Sound(obs')
  BY <1>3 DEF Sound
<1>5. stream \in {"none", "ready", "waiting", "over"}
  BY DEF TypeOK
<1>6. stream' = IF r.signal /\ stream = "waiting" THEN "ready" ELSE stream
  BY DEF Deliver
<1>7. stream' = "waiting" => stream = "waiting" /\ r = obs
  BY <1>6 DEF WaitingHandlerHasNothing
<1> QED BY <1>3, <1>4, <1>5, <1>6, <1>7

\* What a step that publishes r leaves of the observer.
Kept ==
    /\ obs' \in Observers /\ ~obs'.signal /\ Sound(obs')
    /\ stream' \in {"none", "ready", "waiting", "over"}
    /\ MemberIsTold' /\ EventsAdvance' /\ WaitingHandlerHasNothing'
    /\ entry = "none" => obs' = obs
    /\ entry = "removed" => obs'.closed
    /\ kind = "none" => obs' = obs /\ stream' = stream

\* A delivery to an observer that joined.
LEMMA DeliverKeeps ==
    ASSUME ObserverInv, NEW r, Deliver(r), entry # "none",
           taken' = taken, entry' = entry, kind' = kind, seq' \in Nat, written' \in Nat,
           obs.closed => r = obs,
           ~obs.closed =>
               /\ Tells(taken, obs, r, seq' + 1, written')
               /\ kind = "prepared" => SessionComesFirst(taken \o r.events)
               /\ sess' = sess \/ NamesSession(taken \o r.events)
    PROVE  Kept
<1>1. /\ TypeOK /\ Beginnings /\ Sound(obs) /\ MemberIsTold /\ EventsAdvance
      /\ WaitingHandlerHasNothing /\ taken \in Seq(Events) /\ kind # "none"
      /\ obs.events \in Seq(Events) /\ Stream \in Seq(Events)
  <2>1. taken \in Seq(Events) /\ obs.events \in Seq(Events)
    BY DEF ObserverInv, TypeOK, Observers
  <2> QED BY <2>1, ConcatProperties DEF ObserverInv, Beginnings, Stream
<1>2. Sound(r) /\ (obs.events = <<>> /\ ~obs.closed => r.signal \/ r = obs)
  BY <1>1 DEF Tells
<1>3. /\ obs' \in Observers /\ ~obs'.signal /\ Sound(obs')
      /\ obs'.events = r.events /\ obs'.closed = r.closed
      /\ stream' \in {"none", "ready", "waiting", "over"}
      /\ stream' = "waiting" => stream = "waiting" /\ r = obs
  BY <1>1, <1>2, DeliverFacts
<1>4. Stream' = taken \o r.events
  BY <1>3 DEF Stream
<1>5. WaitingHandlerHasNothing'
  BY <1>1, <1>3 DEF WaitingHandlerHasNothing
<1>6. CASE obs.closed
  <2>1. r = obs /\ Stream' = Stream /\ obs'.closed
    BY <1>3, <1>4, <1>6 DEF Stream
  <2>2. MemberIsTold'
    BY <2>1 DEF MemberIsTold
  <2>3. EventsAdvance'
    BY <1>1, <2>1 DEF EventsAdvance
  <2> QED BY <1>1, <1>3, <1>5, <2>1, <2>2, <2>3 DEF Kept
<1>7. CASE ~obs.closed
  <2>1. /\ Told(Stream', seq' + 1, written') /\ GoesOn(Stream, Stream')
        /\ Stream' \in Seq(Events) /\ entry = "member"
        /\ kind = "prepared" => SessionComesFirst(Stream')
        /\ sess' = sess \/ NamesSession(Stream')
    <3>1. Told(Stream', seq' + 1, written') /\ GoesOn(Stream, Stream')
      BY <1>4, <1>7 DEF Tells, Stream
    <3>2. entry = "member"
      BY <1>1, <1>7 DEF Beginnings, TypeOK
    <3> QED BY <1>4, <1>7, <3>1, <3>2 DEF Told
  <2>2. kind = "prepared" /\ sess' # "openingFor" => NamesSession(Stream')
    BY <1>1, <1>7, <2>1, NamedGoesOn DEF MemberIsTold
  <2>3. MemberIsTold'
    BY <2>1, <2>2 DEF MemberIsTold
  <2>4. EventsAdvance'
    BY <2>1 DEF EventsAdvance, Told
  <2> QED BY <1>1, <1>3, <1>5, <2>1, <2>3, <2>4 DEF Kept
<1> QED BY <1>6, <1>7

\* What the session publishes to its members.
LEMMA PublishesKeeps ==
    ASSUME ObserverInv, NEW r, Publishes(r), sess' = sess,
           taken' = taken, entry' = entry, kind' = kind, seq' \in Nat, written' \in Nat,
           obs.closed => r = obs,
           ~obs.closed /\ entry = "member" =>
               /\ Tells(taken, obs, r, seq' + 1, written')
               /\ kind = "prepared" => SessionComesFirst(taken \o r.events)
    PROVE  Kept
<1>1. CASE entry = "member"
  <2>1. Deliver(r)
    BY <1>1 DEF Publishes
  <2> QED BY <1>1, <2>1, DeliverKeeps
<1>2. CASE entry # "member"
  <2>1. obs' = obs /\ stream' = stream /\ Stream' = Stream
    BY <1>2 DEF Publishes, Stream
  <2> QED BY <1>2, <2>1 DEF Kept, ObserverInv, TypeOK, Beginnings, MemberIsTold, EventsAdvance,
                            WaitingHandlerHasNothing
<1> QED BY <1>1, <1>2

\* The invariant, from its parts.
LEMMA KeptIsEnough ==
    ASSUME ObserverInv, Kept, Beginnings',
           sess' \in {"absent", "opening", "openingFor", "running"},
           registered' \in BOOLEAN, pump' \in BOOLEAN, closed' \in BOOLEAN, peer' \in BOOLEAN,
           seq' \in Nat, written' \in Nat, entry' = entry, kind' = kind, taken' = taken
    PROVE  ObserverInv'
<1>1. TypeOK'
  BY DEF ObserverInv, Kept, TypeOK
<1>2. Sound(obs)'
  BY DEF Kept, Sound, Observers
<1> QED BY <1>1, <1>2 DEF ObserverInv, Kept

\* A resize and an end are the session's next event.
LEMMA MarkKeeps ==
    ASSUME ObserverInv, NEW what \in {"resize", "end"}, Publishes(Publish(obs, Mark(what,
         seq + 1))),
           seq' = seq + 1, written' = written, sess' = sess, taken' = taken, entry' = entry,
           kind' = kind
    PROVE  Kept
<1> DEFINE e == Mark(what, seq + 1)  r == Publish(obs, e)
<1>1. /\ TypeOK /\ Sound(obs) /\ MemberIsTold /\ EventsAdvance /\ taken \in Seq(Events)
      /\ seq \in Nat /\ written \in Nat /\ seq + 1 \in Nat /\ seq' + 1 \in Nat
      /\ seq' \in Nat /\ written' \in Nat
  BY DEF ObserverInv, TypeOK
<1>2. e \in Events /\ e.kind = what /\ e.ev = seq + 1
  BY <1>1 DEF Mark, Events
<1>3. Publishes(r)
  OBVIOUS
<1> HIDE DEF e
<1>4. obs.closed => r = obs
  BY ClosedTakesNothing
<1>5. ASSUME ~obs.closed, entry = "member"
      PROVE  /\ Tells(taken, obs, r, seq' + 1, written')
             /\ kind = "prepared" => SessionComesFirst(taken \o r.events)
  <2>1. Told(taken \o obs.events, seq + 1, written)
    BY <1>1, <1>5 DEF MemberIsTold, Stream
  <2>2. /\ Tells(taken, obs, r, seq' + 1, written)
        /\ r.events = Append(obs.events, e)
        /\ SessionComesFirst(taken \o obs.events)
               => SessionComesFirst(taken \o Append(obs.events, e))
    BY <1>1, <1>2, <1>5, <2>1, MarkIsTold
  <2> HIDE DEF r
  <2>3. kind = "prepared" => SessionComesFirst(taken \o obs.events)
    BY <1>1 DEF EventsAdvance, Stream
  <2> QED BY <2>2, <2>3
<1> HIDE DEF r
<1> QED BY <1>1, <1>3, <1>4, <1>5, PublishesKeeps

----------------------------------------------------------------------------
(* Each step keeps the invariant *)

\* It holds before there is a session.
LEMMA InitEstablishesObserverInv == Init => ObserverInv
<1> SUFFICES ASSUME Init PROVE ObserverInv
  OBVIOUS
<1>1. <<>> \in Seq(Events) /\ Len(<<>>) = 0
  BY EmptySeq
<1>2. obs = [events |-> <<>>, queued |-> 0, closed |-> FALSE, signal |-> FALSE]
      /\ taken = <<>>
  BY DEF Init, NewObserver
<1>3. obs \in Observers /\ obs.events = <<>> /\ obs.queued = 0 /\ ~obs.signal
  BY <1>1, <1>2 DEF Observers
<1>4. Sound(obs)
  BY <1>3, HeldEmpty, ObserverConstants DEF Sound
<1>5. Len(Stream) = 0
  BY <1>1, <1>2, <1>3, ConcatProperties DEF Stream
<1>6. EventsAdvance
  BY <1>5 DEF EventsAdvance, Advances, SessionComesFirst
<1>7. TypeOK
  BY <1>1, <1>2, <1>3 DEF TypeOK, Init
<1>8. Beginnings
  BY <1>2, <1>3 DEF Beginnings, Init
<1>9. MemberIsTold /\ WaitingHandlerHasNothing
  BY DEF MemberIsTold, WaitingHandlerHasNothing, Init
<1> QED BY <1>4, <1>6, <1>7, <1>8, <1>9 DEF ObserverInv

\* The session comes to be, and the observer it opened for has missed nothing.
LEMMA OpenSessionKeeps ==
    ASSUME ObserverInv, NEW bind \in BOOLEAN, OpenSession(bind) PROVE ObserverInv'
<1>1. TypeOK /\ Beginnings /\ Sound(obs) /\ EventsAdvance /\ WaitingHandlerHasNothing
  BY DEF ObserverInv
<1>2. /\ entry = "none" /\ obs.events = <<>> /\ taken = <<>> /\ seq = 0 /\ written = 0 /\ ~pump
      /\ obs' = obs /\ stream' = stream /\ taken' = taken /\ kind' = kind /\ seq' = seq
      /\ written' = written /\ pump' = pump /\ peer' = peer /\ closed' = closed
      /\ registered' = TRUE
      /\ sess' = (IF bind THEN "openingFor" ELSE "opening")
      /\ entry' = (IF bind THEN "member" ELSE entry)
      /\ (bind => kind = "prepared")
  BY <1>1 DEF OpenSession, Beginnings, streamVars
<1>3. TypeOK'
  BY <1>1, <1>2 DEF TypeOK
<1>4. Beginnings'
  BY <1>1, <1>2 DEF Beginnings
<1>5. Stream' = Stream /\ Stream \in Seq(Events) /\ Len(Stream) = 0 /\ Stream = <<>>
  BY <1>2, EmptySeq, ConcatEmptySeq DEF Stream
<1>6. Told(Stream, 1, 0)
  <2>1. Covers(Stream, 0)
    BY <1>5 DEF Covers
  <2> QED BY <1>1, <1>5, <2>1 DEF Told, EventsAdvance
<1>7. MemberIsTold'
  <2>1. sess' # "openingFor" => entry' # "member"
    BY <1>2
  <2> QED BY <1>2, <1>5, <1>6, <2>1 DEF MemberIsTold
<1>8. EventsAdvance' /\ WaitingHandlerHasNothing' /\ Sound(obs')
  BY <1>1, <1>2, <1>5 DEF EventsAdvance, WaitingHandlerHasNothing
<1> QED BY <1>3, <1>4, <1>7, <1>8 DEF ObserverInv

\* Opened is published, and the pump starts.
LEMMA OpenPublishesKeeps == ASSUME ObserverInv, OpenPublishes PROVE ObserverInv'
<1> DEFINE e == Mark("opened", 0)  r == Publish(obs, e)
<1>1. /\ TypeOK /\ Beginnings /\ Sound(obs) /\ MemberIsTold /\ EventsAdvance
      /\ WaitingHandlerHasNothing
      /\ taken \in Seq(Events) /\ seq \in Nat /\ written \in Nat /\ seq + 1 \in Nat
  BY DEF ObserverInv, TypeOK
<1>2. /\ sess' = "running" /\ pump' = TRUE /\ registered' = registered /\ closed' = closed
      /\ seq' = seq /\ written' = written /\ entry' = entry /\ kind' = kind /\ peer' = peer
      /\ taken' = taken
  BY DEF OpenPublishes, streamVars
<1>3. Kept
  <2>1. CASE sess = "openingFor"
    <3>1. Deliver(r) /\ entry # "none"
      BY <1>1, <2>1 DEF OpenPublishes, Beginnings
    <3>2. e \in Events /\ e.kind = "opened"
      BY DEF Mark, Events
    <3> HIDE DEF e
    <3>3. obs.closed => r = obs
      BY ClosedTakesNothing
    <3>4. ASSUME ~obs.closed
          PROVE  /\ Tells(taken, obs, r, seq' + 1, written')
                 /\ kind = "prepared" => SessionComesFirst(taken \o r.events)
                 /\ sess' = sess \/ NamesSession(taken \o r.events)
      <4>1. Told(taken \o obs.events, seq + 1, written)
        BY <1>1, <3>1, <3>4 DEF MemberIsTold, Stream, Beginnings, TypeOK
      <4>2. /\ Tells(taken, obs, r, seq + 1, written)
            /\ r.events = Append(obs.events, e)
            /\ SessionComesFirst(taken \o obs.events)
                   => SessionComesFirst(taken \o Append(obs.events, e))
            /\ NamesSession(taken \o Append(obs.events, e))
        BY <1>1, <3>2, <3>4, <4>1, MarkIsTold
      <4> HIDE DEF r
      <4>3. kind = "prepared" => SessionComesFirst(taken \o obs.events)
        BY <1>1 DEF EventsAdvance, Stream
      <4> QED BY <1>2, <4>2, <4>3
    <3> HIDE DEF r
    <3>5. seq' \in Nat /\ written' \in Nat
      BY <1>1, <1>2
    <3> QED BY <1>2, <3>1, <3>3, <3>4, <3>5, DeliverKeeps
  <2>2. CASE sess # "openingFor"
    <3>1. obs' = obs /\ stream' = stream /\ Stream' = Stream
      BY <1>2, <2>2 DEF OpenPublishes, Stream
    <3>2. MemberIsTold'
      BY <1>1, <1>2, <2>2, <3>1 DEF MemberIsTold
    <3> QED BY <1>1, <1>2, <3>1, <3>2
            DEF Kept, TypeOK, Beginnings, EventsAdvance, WaitingHandlerHasNothing
  <2> QED BY <2>1, <2>2
<1>4. Beginnings'
  <2>1. sess # "absent"
    BY DEF OpenPublishes
  <2>2. kind = "none" => obs' = obs /\ stream' = stream
    BY <1>3 DEF Kept
  <2> QED BY <1>1, <1>2, <1>3, <2>1, <2>2 DEF Beginnings, Kept
<1> QED BY <1>1, <1>2, <1>3, <1>4, KeptIsEnough DEF TypeOK

\* The pump publishes what it read.
LEMMA PumpPublishesKeeps ==
    ASSUME ObserverInv, NEW n \in ChunkSizes, PumpPublishes(n) PROVE ObserverInv'
<1> DEFINE e == Output(seq + 1, written, Produced(written, n))  r == PublishOutput(obs, e)
<1>1. /\ TypeOK /\ Beginnings /\ Sound(obs) /\ MemberIsTold /\ EventsAdvance
      /\ taken \in Seq(Events) /\ seq \in Nat /\ written \in Nat /\ seq + 1 \in Nat
      /\ n \in Nat \ {0}
  BY ObserverConstants DEF ObserverInv, TypeOK
<1>2. /\ sess' = sess /\ pump' = pump /\ registered' = registered /\ closed' = closed
      /\ seq' = seq + 1 /\ written' = written + n /\ entry' = entry /\ kind' = kind
      /\ peer' = peer /\ taken' = taken /\ Publishes(r) /\ pump
  BY DEF PumpPublishes, streamVars
<1>3. seq' \in Nat /\ written' \in Nat /\ sess = "running"
  BY <1>1, <1>2 DEF Beginnings, TypeOK
<1>4. obs.closed => r = obs
  BY ClosedTakesNothing
<1>5. ASSUME ~obs.closed, entry = "member"
      PROVE  /\ Tells(taken, obs, r, seq' + 1, written')
             /\ kind = "prepared" => SessionComesFirst(taken \o r.events)
  <2>1. Told(taken \o obs.events, seq + 1, written)
        /\ (kind = "prepared" => NamesSession(taken \o obs.events))
    BY <1>1, <1>3, <1>5 DEF MemberIsTold, Stream
  <2>2. /\ Sound(r) /\ ~r.closed /\ (obs.signal \/ obs.events = <<>> => r.signal)
        /\ Told(taken \o r.events, (seq + 1) + 1, written + n)
        /\ GoesOn(taken \o obs.events, taken \o r.events)
    BY <1>1, <1>5, <2>1, OutputIsTold
  <2> HIDE DEF r, e
  <2>3. kind = "prepared" => SessionComesFirst(taken \o obs.events)
    BY <1>1 DEF EventsAdvance, Stream
  <2>4. taken \o obs.events \in Seq(Events) /\ taken \o r.events \in Seq(Events)
    BY <2>1, <2>2 DEF Told
  <2>5. kind = "prepared" => SessionComesFirst(taken \o r.events)
    BY <2>1, <2>2, <2>3, <2>4, NamedGoesOn
  <2> QED BY <1>2, <2>2, <2>5 DEF Tells
<1> HIDE DEF r, e
<1>6. Kept
  BY <1>2, <1>3, <1>4, <1>5, PublishesKeeps
<1>7. Beginnings'
  BY <1>1, <1>2, <1>3, <1>6 DEF Beginnings, Kept
<1> QED BY <1>1, <1>2, <1>3, <1>6, <1>7, KeptIsEnough DEF TypeOK

\* A resize is published.
LEMMA ResizeKeeps == ASSUME ObserverInv, Resize PROVE ObserverInv'
<1>1. TypeOK /\ Beginnings /\ seq \in Nat /\ written \in Nat
  BY DEF ObserverInv, TypeOK
<1>2. /\ sess' = sess /\ pump' = pump /\ registered' = registered /\ closed' = closed
      /\ seq' = seq + 1 /\ written' = written /\ entry' = entry /\ kind' = kind
      /\ peer' = peer /\ taken' = taken /\ Publishes(Publish(obs, Mark("resize", seq + 1)))
      /\ registered
  BY DEF Resize, streamVars
<1>3. Kept
  BY <1>2, MarkKeeps
<1>4. Beginnings'
  BY <1>1, <1>2, <1>3 DEF Beginnings, Kept
<1> QED BY <1>1, <1>2, <1>3, <1>4, KeptIsEnough DEF TypeOK

\* A reap, by the pump or by a close, ends the session once.
LEMMA ReapedKeeps ==
    ASSUME ObserverInv, Reaped, written' = written, sess' = sess, entry' = entry, kind' = kind,
           peer' = peer, taken' = taken, pump' \in BOOLEAN, registered' \in BOOLEAN,
           pump' => pump, registered \/ pump
    PROVE  ObserverInv'
<1>1. /\ TypeOK /\ Beginnings /\ seq \in Nat /\ written \in Nat /\ closed \in BOOLEAN
      /\ peer \in BOOLEAN /\ closed' = TRUE
  BY DEF ObserverInv, TypeOK, Reaped
<1>2. Kept /\ seq' \in Nat
  <2>1. CASE closed
    <3>1. obs' = obs /\ stream' = stream /\ seq' = seq /\ Stream' = Stream
      BY <2>1 DEF Reaped, Stream
    <3> QED BY <1>1, <3>1 DEF Kept, ObserverInv, TypeOK, Beginnings, MemberIsTold,
         EventsAdvance,
                              WaitingHandlerHasNothing
  <2>2. CASE ~closed
    <3>1. seq' = seq + 1 /\ Publishes(Publish(obs, Mark("end", seq + 1)))
      BY <2>2 DEF Reaped
    <3> QED BY <1>1, <3>1, MarkKeeps
  <2> QED BY <2>1, <2>2
<1>3. Beginnings'
  <2>1. sess # "absent"
    BY <1>1 DEF Beginnings
  <2> QED BY <1>1, <1>2, <2>1 DEF Beginnings, Kept
<1> QED BY <1>1, <1>2, <1>3, KeptIsEnough DEF TypeOK

\* A new observer, told nothing of a session.
LEMMA NewObserverFacts ==
    /\ NewObserver.events = <<>> /\ ~NewObserver.closed /\ ~NewObserver.signal
    /\ Sound(NewObserver) /\ <<>> \o <<>> = <<>> /\ <<>> \in Seq(Events) /\ Len(<<>>) = 0
    /\ \A q \in Nat : Told(<<>>, q, 0)
<1>1. <<>> \in Seq(Events) /\ Len(<<>>) = 0
  BY EmptySeq
<1>2. NewObserver \in Observers
  BY <1>1 DEF NewObserver, Observers
<1>3. Sound(NewObserver)
  BY <1>2, HeldEmpty, ObserverConstants DEF Sound, NewObserver
<1>4. \A q \in Nat : Told(<<>>, q, 0)
  BY <1>1 DEF Told, Covers, Advances
<1>5. <<>> \o <<>> = <<>>
  BY <1>1, ConcatEmptySeq
<1> QED BY <1>1, <1>3, <1>4, <1>5 DEF NewObserver

\* The next process starts with no observer.
LEMMA RestartKeeps == ASSUME ObserverInv, Restart PROVE ObserverInv'
<1>1. /\ obs' = NewObserver /\ taken' = <<>> /\ entry' = "none" /\ kind' = "none"
      /\ stream' = "none" /\ peer' = TRUE /\ seq' = 0 /\ sess' = sess /\ sess = "running"
      /\ registered' = registered /\ pump' = pump /\ closed' = closed /\ written' = written
  BY DEF Restart
<1>2. /\ obs'.events = <<>> /\ Sound(obs') /\ ~obs'.signal /\ obs' \in Observers
      /\ Stream' = <<>> /\ taken' \in Seq(Events)
  BY <1>1, NewObserverFacts DEF Stream, Sound
<1>3. TypeOK'
  BY <1>1, <1>2 DEF ObserverInv, TypeOK
<1>4. Beginnings'
  BY <1>1, <1>2 DEF Beginnings
<1>5. EventsAdvance'
  BY <1>2, NewObserverFacts DEF EventsAdvance, Advances, SessionComesFirst
<1>6. MemberIsTold' /\ WaitingHandlerHasNothing'
  BY <1>1 DEF MemberIsTold, WaitingHandlerHasNothing
<1> QED BY <1>2, <1>3, <1>4, <1>5, <1>6 DEF ObserverInv

\* A stream is prepared, with nothing to tell.
LEMMA ObservePreparedKeeps == ASSUME ObserverInv, ObservePrepared PROVE ObserverInv'
<1>1. TypeOK /\ Beginnings /\ Sound(obs) /\ EventsAdvance
  BY DEF ObserverInv
<1>2. /\ kind = "none" /\ entry = "none" /\ obs.events = <<>> /\ taken = <<>>
      /\ kind' = "prepared" /\ stream' = "ready" /\ obs' = obs /\ taken' = taken
      /\ entry' = entry /\ peer' = peer /\ UNCHANGED sessionVars
  BY <1>1 DEF ObservePrepared, Beginnings
<1>3. TypeOK'
  BY <1>1, <1>2 DEF TypeOK, sessionVars
<1>4. Beginnings'
  BY <1>1, <1>2 DEF Beginnings, sessionVars
<1>5. Stream' = Stream /\ Stream = <<>>
  BY <1>2, NewObserverFacts DEF Stream
<1>6. EventsAdvance'
  BY <1>5, NewObserverFacts DEF EventsAdvance, Advances, SessionComesFirst
<1>7. MemberIsTold' /\ WaitingHandlerHasNothing' /\ Sound(obs')
  BY <1>1, <1>2 DEF MemberIsTold, WaitingHandlerHasNothing
<1> QED BY <1>3, <1>4, <1>6, <1>7 DEF ObserverInv

\* A session that runs adopts the observer, and tells it what it retained.
LEMMA AdoptKeeps == ASSUME ObserverInv, Adopt PROVE ObserverInv'
<1> DEFINE e == Mark("opened", seq)  p == Publish(obs, e)  r == AdoptPublishes(obs)
<1>1. /\ TypeOK /\ Beginnings /\ Sound(obs) /\ EventsAdvance /\ WaitingHandlerHasNothing
      /\ seq \in Nat /\ written \in Nat /\ seq + 1 \in Nat
  BY DEF ObserverInv, TypeOK
<1>2. /\ kind = "prepared" /\ entry = "none" /\ obs.events = <<>> /\ taken = <<>>
      /\ entry' = "member" /\ kind' = kind /\ peer' = peer /\ taken' = taken /\ registered
      /\ UNCHANGED sessionVars /\ Deliver(r) /\ sess # "absent" /\ sess # "openingFor"
  BY <1>1 DEF Adopt, Beginnings, streamVars
<1>3. e \in Events /\ e.kind = "opened"
  BY <1>1 DEF Mark, Events
<1> HIDE DEF e
<1>4. CASE obs.closed
  <2>1. r = obs
    BY <1>4, ClosedTakesNothing DEF AdoptPublishes, e
  <2>2. obs' \in Observers /\ ~obs'.signal /\ Sound(obs') /\ obs'.events = obs.events
        /\ obs'.closed /\ stream' \in {"none", "ready", "waiting", "over"}
        /\ stream' # "waiting"
    <3> HIDE DEF r
    <3> QED BY <1>1, <1>2, <1>4, <2>1, DeliverFacts DEF WaitingHandlerHasNothing
  <2>3. Stream' = Stream
    BY <1>2, <2>2 DEF Stream
  <2>4. TypeOK'
    BY <1>1, <1>2, <2>2 DEF TypeOK, sessionVars
  <2>5. Beginnings'
    BY <1>1, <1>2, <2>2 DEF Beginnings, sessionVars
  <2>6. MemberIsTold' /\ EventsAdvance' /\ WaitingHandlerHasNothing'
    BY <1>1, <1>2, <2>2, <2>3 DEF MemberIsTold, EventsAdvance, WaitingHandlerHasNothing
  <2> QED BY <2>2, <2>4, <2>5, <2>6 DEF ObserverInv
<1>5. CASE ~obs.closed
  <2>1. <<>> \in Seq(Events) /\ <<>> \o obs.events = <<>> /\ Told(<<>> \o obs.events, seq, 0)
    BY <1>1, <1>2, NewObserverFacts
  <2>2. /\ Tells(<<>>, obs, p, seq, 0) /\ p.signal
        /\ p.events = Append(<<>>, e) /\ Append(<<>>, e) = Append(obs.events, e)
        /\ SessionComesFirst(<<>> \o obs.events) => SessionComesFirst(<<>> \o p.events)
        /\ NamesSession(<<>> \o p.events)
    <3>1. /\ seq = (IF e.kind = "opened" THEN seq ELSE seq + 1)
          /\ e.kind \in {"resize", "end", "opened"} /\ 0 \in Nat
      BY <1>3
    <3>2. /\ Tells(<<>>, obs, p, seq, 0) /\ p.signal
          /\ p.events = Append(obs.events, e)
          /\ SessionComesFirst(<<>> \o obs.events)
                 => SessionComesFirst(<<>> \o Append(obs.events, e))
          /\ NamesSession(<<>> \o Append(obs.events, e))
      <4> DEFINE T == <<>>
      <4>1. T \in Seq(Events) /\ Told(T \o obs.events, seq, 0)
        BY <2>1
      <4> HIDE DEF T
      <4>2. /\ Tells(T, obs, p, seq, 0) /\ p.signal
            /\ p.events = Append(obs.events, e)
            /\ SessionComesFirst(T \o obs.events)
                   => SessionComesFirst(T \o Append(obs.events, e))
            /\ NamesSession(T \o Append(obs.events, e))
        BY <1>1, <1>3, <1>5, <3>1, <4>1, MarkIsTold
      <4> QED BY <4>2 DEF T
    <3> HIDE DEF p
    <3> QED BY <1>2, <3>2
  <2> HIDE DEF p
  <2>3. /\ <<>> \o p.events = Append(<<>>, e) /\ Len(Append(<<>>, e)) = 1
        /\ Append(<<>>, e)[1] = e
    <3>1. /\ Append(<<>>, e) \in Seq(Events) /\ Len(Append(<<>>, e)) = Len(<<>>) + 1
          /\ Append(<<>>, e)[Len(<<>>) + 1] = e
      BY <1>3, <2>1, AppendProperties
    <3> QED BY <2>2, <3>1, ConcatEmptySeq, NewObserverFacts
  <2>4. \A i \in 1..Len(<<>> \o p.events) : (<<>> \o p.events)[i].kind = "opened"
    BY <1>3, <2>3
  <2>5. SessionComesFirst(<<>> \o p.events)
    <3>1. SessionComesFirst(<<>>)
      BY NewObserverFacts DEF SessionComesFirst
    <3> QED BY <2>1, <2>2, <3>1
  <2>6. r = Retained(p)
    BY DEF AdoptPublishes, p, e
  <2> HIDE DEF r
  <2>7. /\ Sound(r) /\ ~r.closed /\ (p.signal => r.signal)
        /\ Told(<<>> \o r.events, seq + 1, written)
        /\ GoesOn(<<>> \o p.events, <<>> \o r.events)
    BY <1>1, <2>1, <2>2, <2>4, <2>6, RetainedIsTold DEF Tells
  <2>8. NamesSession(<<>> \o r.events) /\ SessionComesFirst(<<>> \o r.events)
    <3>1. <<>> \o p.events \in Seq(Events) /\ <<>> \o r.events \in Seq(Events)
      BY <2>2, <2>7 DEF Tells, Told
    <3> QED BY <2>2, <2>5, <2>7, <3>1, NamedGoesOn
  <2>9. /\ obs' \in Observers /\ ~obs'.signal /\ Sound(obs') /\ obs'.events = r.events
        /\ ~obs'.closed /\ stream' \in {"none", "ready", "waiting", "over"}
        /\ stream' = "waiting" => r = obs
    BY <1>1, <1>2, <2>2, <2>7, DeliverFacts
  <2>10. r # obs
    BY <1>1, <2>2, <2>7 DEF TypeOK
  <2>11. Stream' = <<>> \o r.events
    BY <1>2, <2>9 DEF Stream
  <2>12. TypeOK'
    BY <1>1, <1>2, <2>9 DEF TypeOK, sessionVars
  <2>13. Beginnings'
    BY <1>1, <1>2, <2>9 DEF Beginnings, sessionVars
  <2>14. MemberIsTold'
    BY <1>2, <2>7, <2>8, <2>11 DEF MemberIsTold, sessionVars
  <2>15. EventsAdvance'
    BY <2>7, <2>8, <2>11 DEF EventsAdvance, Told
  <2>16. WaitingHandlerHasNothing'
    BY <2>9, <2>10 DEF WaitingHandlerHasNothing
  <2> QED BY <2>9, <2>12, <2>13, <2>14, <2>15, <2>16 DEF ObserverInv
<1> QED BY <1>4, <1>5

\* An observe request is told what the session retained.
LEMMA ObserveKeeps == ASSUME ObserverInv, Observe PROVE ObserverInv'
<1> DEFINE r == Retained(NewObserver)
<1>1. TypeOK /\ Beginnings /\ seq \in Nat /\ written \in Nat
  BY DEF ObserverInv, TypeOK
<1>2. /\ kind = "none" /\ taken = <<>> /\ registered
      /\ entry' = "member" /\ kind' = "observe" /\ peer' = peer /\ taken' = taken
      /\ stream' = "ready" /\ UNCHANGED sessionVars /\ obs' = [r EXCEPT !.signal = FALSE]
      /\ sess # "absent" /\ sess # "openingFor"
  BY <1>1 DEF Observe, Beginnings
<1>3. Told(<<>> \o NewObserver.events, seq, 0) /\ Len(<<>> \o NewObserver.events) = 0
  BY <1>1, NewObserverFacts
<1>4. Sound(r) /\ ~r.closed /\ Told(<<>> \o r.events, seq + 1, written)
  <2> DEFINE o == NewObserver
  <2>1. /\ Sound(o) /\ ~o.closed /\ <<>> \in Seq(Events)
        /\ Told(<<>> \o o.events, seq, 0)
        /\ \A i \in 1..Len(<<>> \o o.events) : (<<>> \o o.events)[i].kind = "opened"
    BY <1>3, NewObserverFacts
  <2> HIDE DEF o
  <2>2. /\ Sound(Retained(o)) /\ ~Retained(o).closed
        /\ Told(<<>> \o Retained(o).events, seq + 1, written)
    BY <1>1, <2>1, RetainedIsTold
  <2> QED BY <2>2 DEF o
<1> HIDE DEF r
<1>5. /\ obs' \in Observers /\ ~obs'.signal /\ obs'.events = r.events /\ ~obs'.closed
      /\ obs'.queued = r.queued
  BY <1>2, <1>4 DEF Sound, Observers
<1>6. Sound(obs')
  BY <1>4, <1>5 DEF Sound
<1>7. Stream' = <<>> \o r.events
  BY <1>2, <1>5 DEF Stream
<1>8. TypeOK'
  BY <1>1, <1>2, <1>5 DEF TypeOK, sessionVars
<1>9. Beginnings'
  BY <1>1, <1>2 DEF Beginnings, sessionVars
<1>10. MemberIsTold'
  BY <1>2, <1>4, <1>7 DEF MemberIsTold, sessionVars
<1>11. EventsAdvance' /\ WaitingHandlerHasNothing'
  BY <1>2, <1>4, <1>7 DEF EventsAdvance, Told, WaitingHandlerHasNothing
<1> QED BY <1>6, <1>8, <1>9, <1>10, <1>11 DEF ObserverInv

\* What next answers moves from the queue to what was taken: the stream is the same.
LEMMA TakeNextKeeps == ASSUME ObserverInv, TakeNext PROVE ObserverInv'
<1> DEFINE h == Head(obs.events)  s == Tail(obs.events)
<1>1. /\ TypeOK /\ Beginnings /\ Sound(obs) /\ MemberIsTold /\ EventsAdvance
      /\ obs \in Observers /\ obs.events \in Seq(Events) /\ obs.queued \in Nat
      /\ taken \in Seq(Events) /\ obs.events # <<>> /\ stream = "ready"
  BY DEF ObserverInv, TypeOK, Sound, Observers, TakeNext
<1>2. /\ h \in Events /\ s \in Seq(Events)
      /\ Held(obs.events) = Size(h) + Held(s) /\ Held(s) \in Nat /\ Size(h) \in Nat
  BY <1>1, HeadTailProperties, HeldSplitsFirst, SizeType
<1>3. /\ obs' = [obs EXCEPT !.events = s, !.queued = @ - Size(h)]
      /\ taken' = Append(taken, h)
      /\ stream' \in {"ready", "over"}
      /\ UNCHANGED sessionVars /\ entry' = entry /\ kind' = kind /\ peer' = peer
  BY DEF TakeNext, streamVars
<1>4. obs.events = <<h>> \o s
  <2>1. s = SubSeq(obs.events, 2, Len(obs.events)) /\ h = obs.events[1]
    BY <1>1, TailIsSubSeq, HeadTailProperties
  <2>2. Len(obs.events) \in Nat /\ Len(obs.events) >= 1
    BY <1>1, EmptySeq, LenProperties
  <2>3. 1 \in 1..Len(obs.events) /\ Len(obs.events) \in 1..Len(obs.events)
    BY <2>2
  <2>4. SubSeq(obs.events, 1, Len(obs.events))
        = <<obs.events[1]>> \o SubSeq(obs.events, 1 + 1, Len(obs.events))
    BY <1>1, <2>3, SubSeqRecursiveFirst
  <2>5. SubSeq(obs.events, 1, Len(obs.events)) = obs.events
    BY <1>1, SubSeqFull
  <2> QED BY <2>1, <2>4, <2>5
<1> HIDE DEF h, s
<1>5. obs.queued - Size(h) = Held(s) /\ obs.queued - Size(h) <= ObserverBuffer
  BY <1>1, <1>2, ObserverConstants DEF Sound
<1>6. /\ obs'.events = s /\ obs'.queued = Held(s) /\ obs'.closed = obs.closed
      /\ obs'.signal = obs.signal /\ obs' \in Observers
  BY <1>1, <1>2, <1>3, <1>5 DEF Observers
<1>7. Sound(obs')
  BY <1>5, <1>6 DEF Sound
<1>8. Stream' = Stream
  <2>1. <<h>> \in Seq(Events) /\ Append(taken, h) = taken \o <<h>>
    BY <1>1, <1>2, AppendIsConcat
  <2>2. (taken \o <<h>>) \o s = taken \o (<<h>> \o s)
    BY <1>1, <1>2, <2>1, ConcatAssociative
  <2> QED BY <1>3, <1>4, <1>6, <2>1, <2>2 DEF Stream
<1>9. taken' \in Seq(Events)
  BY <1>1, <1>2, <1>3, AppendProperties
<1>10. TypeOK'
  BY <1>1, <1>3, <1>6, <1>9 DEF TypeOK, sessionVars
<1>11. Beginnings'
  <2>1. entry # "none" /\ kind # "none"
    BY <1>1 DEF Beginnings
  <2> QED BY <1>1, <1>3, <1>6, <2>1 DEF Beginnings, sessionVars
<1>12. MemberIsTold' /\ EventsAdvance'
  BY <1>1, <1>3, <1>6, <1>8 DEF MemberIsTold, EventsAdvance, sessionVars
<1>13. WaitingHandlerHasNothing'
  BY <1>3 DEF WaitingHandlerHasNothing
<1> QED BY <1>7, <1>10, <1>11, <1>12, <1>13 DEF ObserverInv

\* A handler that waits or leaves, a client that goes, an observer that is closed or
\* removed: nothing is told and nothing is taken.
LEMMA QuietStepKeeps ==
    ASSUME ObserverInv, NextWaits \/ PreparedNotices \/ Removed \/ PeerDies \/ UNCHANGED vars
    PROVE  ObserverInv'
<1>1. /\ TypeOK /\ Beginnings /\ Sound(obs) /\ MemberIsTold /\ EventsAdvance
      /\ WaitingHandlerHasNothing /\ obs \in Observers
  BY DEF ObserverInv, TypeOK
<1>2. /\ UNCHANGED sessionVars /\ kind' = kind /\ taken' = taken
      /\ obs' = obs \/ obs' = [obs EXCEPT !.closed = TRUE]
      /\ \/ entry' = entry
         \/ /\ entry = "member" /\ entry' = "removed"
            /\ obs' = [obs EXCEPT !.closed = TRUE]
      /\ stream' \in {stream, "ready", "waiting", "over"}
      /\ stream' # stream => kind # "none"
      /\ kind = "none" => obs' = obs
      /\ peer' \in BOOLEAN
  BY <1>1 DEF NextWaits, PreparedNotices, Removed, PeerDies, vars, streamVars, Beginnings,
     TypeOK
<1>3. /\ obs'.events = obs.events /\ obs'.queued = obs.queued /\ obs'.signal = obs.signal
      /\ obs' \in Observers /\ (obs'.closed = obs.closed \/ obs'.closed)
      /\ entry' = "removed" /\ entry # "removed" => obs'.closed
  <2>1. CASE obs' = obs
    BY <1>1, <1>2, <2>1 DEF Observers
  <2>2. CASE obs' = [obs EXCEPT !.closed = TRUE]
    BY <1>1, <1>2, <2>2 DEF Observers
  <2> QED BY <1>2, <2>1, <2>2
<1>4. Sound(obs') /\ Stream' = Stream
  BY <1>1, <1>2, <1>3 DEF Sound, Stream
<1>5. TypeOK'
  BY <1>1, <1>2, <1>3 DEF TypeOK, sessionVars
<1>6. Beginnings'
  BY <1>1, <1>2, <1>3 DEF Beginnings, sessionVars
<1>7. MemberIsTold' /\ EventsAdvance'
  BY <1>1, <1>2, <1>3, <1>4 DEF MemberIsTold, EventsAdvance, sessionVars
<1>8. WaitingHandlerHasNothing'
  BY <1>1 DEF WaitingHandlerHasNothing, NextWaits, PreparedNotices, Removed, PeerDies, vars
<1> QED BY <1>4, <1>5, <1>6, <1>7, <1>8 DEF ObserverInv

\* The step, by its actions.
LEMMA StepPreservesObserverInv == ObserverInv /\ [Next]_vars => ObserverInv'
<1> SUFFICES ASSUME ObserverInv, [Next]_vars PROVE ObserverInv'
  OBVIOUS
<1>1. ASSUME PumpReaps PROVE ObserverInv'
  <2>1. /\ Reaped /\ pump /\ pump' = FALSE /\ written' = written /\ sess' = sess
        /\ entry' = entry /\ kind' = kind /\ peer' = peer /\ taken' = taken
        /\ registered' = registered /\ registered \in BOOLEAN
    BY <1>1 DEF PumpReaps, streamVars, ObserverInv, TypeOK
  <2> QED BY <2>1, ReapedKeeps
<1>2. ASSUME CloserReaps PROVE ObserverInv'
  <2>1. /\ Reaped /\ registered /\ registered' = FALSE /\ written' = written /\ sess' = sess
        /\ entry' = entry /\ kind' = kind /\ peer' = peer /\ taken' = taken
        /\ pump' = pump /\ pump \in BOOLEAN
    BY <1>2 DEF CloserReaps, streamVars, ObserverInv, TypeOK
  <2> QED BY <2>1, ReapedKeeps
<1> QED BY <1>1, <1>2, OpenSessionKeeps, OpenPublishesKeeps, PumpPublishesKeeps, ResizeKeeps,
           RestartKeeps, ObservePreparedKeeps, AdoptKeeps, ObserveKeeps, TakeNextKeeps,
           QuietStepKeeps
        DEF Next, StreamStep

----------------------------------------------------------------------------
\* The invariant holds in every state.
THEOREM ObserverInvariance == Safety => []ObserverInv
<1> QED BY InitEstablishesObserverInv, StepPreservesObserverInv, PTL DEF Safety

\* Every variable of a session's event stream keeps its type, and no signal is left
\* pending (observer.go 16-34).
THEOREM ObserverTypeCorrect == Safety => []TypeOK
<1>1. ObserverInv => TypeOK
  BY DEF ObserverInv
<1> QED BY <1>1, ObserverInvariance, PTL

\* What an observer is told covers the output, whatever the sizes of its queue, of the
\* ring and of the reads, wherever it joined and however far it fell behind
\* (publishOutput, publishGapLocked, observe 511-527, adoptObserver 835-853).
THEOREM NoByteIsForgotten == Safety => []EveryByteIsAccountedFor
<1>1. ObserverInv => EveryByteIsAccountedFor
  BY DEF ObserverInv, MemberIsTold, EveryByteIsAccountedFor, Told
<1> QED BY <1>1, ObserverInvariance, PTL

\* Events come in their order, once each, and the session is named before its output
\* (pump 328-336, resize 470-475, reap 620, openWithObserver 294-301, adoptObserver
\* 825-827).
THEOREM EventsComeInOrder == Safety => []EventsAdvance
<1>1. ObserverInv => EventsAdvance
  BY DEF ObserverInv
<1> QED BY <1>1, ObserverInvariance, PTL

\* A queue counts what it holds, for any budget, and stays within it (publishOutput 42,
\* next 126).
THEOREM TheQueueIsBounded == Safety => []QueueHoldsItsBudget
<1>1. ObserverInv => QueueHoldsItsBudget
  BY DEF ObserverInv, Sound, QueueHoldsItsBudget
<1> QED BY <1>1, ObserverInvariance, PTL

\* No publish is missed by a handler that waits (next 117, the Signal of every publish).
THEOREM NoHandlerWaitsInVain == Safety => []WaitingHandlerHasNothing
<1>1. ObserverInv => WaitingHandlerHasNothing
  BY DEF ObserverInv
<1> QED BY <1>1, ObserverInvariance, PTL
=============================================================================
