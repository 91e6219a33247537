----------------------------- MODULE ChannelProofs -----------------------------
(***************************************************************************)
(* No value waits beside a receiver that waits, each value is given once,  *)
(* and receivers are served in the order in which they asked, for any      *)
(* number of values and receivers.  The ring of asap events is a queue.    *)
(* The heap of timers stays in order and owns what it should.              *)
(***************************************************************************)
EXTENDS Queues, FiniteSetTheorems, SequenceTheorems, WellFoundedInduction, TLAPS

\* Receivers have one place in the line, those that have not asked have none,
\* and those that may still be served were given nothing.
Line(w, l, f, g) ==
  /\ w \in Seq(Receiver) /\ l \subseteq Receiver /\ f \subseteq Receiver
  /\ \A i, j \in 1 .. Len(w) : w[i] = w[j] => i = j
  /\ \A i \in 1 .. Len(w) : w[i] \notin f
  /\ \A r \in l : \E i \in 1 .. Len(w) : w[i] = r
  /\ \A r \in l \cup f : g[r] = NoValue

\* Each value that was pushed has one place in the channel or one receiver.
Once(s, g, p) ==
  /\ s \in Seq(Value) /\ g \in [Receiver -> Value \cup {NoValue}] /\ p \subseteq Value
  /\ \A i, j \in 1 .. Len(s) : s[i] = s[j] => i = j
  /\ \A i \in 1 .. Len(s) : s[i] \in p /\ \A r \in Receiver : g[r] # s[i]
  /\ \A r \in Receiver : g[r] # NoValue => g[r] \in p
  /\ \A r, t \in Receiver : g[r] = g[t] /\ g[r] # NoValue => r = t
  /\ \A v \in p : (\E i \in 1 .. Len(s) : s[i] = v) \/ (\E r \in Receiver : g[r] = v)

\* What is in a sequence without f elements in front and e at the back.
Inner(s, f, e) == SubSeq(s, 1 + f, Len(s) - e)

\* Each call in the middle of a trigger is about to remove what it gave: the
\* receiver at the front of the line, or one end of the queue.
Calm ==
  /\ \A i, j \in 1 .. Len(pending) : pending[i] = pending[j] => i = j
  /\ "waiting" \in Pending =>
       Pending = {"waiting"} /\ q = <<>> /\ waitq # <<>> /\ Head(waitq) \notin live
  /\ Taken("front") + Taken("back") <= Len(q)
  /\ q # <<>> => live = {}
  /\ Once(Kept, got, pushed)

ChannelInv ==
  /\ Line(waitq, live, fresh, got)
  /\ q \in Seq(Value) /\ got \in [Receiver -> Value \cup {NoValue}]
  /\ pending \in Seq(Removal) /\ crossed \in BOOLEAN
  /\ crossed \/ Calm

\* A nonempty set of numbers has a least element.
LEMMA Least ==
  ASSUME NEW T, T \subseteq Nat, T # {}
  PROVE  \E n \in T : \A m \in T : n <= m
<1>1. PICK n \in T : \A m \in T : ~(<<m, n>> \in OpToRel(<, Nat))
  BY NatLessThanWellFounded, WFMin
<1>2. \A m \in T : m \in Nat /\ n \in Nat /\ ~(m < n)
  BY <1>1 DEF OpToRel
<1>3. QED
  BY <1>2

\* All but the last element.
LEMMA ButLast ==
  ASSUME NEW S, NEW s \in Seq(S), Len(s) > 0
  PROVE  /\ SubSeq(s, 1, Len(s) - 1) \in Seq(S)
         /\ Len(SubSeq(s, 1, Len(s) - 1)) = Len(s) - 1
         /\ \A i \in 1 .. Len(s) - 1 : SubSeq(s, 1, Len(s) - 1)[i] = s[i]
<1>1. Len(s) \in Nat
  BY LenProperties
<1>2. PICK m \in Int : m = 1
  OBVIOUS
<1>3. PICK n \in Int : n = Len(s) - 1
  BY <1>1
<1>4. \A i \in m .. n : s[i] \in S
  BY <1>1, <1>2, <1>3, ElementOfSeq
<1>5. /\ SubSeq(s, m, n) \in Seq(S)
      /\ Len(SubSeq(s, m, n)) = IF m <= n THEN n - m + 1 ELSE 0
      /\ \A i \in 1 .. n - m + 1 : SubSeq(s, m, n)[i] = s[m + i - 1]
  BY <1>4, SubSeqProperties
<1>6. Len(SubSeq(s, m, n)) = n /\ n - m + 1 = n
  <2>1. n - m + 1 = n /\ n >= 0
    BY <1>1, <1>2, <1>3
  <2>2. CASE m <= n
    BY <1>5, <2>1, <2>2
  <2>3. CASE ~(m <= n)
    <3>1. n = 0 /\ Len(SubSeq(s, m, n)) = 0
      BY <1>2, <1>5, <2>1, <2>3
    <3>2. QED
      BY <2>1, <3>1
  <2>4. QED
    BY <2>2, <2>3, <2>1
<1>7. ASSUME NEW i \in 1 .. n PROVE SubSeq(s, m, n)[i] = s[i]
  <2>1. i \in 1 .. n - m + 1 /\ m + i - 1 = i
    BY <1>2, <1>6
  <2>2. QED
    BY <1>5, <2>1
<1>8. QED
  BY <1>2, <1>3, <1>5, <1>6, <1>7

\* The dead events at the front leave the line, and nobody else does.
LEMMA PassedOK ==
  ASSUME waitq \in Seq(Receiver)
  PROVE  \E n \in 0 .. Len(waitq) :
           /\ Passed(waitq) \in Seq(Receiver)
           /\ Len(Passed(waitq)) = Len(waitq) - n
           /\ \A i \in 1 .. Len(waitq) - n : Passed(waitq)[i] = waitq[i + n]
           /\ \A i \in 1 .. n : waitq[i] \notin live
           /\ n < Len(waitq) => waitq[n + 1] \in live
<1> DEFINE Stop(n) == /\ \A i \in 1 .. n : waitq[i] \notin live
                      /\ n < Len(waitq) => waitq[n + 1] \in live
           T == {n \in 0 .. Len(waitq) : n < Len(waitq) => waitq[n + 1] \in live}
           dead == CHOOSE n \in 0 .. Len(waitq) : Stop(n)
<1>0. Len(waitq) \in Nat
  BY LenProperties
<1>1. Len(waitq) \in T /\ T \subseteq Nat
  BY <1>0
<1>2. PICK n \in T : \A m \in T : n <= m
  BY <1>1, Least
<1>3. \A i \in 1 .. n : waitq[i] \notin live
  <2>1. SUFFICES ASSUME NEW i \in 1 .. n, waitq[i] \in live PROVE FALSE
    OBVIOUS
  <2>2. i - 1 \in 0 .. Len(waitq) /\ (i - 1) + 1 = i /\ ~(n <= i - 1)
    BY <1>0, <1>2
  <2>3. i - 1 \in T
    BY <2>1, <2>2
  <2>4. QED
    BY <1>2, <2>2, <2>3
<1>4. n \in 0 .. Len(waitq) /\ Stop(n)
  BY <1>2, <1>3
<1>5. dead \in 0 .. Len(waitq) /\ Stop(dead)
  BY <1>4
<1>6. Passed(waitq) = SubSeq(waitq, dead + 1, Len(waitq))
  BY DEF Passed
<1>7. \A i \in dead + 1 .. Len(waitq) : waitq[i] \in Receiver
  BY <1>0, <1>5, ElementOfSeq
<1> HIDE DEF dead
<1>8. dead + 1 \in Int /\ Len(waitq) \in Int
  BY <1>0, <1>5
<1>9. /\ Passed(waitq) \in Seq(Receiver)
      /\ Len(Passed(waitq)) =
           IF dead + 1 <= Len(waitq) THEN Len(waitq) - (dead + 1) + 1 ELSE 0
      /\ \A i \in 1 .. Len(waitq) - (dead + 1) + 1 :
           Passed(waitq)[i] = waitq[(dead + 1) + i - 1]
  BY <1>6, <1>7, <1>8, SubSeqProperties
<1>10. Len(Passed(waitq)) = Len(waitq) - dead
  BY <1>0, <1>5, <1>9
<1>11. ASSUME NEW i \in 1 .. Len(waitq) - dead
       PROVE  Passed(waitq)[i] = waitq[i + dead]
  <2>1. i \in 1 .. Len(waitq) - (dead + 1) + 1 /\ (dead + 1) + i - 1 = i + dead
    BY <1>0, <1>5
  <2>2. QED
    BY <1>9, <2>1
<1>12. QED
  BY <1>5, <1>9, <1>10, <1>11

\* What is left is a line for the same receivers, headed by a live one.
LEMMA PassedLine ==
  ASSUME NEW w, w = Passed(waitq), Line(waitq, live, fresh, got)
  PROVE  /\ Line(w, live, fresh, got)
         /\ w # <<>> => Head(w) \in live
         /\ w = <<>> => live = {}
         /\ \A i \in 1 .. Len(waitq) : waitq[i] \in live =>
              \E k \in 1 .. Len(w) : w[k] = waitq[i]
<1>1. PICK n \in 0 .. Len(waitq) :
        /\ w \in Seq(Receiver)
        /\ Len(w) = Len(waitq) - n
        /\ \A i \in 1 .. Len(waitq) - n : w[i] = waitq[i + n]
        /\ \A i \in 1 .. n : waitq[i] \notin live
        /\ n < Len(waitq) => waitq[n + 1] \in live
  BY PassedOK DEF Line
<1>2. Len(waitq) \in Nat /\ Len(w) \in Nat
  BY <1>1, LenProperties DEF Line
<1>3. \A i \in 1 .. Len(w) : i + n \in 1 .. Len(waitq) /\ w[i] = waitq[i + n]
  BY <1>1, <1>2
<1>4. \A i, j \in 1 .. Len(w) : w[i] = w[j] => i = j
  <2>1. SUFFICES ASSUME NEW i \in 1 .. Len(w), NEW j \in 1 .. Len(w), w[i] = w[j]
                 PROVE  i = j
    OBVIOUS
  <2>2. i + n = j + n
    BY <1>3, <2>1 DEF Line
  <2>3. QED
    BY <1>2, <2>2
<1>5. ASSUME NEW i \in 1 .. Len(waitq), waitq[i] \in live
      PROVE  \E k \in 1 .. Len(w) : w[k] = waitq[i]
  <2>1. i - n \in 1 .. Len(w) /\ (i - n) + n = i
    BY <1>1, <1>2, <1>5
  <2>2. QED
    BY <1>3, <2>1
<1>6. \A i \in 1 .. Len(w) : w[i] \notin fresh
  BY <1>3 DEF Line
<1>7. \A r \in live : \E k \in 1 .. Len(w) : w[k] = r
  BY <1>5 DEF Line
<1>8. Line(w, live, fresh, got)
  BY <1>1, <1>4, <1>6, <1>7 DEF Line
<1>9. ASSUME w # <<>> PROVE Head(w) \in live
  <2>1. Len(w) > 0 /\ Head(w) = w[1]
    BY <1>1, <1>9, EmptySeq
  <2>2. 1 \in 1 .. Len(w) /\ 1 + n = n + 1 /\ n < Len(waitq)
    BY <1>1, <1>2, <2>1
  <2>3. QED
    BY <1>1, <1>3, <2>1, <2>2
<1>10. w = <<>> => live = {}
  BY <1>7
<1>11. QED
  BY <1>5, <1>8, <1>9, <1>10

\* A value is given to a live receiver and is not in the queue.
LEMMA GiveOnce ==
  ASSUME NoValue \notin Value, NEW c, Once(c, got, pushed), NEW r \in Receiver, got[r] = NoValue,
         NEW v \in Value, v \notin pushed, NEW g, g = [got EXCEPT ![r] = v]
  PROVE  Once(c, g, pushed \cup {v})
<1>1. g \in [Receiver -> Value \cup {NoValue}]
  BY DEF Once
<1>2. \A t \in Receiver : g[t] = IF t = r THEN v ELSE got[t]
  BY DEF Once
<1>3. QED
  BY <1>1, <1>2 DEF Once

\* A value is put at either end.
LEMMA PutOnce ==
  ASSUME NEW c, Once(c, got, pushed), NEW back \in BOOLEAN, NEW v \in Value, v \notin pushed, v # NoValue,
         NEW s, s = IF back THEN Append(c, v) ELSE <<v>> \o c
  PROVE  Once(s, got, pushed \cup {v}) /\ s # <<>>
<1>1. c \in Seq(Value) /\ Len(c) \in Nat
  BY LenProperties DEF Once
<1>2. <<v>> \in Seq(Value) /\ Len(<<v>>) = 1 /\ <<v>>[1] = v
  OBVIOUS
<1>3. CASE back
  <2>1. /\ s \in Seq(Value) /\ Len(s) = Len(c) + 1
        /\ \A i \in 1 .. Len(s) : s[i] = IF i = Len(c) + 1 THEN v ELSE c[i]
    BY <1>1, <1>3
  <2>2. \A i \in 1 .. Len(s) : i # Len(c) + 1 => i \in 1 .. Len(c)
    BY <1>1, <2>1
  <2>3. \A i \in 1 .. Len(c) : i \in 1 .. Len(s) /\ s[i] = c[i]
    BY <1>1, <2>1
  <2>4. Len(s) \in 1 .. Len(s) /\ s[Len(s)] = v /\ Len(s) > 0
    BY <1>1, <2>1
  <2>5. s # <<>>
    BY <2>4, EmptySeq
  <2>6. QED
    BY <1>1, <2>1, <2>2, <2>3, <2>4, <2>5 DEF Once
<1>4. CASE ~back
  <2>1. /\ s \in Seq(Value) /\ Len(s) = 1 + Len(c)
        /\ \A i \in 1 .. 1 + Len(c) : s[i] = IF i <= 1 THEN <<v>>[i] ELSE c[i - 1]
    <3>1. s = <<v>> \o c
      BY <1>4
    <3>2. QED
      BY <1>1, <1>2, <3>1, ConcatProperties
  <2>2. \A i \in 1 .. Len(s) : i # 1 => i - 1 \in 1 .. Len(c) /\ s[i] = c[i - 1]
    BY <1>1, <2>1
  <2>3. \A i \in 1 .. Len(c) : i + 1 \in 1 .. Len(s) /\ (i + 1) - 1 = i /\ i + 1 # 1
    BY <1>1, <2>1
  <2>4. 1 \in 1 .. Len(s) /\ s[1] = v /\ Len(s) > 0
    BY <1>1, <1>2, <2>1
  <2>5. s # <<>>
    BY <2>4, EmptySeq
  <2>6. \A i, j \in 1 .. Len(s) : s[i] = s[j] => i = j
    <3>1. SUFFICES ASSUME NEW i \in 1 .. Len(s), NEW j \in 1 .. Len(s), s[i] = s[j]
                   PROVE  i = j
      OBVIOUS
    <3>2. CASE i # 1 /\ j # 1
      <4>1. i - 1 = j - 1
        BY <2>2, <3>1, <3>2 DEF Once
      <4>2. QED
        BY <4>1, <2>1
    <3>3. CASE i = 1 \/ j = 1
      BY <2>2, <2>4, <3>1, <3>3 DEF Once
    <3>4. QED
      BY <3>2, <3>3
  <2>7. \A i \in 1 .. Len(s) : s[i] \in pushed \cup {v} /\ \A r \in Receiver : got[r] # s[i]
    BY <2>2, <2>4 DEF Once
  <2>8. \A u \in pushed \cup {v} :
          (\E i \in 1 .. Len(s) : s[i] = u) \/ (\E r \in Receiver : got[r] = u)
    <3>1. ASSUME NEW i \in 1 .. Len(c) PROVE \E k \in 1 .. Len(s) : s[k] = c[i]
      BY <2>2, <2>3
    <3>2. \A u \in pushed : (\E i \in 1 .. Len(c) : c[i] = u) \/ (\E r \in Receiver : got[r] = u)
      BY DEF Once
    <3>3. \E k \in 1 .. Len(s) : s[k] = v
      BY <2>4
    <3>4. SUFFICES ASSUME NEW u \in pushed
                   PROVE  (\E i \in 1 .. Len(s) : s[i] = u) \/ (\E r \in Receiver : got[r] = u)
      BY <3>3
    <3>5. ASSUME NEW i \in 1 .. Len(c), c[i] = u PROVE \E k \in 1 .. Len(s) : s[k] = u
      BY <3>1, <3>5
    <3>6. QED
      BY <3>2, <3>5
  <2>9. QED
    BY <2>1, <2>5, <2>6, <2>7, <2>8 DEF Once
<1>5. QED
  BY <1>3, <1>4

\* A value is taken from either end.
LEMMA TakeOnce ==
  ASSUME NoValue \notin Value, NEW c, Once(c, got, pushed), c # <<>>, NEW back \in BOOLEAN,
         NEW r \in Receiver, got[r] = NoValue,
         NEW g, g = [got EXCEPT ![r] = IF back THEN c[Len(c)] ELSE Head(c)],
         NEW s, s = IF back THEN SubSeq(c, 1, Len(c) - 1) ELSE Tail(c)
  PROVE  Once(s, g, pushed)
<1> DEFINE d == IF back THEN 0 ELSE 1
           v == IF back THEN c[Len(c)] ELSE Head(c)
<1>1. c \in Seq(Value) /\ Len(c) \in Nat /\ Len(c) > 0
  BY LenProperties, EmptySeq DEF Once
<1>2. /\ s \in Seq(Value) /\ Len(s) = Len(c) - 1
      /\ \A i \in 1 .. Len(c) - 1 : s[i] = c[i + d]
  <2>1. CASE back
    BY <1>1, <2>1, ButLast
  <2>2. CASE ~back
    BY <1>1, <2>2, HeadTailProperties
  <2>3. QED
    BY <2>1, <2>2
<1>3. PICK k \in 1 .. Len(c) : v = c[k] /\ k = IF back THEN Len(c) ELSE 1
  BY <1>1
<1>4. \A i \in 1 .. Len(s) : i + d \in 1 .. Len(c) /\ i + d # k /\ s[i] = c[i + d]
  BY <1>1, <1>2, <1>3
<1>5. ASSUME NEW i \in 1 .. Len(c), i # k
      PROVE  i - d \in 1 .. Len(s) /\ (i - d) + d = i
  <2>1. CASE back
    BY <1>1, <1>2, <1>3, <1>5, <2>1
  <2>2. CASE ~back
    BY <1>1, <1>2, <1>3, <1>5, <2>2
  <2>3. QED
    BY <2>1, <2>2
<1>6. v \in Value /\ v \in pushed /\ \A t \in Receiver : got[t] # v
  BY <1>3 DEF Once
<1>7. \A t \in Receiver : g[t] = IF t = r THEN v ELSE got[t]
  BY DEF Once
<1>8. g \in [Receiver -> Value \cup {NoValue}]
  BY <1>6 DEF Once
<1>9. \A i, j \in 1 .. Len(s) : s[i] = s[j] => i = j
  <2>1. SUFFICES ASSUME NEW i \in 1 .. Len(s), NEW j \in 1 .. Len(s), s[i] = s[j]
                 PROVE  i = j
    OBVIOUS
  <2>2. i + d = j + d
    BY <1>4, <2>1 DEF Once
  <2>3. QED
    BY <2>2, <1>1, <1>2
<1>10. \A i \in 1 .. Len(s) : s[i] # v /\ s[i] \in pushed /\ \A t \in Receiver : got[t] # s[i]
  BY <1>3, <1>4 DEF Once
<1>11. \A u \in pushed : u # v =>
         (\E i \in 1 .. Len(s) : s[i] = u) \/ (\E t \in Receiver : got[t] = u)
  <2>1. ASSUME NEW i \in 1 .. Len(c), c[i] # v PROVE \E j \in 1 .. Len(s) : s[j] = c[i]
    <3>1. i # k
      BY <1>3, <2>1
    <3>2. i - d \in 1 .. Len(s) /\ (i - d) + d = i
      BY <1>5, <3>1
    <3>3. QED
      BY <1>4, <3>2
  <2>2. \A u \in pushed : (\E i \in 1 .. Len(c) : c[i] = u) \/ (\E t \in Receiver : got[t] = u)
    BY DEF Once
  <2>3. SUFFICES ASSUME NEW u \in pushed, u # v, NEW i \in 1 .. Len(c), c[i] = u
                 PROVE  \E j \in 1 .. Len(s) : s[j] = u
    BY <2>2
  <2>4. QED
    BY <2>1, <2>3
<1> HIDE DEF v, d
<1>12. \A u \in pushed : (\E i \in 1 .. Len(s) : s[i] = u) \/ (\E t \in Receiver : g[t] = u)
  <2>1. g[r] = v
    BY <1>7
  <2>2. \A t \in Receiver : got[t] # NoValue => g[t] = got[t]
    BY <1>7
  <2>3. \A u \in pushed : u # NoValue
    BY DEF Once
  <2>4. QED
    BY <1>11, <2>1, <2>2, <2>3
<1>13. \A i \in 1 .. Len(s) : s[i] \in pushed /\ \A t \in Receiver : g[t] # s[i]
  BY <1>7, <1>10
<1>14. \A t \in Receiver : g[t] # NoValue => g[t] \in pushed
  BY <1>6, <1>7 DEF Once
<1>15. \A t, u \in Receiver : g[t] = g[u] /\ g[t] # NoValue => t = u
  BY <1>6, <1>7 DEF Once
<1>16. QED
  BY <1>2, <1>8, <1>9, <1>12, <1>13, <1>14, <1>15 DEF Once

(* The ends of the queue *)

\* x is the k elements of s behind the first f.
Middle(S, s, f, k, x) ==
  /\ x \in Seq(S) /\ Len(x) = k
  /\ \A i \in 1 .. k : x[i] = s[i + f]

LEMMA InnerIs ==
  ASSUME NEW S, NEW s \in Seq(S), NEW f \in 0 .. 1, NEW e \in 0 .. 1,
         NEW k \in Nat, Len(s) = k + f + e
  PROVE  Middle(S, s, f, k, Inner(s, f, e))
<1>1. \A i \in 1 .. Len(s) : s[i] \in S
  BY ElementOfSeq
<1>2. PICK m \in Int, n \in Int : m = 1 + f /\ n = Len(s) - e
  OBVIOUS
<1>3. \A i \in m .. n : s[i] \in S
  BY <1>1, <1>2
<1>4. /\ SubSeq(s, m, n) \in Seq(S)
      /\ Len(SubSeq(s, m, n)) = IF m <= n THEN n - m + 1 ELSE 0
      /\ \A i \in 1 .. n - m + 1 : SubSeq(s, m, n)[i] = s[m + i - 1]
  BY <1>3, SubSeqProperties
<1>5. n - m + 1 = k
  BY <1>2
<1>6. Len(SubSeq(s, m, n)) = k
  BY <1>4, <1>5
<1>7. ASSUME NEW i \in 1 .. k PROVE SubSeq(s, m, n)[i] = s[i + f]
  <2>1. i \in 1 .. n - m + 1 /\ m + i - 1 = i + f
    BY <1>2, <1>5
  <2>2. QED
    BY <1>4, <2>1
<1>8. QED
  BY <1>2, <1>4, <1>6, <1>7 DEF Inner, Middle

\* A value that is put behind what stays.
LEMMA InnerLast ==
  ASSUME NEW S, NEW s \in Seq(S), NEW f \in 0 .. 1, NEW e \in 0 .. 1, e = 0, f <= Len(s), NEW v \in S
  PROVE  Inner(Append(s, v), f, e) = Append(Inner(s, f, e), v)
<1> DEFINE t == Append(s, v)
           x == Inner(s, f, e)
           y == Append(x, v)
           z == Inner(t, f, e)
<1>0. Len(s) \in Nat
  BY LenProperties
<1>1. PICK k \in Nat, n \in Nat : Len(s) = k + f + e /\ n = k + 1
  <2>1. PICK k \in Nat : k = Len(s) - f - e
    BY <1>0
  <2>2. PICK n \in Nat : n = k + 1
    OBVIOUS
  <2>3. Len(s) = k + f + e
    BY <1>0, <2>1
  <2>4. QED
    BY <2>2, <2>3
<1>2. /\ t \in Seq(S) /\ Len(t) = n + f + e
      /\ \A i \in 1 .. k + f : t[i] = s[i]
      /\ t[k + f + 1] = v
  BY <1>1, AppendProperties
<1>3. x \in Seq(S) /\ Len(x) = k /\ \A i \in 1 .. k : x[i] = s[i + f]
  <2>1. Middle(S, s, f, k, x)
    BY <1>1, InnerIs
  <2>2. QED
    BY <2>1 DEF Middle
<1> HIDE DEF t, x
<1>4. z \in Seq(S) /\ Len(z) = n /\ \A i \in 1 .. n : z[i] = t[i + f]
  <2>1. Middle(S, t, f, n, z)
    BY <1>2, InnerIs
  <2>2. QED
    BY <2>1 DEF Middle
<1>5. /\ y \in Seq(S) /\ Len(y) = n
      /\ \A i \in 1 .. k : y[i] = x[i]
      /\ y[n] = v
  <2>1. /\ y \in Seq(S) /\ Len(y) = Len(x) + 1
        /\ \A i \in 1 .. Len(x) : y[i] = x[i]
        /\ y[Len(x) + 1] = v
    BY <1>3, AppendProperties
  <2>2. QED
    BY <1>1, <1>3, <2>1
<1> HIDE DEF y, z
<1>6. ASSUME NEW i \in 1 .. n PROVE z[i] = y[i]
  <2>1. CASE i = n
    <3>1. i + f = k + f + 1
      BY <1>1, <2>1
    <3>2. QED
      BY <1>2, <1>4, <1>5, <2>1, <3>1
  <2>2. CASE i # n
    <3>1. i \in 1 .. k /\ i + f \in 1 .. k + f
      BY <1>1, <2>2
    <3>2. QED
      BY <1>2, <1>3, <1>4, <1>5, <3>1
  <2>3. QED
    BY <2>1, <2>2
<1>7. z = y
  BY <1>4, <1>5, <1>6, SeqEqual
<1>8. QED
  BY <1>7 DEF t, x, y, z

\* A value that is put before what stays.
LEMMA InnerFirst ==
  ASSUME NEW S, NEW s \in Seq(S), NEW f \in 0 .. 1, NEW e \in 0 .. 1, f = 0, e <= Len(s), NEW v \in S
  PROVE  /\ <<v>> \o s \in Seq(S) /\ Len(<<v>> \o s) = Len(s) + 1
         /\ Inner(<<v>> \o s, f, e) = <<v>> \o Inner(s, f, e)
<1> DEFINE o == <<v>>
           t == o \o s
           x == Inner(s, f, e)
           y == o \o x
           z == Inner(t, f, e)
<1>0. Len(s) \in Nat /\ o \in Seq(S) /\ Len(o) = 1 /\ o[1] = v
  BY LenProperties
<1> HIDE DEF o
<1>1. PICK k \in Nat, n \in Nat : Len(s) = k + f + e /\ n = k + 1
  BY <1>0
<1>2. /\ t \in Seq(S) /\ Len(t) = n + f + e
      /\ \A i \in 1 .. n + e : t[i] = IF i <= 1 THEN o[i] ELSE s[i - 1]
  <2>1. /\ t \in Seq(S) /\ Len(t) = Len(o) + Len(s)
        /\ \A i \in 1 .. Len(o) + Len(s) : t[i] = IF i <= Len(o) THEN o[i] ELSE s[i - Len(o)]
    BY <1>0, ConcatProperties
  <2>2. QED
    BY <1>0, <1>1, <2>1
<1>3. x \in Seq(S) /\ Len(x) = k /\ \A i \in 1 .. k : x[i] = s[i + f]
  <2>1. Middle(S, s, f, k, x)
    BY <1>1, InnerIs
  <2>2. QED
    BY <2>1 DEF Middle
<1> HIDE DEF t, x
<1>4. z \in Seq(S) /\ Len(z) = n /\ \A i \in 1 .. n : z[i] = t[i + f]
  <2>1. Middle(S, t, f, n, z)
    BY <1>2, InnerIs
  <2>2. QED
    BY <2>1 DEF Middle
<1>5. /\ y \in Seq(S) /\ Len(y) = n
      /\ \A i \in 1 .. n : y[i] = IF i <= 1 THEN o[i] ELSE x[i - 1]
  <2>1. /\ y \in Seq(S) /\ Len(y) = Len(o) + Len(x)
        /\ \A i \in 1 .. Len(o) + Len(x) : y[i] = IF i <= Len(o) THEN o[i] ELSE x[i - Len(o)]
    BY <1>0, <1>3, ConcatProperties
  <2>2. QED
    BY <1>0, <1>1, <1>3, <2>1
<1> HIDE DEF y, z
<1>6. ASSUME NEW i \in 1 .. n PROVE z[i] = y[i]
  <2>1. i \in 1 .. n + e
    BY <1>1
  <2>2. CASE i <= 1
    BY <1>2, <1>4, <1>5, <2>1, <2>2
  <2>3. CASE ~(i <= 1)
    <3>1. i - 1 \in 1 .. k /\ i + f = i /\ (i - 1) + f = i - 1
      BY <1>1, <2>3
    <3>2. z[i] = s[i - 1]
      BY <1>2, <1>4, <2>1, <2>3, <3>1
    <3>3. y[i] = s[i - 1]
      BY <1>3, <1>5, <2>3, <3>1
    <3>4. QED
      BY <3>2, <3>3
  <2>4. QED
    BY <2>2, <2>3
<1>7. z = y
  BY <1>4, <1>5, <1>6, SeqEqual
<1>8. Len(t) = Len(s) + 1
  BY <1>1, <1>2
<1>9. QED
  BY <1>2, <1>7, <1>8 DEF o, t, x, y, z

\* What is taken from the front, or from the back, is marked or removed.
LEMMA InnerTail ==
  ASSUME NEW S, NEW s \in Seq(S), NEW f \in 0 .. 1, NEW g \in 0 .. 1, NEW e \in 0 .. 1,
         f = 0, g = 1, e < Len(s)
  PROVE  /\ Tail(s) \in Seq(S) /\ Len(Tail(s)) = Len(s) - 1
         /\ Inner(s, f, e) # <<>> /\ Head(Inner(s, f, e)) = Head(s)
         /\ Inner(Tail(s), f, e) = Tail(Inner(s, f, e))
         /\ Inner(s, g, e) = Tail(Inner(s, f, e))
<1> DEFINE t == Tail(s)
           x == Inner(s, f, e)
           y == Tail(x)
           z == Inner(t, f, e)
           u == Inner(s, g, e)
<1>0. Len(s) \in Nat
  BY LenProperties
<1>1. PICK k \in Nat, n \in Nat : Len(s) = n + f + e /\ n = k + 1
  <2>0. Len(s) - 1 - e \in Nat
    BY <1>0
  <2>1. PICK k \in Nat : k = Len(s) - 1 - e
    BY <2>0
  <2>2. PICK n \in Nat : n = k + 1
    OBVIOUS
  <2>3. Len(s) = n + f + e
    BY <1>0, <2>1, <2>2
  <2>4. QED
    BY <2>2, <2>3
<1>2. /\ t \in Seq(S) /\ Len(t) = k + f + e
      /\ \A i \in 1 .. k + e : t[i] = s[i + 1]
      /\ Head(s) = s[1]
  <2>1. s # <<>>
    BY <1>1, EmptySeq
  <2>2. t \in Seq(S) /\ Len(t) = Len(s) - 1 /\ \A i \in 1 .. Len(t) : t[i] = s[i + 1]
    BY <2>1, HeadTailProperties
  <2>3. Len(t) = k + e
    BY <1>1, <2>2
  <2>4. QED
    BY <1>1, <2>2, <2>3
<1>3. x \in Seq(S) /\ Len(x) = n /\ \A i \in 1 .. n : x[i] = s[i + f]
  <2>1. Middle(S, s, f, n, x)
    BY <1>1, InnerIs
  <2>2. QED
    BY <2>1 DEF Middle
<1>4. u \in Seq(S) /\ Len(u) = k /\ \A i \in 1 .. k : u[i] = s[i + g]
  <2>1. Len(s) = k + g + e
    BY <1>1
  <2>2. Middle(S, s, g, k, u)
    BY <2>1, InnerIs
  <2>3. QED
    BY <2>2 DEF Middle
<1> HIDE DEF t, x, u
<1>5. z \in Seq(S) /\ Len(z) = k /\ \A i \in 1 .. k : z[i] = t[i + f]
  <2>1. Middle(S, t, f, k, z)
    BY <1>2, InnerIs
  <2>2. QED
    BY <2>1 DEF Middle
<1>6. x # <<>> /\ Head(x) = x[1]
  BY <1>1, <1>3, EmptySeq
<1>7. y \in Seq(S) /\ Len(y) = k /\ \A i \in 1 .. k : y[i] = x[i + 1]
  <2>1. y \in Seq(S) /\ Len(y) = Len(x) - 1 /\ \A i \in 1 .. Len(y) : y[i] = x[i + 1]
    BY <1>3, <1>6, HeadTailProperties
  <2>2. QED
    BY <1>1, <1>3, <2>1
<1> HIDE DEF y, z
<1>8. ASSUME NEW i \in 1 .. k PROVE z[i] = y[i] /\ u[i] = y[i]
  <2>1. /\ i \in 1 .. k + e /\ i + 1 \in 1 .. n
        /\ i + f = i /\ i + g = i + 1 /\ (i + 1) + f = i + 1
    BY <1>1
  <2>2. z[i] = s[i + 1]
    BY <1>2, <1>5, <2>1
  <2>3. u[i] = s[i + 1]
    BY <1>4, <2>1
  <2>4. y[i] = s[i + 1]
    BY <1>3, <1>7, <2>1
  <2>5. QED
    BY <2>2, <2>3, <2>4
<1>9. z = y /\ u = y
  BY <1>4, <1>5, <1>7, <1>8, SeqEqual
<1>10. Head(x) = Head(s) /\ Len(t) = Len(s) - 1
  <2>1. 1 \in 1 .. n
    BY <1>1
  <2>2. QED
    BY <1>1, <1>2, <1>3, <1>6, <2>1
<1>11. QED
  BY <1>2, <1>6, <1>9, <1>10 DEF t, x, y, z, u

Front(s) == SubSeq(s, 1, Len(s) - 1)

LEMMA InnerFront ==
  ASSUME NEW S, NEW s \in Seq(S), NEW f \in 0 .. 1, NEW e \in 0 .. 1, NEW g \in 0 .. 1,
         e = 0, g = 1, f < Len(s)
  PROVE  /\ Front(s) \in Seq(S) /\ Len(Front(s)) = Len(s) - 1
         /\ Inner(s, f, e) # <<>>
         /\ Inner(s, f, e)[Len(Inner(s, f, e))] = s[Len(s)]
         /\ Inner(Front(s), f, e) = Front(Inner(s, f, e))
         /\ Inner(s, f, g) = Front(Inner(s, f, e))
<1> DEFINE t == Front(s)
           x == Inner(s, f, e)
           y == Front(x)
           z == Inner(t, f, e)
           u == Inner(s, f, g)
<1>0. Len(s) \in Nat
  BY LenProperties
<1>1. PICK k \in Nat, n \in Nat : Len(s) = n + f + e /\ n = k + 1
  <2>0. Len(s) - 1 - f \in Nat
    BY <1>0
  <2>1. PICK k \in Nat : k = Len(s) - 1 - f
    BY <2>0
  <2>2. PICK n \in Nat : n = k + 1
    OBVIOUS
  <2>3. Len(s) = n + f + e
    BY <1>0, <2>1, <2>2
  <2>4. QED
    BY <2>2, <2>3
<1>2. t \in Seq(S) /\ Len(t) = k + f + e /\ \A i \in 1 .. k + f : t[i] = s[i]
  <2>1. t \in Seq(S) /\ Len(t) = Len(s) - 1 /\ \A i \in 1 .. Len(s) - 1 : t[i] = s[i]
    BY <1>1, ButLast DEF Front
  <2>2. Len(s) - 1 = k + f
    BY <1>1
  <2>3. QED
    BY <2>1, <2>2
<1>3. x \in Seq(S) /\ Len(x) = n /\ \A i \in 1 .. n : x[i] = s[i + f]
  <2>1. Middle(S, s, f, n, x)
    BY <1>1, InnerIs
  <2>2. QED
    BY <2>1 DEF Middle
<1>4. u \in Seq(S) /\ Len(u) = k /\ \A i \in 1 .. k : u[i] = s[i + f]
  <2>1. Len(s) = k + f + g
    BY <1>1
  <2>2. Middle(S, s, f, k, u)
    BY <2>1, InnerIs
  <2>3. QED
    BY <2>2 DEF Middle
<1> HIDE DEF t, x, u
<1>5. z \in Seq(S) /\ Len(z) = k /\ \A i \in 1 .. k : z[i] = t[i + f]
  <2>1. Middle(S, t, f, k, z)
    BY <1>2, InnerIs
  <2>2. QED
    BY <2>1 DEF Middle
<1>6. Len(x) > 0 /\ x # <<>>
  BY <1>1, <1>3, EmptySeq
<1>7. y \in Seq(S) /\ Len(y) = k /\ \A i \in 1 .. k : y[i] = x[i]
  <2>1. y \in Seq(S) /\ Len(y) = Len(x) - 1 /\ \A i \in 1 .. Len(x) - 1 : y[i] = x[i]
    BY <1>3, <1>6, ButLast DEF Front
  <2>2. Len(x) - 1 = k
    BY <1>1, <1>3
  <2>3. QED
    BY <2>1, <2>2
<1> HIDE DEF y, z
<1>8. ASSUME NEW i \in 1 .. k PROVE z[i] = y[i] /\ u[i] = y[i]
  <2>1. i + f \in 1 .. k + f /\ i \in 1 .. n
    BY <1>1
  <2>2. QED
    BY <1>2, <1>3, <1>4, <1>5, <1>7, <2>1
<1>9. z = y /\ u = y
  BY <1>4, <1>5, <1>7, <1>8, SeqEqual
<1>10. x[Len(x)] = s[Len(s)] /\ Len(t) = Len(s) - 1
  <2>1. n \in 1 .. n /\ n + f = Len(s)
    BY <1>1
  <2>2. QED
    BY <1>1, <1>2, <1>3, <2>1
<1>11. QED
  BY <1>2, <1>6, <1>9, <1>10 DEF t, x, y, z, u

(* The line, and the calls that are under way *)

\* The first leaves the line.
LEMMA LineTail ==
  ASSUME NEW w, NEW l, NEW f, NEW g, Line(w, l, f, g), w # <<>>
  PROVE  Head(w) \in Receiver /\ Head(w) \notin f /\ Line(Tail(w), l \ {Head(w)}, f, g)
<1>1. /\ w \in Seq(Receiver) /\ Len(w) \in Nat /\ Len(w) > 0 /\ Head(w) = w[1]
      /\ Head(w) \in Receiver /\ Tail(w) \in Seq(Receiver) /\ Len(Tail(w)) = Len(w) - 1
      /\ \A i \in 1 .. Len(Tail(w)) : Tail(w)[i] = w[i + 1]
  BY HeadTailProperties, LenProperties, EmptySeq DEF Line
<1>2. \A i \in 1 .. Len(w) - 1 : i + 1 \in 1 .. Len(w) /\ Tail(w)[i] = w[i + 1] /\ i + 1 # 1
  BY <1>1
<1>3. \A i, j \in 1 .. Len(w) - 1 : Tail(w)[i] = Tail(w)[j] => i = j
  <2>1. SUFFICES ASSUME NEW i \in 1 .. Len(w) - 1, NEW j \in 1 .. Len(w) - 1, Tail(w)[i] = Tail(w)[j]
                 PROVE  i = j
    OBVIOUS
  <2>2. i + 1 = j + 1
    BY <1>2, <2>1 DEF Line
  <2>3. QED
    BY <1>1, <2>2
<1>4. \A i \in 1 .. Len(w) - 1 : Tail(w)[i] \notin f
  BY <1>2 DEF Line
<1>5. \A r \in l \ {Head(w)} : \E i \in 1 .. Len(w) - 1 : Tail(w)[i] = r
  <2>1. SUFFICES ASSUME NEW r \in l, r # Head(w)
                 PROVE  \E i \in 1 .. Len(w) - 1 : Tail(w)[i] = r
    OBVIOUS
  <2>2. PICK k \in 1 .. Len(w) : w[k] = r
    BY DEF Line
  <2>3. k - 1 \in 1 .. Len(w) - 1 /\ (k - 1) + 1 = k
    BY <1>1, <2>1, <2>2
  <2>4. QED
    BY <1>2, <2>2, <2>3
<1>6. Head(w) \notin f
  BY <1>1 DEF Line
<1>7. QED
  BY <1>1, <1>3, <1>4, <1>5, <1>6 DEF Line

\* Another call begins, and removes something that no call does yet.
LEMMA Marked ==
  ASSUME pending \in Seq(Removal), NEW end \in Removal, pending' = Append(pending, end)
  PROVE  /\ pending' \in Seq(Removal)
         /\ Pending' = Pending \cup {end}
         /\ end \notin Pending /\ (\A i, j \in 1 .. Len(pending) : pending[i] = pending[j] => i = j)
              => \A i, j \in 1 .. Len(pending') : pending'[i] = pending'[j] => i = j
<1>1. Len(pending) \in Nat /\ DOMAIN pending = 1 .. Len(pending)
  BY LenProperties
<1>2. /\ pending' \in Seq(Removal) /\ Len(pending') = Len(pending) + 1
      /\ \A i \in 1 .. Len(pending) : pending'[i] = pending[i]
      /\ pending'[Len(pending) + 1] = end
      /\ DOMAIN pending' = 1 .. Len(pending')
  BY AppendProperties, LenProperties
<1>3. /\ \A i \in 1 .. Len(pending') : i # Len(pending) + 1 => i \in 1 .. Len(pending)
      /\ \A i \in 1 .. Len(pending) : i \in 1 .. Len(pending')
      /\ Len(pending) + 1 \in 1 .. Len(pending')
  BY <1>1, <1>2
<1>4. Pending' = Pending \cup {end}
  BY <1>1, <1>2, <1>3 DEF Pending
<1>5. \A i \in 1 .. Len(pending) : pending[i] \in Pending
  BY <1>1 DEF Pending
<1>6. QED
  BY <1>2, <1>3, <1>4, <1>5

\* The innermost call goes on.
LEMMA Unmarked ==
  ASSUME pending \in Seq(Removal), pending # <<>>, NEW end, end = pending[Len(pending)],
         pending' = SubSeq(pending, 1, Len(pending) - 1)
  PROVE  /\ pending' \in Seq(Removal) /\ end \in Removal /\ end \in Pending
         /\ (\A i, j \in 1 .. Len(pending) : pending[i] = pending[j] => i = j)
              => /\ Pending' = Pending \ {end}
                 /\ \A i, j \in 1 .. Len(pending') : pending'[i] = pending'[j] => i = j
<1>1. Len(pending) \in Nat /\ Len(pending) > 0 /\ DOMAIN pending = 1 .. Len(pending)
  BY LenProperties, EmptySeq
<1>2. /\ pending' \in Seq(Removal) /\ Len(pending') = Len(pending) - 1
      /\ \A i \in 1 .. Len(pending) - 1 : pending'[i] = pending[i]
  BY <1>1, ButLast
<1>3. DOMAIN pending' = 1 .. Len(pending')
  BY <1>2, LenProperties
<1>4. Len(pending) \in 1 .. Len(pending)
  BY <1>1
<1>5. \A i \in 1 .. Len(pending) : i # Len(pending) <=> i \in 1 .. Len(pending')
  <2>1. PICK n \in Nat : n = Len(pending)
    BY <1>1
  <2>2. Len(pending') = n - 1
    BY <1>2, <2>1
  <2>3. \A i \in 1 .. n : i # n <=> i \in 1 .. n - 1
    OBVIOUS
  <2>4. QED
    BY <2>1, <2>2, <2>3
<1>6. \A i \in 1 .. Len(pending') : i \in 1 .. Len(pending) /\ pending'[i] = pending[i]
  BY <1>1, <1>2
<1>7. end \in Removal /\ end \in Pending
  BY <1>1, <1>4, ElementOfSeq DEF Pending
<1>8. ASSUME \A i, j \in 1 .. Len(pending) : pending[i] = pending[j] => i = j
      PROVE  Pending' = Pending \ {end}
  <2>1. \A i \in 1 .. Len(pending) : i # Len(pending) => pending[i] # end
    BY <1>4, <1>8
  <2>2. QED
    BY <1>1, <1>3, <1>4, <1>5, <1>6, <2>1 DEF Pending
<1>9. QED
  BY <1>2, <1>6, <1>7, <1>8

\* What is not about to be removed, by the ends that are.
LEMMA KeptIs ==
  /\ Kept = Inner(q, Taken("front"), Taken("back"))
  /\ Taken("front") \in 0 .. 1 /\ Taken("back") \in 0 .. 1
  /\ \A end \in {"front", "back"} : Taken(end) = IF end \in Pending THEN 1 ELSE 0
BY DEF Kept, Inner, Taken

(* The actions *)

LEMMA InitInv == Init => ChannelInv
<1> SUFFICES ASSUME Init PROVE ChannelInv
  OBVIOUS
<1>1. /\ q = <<>> /\ waitq = <<>> /\ pending = <<>> /\ live = {} /\ pushed = {}
      /\ fresh = Receiver /\ got = [r \in Receiver |-> NoValue] /\ crossed = FALSE
  BY DEF Init
<1>2. Pending = {}
  BY <1>1 DEF Pending
<1>3. Taken("front") = 0 /\ Taken("back") = 0
  BY <1>2 DEF Taken
<1>4. Kept = <<>>
  <2>1. q \in Seq(Value) /\ Len(q) = 0
    BY <1>1, EmptySeq
  <2>2. PICK k \in Nat : k = 0
    OBVIOUS
  <2>3. Middle(Value, q, Taken("front"), k, Kept)
    <3>1. Len(q) = k + Taken("front") + Taken("back")
      BY <1>3, <2>1, <2>2
    <3>2. QED
      BY <2>1, <3>1, KeptIs, InnerIs
  <2>5. Kept \in Seq(Value) /\ Len(Kept) = 0
    BY <2>2, <2>3 DEF Middle
  <2>6. QED
    BY <2>5, EmptySeq
<1>5. Line(waitq, live, fresh, got)
  BY <1>1, EmptySeq DEF Line
<1>6. Once(Kept, got, pushed)
  BY <1>1, <1>4, EmptySeq DEF Once
<1>7. Calm
  BY <1>1, <1>2, <1>3, <1>6, EmptySeq DEF Calm
<1>8. QED
  BY <1>1, <1>5, <1>7, EmptySeq DEF ChannelInv

\* While nothing has been crossed, the middle of the queue is what is kept.
LEMMA KeptTypes ==
  ASSUME ChannelInv, Calm
  PROVE  /\ Len(q) \in Nat /\ Kept \in Seq(Value)
         /\ Len(Kept) = Len(q) - (Taken("front") + Taken("back"))
<1>1. q \in Seq(Value) /\ Len(q) \in Nat /\ Taken("front") + Taken("back") <= Len(q)
  BY LenProperties DEF ChannelInv, Calm
<1>2. PICK k \in Nat : k = Len(q) - (Taken("front") + Taken("back"))
  BY <1>1, KeptIs
<1>3. Len(q) = k + Taken("front") + Taken("back")
  BY <1>1, <1>2, KeptIs
<1>4. Middle(Value, q, Taken("front"), k, Kept)
  BY <1>1, <1>3, KeptIs, InnerIs
<1>5. QED
  BY <1>1, <1>2, <1>4 DEF Middle

\* Push finds a receiver.
LEMMA PushServes ==
  ASSUME NoValue \notin Value, ChannelInv, NEW v \in Value, NEW back \in BOOLEAN, Push(v, back),
         NEW w, w = Passed(waitq), w # <<>>
  PROVE  /\ Head(w) \in live /\ got' = [got EXCEPT ![Head(w)] = v]
         /\ live' = live \ {Head(w)}
         /\ ChannelInv'
<1>1. /\ v \notin pushed /\ pushed' = pushed \cup {v} /\ q' = q /\ fresh' = fresh
      /\ got' = [got EXCEPT ![Head(w)] = v] /\ live' = live \ {Head(w)}
      /\ crossed' = (crossed \/ "waiting" \in Pending \/ End(back) \in Pending)
  BY DEF Push, PushOn, Serve
<1>2. \/ waitq' = w /\ pending' = Append(pending, "waiting")
      \/ waitq' = Tail(w) /\ pending' = pending
  BY DEF Push, PushOn, Serve
<1>3. Line(w, live, fresh, got) /\ Head(w) \in live
  BY PassedLine DEF ChannelInv
<1>4. /\ Head(w) \in Receiver /\ Head(w) \notin fresh
      /\ Line(Tail(w), live', fresh, got)
  BY <1>1, <1>3, LineTail
<1>5. got[Head(w)] = NoValue /\ got \in [Receiver -> Value \cup {NoValue}]
  BY <1>3 DEF Line, ChannelInv
<1>6. \A r \in Receiver : got'[r] = IF r = Head(w) THEN v ELSE got[r]
  BY <1>1, <1>5
<1>7. \A r \in live' \cup fresh' : got'[r] = NoValue
  BY <1>1, <1>3, <1>4, <1>6 DEF Line
<1>8. \A r \in live' : \E i \in 1 .. Len(w) : w[i] = r
  BY <1>1, <1>3 DEF Line
<1>9. Line(waitq', live', fresh', got')
  <2>1. CASE waitq' = w
    BY <1>1, <1>3, <1>7, <1>8, <2>1 DEF Line
  <2>2. CASE waitq' = Tail(w)
    BY <1>1, <1>4, <1>7, <2>2 DEF Line
  <2>3. QED
    BY <1>2, <2>1, <2>2
<1>10. "waiting" \in Removal
  BY DEF Removal
<1>11. pending' \in Seq(Removal)
  BY <1>2, <1>10, Marked DEF ChannelInv
<1>12. got' \in [Receiver -> Value \cup {NoValue}]
  BY <1>1, <1>5
<1>13. crossed' \in BOOLEAN
  BY <1>1 DEF ChannelInv
<1>14. ASSUME ~crossed' PROVE Calm'
  <2>1. Calm /\ "waiting" \notin Pending
    BY <1>1, <1>14 DEF ChannelInv
  <2>2. q = <<>>
    BY <1>3, <2>1 DEF Calm
  <2>3. Taken("front") + Taken("back") <= 0
    BY <2>1, <2>2, EmptySeq DEF Calm
  <2>4. "front" \notin Pending /\ "back" \notin Pending
    BY <2>3, KeptIs
  <2>5. Pending' \subseteq {"waiting"} /\ (Pending' # {} => waitq' = w)
    <3>1. Pending \subseteq Removal
      BY ElementOfSeq, LenProperties DEF Pending, ChannelInv
    <3>2. Pending = {}
      BY <2>1, <2>4, <3>1 DEF Removal
    <3>3. CASE pending' = pending /\ waitq' = Tail(w)
      BY <3>2, <3>3 DEF Pending
    <3>4. CASE pending' = Append(pending, "waiting") /\ waitq' = w
      <4>1. Pending' = Pending \cup {"waiting"}
        BY <1>10, <3>4, Marked DEF ChannelInv
      <4>2. QED
        BY <3>2, <3>4, <4>1
    <3>5. QED
      BY <1>2, <3>3, <3>4
  <2>6. \A i, j \in 1 .. Len(pending') : pending'[i] = pending'[j] => i = j
    <3>1. CASE pending' = pending
      BY <2>1, <3>1 DEF Calm
    <3>2. CASE pending' = Append(pending, "waiting")
      BY <1>10, <2>1, <3>2, Marked DEF ChannelInv, Calm
    <3>3. QED
      BY <1>2, <3>1, <3>2
  <2>7. /\ Taken("front")' = 0 /\ Taken("back")' = 0
        /\ Taken("front") = 0 /\ Taken("back") = 0
    BY <2>4, <2>5 DEF Taken
  <2>8. Kept' = Kept
    BY <1>1, <2>7 DEF Kept
  <2>9. Once(Kept, got', pushed')
    BY <1>1, <1>4, <1>5, <2>1, GiveOnce DEF Calm
  <2>10. "waiting" \in Pending' =>
           Pending' = {"waiting"} /\ q' = <<>> /\ waitq' # <<>> /\ Head(waitq') \notin live'
    BY <1>1, <2>2, <2>5
  <2>11. Taken("front")' + Taken("back")' <= Len(q')
    BY <1>1, <2>2, <2>7, EmptySeq
  <2>12. QED
    BY <1>1, <2>2, <2>6, <2>8, <2>9, <2>10, <2>11 DEF Calm
<1>15. q' \in Seq(Value)
  BY <1>1 DEF ChannelInv
<1>16. QED
  BY <1>1, <1>3, <1>9, <1>11, <1>12, <1>13, <1>14, <1>15 DEF ChannelInv

\* Push finds nobody.
LEMMA PushPuts ==
  ASSUME NoValue \notin Value, ChannelInv, NEW v \in Value, NEW back \in BOOLEAN, Push(v, back),
         Passed(waitq) = <<>>
  PROVE  got' = got /\ live' = live /\ ChannelInv'
<1>1. /\ v \notin pushed /\ pushed' = pushed \cup {v} /\ fresh' = fresh
      /\ q' = IF back THEN Append(q, v) ELSE <<v>> \o q
      /\ waitq' = Passed(waitq) /\ live' = live /\ got' = got /\ pending' = pending
      /\ crossed' = (crossed \/ "waiting" \in Pending \/ End(back) \in Pending)
  BY DEF Push, PushOn, Put
<1>2. Line(waitq', live', fresh', got') /\ live' = {}
  BY <1>1, PassedLine DEF ChannelInv
<1>3. q \in Seq(Value) /\ Len(q) \in Nat
  BY LenProperties DEF ChannelInv
<1>4. q' \in Seq(Value) /\ Len(q') = Len(q) + 1
  <2>1. CASE back
    BY <1>1, <1>3, <2>1, AppendProperties
  <2>2. CASE ~back
    <3>1. 0 \in 0 .. 1 /\ 0 <= Len(q)
      BY <1>3
    <3>2. <<v>> \o q \in Seq(Value) /\ Len(<<v>> \o q) = Len(q) + 1
      BY <1>3, <3>1, InnerFirst
    <3>3. QED
      BY <1>1, <2>2, <3>2
  <2>3. QED
    BY <2>1, <2>2
<1>5. pending' \in Seq(Removal) /\ got' \in [Receiver -> Value \cup {NoValue}]
  BY <1>1 DEF ChannelInv
<1>6. crossed' \in BOOLEAN
  BY <1>1 DEF ChannelInv
<1>7. ASSUME ~crossed' PROVE Calm'
  <2>1. Calm /\ "waiting" \notin Pending /\ End(back) \notin Pending
    BY <1>1, <1>7 DEF ChannelInv
  <2>2. Pending' = Pending
    BY <1>1 DEF Pending
  <2>3. Taken("front")' = Taken("front") /\ Taken("back")' = Taken("back")
    BY <2>2 DEF Taken
  <2>4. Kept' = Inner(q', Taken("front"), Taken("back"))
    BY <2>3 DEF Kept, Inner
  <2>5. Taken("front") + Taken("back") <= Len(q)
    BY <2>1 DEF Calm
  <2>6. Kept' = IF back THEN Append(Kept, v) ELSE <<v>> \o Kept
    <3>1. CASE back
      <4>1. Taken("back") = 0 /\ Taken("front") <= Len(q)
        BY <2>1, <2>5, <3>1, KeptIs DEF End
      <4>2. Inner(Append(q, v), Taken("front"), Taken("back"))
              = Append(Inner(q, Taken("front"), Taken("back")), v)
        BY <1>3, <4>1, KeptIs, InnerLast
      <4>3. QED
        BY <1>1, <2>4, <3>1, <4>2, KeptIs
    <3>2. CASE ~back
      <4>1. Taken("front") = 0 /\ Taken("back") <= Len(q)
        BY <2>1, <2>5, <3>2, KeptIs DEF End
      <4>2. Inner(<<v>> \o q, Taken("front"), Taken("back"))
              = <<v>> \o Inner(q, Taken("front"), Taken("back"))
        BY <1>3, <4>1, KeptIs, InnerFirst
      <4>3. QED
        BY <1>1, <2>4, <3>2, <4>2, KeptIs
    <3>3. QED
      BY <3>1, <3>2
  <2>7. Once(Kept', got', pushed')
    <3>1. v # NoValue
      OBVIOUS
    <3>2. Once(Kept, got, pushed)
      BY <2>1 DEF Calm
    <3>3. Once(Kept', got, pushed \cup {v})
      BY <1>1, <2>6, <3>1, <3>2, PutOnce
    <3>4. QED
      BY <1>1, <3>3
  <2>8. Taken("front")' + Taken("back")' <= Len(q')
    BY <1>3, <1>4, <2>3, <2>5, KeptIs
  <2>9. \A i, j \in 1 .. Len(pending') : pending'[i] = pending'[j] => i = j
    BY <1>1, <2>1 DEF Calm
  <2>10. QED
    BY <1>2, <2>1, <2>2, <2>7, <2>8, <2>9 DEF Calm
<1>8. QED
  BY <1>1, <1>2, <1>4, <1>5, <1>6, <1>7 DEF ChannelInv

LEMMA PushStep ==
  ASSUME NoValue \notin Value, ChannelInv, NEW v \in Value, NEW back \in BOOLEAN, Push(v, back)
  PROVE  ChannelInv'
<1>1. CASE Passed(waitq) # <<>>
  BY <1>1, PushServes
<1>2. CASE Passed(waitq) = <<>>
  BY <1>2, PushPuts
<1>3. QED
  BY <1>1, <1>2

\* Pop finds no value, and joins the line.
LEMMA PopWaits ==
  ASSUME NoValue \notin Value, ChannelInv, NEW r \in Receiver, NEW back \in BOOLEAN, Pop(r, back),
         q = <<>>
  PROVE  got' = got /\ live \subseteq live' /\ ChannelInv'
<1>1. /\ r \in fresh /\ fresh' = fresh \ {r} /\ pushed' = pushed
      /\ waitq' = Append(waitq, r) /\ live' = live \cup {r}
      /\ q' = q /\ got' = got /\ pending' = pending /\ crossed' = crossed
  BY DEF Pop
<1>2. got[r] = NoValue
  BY <1>1 DEF ChannelInv, Line
<1>3. /\ waitq \in Seq(Receiver) /\ Len(waitq) \in Nat
      /\ waitq' \in Seq(Receiver) /\ Len(waitq') = Len(waitq) + 1
      /\ \A i \in 1 .. Len(waitq) : waitq'[i] = waitq[i] /\ i \in 1 .. Len(waitq')
      /\ waitq'[Len(waitq) + 1] = r
  BY <1>1, LenProperties DEF ChannelInv, Line
<1>4. \A i \in 1 .. Len(waitq') : i # Len(waitq) + 1 => i \in 1 .. Len(waitq)
  BY <1>3
<1>5. Len(waitq) + 1 \in 1 .. Len(waitq')
  BY <1>3
<1>6. \A i, j \in 1 .. Len(waitq') : waitq'[i] = waitq'[j] => i = j
  BY <1>1, <1>3, <1>4 DEF ChannelInv, Line
<1>7. \A i \in 1 .. Len(waitq') : waitq'[i] \notin fresh'
  BY <1>1, <1>3, <1>4 DEF ChannelInv, Line
<1>8. \A t \in live' : \E i \in 1 .. Len(waitq') : waitq'[i] = t
  <2>1. ASSUME NEW t \in live PROVE \E i \in 1 .. Len(waitq') : waitq'[i] = t
    <3>1. PICK i \in 1 .. Len(waitq) : waitq[i] = t
      BY DEF ChannelInv, Line
    <3>2. QED
      BY <1>3, <3>1
  <2>2. QED
    BY <1>1, <1>3, <1>5, <2>1
<1>9. Line(waitq', live', fresh', got')
  BY <1>1, <1>2, <1>3, <1>6, <1>7, <1>8 DEF ChannelInv, Line
<1>10. ASSUME Calm PROVE Calm'
  <2>1. Pending' = Pending
    BY <1>1 DEF Pending
  <2>2. Taken("front")' = Taken("front") /\ Taken("back")' = Taken("back")
    BY <2>1 DEF Taken
  <2>3. Kept' = Kept
    BY <1>1, <2>2 DEF Kept
  <2>4. ASSUME "waiting" \in Pending PROVE waitq' # <<>> /\ Head(waitq') \notin live'
    <3>1. waitq # <<>> /\ Head(waitq) \notin live
      BY <1>10, <2>4 DEF Calm
    <3>2. Len(waitq) > 0 /\ 1 \in 1 .. Len(waitq) /\ 1 \in 1 .. Len(waitq')
      BY <1>3, <3>1, EmptySeq
    <3>3. waitq' # <<>> /\ Head(waitq') = waitq'[1] /\ Head(waitq) = waitq[1]
      BY <1>3, <3>1, <3>2, EmptySeq
    <3>4. waitq[1] # r
      BY <1>1, <3>2 DEF ChannelInv, Line
    <3>5. QED
      BY <1>1, <1>3, <3>1, <3>2, <3>3, <3>4
  <2>5. QED
    BY <1>1, <1>10, <2>1, <2>2, <2>3, <2>4 DEF Calm
<1>11. QED
  BY <1>1, <1>9, <1>10 DEF ChannelInv

\* Pop finds a value, which leaves at once or when the call goes on.
LEMMA PopTakes ==
  ASSUME NoValue \notin Value, ChannelInv, NEW r \in Receiver, NEW back \in BOOLEAN, Pop(r, back),
         q # <<>>
  PROVE  /\ r \in fresh /\ \A t \in Receiver : t # r => got'[t] = got[t]
         /\ live' = live /\ ChannelInv'
<1> DEFINE v == IF back THEN q[Len(q)] ELSE Head(q)
<1>1. /\ r \in fresh /\ fresh' = fresh \ {r} /\ pushed' = pushed
      /\ got' = [got EXCEPT ![r] = v]
      /\ crossed' = (crossed \/ Kept = <<>> \/ End(back) \in Pending)
      /\ waitq' = waitq /\ live' = live
  BY DEF Pop
<1>2. \/ pending' = Append(pending, End(back)) /\ q' = q
      \/ pending' = pending /\ q' = Cut(End(back))
  BY DEF Pop
<1>3. /\ q \in Seq(Value) /\ Len(q) \in Nat /\ Len(q) > 0 /\ got[r] = NoValue
      /\ got \in [Receiver -> Value \cup {NoValue}]
  BY <1>1, LenProperties, EmptySeq DEF ChannelInv, Line
<1>4. v \in Value
  BY <1>3
<1> HIDE DEF v
<1>5. \A t \in Receiver : t # r => got'[t] = got[t]
  BY <1>1, <1>3
<1>6. r \notin live /\ live \subseteq Receiver
  <2>1. SUFFICES ASSUME r \in live PROVE FALSE
    BY DEF ChannelInv, Line
  <2>2. PICK i \in 1 .. Len(waitq) : waitq[i] = r
    BY <2>1 DEF ChannelInv, Line
  <2>3. QED
    BY <1>1, <2>2 DEF ChannelInv, Line
<1>7. Line(waitq', live', fresh', got')
  BY <1>1, <1>5, <1>6 DEF ChannelInv, Line
<1>8. End(back) \in Removal /\ (End(back) = IF back THEN "back" ELSE "front")
  BY DEF End, Removal
<1>9. q' \in Seq(Value)
  <2>1. SubSeq(q, 1, Len(q) - 1) \in Seq(Value)
    BY <1>3, ButLast
  <2>2. Tail(q) \in Seq(Value)
    BY <1>3, HeadTailProperties
  <2>3. QED
    BY <1>2, <1>3, <2>1, <2>2 DEF Cut
<1>10. pending' \in Seq(Removal)
  BY <1>2, <1>8, Marked DEF ChannelInv
<1>11. got' \in [Receiver -> Value \cup {NoValue}]
  BY <1>1, <1>3, <1>4
<1>12. crossed' \in BOOLEAN
  BY <1>1 DEF ChannelInv
<1>13. ASSUME ~crossed' PROVE Calm'
  <2> DEFINE f == Taken("front")
             e == Taken("back")
             s == IF back THEN SubSeq(Kept, 1, Len(Kept) - 1) ELSE Tail(Kept)
  <2>1. Calm /\ Kept # <<>> /\ End(back) \notin Pending
    BY <1>1, <1>13 DEF ChannelInv
  <2>2. "waiting" \notin Pending /\ live = {}
    BY <1>3, <2>1, EmptySeq DEF Calm
  <2>3. f \in 0 .. 1 /\ e \in 0 .. 1 /\ Kept = Inner(q, f, e) /\ f + e < Len(q)
    <3>1. Kept \in Seq(Value) /\ Len(Kept) = Len(q) - (f + e)
      BY <2>1, KeptTypes
    <3>2. Len(Kept) > 0
      BY <2>1, <3>1, EmptySeq
    <3>3. QED
      BY <1>3, <3>1, <3>2, KeptIs
  <2>4. "waiting" \notin Pending' /\ \A i, j \in 1 .. Len(pending') : pending'[i] = pending'[j] => i = j
    <3>1. CASE pending' = pending
      BY <2>1, <2>2, <3>1 DEF Calm, Pending
    <3>2. CASE pending' = Append(pending, End(back))
      BY <1>8, <2>1, <2>2, <3>2, Marked DEF ChannelInv, Calm
    <3>3. QED
      BY <1>2, <3>1, <3>2
  <2>5. /\ Kept' = s /\ f' + e' <= Len(q')
        /\ v = IF back THEN Kept[Len(Kept)] ELSE Head(Kept)
    <3>1. PICK one \in 0 .. 1 : one = 1
      OBVIOUS
    <3>2. /\ pending' = pending => f' = f /\ e' = e
          /\ pending' = Append(pending, End(back)) =>
               /\ back => f' = f /\ e' = one
               /\ ~back => f' = one /\ e' = e
      <4>1. pending' = pending => Pending' = Pending
        BY DEF Pending
      <4>2. pending' = Append(pending, End(back)) => Pending' = Pending \cup {End(back)}
        BY <1>8, Marked DEF ChannelInv
      <4>3. QED
        BY <1>8, <3>1, <4>1, <4>2 DEF Taken
    <3>3. Kept' = Inner(q', f', e')
      BY DEF Kept, Inner
    <3>4. CASE back
      <4>1. e = 0 /\ f < Len(q)
        BY <1>3, <1>8, <2>1, <2>3, <3>4 DEF Taken
      <4>2. /\ Front(q) \in Seq(Value) /\ Len(Front(q)) = Len(q) - 1
            /\ Inner(q, f, e)[Len(Inner(q, f, e))] = q[Len(q)]
            /\ Inner(Front(q), f, e) = Front(Inner(q, f, e))
            /\ Inner(q, f, one) = Front(Inner(q, f, e))
        <5>1. q \in Seq(Value) /\ f \in 0 .. 1 /\ e \in 0 .. 1 /\ e = 0 /\ one = 1 /\ f < Len(q)
          BY <1>3, <2>3, <3>1, <4>1
        <5>2. QED
          BY <5>1, InnerFront
      <4>3. /\ Kept[Len(Kept)] = q[Len(q)]
            /\ Inner(Front(q), f, e) = Front(Kept)
            /\ Inner(q, f, one) = Front(Kept)
        BY <2>3, <4>2
      <4>4. v = Kept[Len(Kept)] /\ s = Front(Kept)
        BY <3>4, <4>3 DEF v, Front
      <4>5. CASE pending' = pending /\ q' = Cut(End(back))
        <5>1. q' = Front(q) /\ f' = f /\ e' = e
          BY <1>8, <3>2, <3>4, <4>5 DEF Cut, Front
        <5>2. f' + e' <= Len(q')
          BY <1>3, <2>3, <4>1, <4>2, <5>1
        <5>3. QED
          BY <3>3, <3>4, <4>3, <4>4, <5>1, <5>2
      <4>6. CASE pending' = Append(pending, End(back)) /\ q' = q
        <5>1. f' = f /\ e' = one
          BY <3>2, <3>4, <4>6
        <5>2. f' + e' <= Len(q')
          BY <1>3, <2>3, <3>1, <4>1, <4>6, <5>1
        <5>3. QED
          BY <3>3, <3>4, <4>3, <4>4, <4>6, <5>1, <5>2
      <4>7. QED
        BY <1>2, <4>5, <4>6
    <3>5. CASE ~back
      <4>1. f = 0 /\ e < Len(q)
        BY <1>3, <1>8, <2>1, <2>3, <3>5 DEF Taken
      <4>2. /\ Tail(q) \in Seq(Value) /\ Len(Tail(q)) = Len(q) - 1
            /\ Head(Kept) = Head(q)
            /\ Inner(Tail(q), f, e) = Tail(Kept)
            /\ Inner(q, one, e) = Tail(Kept)
        BY <1>3, <2>3, <3>1, <4>1, InnerTail
      <4>3. v = Head(Kept) /\ s = Tail(Kept)
        BY <3>5, <4>2 DEF v
      <4>4. CASE pending' = pending /\ q' = Cut(End(back))
        <5>1. q' = Tail(q) /\ f' = f /\ e' = e
          BY <1>8, <3>2, <3>5, <4>4 DEF Cut
        <5>2. f' + e' <= Len(q')
          BY <1>3, <2>3, <4>1, <4>2, <5>1
        <5>3. QED
          BY <3>3, <3>5, <4>2, <4>3, <5>1, <5>2
      <4>5. CASE pending' = Append(pending, End(back)) /\ q' = q
        <5>1. f' = one /\ e' = e
          BY <3>2, <3>5, <4>5
        <5>2. f' + e' <= Len(q')
          BY <1>3, <2>3, <3>1, <4>1, <4>5, <5>1
        <5>3. QED
          BY <3>3, <3>5, <4>2, <4>3, <4>5, <5>1, <5>2
      <4>6. QED
        BY <1>2, <4>4, <4>5
    <3>6. QED
      BY <3>4, <3>5
  <2>6. Once(Kept, got, pushed)
    BY <2>1 DEF Calm
  <2>7. got' = [got EXCEPT ![r] = IF back THEN Kept[Len(Kept)] ELSE Head(Kept)]
    BY <1>1, <2>5
  <2> HIDE DEF f, e
  <2>8. Once(s, got', pushed)
    BY <1>3, <2>1, <2>6, <2>7, TakeOnce
  <2>9. Once(Kept', got', pushed')
    BY <1>1, <2>5, <2>8
  <2>10. Taken("front")' + Taken("back")' <= Len(q')
    BY <2>5 DEF f, e
  <2>11. live' = {}
    BY <1>1, <2>2
  <2>12. QED
    BY <2>4, <2>9, <2>10, <2>11 DEF Calm
<1>14. QED
  BY <1>1, <1>5, <1>7, <1>9, <1>10, <1>11, <1>12, <1>13 DEF ChannelInv

LEMMA PopStep ==
  ASSUME NoValue \notin Value, ChannelInv, NEW r \in Receiver, NEW back \in BOOLEAN, Pop(r, back)
  PROVE  ChannelInv'
BY PopWaits, PopTakes

\* A call goes on: what it removes is what it gave, while nothing was crossed.
LEMMA ReturnStep ==
  ASSUME ChannelInv, Return
  PROVE  /\ got' = got /\ crossed' = crossed /\ (~crossed => live' = live)
         /\ ChannelInv'
<1> DEFINE end == pending[Len(pending)]
<1>1. /\ pending # <<>> /\ pending' = SubSeq(pending, 1, Len(pending) - 1)
      /\ got' = got /\ pushed' = pushed /\ fresh' = fresh /\ crossed' = crossed
      /\ \/ /\ end = "waiting" /\ waitq # <<>> /\ waitq' = Tail(waitq)
            /\ live' = live \ {Head(waitq)} /\ q' = q
         \/ end # "waiting" /\ q # <<>> /\ q' = Cut(end) /\ waitq' = waitq /\ live' = live
  BY DEF Return
<1>2. /\ pending' \in Seq(Removal) /\ end \in Removal /\ end \in Pending
      /\ Calm => /\ Pending' = Pending \ {end}
                 /\ \A i, j \in 1 .. Len(pending') : pending'[i] = pending'[j] => i = j
  BY <1>1, Unmarked DEF ChannelInv, Calm
<1> HIDE DEF end
<1>3. Line(waitq', live', fresh', got')
  <2>1. CASE waitq # <<>> /\ waitq' = Tail(waitq) /\ live' = live \ {Head(waitq)}
    BY <1>1, <2>1, LineTail DEF ChannelInv
  <2>2. CASE waitq' = waitq /\ live' = live
    BY <1>1, <2>2 DEF ChannelInv
  <2>3. QED
    BY <1>1, <2>1, <2>2
<1>4. q \in Seq(Value) /\ Len(q) \in Nat
  BY LenProperties DEF ChannelInv
<1>5. q # <<>> => /\ Len(q) > 0
                  /\ SubSeq(q, 1, Len(q) - 1) \in Seq(Value) /\ Tail(q) \in Seq(Value)
  BY <1>4, ButLast, HeadTailProperties, EmptySeq
<1>6. q' \in Seq(Value)
  BY <1>1, <1>4, <1>5 DEF Cut
<1>7. ASSUME Calm PROVE Calm' /\ live' = live
  <2>1. CASE end = "waiting"
    <3>1. /\ Pending = {"waiting"} /\ q = <<>> /\ Head(waitq) \notin live
      BY <1>2, <1>7, <2>1 DEF Calm
    <3>2. Pending' = {}
      BY <1>2, <1>7, <2>1, <3>1
    <3>3. Taken("front")' = Taken("front") /\ Taken("back")' = Taken("back")
      BY <3>1, <3>2 DEF Taken
    <3>4. Kept' = Kept
      BY <1>1, <2>1, <3>3 DEF Kept
    <3>5. live' = live /\ q' = q
      BY <1>1, <2>1, <3>1
    <3>6. QED
      BY <1>1, <1>2, <1>7, <3>2, <3>3, <3>4, <3>5 DEF Calm
  <2>2. CASE end # "waiting"
    <3> DEFINE f == Taken("front")
               e == Taken("back")
    <3>1. /\ q # <<>> /\ q' = Cut(end) /\ waitq' = waitq /\ live' = live
          /\ Len(q) > 0 /\ live = {} /\ f + e <= Len(q) /\ Once(Kept, got, pushed)
      BY <1>1, <1>5, <1>7, <2>2 DEF Calm
    <3>2. "waiting" \notin Pending'
      BY <1>2, <1>7, <2>2, <3>1 DEF Calm
    <3>3. f \in 0 .. 1 /\ e \in 0 .. 1 /\ Kept = Inner(q, f, e)
      BY KeptIs
    <3>4. Kept' = Inner(q', f', e')
      BY DEF Kept, Inner
    <3>5. PICK none \in 0 .. 1 : none = 0
      OBVIOUS
    <3>6. Kept' = Kept /\ f' + e' <= Len(q')
      <4>1. CASE end = "back"
        <5>1. e = 1 /\ e' = none /\ f' = f
          BY <1>2, <1>7, <3>5, <4>1 DEF Taken
        <5>2. f < Len(q)
          BY <1>4, <3>1, <3>3, <5>1
        <5>3. /\ Len(Front(q)) = Len(q) - 1
              /\ Inner(Front(q), f, none) = Front(Inner(q, f, none))
              /\ Inner(q, f, e) = Front(Inner(q, f, none))
          BY <1>4, <3>3, <3>5, <5>1, <5>2, InnerFront
        <5>4. q' = Front(q)
          BY <3>1, <4>1 DEF Cut, Front
        <5>5. f' + e' <= Len(q')
          BY <1>4, <3>3, <3>5, <5>1, <5>2, <5>3, <5>4
        <5>6. QED
          BY <3>3, <3>4, <5>1, <5>3, <5>4, <5>5
      <4>2. CASE end = "front"
        <5>1. f = 1 /\ f' = none /\ e' = e
          BY <1>2, <1>7, <3>5, <4>2 DEF Taken
        <5>2. e < Len(q)
          BY <1>4, <3>1, <3>3, <5>1
        <5>3. /\ Len(Tail(q)) = Len(q) - 1
              /\ Inner(Tail(q), none, e) = Tail(Inner(q, none, e))
              /\ Inner(q, f, e) = Tail(Inner(q, none, e))
          BY <1>4, <3>3, <3>5, <5>1, <5>2, InnerTail
        <5>4. q' = Tail(q)
          BY <3>1, <4>2 DEF Cut
        <5>5. f' + e' <= Len(q')
          BY <1>4, <3>3, <3>5, <5>1, <5>2, <5>3, <5>4
        <5>6. QED
          BY <3>3, <3>4, <5>1, <5>3, <5>4, <5>5
      <4>3. QED
        BY <1>2, <2>2, <4>1, <4>2 DEF Removal
    <3>7. QED
      BY <1>1, <1>2, <1>7, <3>1, <3>2, <3>6 DEF Calm
  <2>3. QED
    BY <2>1, <2>2
<1>8. QED
  BY <1>1, <1>2, <1>3, <1>6, <1>7 DEF ChannelInv

LEMMA CancelStep ==
  ASSUME ChannelInv, NEW r \in Receiver, Cancel(r)
  PROVE  ChannelInv'
<1>1. UNCHANGED <<q, waitq, got, pushed, fresh, pending, crossed>> /\ live' \subseteq live
  BY DEF Cancel
<1>2. Line(waitq', live', fresh', got')
  BY <1>1 DEF ChannelInv, Line
<1>3. ASSUME Calm PROVE Calm'
  <2>1. Pending' = Pending
    BY <1>1 DEF Pending
  <2>2. Taken("front")' = Taken("front") /\ Taken("back")' = Taken("back")
    BY <2>1 DEF Taken
  <2>3. Kept' = Kept
    BY <1>1, <2>2 DEF Kept
  <2>4. QED
    BY <1>1, <1>3, <2>1, <2>2, <2>3 DEF Calm
<1>4. QED
  BY <1>1, <1>2, <1>3 DEF ChannelInv

LEMMA NextInv == ASSUME NoValue \notin Value, ChannelInv, [Next]_vars PROVE ChannelInv'
<1>1. CASE UNCHANGED vars
  <2>1. UNCHANGED <<q, waitq, live, got, pushed, fresh, pending, crossed>>
    BY <1>1 DEF vars
  <2>2. Pending' = Pending
    BY <2>1 DEF Pending
  <2>3. Taken("front")' = Taken("front") /\ Taken("back")' = Taken("back")
    BY <2>2 DEF Taken
  <2>4. Kept' = Kept
    BY <2>1, <2>3 DEF Kept
  <2>5. Calm => Calm'
    BY <2>1, <2>2, <2>3, <2>4 DEF Calm
  <2>6. QED
    BY <2>1, <2>5 DEF ChannelInv
<1>2. QED
  BY <1>1, PushStep, PopStep, ReturnStep, CancelStep DEF Next

\* The counts of NothingWaitsForNothing, from the places.
LEMMA InvNothing == ASSUME NoValue \notin Value, ChannelInv PROVE NothingWaitsForNothing
<1>1. DOMAIN waitq = 1 .. Len(waitq)
  BY LenProperties DEF ChannelInv, Line
<1>2. ASSUME Calm, NEW v \in pushed
      PROVE  Cardinality({i \in DOMAIN Kept : Kept[i] = v})
               + Cardinality({r \in Receiver : got[r] = v}) = 1
  <2>0. Once(Kept, got, pushed) /\ DOMAIN Kept = 1 .. Len(Kept)
    BY <1>2, KeptTypes, LenProperties DEF Calm
  <2> HIDE DEF Kept
  <2>1. v # NoValue
    BY <2>0 DEF Once
  <2>2. CASE \E i \in 1 .. Len(Kept) : Kept[i] = v
    <3>1. PICK i \in 1 .. Len(Kept) : Kept[i] = v
      BY <2>2
    <3>2. {k \in DOMAIN Kept : Kept[k] = v} = {i}
      BY <2>0, <3>1 DEF Once
    <3>3. {r \in Receiver : got[r] = v} = {}
      BY <2>0, <3>1 DEF Once
    <3>4. Cardinality({k \in DOMAIN Kept : Kept[k] = v}) = 1
      BY <3>2, FS_Singleton
    <3>5. Cardinality({r \in Receiver : got[r] = v}) = 0
      BY <3>3, FS_EmptySet
    <3>6. QED
      BY <3>4, <3>5
  <2>3. CASE ~\E i \in 1 .. Len(Kept) : Kept[i] = v
    <3>1. PICK r \in Receiver : got[r] = v
      BY <2>0, <2>3 DEF Once
    <3>2. {k \in DOMAIN Kept : Kept[k] = v} = {}
      BY <2>0, <2>3
    <3>3. {t \in Receiver : got[t] = v} = {r}
      BY <2>0, <2>1, <3>1 DEF Once
    <3>4. Cardinality({k \in DOMAIN Kept : Kept[k] = v}) = 0
      BY <3>2, FS_EmptySet
    <3>5. Cardinality({t \in Receiver : got[t] = v}) = 1
      BY <3>3, FS_Singleton
    <3>6. QED
      BY <3>4, <3>5
  <2>4. QED
    BY <2>2, <2>3
<1>3. live \subseteq {waitq[i] : i \in DOMAIN waitq}
  BY <1>1 DEF ChannelInv, Line
<1>4. Calm => (q # <<>> => live = {})
  BY DEF Calm
<1>5. crossed \/ Calm
  BY DEF ChannelInv
<1>6. QED
  BY <1>2, <1>3, <1>4, <1>5 DEF NothingWaitsForNothing

\* What ServedInOrder says of a step.
Orderly ==
  /\ \A i, j \in DOMAIN waitq :
        i < j /\ waitq[i] \in live /\ got'[waitq[j]] # got[waitq[j]]
          => got'[waitq[i]] # got[waitq[i]]
  /\ \A r \in Receiver :
        got'[r] # got[r] => got[r] = NoValue /\ r \in live \cup fresh
  /\ crossed' \/ \A r \in live \ live' : got'[r] # got[r] \/ Cancel(r)

\* Every step serves the first of those that wait, or one that asks.
LEMMA StepInOrder == ASSUME NoValue \notin Value, ChannelInv, [Next]_vars PROVE [Orderly]_vars
<1>1. DOMAIN waitq = 1 .. Len(waitq) /\ \A i \in 1 .. Len(waitq) : waitq[i] \in Receiver
  BY LenProperties, ElementOfSeq DEF ChannelInv, Line
<1>2. /\ \A r \in live \cup fresh : got[r] = NoValue
      /\ \A i \in 1 .. Len(waitq) : waitq[i] \notin fresh
  BY DEF ChannelInv, Line
<1>3. ASSUME NEW r \in live \cup fresh, \A t \in Receiver : t # r => got'[t] = got[t],
             \A j \in 1 .. Len(waitq) : waitq[j] = r =>
               \A i \in 1 .. Len(waitq) : i < j => waitq[i] \notin live,
             \A t \in live \ live' : got'[t] # got[t]
      PROVE  Orderly
  BY <1>1, <1>2, <1>3 DEF Orderly
<1>4. ASSUME got' = got, crossed' \/ \A t \in live \ live' : Cancel(t)
      PROVE  Orderly
  BY <1>4 DEF Orderly
<1>5. ASSUME NEW v \in Value, NEW back \in BOOLEAN, Push(v, back) PROVE Orderly
  <2> DEFINE w == Passed(waitq)
  <2>1. CASE w = <<>>
    BY <1>4, <1>5, <2>1, PushPuts
  <2>2. CASE w # <<>>
    <3>1. /\ Head(w) \in live /\ got' = [got EXCEPT ![Head(w)] = v]
          /\ live' = live \ {Head(w)}
      BY <1>5, <2>2, PushServes
    <3>2. PICK n \in 0 .. Len(waitq) :
            /\ w \in Seq(Receiver)
            /\ Len(w) = Len(waitq) - n
            /\ \A i \in 1 .. Len(waitq) - n : w[i] = waitq[i + n]
            /\ \A i \in 1 .. n : waitq[i] \notin live
      BY PassedOK DEF ChannelInv, Line
    <3> HIDE DEF w
    <3>3. Len(waitq) \in Nat /\ Len(w) > 0 /\ Head(w) = w[1]
      BY <2>2, <3>2, EmptySeq, LenProperties DEF ChannelInv, Line
    <3>4. n + 1 \in 1 .. Len(waitq) /\ Head(w) = waitq[n + 1]
      <4>1. 1 \in 1 .. Len(waitq) - n /\ 1 + n = n + 1
        BY <3>2, <3>3
      <4>2. QED
        BY <3>2, <3>3, <4>1
    <3>5. ASSUME NEW j \in 1 .. Len(waitq), waitq[j] = Head(w),
                 NEW i \in 1 .. Len(waitq), i < j
          PROVE  waitq[i] \notin live
      <4>1. j = n + 1
        BY <3>4, <3>5 DEF ChannelInv, Line
      <4>2. i \in 1 .. n
        BY <3>2, <3>5, <4>1
      <4>3. QED
        BY <3>2, <4>2
    <3>6. \A t \in Receiver : got'[t] = IF t = Head(w) THEN v ELSE got[t]
      BY <3>1 DEF ChannelInv
    <3>7. Head(w) \in Receiver /\ got[Head(w)] = NoValue
      BY <1>2, <3>1 DEF ChannelInv, Line
    <3>8. \A t \in live \ live' : got'[t] # got[t]
      BY <3>1, <3>6, <3>7
    <3>9. QED
      BY <1>3, <3>1, <3>5, <3>6, <3>8
  <2>3. QED
    BY <2>1, <2>2
<1>6. ASSUME NEW r \in Receiver, NEW back \in BOOLEAN, Pop(r, back) PROVE Orderly
  <2>1. CASE q = <<>>
    <3>1. got' = got /\ live \ live' = {}
      BY <1>6, <2>1, PopWaits
    <3>2. QED
      BY <1>4, <3>1
  <2>2. CASE q # <<>>
    <3>1. r \in fresh /\ live' = live /\ \A t \in Receiver : t # r => got'[t] = got[t]
      BY <1>6, <2>2, PopTakes
    <3>2. \A j \in 1 .. Len(waitq) : waitq[j] # r
      BY <1>2, <3>1
    <3>3. QED
      BY <1>3, <3>1, <3>2
  <2>3. QED
    BY <2>1, <2>2
<1>7. ASSUME Return PROVE Orderly
  <2>1. got' = got /\ crossed' = crossed /\ (~crossed => live' = live)
    BY <1>7, ReturnStep
  <2>2. crossed' \/ \A t \in live \ live' : Cancel(t)
    BY <2>1 DEF ChannelInv
  <2>3. QED
    BY <1>4, <2>1, <2>2
<1>8. ASSUME NEW r \in Receiver, Cancel(r) PROVE Orderly
  <2>1. got' = got /\ live' = live \ {r}
    BY <1>8 DEF Cancel
  <2>2. live \subseteq Receiver
    BY DEF ChannelInv, Line
  <2>3. \A t \in live \ live' : Cancel(t)
    BY <1>8, <2>1, <2>2
  <2>4. QED
    BY <1>4, <2>1, <2>3
<1>9. QED
  BY <1>5, <1>6, <1>7, <1>8 DEF Next

\* tamer::channel (tamer/channel.hh): whatever is pushed, popped and canceled in
\* whatever order, also by functions that run within a trigger, no value waits
\* beside a receiver that waits, and each value is in one place: unless such a
\* function pushes within a push, or touches the end that a pop is taking from.
THEOREM NothingWaits == ASSUME NoValue \notin Value PROVE Spec => []NothingWaitsForNothing
<1>1. Init => ChannelInv
  BY InitInv
<1>2. ChannelInv /\ [Next]_vars => ChannelInv'
  BY NextInv
<1>3. ChannelInv => NothingWaitsForNothing
  BY InvNothing
<1>4. QED
  BY <1>1, <1>2, <1>3, PTL DEF Spec

\* Those that wait are served in the order in which they asked, and nobody is
\* served twice or after it was canceled, whatever such functions do; under the
\* same condition nobody leaves the line unserved that was not canceled.
THEOREM OrderKept == ASSUME NoValue \notin Value PROVE Spec => ServedInOrder
<1>1. Init => ChannelInv
  BY InitInv
<1>2. ChannelInv /\ [Next]_vars => ChannelInv'
  BY NextInv
<1>3. ChannelInv /\ [Next]_vars => [Orderly]_vars
  BY StepInOrder
<1>4. [Orderly]_vars <=>
        [/\ \A i, j \in DOMAIN waitq :
               i < j /\ waitq[i] \in live /\ got'[waitq[j]] # got[waitq[j]]
                 => got'[waitq[i]] # got[waitq[i]]
         /\ \A r \in Receiver :
               got'[r] # got[r] => got[r] = NoValue /\ r \in live \cup fresh
         /\ crossed' \/ \A r \in live \ live' : got'[r] # got[r] \/ Cancel(r)]_vars
  BY DEF Orderly
<1>5. QED
  BY <1>1, <1>2, <1>3, <1>4, PTL DEF Spec, ServedInOrder

(***************************************************************************)
(* The ring.                                                               *)
(***************************************************************************)

\* Where the k-th place behind x is in a ring of c places.
Wrapped(x, k, c) == IF x + k < c THEN x + k ELSE x + k - c

LEMMA ModIs ==
  ASSUME NEW a \in Int, NEW s \in Nat \ {0}
  PROVE  \E p \in Int, x \in 0 .. s - 1 : a = s * p + x /\ x = a % s
<1>1. a % s \in 0 .. s - 1
  OBVIOUS
<1>2. a \div s \in Int
  OBVIOUS
<1>3. s * (a \div s) + (a % s) = a
  <2>1. a \in Int /\ s \in Int /\ s > 0
    OBVIOUS
  <2>2. QED
    BY <2>1, Z3
<1>4. QED
  BY <1>1, <1>2, <1>3

LEMMA MulLess ==
  ASSUME NEW s \in Nat \ {0}, NEW p \in Int, NEW z \in Int, p > z
  PROVE  s * p >= s * z + s
<1>1. s * p = s * z + s * (p - z)
  OBVIOUS
<1>2. p - z >= 1 /\ p - z \in Nat
  OBVIOUS
<1>3. s * (p - z) >= s
  BY <1>2
<1>4. QED
  BY <1>1, <1>3

LEMMA ModUnique ==
  ASSUME NEW s \in Nat \ {0}, NEW p \in Int, NEW z \in Int,
         NEW x \in 0 .. s - 1, NEW y \in 0 .. s - 1, s * p + x = s * z + y
  PROVE  x = y
<1> s * p \in Int /\ s * z \in Int
  OBVIOUS
<1>1. CASE p > z
  <2>1. s * p >= s * z + s
    BY <1>1, MulLess
  <2>2. QED
    BY <2>1
<1>2. CASE z > p
  <2>1. s * z >= s * p + s
    BY <1>2, MulLess
  <2>2. QED
    BY <2>1
<1>3. CASE p = z
  <2>1. s * p = s * z
    BY <1>3
  <2>2. QED
    BY <2>1
<1>4. QED
  BY <1>1, <1>2, <1>3

Leaves(a, s, p, x) == a = s * p + x
Multiple(w, c, n) == w = c * n

\* A remainder is found by writing the number with it.
LEMMA ModFrom ==
  ASSUME NEW s \in Nat \ {0}, NEW p \in Int, NEW x \in 0 .. s - 1, NEW a \in Int,
         Leaves(a, s, p, x)
  PROVE  a % s = x
<1> USE DEF Leaves
<1>1. PICK z \in Int, y \in 0 .. s - 1 : a = s * z + y /\ y = a % s
  BY ModIs
<1>2. s * p + x = s * z + y
  BY <1>1
<1>3. x = y
  BY <1>2, ModUnique
<1>4. QED
  BY <1>1, <1>3

\* An index wraps at most once.
LEMMA ModAdd ==
  ASSUME NEW a \in Int, NEW s \in Nat \ {0}, NEW k \in 0 .. s
  PROVE  a % s \in 0 .. s - 1 /\ (a + k) % s = Wrapped(a % s, k, s)
<1>1. PICK p \in Int, x \in 0 .. s - 1 : a = s * p + x /\ x = a % s
  BY ModIs
<1>2. a + k \in Int /\ s * p \in Int /\ s * (p + 1) = s * p + s /\ p + 1 \in Int
  OBVIOUS
<1>3. CASE x + k < s
  <2>1. x + k \in 0 .. s - 1 /\ a + k = s * p + (x + k)
    BY <1>1, <1>2, <1>3
  <2> Leaves(a + k, s, p, x + k)
    BY <2>1 DEF Leaves
  <2>2. (a + k) % s = x + k
    BY <1>2, <2>1, ModFrom
  <2>3. QED
    BY <1>1, <1>3, <2>2 DEF Wrapped
<1>4. CASE ~(x + k < s)
  <2>1. x + k - s \in 0 .. s - 1 /\ a + k = s * (p + 1) + (x + k - s)
    BY <1>1, <1>2, <1>4
  <2> Leaves(a + k, s, p + 1, x + k - s)
    BY <2>1 DEF Leaves
  <2>2. (a + k) % s = x + k - s
    BY <1>2, <2>1, ModFrom
  <2>3. QED
    BY <1>1, <1>4, <2>2 DEF Wrapped
<1>5. QED
  BY <1>3, <1>4

\* The distance from h to t, both below w.
LEMMA ModGap ==
  ASSUME NEW w \in Nat \ {0}, NEW h \in 0 .. w - 1, NEW t \in 0 .. w - 1
  PROVE  /\ (t - h) % w = IF h <= t THEN t - h ELSE t - h + w
         /\ (t - h) % w \in 0 .. w - 1
         /\ t = (h + ((t - h) % w)) % w
<1> h \in Int /\ t \in Int
  OBVIOUS
<1>1. (t - h) % w = IF h <= t THEN t - h ELSE t - h + w
  <2>1. CASE h <= t
    <3>1. Leaves(t - h, w, 0, t - h) /\ t - h \in 0 .. w - 1 /\ t - h \in Int
      BY <2>1 DEF Leaves
    <3>2. QED
      BY <2>1, <3>1, ModFrom
  <2>2. CASE ~(h <= t)
    <3>1. /\ Leaves(t - h, w, -1, t - h + w) /\ -1 \in Int
          /\ t - h + w \in 0 .. w - 1 /\ t - h \in Int
      BY <2>2 DEF Leaves
    <3>2. QED
      BY <2>2, <3>1, ModFrom
  <2>3. QED
    BY <2>1, <2>2
<1>2. PICK d \in 0 .. w - 1 : d = (t - h) % w
  BY <1>1
<1>3. (h + d) % w = Wrapped(h % w, d, w) /\ h % w = h
  <2>1. Leaves(h, w, 0, h)
    BY DEF Leaves
  <2>2. h % w = h
    BY <2>1, ModFrom
  <2>3. d \in 0 .. w
    BY <1>2
  <2>4. (h + d) % w = Wrapped(h % w, d, w)
    BY <2>3, ModAdd
  <2>5. QED
    BY <2>2, <2>4
<1>4. Wrapped(h, d, w) = t
  BY <1>1, <1>2 DEF Wrapped
<1>5. QED
  BY <1>1, <1>2, <1>3, <1>4

\* A number that was cut to the width of an index is at the same place.
LEMMA ModMod ==
  ASSUME NEW a \in Int, NEW c \in Nat \ {0}, NEW n \in Nat \ {0}, NEW w, Multiple(w, c, n)
  PROVE  (a % w) % c = a % c
<1> USE DEF Multiple
<1>1. w \in Nat \ {0}
  <2>1. c * n \in Nat
    OBVIOUS
  <2>2. c * n >= c * 0 + c
    BY MulLess
  <2>3. QED
    BY <2>1, <2>2
<1>2. PICK p \in Int, x \in 0 .. w - 1 : a = w * p + x /\ x = a % w
  BY <1>1, ModIs
<1>3. x \in Int
  BY <1>1, <1>2
<1>4. PICK z \in Int, y \in 0 .. c - 1 : x = c * z + y /\ y = x % c
  BY <1>3, ModIs
<1>5. w * p = c * (n * p) /\ n * p \in Int
  OBVIOUS
<1>6. n * p + z \in Int /\ c * (n * p + z) = c * (n * p) + c * z
  BY <1>4, <1>5
<1>7. PICK g \in Int : g = n * p + z
  BY <1>6
<1>8. a % c = y
  <2>1. PICK i \in Int, j \in Int : i = c * (n * p) /\ j = c * z
    BY <1>4, <1>5
  <2>2. a = i + x /\ x = j + y /\ y \in Int
    <3>1. w * p = i
      BY <1>5, <2>1
    <3>2. a = i + x
      BY <1>2, <3>1
    <3>3. x = j + y
      BY <1>4, <2>1
    <3>4. y \in Int
      BY <1>4
    <3>5. QED
      BY <3>2, <3>3, <3>4
  <2>3. a = (i + j) + y
    BY <2>1, <2>2
  <2>4. c * g = i + j
    BY <1>6, <1>7, <2>1
  <2>5. Leaves(a, c, g, y)
    BY <2>3, <2>4 DEF Leaves
  <2>6. QED
    BY <1>4, <2>5, ModFrom
<1>9. QED
  BY <1>2, <1>4, <1>8

Gap(h, t) == (t - h) % Width

\* What a ring holds, of the slots s, from h to t, with the mask m.
InRing(s, h, t, m) == [k \in 1 .. Gap(h, t) |-> s[(h + k - 1) % (m + 1)]]

HasSlots(s, h, t, m) ==
  m \in Nat /\ Ring!Fits(m + 1) /\ DOMAIN s = 0 .. m /\ Gap(h, t) <= m + 1

RingOK(s, h, t, m) ==
  /\ h \in 0 .. Width - 1 /\ t \in 0 .. Width - 1 /\ Gap(h, t) <= MaxLength
  /\ (m = Width - 1 /\ h = t) \/ HasSlots(s, h, t, m)
  /\ InRing(s, h, t, m) \in Seq(Event)

RingInv == RingOK(ses, head, tail, capmask)

\* What Contents finds with the mask, written out.
Found(s, h, t, m) ==
  [k \in 1 .. Gap(h, t) |->
     s[IF (m + 1) % Width = 0 THEN (h + k - 1) % Width
       ELSE ((h + k - 1) % Width) % ((m + 1) % Width)]]

LEMMA CapacityIs ==
  ASSUME Ring!RingAssumption, NEW m \in Nat, Ring!Fits(m + 1)
  PROVE  (m + 1) % Width = m + 1 /\ m + 1 \in Nat \ {0} /\ m + 1 < Width
<1>1. Width \in Nat \ {0} /\ m + 1 \in 0 .. Width - 1 /\ Leaves(m + 1, Width, 0, m + 1)
  BY DEF Ring!RingAssumption, Ring!Fits, Leaves
<1>2. (m + 1) % Width = m + 1
  BY <1>1, ModFrom
<1>3. QED
  BY <1>1, <1>2

LEMMA FoundIs ==
  ASSUME Ring!RingAssumption, NEW s, NEW h, NEW t, NEW m, RingOK(s, h, t, m)
  PROVE  Found(s, h, t, m) = InRing(s, h, t, m)
<1>1. Width \in Nat \ {0} /\ h \in 0 .. Width - 1 /\ t \in 0 .. Width - 1
  BY DEF Ring!RingAssumption, RingOK
<1>2. Gap(h, t) \in Nat /\ (h = t => Gap(h, t) = 0)
  BY <1>1, ModGap DEF Gap
<1>3. CASE h = t
  BY <1>2, <1>3 DEF Found, InRing
<1>4. CASE HasSlots(s, h, t, m)
  <2>1. PICK c \in Nat \ {0} : c = m + 1 /\ (m + 1) % Width = c
    BY <1>4, CapacityIs DEF HasSlots
  <2>2. PICK n \in Nat \ {0} : Multiple(Width, c, n)
    BY <1>1, <1>4, <2>1 DEF HasSlots, Ring!Fits, Multiple
  <2>3. ASSUME NEW k \in 1 .. Gap(h, t)
        PROVE  ((h + k - 1) % Width) % c = (h + k - 1) % c
    <3>1. h + k - 1 \in Int
      BY <1>1, <1>2
    <3>2. QED
      BY <2>2, <3>1, ModMod
  <2>4. QED
    BY <2>1, <2>3 DEF Found, InRing
<1>5. QED
  BY <1>3, <1>4 DEF RingOK

HasRoom(s, h, t, m) ==
  /\ RingOK(s, h, t, m) /\ HasSlots(s, h, t, m)
  /\ Gap(h, t) < m + 1 /\ Gap(h, t) < MaxLength

PutBehind(s, t, m, e, u, v) == u = [s EXCEPT ![t % (m + 1)] = e] /\ v = (t + 1) % Width

\* An event goes to the slot behind those that are taken.
LEMMA PushPlain ==
  ASSUME Ring!RingAssumption, NEW s, NEW h, NEW t, NEW m, NEW e \in Event, NEW u, NEW v,
         HasRoom(s, h, t, m), PutBehind(s, t, m, e, u, v)
  PROVE  RingOK(u, h, v, m) /\ InRing(u, h, v, m) = Append(InRing(s, h, t, m), e)
<1> USE DEF HasRoom, PutBehind
<1>1. /\ Width \in Nat \ {0} /\ h \in 0 .. Width - 1 /\ t \in 0 .. Width - 1
      /\ h \in Int /\ t \in Int /\ MaxLength \in Nat /\ MaxLength < Width
  BY DEF Ring!RingAssumption, RingOK
<1>2. PICK c \in Nat \ {0} : c = m + 1 /\ c < Width
  BY CapacityIs DEF HasSlots
<1>3. PICK n \in Nat \ {0} : Multiple(Width, c, n)
  BY <1>1, <1>2 DEF HasSlots, Ring!Fits, Multiple
<1>4. PICK d \in 0 .. Width - 1 :
        d = Gap(h, t) /\ (d = IF h <= t THEN t - h ELSE t - h + Width) /\ t = (h + d) % Width
  BY <1>1, ModGap DEF Gap
<1>5. v \in 0 .. Width - 1 /\ v = IF t + 1 < Width THEN t + 1 ELSE 0
  <2>1. CASE t + 1 < Width
    <3>1. Leaves(t + 1, Width, 0, t + 1) /\ t + 1 \in 0 .. Width - 1 /\ t + 1 \in Int
      BY <1>1, <2>1 DEF Leaves
    <3>2. QED
      BY <1>1, <2>1, <3>1, ModFrom
  <2>2. CASE ~(t + 1 < Width)
    <3>1. Leaves(t + 1, Width, 1, 0) /\ 0 \in 0 .. Width - 1 /\ t + 1 \in Int
      BY <1>1, <2>2 DEF Leaves
    <3>2. QED
      BY <1>1, <2>2, <3>1, ModFrom
  <2>3. QED
    BY <2>1, <2>2
<1>6. Gap(h, v) = d + 1 /\ d + 1 <= c /\ d + 1 <= MaxLength /\ d < c /\ d \in Nat
  <2>1. Gap(h, v) = IF h <= v THEN v - h ELSE v - h + Width
    BY <1>1, <1>5, ModGap DEF Gap
  <2>2. d + 1 <= c /\ d + 1 <= MaxLength /\ d < c /\ d \in Nat
    BY <1>1, <1>2, <1>4
  <2>3. (IF h <= v THEN v - h ELSE v - h + Width) = d + 1
    BY <1>1, <1>4, <1>5, <2>2
  <2>4. QED
    BY <2>1, <2>2, <2>3
<1>7. PICK x \in 0 .. c - 1 : x = h % c
  BY <1>1, ModAdd, 0 \in 0 .. c
<1>8. \A k \in 0 .. c : (h + k) % c = Wrapped(x, k, c)
  BY <1>1, <1>7, ModAdd
<1>9. t % c = Wrapped(x, d, c)
  <2>1. h + d \in Int /\ d \in 0 .. c
    BY <1>1, <1>4, <1>6
  <2>2. t % c = (h + d) % c
    BY <1>3, <1>4, <2>1, ModMod
  <2>3. QED
    BY <1>8, <2>1, <2>2
<1>10. Wrapped(x, d, c) \in 0 .. c - 1 /\ \A k \in 0 .. d - 1 : Wrapped(x, k, c) # Wrapped(x, d, c)
  BY <1>6 DEF Wrapped
<1>11. DOMAIN s = 0 .. c - 1 /\ DOMAIN u = 0 .. c - 1
  BY <1>2 DEF HasSlots
<1>12. u[Wrapped(x, d, c)] = e
       /\ \A k \in 0 .. d - 1 : u[Wrapped(x, k, c)] = s[Wrapped(x, k, c)]
  <2>1. u[Wrapped(x, d, c)] = e
    BY <1>2, <1>9, <1>10, <1>11
  <2>2. ASSUME NEW k \in 0 .. d - 1 PROVE u[Wrapped(x, k, c)] = s[Wrapped(x, k, c)]
    <3>1. Wrapped(x, k, c) \in 0 .. c - 1
      BY <1>6 DEF Wrapped
    <3>2. QED
      BY <1>2, <1>9, <1>10, <1>11, <3>1
  <2>3. QED
    BY <2>1, <2>2
<1>13. \A k \in 1 .. d + 1 : (h + k - 1) % c = Wrapped(x, k - 1, c)
  <2>1. ASSUME NEW k \in 1 .. d + 1 PROVE (h + k - 1) % c = Wrapped(x, k - 1, c)
    <3>1. k - 1 \in 0 .. c /\ h + k - 1 = h + (k - 1)
      BY <1>1, <1>6
    <3>2. QED
      BY <1>8, <3>1
  <2>2. QED
    BY <2>1
<1>14. PICK z \in Seq(Event) : z = InRing(s, h, t, m)
  BY DEF RingOK
<1>15. Len(z) = d /\ \A k \in 1 .. d : z[k] = s[Wrapped(x, k - 1, c)]
  <2>1. z = [k \in 1 .. d |-> s[(h + k - 1) % c]]
    BY <1>2, <1>4, <1>14 DEF InRing
  <2>2. Len(z) = d
    BY <1>6, <2>1
  <2>3. ASSUME NEW k \in 1 .. d PROVE z[k] = s[Wrapped(x, k - 1, c)]
    <3>1. (h + k - 1) % c = Wrapped(x, k - 1, c)
      BY <1>6, <1>13
    <3>2. QED
      BY <2>1, <3>1
  <2>4. QED
    BY <2>2, <2>3
<1>16. InRing(u, h, v, m) = [k \in 1 .. d + 1 |-> u[(h + k - 1) % c]]
  BY <1>2, <1>6 DEF InRing
<1>17. ASSUME NEW k \in 1 .. d + 1 PROVE u[(h + k - 1) % c] = IF k <= d THEN z[k] ELSE e
  <2>1. (h + k - 1) % c = Wrapped(x, k - 1, c)
    BY <1>13
  <2>2. CASE k <= d
    <3>1. k - 1 \in 0 .. d - 1 /\ k \in 1 .. d
      BY <1>6, <2>2
    <3>2. QED
      BY <1>12, <1>15, <2>1, <2>2, <3>1
  <2>3. CASE ~(k <= d)
    <3>1. k - 1 = d
      BY <1>6, <2>3
    <3>2. QED
      BY <1>12, <2>1, <2>3, <3>1
  <2>4. QED
    BY <2>2, <2>3
<1>18. Append(z, e) = [k \in 1 .. d + 1 |-> IF k <= d THEN z[k] ELSE e]
       /\ Append(z, e) \in Seq(Event)
  <2>1. Append(z, e) \in Seq(Event) /\ Len(Append(z, e)) = d + 1
        /\ \A k \in 1 .. d + 1 : Append(z, e)[k] = IF k <= d THEN z[k] ELSE e
    BY <1>6, <1>15
  <2>2. PICK w \in Seq(Event) : w = Append(z, e)
    BY <2>1
  <2>3. w = [k \in 1 .. Len(w) |-> w[k]]
    OBVIOUS
  <2>4. QED
    BY <2>1, <2>2, <2>3
<1>19. InRing(u, h, v, m) = Append(z, e)
  <2>1. [k \in 1 .. d + 1 |-> u[(h + k - 1) % c]] = [k \in 1 .. d + 1 |-> IF k <= d THEN z[k] ELSE e]
    BY <1>17
  <2>2. QED
    BY <1>16, <1>18, <2>1
<1>20. HasSlots(u, h, v, m)
  BY <1>2, <1>6, <1>11 DEF HasSlots
<1>21. QED
  BY <1>1, <1>5, <1>6, <1>14, <1>18, <1>19, <1>20 DEF RingOK

\* A ring that has grown holds the same from its first slot on, and has room.
LEMMA ExpandSame ==
  ASSUME Ring!RingAssumption, RingInv, Ring!Length = Ring!Capacity, Ring!Length < MaxLength,
         NEW s, NEW m, NEW d, s = Ring!Expand.ses, m = Ring!Expand.capmask, d = Ring!Length
  PROVE  /\ RingOK(s, 0, d, m) /\ HasSlots(s, 0, d, m) /\ Gap(0, d) = d /\ d < m + 1
         /\ InRing(s, 0, d, m) = InRing(ses, head, tail, capmask)
<1>1. /\ Width \in Nat \ {0} /\ head \in 0 .. Width - 1 /\ tail \in 0 .. Width - 1
      /\ MaxLength \in Nat /\ MaxLength < Width /\ FirstMask \in Nat
      /\ d = Gap(head, tail) /\ d < MaxLength /\ d = Ring!Capacity
  BY DEF Ring!RingAssumption, RingInv, RingOK, Gap, Ring!Length
<1>2. d \in 0 .. Width - 1 /\ d \in Nat
  BY <1>1, ModGap DEF Gap
<1>3. Gap(0, d) = d
  BY <1>1, <1>2, ModGap DEF Gap
<1>4. PICK z \in Seq(Event) : z = InRing(ses, head, tail, capmask)
  BY DEF RingInv, RingOK
<1>5. z = Ring!Contents
  <2>1. Found(ses, head, tail, capmask) = z
    BY <1>4, FoundIs DEF RingInv
  <2>2. QED
    BY <2>1 DEF Found, Gap, Ring!Contents, Ring!Length, Ring!Slot, Ring!Capacity
<1>6. z = [k \in 1 .. d |-> z[k]]
  BY <1>1, <1>4 DEF InRing
<1>7. m \in Nat /\ Ring!Fits(m + 1) /\ d < m + 1
  <2>1. m = IF Ring!Capacity # 0 THEN capmask * 4 + 3 ELSE FirstMask
    BY DEF Ring!Expand
  <2>2. CASE d = 0
    <3>1. m = FirstMask
      BY <1>1, <2>1, <2>2
    <3>2. QED
      BY <1>1, <2>2, <3>1 DEF Ring!RingAssumption
  <2>3. CASE d # 0
    <3>1. ~(capmask = Width - 1 /\ head = tail)
      <4>1. Width % Width = 0
        <5>1. Leaves(Width, Width, 1, 0) /\ 0 \in 0 .. Width - 1 /\ Width \in Int
          BY <1>1 DEF Leaves
        <5>2. QED
          BY <1>1, <5>1, ModFrom
      <4>2. capmask = Width - 1 => Ring!Capacity = 0
        <5>1. Width - 1 + 1 = Width
          BY <1>1
        <5>2. QED
          BY <4>1, <5>1 DEF Ring!Capacity
      <4>3. QED
        BY <1>1, <2>3, <4>2
    <3>2. HasSlots(ses, head, tail, capmask)
      BY <3>1 DEF RingInv, RingOK
    <3>3. d = capmask + 1 /\ capmask \in Nat
      BY <1>1, <3>2, CapacityIs DEF HasSlots, Ring!Capacity
    <3>4. m + 1 = 4 * d /\ m \in Nat /\ d \in 1 .. MaxLength - 1
      BY <1>1, <1>2, <2>1, <2>3, <3>3
    <3>5. Ring!Fits(d)
      BY <3>2, <3>3 DEF HasSlots
    <3>6. Ring!Fits(4 * d)
      BY <3>4, <3>5 DEF Ring!RingAssumption
    <3>7. QED
      BY <1>2, <2>3, <3>4, <3>6
  <2>4. QED
    BY <2>2, <2>3
<1>8. s = [k \in 0 .. m |-> IF k < d THEN z[k + 1] ELSE CHOOSE e \in Event : TRUE]
  <2>1. Ring!Expand.capmask = IF Ring!Capacity # 0 THEN capmask * 4 + 3 ELSE FirstMask
    BY DEF Ring!Expand
  <2>2. s = [k \in 0 .. m |->
               IF k < Ring!Length THEN Ring!Contents[k + 1] ELSE CHOOSE e \in Event : TRUE]
    BY <2>1 DEF Ring!Expand
  <2>3. QED
    BY <1>5, <2>2
<1>9. ASSUME NEW k \in 1 .. d PROVE s[(0 + k - 1) % (m + 1)] = z[k]
  <2>1. k - 1 \in 0 .. m /\ k - 1 < d /\ (k - 1) + 1 = k /\ 0 + k - 1 = k - 1
    BY <1>2, <1>7
  <2>2. Leaves(k - 1, m + 1, 0, k - 1) /\ k - 1 \in 0 .. (m + 1) - 1 /\ m + 1 \in Nat \ {0}
        /\ k - 1 \in Int
    BY <1>7, <2>1 DEF Leaves
  <2>3. (k - 1) % (m + 1) = k - 1
    BY <2>1, <2>2, ModFrom
  <2>4. s[k - 1] = z[k]
    BY <1>8, <2>1
  <2>5. QED
    BY <2>1, <2>3, <2>4
<1>10. InRing(s, 0, d, m) = z
  BY <1>3, <1>6, <1>9 DEF InRing
<1>11. HasSlots(s, 0, d, m)
  <2>1. DOMAIN s = 0 .. m
    BY <1>8
  <2>2. QED
    BY <1>2, <1>3, <1>7, <2>1 DEF HasSlots
<1>12. 0 \in 0 .. Width - 1 /\ Gap(0, d) <= MaxLength
  BY <1>1, <1>2, <1>3
<1>13. QED
  BY <1>2, <1>3, <1>4, <1>7, <1>10, <1>11, <1>12 DEF RingOK

LEMMA ContentsAre ==
  ASSUME Ring!RingAssumption, RingInv
  PROVE  Ring!Contents = InRing(ses, head, tail, capmask)
<1>1. Found(ses, head, tail, capmask) = InRing(ses, head, tail, capmask)
  BY FoundIs DEF RingInv
<1>2. QED
  BY <1>1 DEF Found, Gap, Ring!Contents, Ring!Length, Ring!Slot, Ring!Capacity

\* The abstract queue, of what was in the ring and what is in it.
Pushes(z, w) == \E e \in Event : w = Append(z, e)
Pops(z, w) == z # <<>> /\ w = Tail(z)

LEMMA RingPush ==
  ASSUME Ring!RingAssumption, RingInv, NEW e \in Event, Ring!Push(e)
  PROVE  /\ RingInv'
         /\ Pushes(InRing(ses, head, tail, capmask), InRing(ses, head, tail, capmask)')
<1>1. Ring!Length = Gap(head, tail) /\ Ring!Length < MaxLength
  BY DEF Ring!Push, Ring!Length, Gap
<1>2. PICK ring :
        /\ ring = IF Ring!Length = Ring!Capacity THEN Ring!Expand
                  ELSE [ses |-> ses, head |-> head, tail |-> tail, capmask |-> capmask]
        /\ ses' = [ring.ses EXCEPT ![ring.tail % (ring.capmask + 1)] = e]
        /\ head' = ring.head /\ tail' = (ring.tail + 1) % Width /\ capmask' = ring.capmask
  BY DEF Ring!Push
<1>3. PICK s, h, t, m :
        /\ ring.ses = s /\ ring.head = h /\ ring.tail = t /\ ring.capmask = m
        /\ RingOK(s, h, t, m) /\ HasSlots(s, h, t, m)
        /\ Gap(h, t) < m + 1 /\ Gap(h, t) < MaxLength
        /\ InRing(s, h, t, m) = InRing(ses, head, tail, capmask)
  <2>1. CASE Ring!Length = Ring!Capacity
    <3>1. ring = Ring!Expand
      BY <1>2, <2>1
    <3>2. PICK s, m, d : s = Ring!Expand.ses /\ m = Ring!Expand.capmask /\ d = Ring!Length
      OBVIOUS
    <3>3. Ring!Expand.head = 0 /\ Ring!Expand.tail = d
      BY <3>2 DEF Ring!Expand
    <3>4. /\ RingOK(s, 0, d, m) /\ HasSlots(s, 0, d, m) /\ Gap(0, d) = d /\ d < m + 1
          /\ InRing(s, 0, d, m) = InRing(ses, head, tail, capmask)
      BY <1>1, <2>1, <3>2, ExpandSame
    <3>5. QED
      BY <1>1, <3>1, <3>2, <3>3, <3>4
  <2>2. CASE Ring!Length # Ring!Capacity
    <3>1. ring = [ses |-> ses, head |-> head, tail |-> tail, capmask |-> capmask]
      BY <1>2, <2>2
    <3>2. ring.ses = ses /\ ring.head = head /\ ring.tail = tail /\ ring.capmask = capmask
      BY <3>1
    <3>3. /\ Width \in Nat \ {0} /\ head \in 0 .. Width - 1 /\ tail \in 0 .. Width - 1
      BY DEF Ring!RingAssumption, RingInv, RingOK
    <3>4. ~(capmask = Width - 1 /\ head = tail)
      <4>1. SUFFICES ASSUME capmask = Width - 1, head = tail PROVE FALSE
        OBVIOUS
      <4>2. Gap(head, tail) = 0
        BY <3>3, <4>1, ModGap DEF Gap
      <4>3. Leaves(Width, Width, 1, 0) /\ 0 \in 0 .. Width - 1 /\ Width \in Int
            /\ Width - 1 + 1 = Width
        BY <3>3 DEF Leaves
      <4>4. Ring!Capacity = 0
        <5>1. Width % Width = 0
          BY <3>3, <4>3, ModFrom
        <5>2. QED
          BY <4>1, <4>3, <5>1 DEF Ring!Capacity
      <4>5. QED
        BY <1>1, <2>2, <4>2, <4>4
    <3>5. HasSlots(ses, head, tail, capmask)
      BY <3>4 DEF RingInv, RingOK
    <3>6. Ring!Capacity = capmask + 1 /\ capmask \in Nat /\ Gap(head, tail) <= capmask + 1
      BY <3>5, CapacityIs DEF HasSlots, Ring!Capacity
    <3>7. Gap(head, tail) \in Int
      BY <3>3, ModGap DEF Gap
    <3>8. Gap(head, tail) < capmask + 1
      BY <1>1, <2>2, <3>6, <3>7
    <3>9. QED
      BY <1>1, <3>2, <3>5, <3>8 DEF RingInv
  <2>3. QED
    BY <2>1, <2>2
<1>4. PICK u, v : u = [s EXCEPT ![t % (m + 1)] = e] /\ v = (t + 1) % Width
  OBVIOUS
<1>5. ses' = u /\ head' = h /\ tail' = v /\ capmask' = m
  BY <1>2, <1>3, <1>4
<1>6. RingOK(u, h, v, m) /\ InRing(u, h, v, m) = Append(InRing(s, h, t, m), e)
  <2>1. HasRoom(s, h, t, m)
    BY <1>3 DEF HasRoom
  <2>2. PutBehind(s, t, m, e, u, v)
    BY <1>4 DEF PutBehind
  <2>3. QED
    BY <2>1, <2>2, PushPlain
<1>7. RingInv'
  BY <1>5, <1>6 DEF RingInv, RingOK, HasSlots, InRing, Gap
<1>8. InRing(ses, head, tail, capmask)' = InRing(u, h, v, m)
  BY <1>5 DEF InRing, Gap
<1>9. QED
  BY <1>3, <1>6, <1>7, <1>8 DEF Pushes

LEMMA RingPop ==
  ASSUME Ring!RingAssumption, RingInv, Ring!PopTrigger
  PROVE  /\ RingInv'
         /\ Pops(InRing(ses, head, tail, capmask), InRing(ses, head, tail, capmask)')
<1>1. PICK s, h, t, m, g :
        /\ s = ses /\ h = head /\ t = tail /\ m = capmask /\ g = (h + 1) % Width /\ h # t
        /\ ses' = s /\ head' = g /\ tail' = t /\ capmask' = m
  BY DEF Ring!PopTrigger
<1>2. /\ Width \in Nat \ {0} /\ h \in 0 .. Width - 1 /\ t \in 0 .. Width - 1
      /\ MaxLength \in Nat /\ MaxLength < Width
      /\ Gap(h, t) <= MaxLength /\ HasSlots(s, h, t, m) /\ InRing(s, h, t, m) \in Seq(Event)
  BY <1>1 DEF Ring!RingAssumption, RingInv, RingOK
<1>3. PICK c \in Nat \ {0} : c = m + 1 /\ c < Width
  BY <1>2, CapacityIs DEF HasSlots
<1>4. PICK n \in Nat \ {0} : Multiple(Width, c, n)
  BY <1>2, <1>3 DEF HasSlots, Ring!Fits, Multiple
<1>5. PICK d \in 0 .. Width - 1 : d = Gap(h, t) /\ d = IF h <= t THEN t - h ELSE t - h + Width
  BY <1>2, ModGap DEF Gap
<1>6. g \in 0 .. Width - 1 /\ g = IF h + 1 < Width THEN h + 1 ELSE 0
  <2>1. CASE h + 1 < Width
    <3>1. Leaves(h + 1, Width, 0, h + 1) /\ h + 1 \in 0 .. Width - 1 /\ h + 1 \in Int
      BY <1>2, <2>1 DEF Leaves
    <3>2. QED
      BY <1>1, <1>2, <2>1, <3>1, ModFrom
  <2>2. CASE ~(h + 1 < Width)
    <3>1. Leaves(h + 1, Width, 1, 0) /\ 0 \in 0 .. Width - 1 /\ h + 1 \in Int
      BY <1>2, <2>2 DEF Leaves
    <3>2. QED
      BY <1>1, <1>2, <2>2, <3>1, ModFrom
  <2>3. QED
    BY <2>1, <2>2
<1>7. Gap(g, t) = d - 1 /\ d >= 1 /\ d \in Nat
  <2>1. Gap(g, t) = IF g <= t THEN t - g ELSE t - g + Width
    BY <1>2, <1>6, ModGap DEF Gap
  <2>2. h \in Int /\ t \in Int /\ g \in Int /\ Width \in Int
    BY <1>2, <1>6
  <2>3. QED
    BY <1>1, <1>2, <1>5, <1>6, <2>1, <2>2
<1>8. PICK z \in Seq(Event) : z = InRing(s, h, t, m)
  BY <1>2
<1>9. z = [k \in 1 .. d |-> s[(h + k - 1) % c]] /\ Len(z) = d /\ z # <<>>
  <2>1. z = [k \in 1 .. d |-> s[(h + k - 1) % c]]
    BY <1>3, <1>5, <1>8 DEF InRing
  <2>2. Len(z) = d
    BY <1>7, <2>1
  <2>3. QED
    BY <1>7, <2>1, <2>2
<1>10. PICK w : w = InRing(s, g, t, m) /\ w = [k \in 1 .. d - 1 |-> s[(g + k - 1) % c]]
  BY <1>3, <1>7 DEF InRing
<1>11. ASSUME NEW k \in 1 .. d - 1 PROVE s[(g + k - 1) % c] = z[k + 1]
  <2>1. (g + k - 1) % c = (h + (k + 1) - 1) % c
    <3>1. CASE h + 1 < Width
      <4>1. g + k - 1 = h + (k + 1) - 1
        BY <1>2, <1>6, <3>1
      <4>2. QED
        BY <4>1
    <3>2. CASE ~(h + 1 < Width)
      <4>1. PICK i \in Nat : i = k - 1 /\ i < Width /\ g + k - 1 = i /\ h + (k + 1) - 1 = Width + i
        BY <1>2, <1>5, <1>6, <3>2
      <4>2. (Width + i) % Width = i
        <5>1. PICK a \in Int : a = Width + i
          BY <1>2, <4>1
        <5>2. Leaves(a, Width, 1, i) /\ i \in 0 .. Width - 1 /\ 1 \in Int
          BY <1>2, <4>1, <5>1 DEF Leaves
        <5>3. a % Width = i
          BY <1>2, <5>1, <5>2, ModFrom
        <5>4. QED
          BY <5>1, <5>3
      <4>3. ((Width + i) % Width) % c = (Width + i) % c
        <5>1. Width + i \in Int
          BY <1>2
        <5>2. QED
          BY <1>4, <5>1, ModMod
      <4>4. QED
        BY <4>1, <4>2, <4>3
    <3>3. QED
      BY <3>1, <3>2
  <2>2. k + 1 \in 1 .. d
    BY <1>7
  <2>3. z[k + 1] = s[(h + (k + 1) - 1) % c]
    BY <1>9, <2>2
  <2>4. QED
    BY <2>1, <2>3
<1>12. w = Tail(z) /\ w \in Seq(Event)
  <2>1. w = [k \in 1 .. d - 1 |-> z[k + 1]]
    BY <1>10, <1>11
  <2>2. Tail(z) = [k \in 1 .. d - 1 |-> z[k + 1]]
    BY <1>9
  <2>3. Tail(z) \in Seq(Event)
    BY <1>9
  <2>4. QED
    BY <2>1, <2>2, <2>3
<1>13. HasSlots(s, g, t, m) /\ Gap(g, t) <= MaxLength
  <2>1. d - 1 <= m + 1 /\ d - 1 <= MaxLength
    BY <1>2, <1>3, <1>5, <1>7 DEF HasSlots
  <2>2. QED
    BY <1>2, <1>7, <2>1 DEF HasSlots
<1>14. RingOK(s, g, t, m)
  BY <1>2, <1>6, <1>10, <1>12, <1>13 DEF RingOK
<1>15. RingInv'
  BY <1>1, <1>14 DEF RingInv, RingOK, HasSlots, InRing, Gap
<1>16. InRing(ses, head, tail, capmask)' = w /\ InRing(ses, head, tail, capmask) = z
  BY <1>1, <1>8, <1>10 DEF InRing, Gap
<1>17. QED
  BY <1>9, <1>12, <1>15, <1>16 DEF Pops

LEMMA RingClear ==
  ASSUME Ring!RingAssumption, RingInv, Ring!Clear
  PROVE  RingInv' /\ InRing(ses, head, tail, capmask)' = <<>>
<1>1. PICK s, t, m : /\ s = ses /\ t = tail /\ m = capmask
                     /\ ses' = s /\ head' = t /\ tail' = t /\ capmask' = m
  BY DEF Ring!Clear
<1>2. /\ Width \in Nat \ {0} /\ t \in 0 .. Width - 1 /\ MaxLength \in Nat
      /\ (m = Width - 1 \/ HasSlots(s, head, t, m))
  BY <1>1 DEF Ring!RingAssumption, RingInv, RingOK
<1>3. Gap(t, t) = 0
  BY <1>2, ModGap DEF Gap
<1>4. InRing(s, t, t, m) = <<>> /\ <<>> \in Seq(Event)
  BY <1>3 DEF InRing
<1>5. HasSlots(s, head, t, m) => HasSlots(s, t, t, m)
  BY <1>3 DEF HasSlots
<1>6. RingOK(s, t, t, m)
  BY <1>2, <1>3, <1>4, <1>5 DEF RingOK
<1>7. QED
  BY <1>1, <1>4, <1>6 DEF RingInv, RingOK, HasSlots, InRing, Gap

LEMMA RingStart ==
  ASSUME Ring!RingAssumption, Ring!Init
  PROVE  RingInv /\ Ring!Contents = <<>>
<1>1. /\ Width \in Nat \ {0} /\ MaxLength \in Nat
      /\ head = 0 /\ tail = 0 /\ capmask = Width - 1 /\ 0 \in 0 .. Width - 1
  BY DEF Ring!RingAssumption, Ring!Init
<1>2. Gap(head, tail) = 0
  BY <1>1, ModGap DEF Gap
<1>3. InRing(ses, head, tail, capmask) = <<>> /\ <<>> \in Seq(Event)
  BY <1>2 DEF InRing
<1>4. RingInv
  <2>1. Gap(head, tail) <= MaxLength
    BY <1>1, <1>2
  <2>2. head \in 0 .. Width - 1 /\ tail \in 0 .. Width - 1 /\ head = tail
    BY <1>1
  <2>3. InRing(ses, head, tail, capmask) \in Seq(Event)
    BY <1>3
  <2>4. QED
    BY <1>1, <2>1, <2>2, <2>3 DEF RingInv, RingOK
<1>5. QED
  BY <1>3, <1>4, ContentsAre

LEMMA RingStep ==
  ASSUME Ring!RingAssumption, RingInv, [Ring!Next]_Ring!vars
  PROVE  /\ RingInv'
         /\ \/ Pushes(InRing(ses, head, tail, capmask), InRing(ses, head, tail, capmask)')
            \/ Pops(InRing(ses, head, tail, capmask), InRing(ses, head, tail, capmask)')
            \/ InRing(ses, head, tail, capmask)' = <<>>
            \/ InRing(ses, head, tail, capmask)' = InRing(ses, head, tail, capmask)
<1>1. CASE \E e \in Event : Ring!Push(e)
  BY <1>1, RingPush
<1>2. CASE Ring!PopTrigger
  BY <1>2, RingPop
<1>3. CASE Ring!Clear
  BY <1>3, RingClear
<1>4. CASE UNCHANGED Ring!vars
  BY <1>4 DEF Ring!vars, RingInv, RingOK, HasSlots, InRing, Gap
<1>5. QED
  BY <1>1, <1>2, <1>3, <1>4 DEF Ring!Next

LEMMA ContentsAfter ==
  ASSUME Ring!RingAssumption, RingInv'
  PROVE  Ring!Contents' = InRing(ses, head, tail, capmask)'
<1>1. PICK s, h, t, m : s = ses' /\ h = head' /\ t = tail' /\ m = capmask'
  OBVIOUS
<1>2. RingOK(s, h, t, m)
  BY <1>1 DEF RingInv, RingOK, HasSlots, InRing, Gap
<1>3. Found(s, h, t, m) = InRing(s, h, t, m)
  BY <1>2, FoundIs
<1>4. QED
  BY <1>1, <1>3 DEF Found, InRing, Gap, Ring!Contents, Ring!Length, Ring!Slot, Ring!Capacity

\* The ring of asap events is a first-in first-out queue, also when its indices have
\* wrapped around and when it grows from the middle.
THEOREM RingIsQueue == ASSUME Ring!RingAssumption PROVE Ring!Spec => ImplementsEventQueue
<1>1. Ring!Init => RingInv /\ Ring!Queue!Init
  BY RingStart DEF Ring!Queue!Init
<1>2. RingInv /\ [Ring!Next]_Ring!vars =>
        /\ RingInv'
        /\ [Ring!Queue!Push \/ Ring!Queue!PopTrigger \/ Ring!Queue!Clear]_(Ring!Contents)
  <2>1. SUFFICES ASSUME RingInv, [Ring!Next]_Ring!vars
                 PROVE  /\ RingInv'
                        /\ \/ Ring!Queue!Push \/ Ring!Queue!PopTrigger \/ Ring!Queue!Clear
                           \/ UNCHANGED Ring!Contents
    OBVIOUS
  <2>2. PICK z, w : /\ z = InRing(ses, head, tail, capmask) /\ w = InRing(ses, head, tail, capmask)'
                    /\ RingInv' /\ (Pushes(z, w) \/ Pops(z, w) \/ w = <<>> \/ w = z)
    BY <2>1, RingStep
  <2>3. Ring!Contents = z /\ Ring!Contents' = w
    BY <2>1, <2>2, ContentsAre, ContentsAfter
  <2>4. QED
    BY <2>2, <2>3 DEF Pushes, Pops, Ring!Queue!Push, Ring!Queue!PopTrigger, Ring!Queue!Clear
<1>3. QED
  BY <1>1, <1>2, PTL DEF Ring!Spec, ImplementsEventQueue, Ring!ImplementsEventQueue, Ring!Queue!Spec

(***************************************************************************)
(* The heap of timers.  A record rises or sinks along a way: from each     *)
(* position in D but those in T, where it stays, it goes on to N[p], and M *)
(* falls from one to the next.                                             *)
(***************************************************************************)

Onward(D, T, N, M, m) ==
  /\ m \in Nat /\ M \in [D -> 0 .. m]
  /\ \A p \in D \ T : N[p] \in D /\ M[N[p]] < M[p]

\* w is the way from each position.
IsWay(w, D, T, N) == w = [p \in D |-> IF p \in T THEN {p} ELSE {p} \cup w[N[p]]]

\* Since M falls there is such a way from every position.
LEMMA WayExists ==
  ASSUME NEW D, NEW T, NEW N, NEW M, NEW m, Onward(D, T, N, M, m)
  PROVE  \E w : IsWay(w, D, T, N)
<1> DEFINE Part(k) == {p \in D : M[p] < k}
           Eq(w, k) == IsWay(w, Part(k), T, N)
           K == {k \in 0 .. m + 1 : ~\E w : Eq(w, k)}
<1>1. m \in Nat /\ M \in [D -> 0 .. m] /\ \A p \in D \ T : N[p] \in D /\ M[N[p]] < M[p]
  BY DEF Onward
<1>2. K = {}
  <2>1. SUFFICES ASSUME K # {} PROVE FALSE
    OBVIOUS
  <2>2. K \subseteq Nat
    BY <1>1
  <2>3. PICK k \in K : \A j \in K : k <= j
    BY <2>1, <2>2, Least
  <2>4. k \in 0 .. m + 1 /\ k \in Nat /\ ~\E w : Eq(w, k)
    BY <1>1, <2>3
  <2>5. CASE k = 0
    <3>1. Part(0) = {}
      BY <1>1
    <3>2. PICK w : w = [p \in {} |-> {}]
      OBVIOUS
    <3>3. Eq(w, 0)
      BY <3>1, <3>2 DEF IsWay
    <3>4. QED
      BY <2>4, <2>5, <3>3
  <2>6. CASE k # 0
    <3>1. k - 1 \in 0 .. m + 1 /\ ~(k <= k - 1)
      BY <1>1, <2>4, <2>6
    <3>2. PICK w : Eq(w, k - 1)
      BY <2>3, <3>1
    <3>3. PICK v : v = [p \in Part(k) |-> IF p \in T THEN {p} ELSE {p} \cup w[N[p]]]
      OBVIOUS
    <3>4. ASSUME NEW p \in Part(k), p \notin T PROVE v[N[p]] = w[N[p]]
      <4>1. N[p] \in Part(k - 1) /\ N[p] \in Part(k)
        <5>1. p \in D /\ N[p] \in D /\ M[N[p]] < M[p] /\ M[p] < k
          BY <1>1, <3>4
        <5>2. M[N[p]] \in Int /\ M[p] \in Int /\ k \in Int
          BY <1>1, <2>4, <5>1
        <5>3. QED
          BY <5>1, <5>2
      <4>2. v[N[p]] = IF N[p] \in T THEN {N[p]} ELSE {N[p]} \cup w[N[N[p]]]
        BY <3>3, <4>1
      <4>3. w[N[p]] = IF N[p] \in T THEN {N[p]} ELSE {N[p]} \cup w[N[N[p]]]
        BY <3>2, <4>1 DEF IsWay
      <4>4. QED
        BY <4>2, <4>3
    <3>5. v = [p \in Part(k) |-> IF p \in T THEN {p} ELSE {p} \cup v[N[p]]]
      BY <3>3, <3>4
    <3>6. Eq(v, k)
      BY <3>5 DEF IsWay
    <3>7. QED
      BY <2>4, <3>6
  <2>7. QED
    BY <2>5, <2>6
<1>3. PICK w : Eq(w, m + 1)
  <2>1. m + 1 \in 0 .. m + 1
    BY <1>1
  <2>2. QED
    BY <1>2, <2>1
<1>4. Part(m + 1) = D
  BY <1>1
<1>5. QED
  BY <1>3, <1>4

\* What a way W from p on is like: it ends in one place, and each other position of
\* it is followed by one of it, and but for p follows one.
Reached(W, p, D, T, N, M) ==
  /\ W \subseteq D /\ p \in W
  /\ \A i \in W : M[i] <= M[p]
  /\ \A i \in W \ T : N[i] \in W
  /\ \A i \in W \ {p} : \E c \in W \ T : N[c] = i
  /\ \A c, d \in W \ T : N[c] = N[d] => c = d
  /\ \E s \in W \cap T : \A t \in W \cap T : t = s

\* A way that ends where it starts.
LEMMA ReachedOne ==
  ASSUME NEW D, NEW T, NEW N, NEW M, NEW m, Onward(D, T, N, M, m), NEW p \in D, p \in T
  PROVE  Reached({p}, p, D, T, N, M)
<1>1. M[p] \in Int
  BY DEF Onward
<1>2. M[p] <= M[p]
  BY <1>1
<1>3. QED
  BY <1>2 DEF Reached

\* A way of one more step.
LEMMA ReachedMore ==
  ASSUME NEW D, NEW T, NEW N, NEW M, NEW m, Onward(D, T, N, M, m), NEW p \in D, p \notin T,
         NEW W, Reached(W, N[p], D, T, N, M)
  PROVE  Reached({p} \cup W, p, D, T, N, M)
<1>1. N[p] \in D /\ M[N[p]] < M[p] /\ M[p] \in Int /\ \A i \in D : M[i] \in Int
  BY DEF Onward
<1>2. W \subseteq D /\ N[p] \in W
  BY DEF Reached
<1>3. \A i \in W : M[i] < M[p]
  <2>1. SUFFICES ASSUME NEW i \in W PROVE M[i] < M[p]
    OBVIOUS
  <2>2. M[i] <= M[N[p]] /\ M[i] \in Int /\ M[N[p]] \in Int
    BY <1>1, <1>2 DEF Reached
  <2>3. QED
    BY <1>1, <2>2
<1>4. p \notin W
  BY <1>1, <1>3
<1>5. \A i \in {p} \cup W : M[i] <= M[p]
  BY <1>1, <1>2, <1>3
<1>6. \A i \in ({p} \cup W) \ T : N[i] \in {p} \cup W
  BY <1>2 DEF Reached
<1>7. \A i \in ({p} \cup W) \ {p} : \E c \in ({p} \cup W) \ T : N[c] = i
  BY DEF Reached
<1>8. \A c \in W \ T : N[c] # N[p]
  <2>1. SUFFICES ASSUME NEW c \in W \ T, N[c] = N[p] PROVE FALSE
    OBVIOUS
  <2>2. M[N[c]] < M[c] /\ M[c] <= M[N[p]] /\ M[c] \in Int /\ M[N[p]] \in Int
    BY <1>1, <1>2 DEF Reached, Onward
  <2>3. QED
    BY <2>1, <2>2
<1>9. \A c, d \in ({p} \cup W) \ T : N[c] = N[d] => c = d
  BY <1>8 DEF Reached
<1>10. \E s \in ({p} \cup W) \cap T : \A t \in ({p} \cup W) \cap T : t = s
  BY DEF Reached
<1>11. QED
  BY <1>2, <1>5, <1>6, <1>7, <1>9, <1>10 DEF Reached

\* Each place where a way leads has what Reached says.
LEMMA WayReaches ==
  ASSUME NEW D, NEW T, NEW N, NEW M, NEW m, Onward(D, T, N, M, m),
         NEW w, IsWay(w, D, T, N), NEW p \in D
  PROVE  Reached(w[p], p, D, T, N, M)
<1> DEFINE K == {M[i] : i \in {j \in D : ~Reached(w[j], j, D, T, N, M)}}
<1>1. m \in Nat /\ M \in [D -> 0 .. m] /\ \A i \in D \ T : N[i] \in D /\ M[N[i]] < M[i]
  BY DEF Onward
<1>2. K = {}
  <2>1. SUFFICES ASSUME K # {} PROVE FALSE
    OBVIOUS
  <2>2. K \subseteq Nat
    BY <1>1
  <2>3. PICK k \in K : \A j \in K : k <= j
    BY <2>1, <2>2, Least
  <2>4. PICK i \in D : k = M[i] /\ ~Reached(w[i], i, D, T, N, M)
    BY <2>3
  <2>5. CASE i \in T
    <3>1. w[i] = {i}
      BY <2>5 DEF IsWay
    <3>2. QED
      BY <2>4, <2>5, <3>1, ReachedOne
  <2>6. CASE i \notin T
    <3>1. N[i] \in D /\ M[N[i]] < M[i] /\ M[i] \in Int /\ M[N[i]] \in Int
      BY <1>1, <2>6
    <3>2. w[i] = {i} \cup w[N[i]]
      BY <2>6 DEF IsWay
    <3>3. Reached(w[N[i]], N[i], D, T, N, M)
      BY <2>3, <2>4, <3>1
    <3>4. QED
      BY <2>4, <2>6, <3>2, <3>3, ReachedMore
  <2>7. QED
    BY <2>5, <2>6
<1>3. QED
  BY <1>2

\* Division, from the quotient that fits.
LEMMA DivIs ==
  ASSUME NEW s \in Nat \ {0}, NEW p \in Int, NEW a \in Int, NEW y \in Int, y = s * p,
         y <= a, a < y + s
  PROVE  a \div s = p
<1>1. PICK z \in Int, x \in 0 .. s - 1 : z = a \div s /\ a = s * z + x
  <2>1. a % s \in 0 .. s - 1 /\ a \div s \in Int
    OBVIOUS
  <2>2. a \in Int /\ s \in Int /\ s > 0
    OBVIOUS
  <2>3. s * (a \div s) + (a % s) = a
    BY <2>2, Z3
  <2>4. QED
    BY <2>1, <2>3
<1>2. PICK u \in Int : u = s * z
  BY <1>1
<1>3. CASE p > z
  <2>1. s * p >= s * z + s
    BY <1>1, <1>3, MulLess
  <2>2. QED
    BY <1>1, <1>2, <2>1
<1>4. CASE z > p
  <2>1. s * z >= s * p + s
    BY <1>1, <1>4, MulLess
  <2>2. QED
    BY <1>1, <1>2, <2>1
<1>5. QED
  BY <1>1, <1>3, <1>4

\* A node of the heap has at least two children.
Shape == Arity \in Nat \ {0, 1}

\* The model's Cardinality is the library's.
LEMMA SameCounting == \A S : Timers!Cardinality(S) = Cardinality(S)
BY DEF Timers!IsFiniteSet, Timers!Cardinality, IsFiniteSet, Cardinality

\* The positions of n records.
LEMMA FirstInts ==
  ASSUME NEW n \in Nat
  PROVE  IsFiniteSet(0 .. n - 1) /\ Cardinality(0 .. n - 1) = n
<1>1. 0 \in Int /\ n - 1 \in Int
  OBVIOUS
<1>2. IsFiniteSet(0 .. n - 1) /\ Cardinality(0 .. n - 1) = IF 0 > n - 1 THEN 0 ELSE n - 1 - 0 + 1
  BY <1>1, FS_Interval
<1>3. (IF 0 > n - 1 THEN 0 ELSE n - 1 - 0 + 1) = n
  OBVIOUS
<1>4. QED
  BY <1>2, <1>3

\* A parent has a lower position.
LEMMA ParentBefore ==
  ASSUME Shape, NEW i \in Nat \ {0}
  PROVE  Timers!Parent(i) \in 0 .. i - 1
<1>1. PICK x \in Nat : x = i - (IF Arity = 2 THEN 1 ELSE 0)
  OBVIOUS
<1>2. PICK z \in Int : z = x \div Arity
  BY DEF Shape
<1>3. PICK r \in 0 .. Arity - 1 : x = Arity * z + r
  <2>1. x % Arity \in 0 .. Arity - 1 /\ x \in Int /\ Arity \in Int /\ Arity > 0
    BY <1>1 DEF Shape
  <2>2. Arity * (x \div Arity) + (x % Arity) = x
    BY <2>1, Z3
  <2>3. QED
    BY <1>2, <2>1, <2>2
<1>4. PICK e \in Nat : Arity = e + 2
  BY DEF Shape
<1>5. z >= 0
  <2>1. SUFFICES ASSUME 0 > z PROVE FALSE
    OBVIOUS
  <2>2. Arity * 0 >= Arity * z + Arity
    BY <1>4, <2>1, MulLess
  <2>3. Arity * z \in Int /\ Arity * 0 = 0
    BY <1>4
  <2>4. QED
    BY <1>3, <1>4, <2>2, <2>3
<1>6. x >= z + z
  <2>1. e * z \in Nat
    BY <1>4, <1>5
  <2>2. Arity * z = e * z + 2 * z
    BY <1>4
  <2>3. QED
    BY <1>3, <1>5, <2>1, <2>2
<1>7. z < i
  BY <1>1, <1>5, <1>6
<1>8. z = Timers!Parent(i)
  BY <1>1, <1>2 DEF Timers!Parent
<1>9. QED
  BY <1>5, <1>7, <1>8

\* The children of a position are those whose parent it is.
LEMMA ChildrenAre ==
  ASSUME Shape, NEW n \in Nat, NEW h, DOMAIN h = 0 .. n - 1, NEW p \in 0 .. n - 1, NEW k \in Int
  PROVE  k \in Timers!Children(h, p) <=> k \in 1 .. n - 1 /\ Timers!Parent(k) = p
<1> DEFINE b == IF Arity = 2 THEN 1 ELSE 0
<1>1. Arity \in Nat \ {0, 1} /\ Arity \in Int /\ p \in Nat /\ k - b \in Int
  BY DEF Shape
<1>2. Timers!Size(h) = n
  <2>1. Cardinality(0 .. n - 1) = n
    BY FirstInts
  <2>2. QED
    BY <2>1, SameCounting DEF Timers!Size
<1>3. PICK y \in Int : y = Arity * p /\ y = p * Arity /\ y >= 0 /\ (p # 0 => y >= Arity)
                       /\ (p = 0 => y = 0)
  <2>1. PICK u \in Int : u = Arity * p /\ u = p * Arity
    BY <1>1
  <2>2. CASE p = 0
    <3>1. u = 0
      BY <1>1, <2>1, <2>2
    <3>2. QED
      BY <2>1, <2>2, <3>1
  <2>3. CASE p > 0
    <3>1. Arity * p >= Arity * 0 + Arity
      BY <1>1, <2>3, MulLess
    <3>2. Arity * 0 = 0
      BY <1>1
    <3>3. u >= Arity /\ u >= 0
      BY <1>1, <2>1, <3>1, <3>2
    <3>4. QED
      BY <2>1, <2>3, <3>3
  <2>4. QED
    BY <1>1, <2>2, <2>3
<1>4. Timers!Parent(k) = (k - b) \div Arity
  BY DEF Timers!Parent
<1>5. k \in Timers!Children(h, p) <=>
        /\ y + (IF Arity = 2 \/ p = 0 THEN 1 ELSE 0) <= k
        /\ k < y + Arity + b /\ k < n
  BY <1>1, <1>2, <1>3 DEF Timers!Children, Timers!FirstChild, Timers!LastChild
<1>6. ASSUME y <= k - b, k - b < y + Arity PROVE (k - b) \div Arity = p
  BY <1>1, <1>3, <1>6, DivIs
<1>7. ASSUME (k - b) \div Arity = p PROVE y <= k - b /\ k - b < y + Arity
  <2>1. PICK z \in Int, x \in 0 .. Arity - 1 : z = (k - b) \div Arity /\ k - b = Arity * z + x
    <3>1. (k - b) % Arity \in 0 .. Arity - 1 /\ (k - b) \div Arity \in Int
      BY <1>1
    <3>2. Arity * ((k - b) \div Arity) + ((k - b) % Arity) = k - b
      <4> HIDE DEF b
      <4>1. QED
        BY <1>1, Z3
    <3>3. QED
      BY <3>1, <3>2
  <2>2. Arity * z = y
    BY <1>3, <1>7, <2>1
  <2>3. QED
    BY <1>1, <1>3, <2>1, <2>2
<1>8. QED
  BY <1>1, <1>3, <1>4, <1>5, <1>6, <1>7

\* f is one to one from D onto E.
Places(f, D, E) ==
  /\ f \in [D -> E]
  /\ \A i, j \in D : f[i] = f[j] => i = j
  /\ \A k \in E : \E i \in D : f[i] = k

\* The records of g are those that h has in E.
Placed(g, h, D, E) == \E f : Places(f, D, E) /\ \A i \in D : g[i] = h[f[i]]

\* A heap whose record at pos has gone the way W.
Moved(h, pos, W, D, T, N) ==
  [i \in D |-> IF i \notin W THEN h[i] ELSE IF i \in T THEN h[pos] ELSE h[N[i]]]

\* A record that has gone a way leaves each record one place.
LEMMA MovedPlaces ==
  ASSUME NEW D, NEW T, NEW N, NEW M, NEW m, Onward(D, T, N, M, m), NEW pos \in D,
         NEW W, Reached(W, pos, D, T, N, M), NEW h
  PROVE  Placed(Moved(h, pos, W, D, T, N), h, D, D)
<1>1. PICK f : f = [i \in D |-> IF i \notin W THEN i ELSE IF i \in T THEN pos ELSE N[i]]
  OBVIOUS
<1>2. /\ W \subseteq D /\ pos \in W /\ \A i \in W \ T : N[i] \in W
      /\ \A i \in W \ {pos} : \E c \in W \ T : N[c] = i
      /\ \A c, d \in W \ T : N[c] = N[d] => c = d
      /\ \E s \in W \cap T : \A t \in W \cap T : t = s
  BY DEF Reached
<1>3. \A c \in W \ T : N[c] # pos
  <2>1. SUFFICES ASSUME NEW c \in W \ T, N[c] = pos PROVE FALSE
    OBVIOUS
  <2>2. M[pos] < M[c] /\ M[c] <= M[pos] /\ M[c] \in Int /\ M[pos] \in Int
    BY <1>2, <2>1 DEF Reached, Onward
  <2>3. QED
    BY <2>2
<1>4. f \in [D -> D]
  BY <1>1, <1>2
<1>5. ASSUME NEW i \in D, NEW j \in D, f[i] = f[j] PROVE i = j
  <2>1. CASE i \notin W
    BY <1>1, <1>2, <1>5, <2>1
  <2>2. CASE j \notin W
    BY <1>1, <1>2, <1>5, <2>2
  <2>3. CASE i \in W /\ j \in W
    BY <1>1, <1>2, <1>3, <1>5, <2>3
  <2>4. QED
    BY <2>1, <2>2, <2>3
<1>6. ASSUME NEW k \in D PROVE \E i \in D : f[i] = k
  <2>1. CASE k \notin W
    BY <1>1, <2>1
  <2>2. CASE k = pos
    <3>1. PICK s \in W \cap T : TRUE
      BY <1>2
    <3>2. s \in D /\ f[s] = pos
      BY <1>1, <1>2, <3>1
    <3>3. QED
      BY <2>2, <3>2
  <2>3. CASE k \in W \ {pos}
    <3>1. PICK c \in W \ T : N[c] = k
      BY <1>2, <2>3
    <3>2. c \in D /\ f[c] = k
      BY <1>1, <1>2, <3>1
    <3>3. QED
      BY <3>2
  <2>4. QED
    BY <2>1, <2>2, <2>3
<1>7. \A i \in D : Moved(h, pos, W, D, T, N)[i] = h[f[i]]
  BY <1>1 DEF Moved
<1>8. QED
  BY <1>4, <1>5, <1>6, <1>7 DEF Places, Placed

\* Where a record stops that rises, and how far up each position is.
Tops(h, pos) ==
  {p \in DOMAIN h : p = 0 \/ ~Timers!Less(h[pos], h[Timers!Parent(p)])}
Parents(h) == [p \in DOMAIN h |-> Timers!Parent(p)]
Heights(h) == [p \in DOMAIN h |-> p]

\* Parents lead up to a top.
LEMMA UpOnward ==
  ASSUME Shape, NEW n \in Nat, NEW h, DOMAIN h = 0 .. n - 1, NEW pos
  PROVE  Onward(0 .. n - 1, Tops(h, pos), Parents(h), Heights(h), n)
<1>1. ASSUME NEW p \in (0 .. n - 1) \ Tops(h, pos)
      PROVE  Parents(h)[p] \in 0 .. n - 1 /\ Heights(h)[Parents(h)[p]] < Heights(h)[p]
  <2>1. p \in Nat \ {0} /\ p \in 0 .. n - 1
    BY <1>1 DEF Tops
  <2>2. Timers!Parent(p) \in 0 .. p - 1 /\ Timers!Parent(p) \in 0 .. n - 1
    BY <2>1, ParentBefore
  <2>3. QED
    BY <2>1, <2>2 DEF Parents, Heights
<1>2. Heights(h) \in [0 .. n - 1 -> 0 .. n]
  BY DEF Heights
<1>3. QED
  BY <1>1, <1>2 DEF Onward

\* sift_up moves the record along such a way.
LEMMA SiftUpIs ==
  ASSUME Shape, NEW n \in Nat, NEW h, DOMAIN h = 0 .. n - 1, NEW pos \in 0 .. n - 1
  PROVE  \E W : /\ Reached(W, pos, 0 .. n - 1, Tops(h, pos), Parents(h), Heights(h))
                /\ Timers!SiftUp(h, pos)
                     = Moved(h, pos, W, 0 .. n - 1, Tops(h, pos), Parents(h))
<1> DEFINE IsPath(path) ==
      path = [p \in DOMAIN h |->
                IF p = 0 \/ ~Timers!Less(h[pos], h[Timers!Parent(p)]) THEN {p}
                ELSE {p} \cup path[Timers!Parent(p)]]
<1>1. \A w : IsPath(w) <=> IsWay(w, 0 .. n - 1, Tops(h, pos), Parents(h))
  BY DEF IsWay, Tops, Parents
<1>2. \E w : IsPath(w)
  BY <1>1, UpOnward, WayExists
<1>3. Timers!Rises(h, pos) = CHOOSE path : IsPath(path)
  BY DEF Timers!Rises
<1>4. IsWay(Timers!Rises(h, pos), 0 .. n - 1, Tops(h, pos), Parents(h))
  BY <1>1, <1>2, <1>3
<1>5. PICK W : W = Timers!Rises(h, pos)[pos]
  OBVIOUS
<1>6. Reached(W, pos, 0 .. n - 1, Tops(h, pos), Parents(h), Heights(h))
  BY <1>4, <1>5, UpOnward, WayReaches
<1>7. Timers!SiftUp(h, pos) = Moved(h, pos, W, 0 .. n - 1, Tops(h, pos), Parents(h))
  BY <1>5 DEF Timers!SiftUp, Moved, Tops, Parents
<1>8. QED
  BY <1>6, <1>7

\* The records are in a total order.
Ranked(h) ==
  /\ \A i, j, k \in DOMAIN h :
       Timers!Less(h[i], h[j]) /\ Timers!Less(h[j], h[k]) => Timers!Less(h[i], h[k])
  /\ \A i, j \in DOMAIN h : ~(Timers!Less(h[i], h[j]) /\ Timers!Less(h[j], h[i]))
  /\ \A i, j \in DOMAIN h : i # j => Timers!Less(h[i], h[j]) \/ Timers!Less(h[j], h[i])

\* The record at i is not before that at j.
Behind(h, i, j) == ~Timers!Less(h[i], h[j])

\* What follows from the order.
LEMMA Behinds ==
  ASSUME NEW h, Ranked(h), NEW i \in DOMAIN h, NEW j \in DOMAIN h, NEW k \in DOMAIN h
  PROVE  /\ Timers!Less(h[i], h[j]) => Behind(h, j, i)
         /\ Behind(h, i, j) /\ Behind(h, j, k) => Behind(h, i, k)
         /\ Behind(h, i, i)
BY DEF Ranked, Behind

\* No record is before its parent.
IsHeap(h) == \A i \in DOMAIN h \ {0} : ~Timers!Less(h[i], h[Timers!Parent(i)])

\* A heap but for the record at pos, which may have to rise.
HeapBelow(h, pos) ==
  /\ \A i \in DOMAIN h \ {0, pos} : Behind(h, i, Timers!Parent(i))
  /\ \A i \in DOMAIN h \ {0} :
       Timers!Parent(i) = pos /\ pos # 0 => Behind(h, i, Timers!Parent(pos))

\* Where only one record may have to rise, sift_up makes a heap.
LEMMA UpHeap ==
  ASSUME Shape, NEW n \in Nat, NEW h, DOMAIN h = 0 .. n - 1, NEW pos \in 0 .. n - 1,
         Ranked(h), HeapBelow(h, pos)
  PROVE  IsHeap(Timers!SiftUp(h, pos))
<1> DEFINE D == 0 .. n - 1
           T == Tops(h, pos)
           N == Parents(h)
<1>1. PICK W : /\ Reached(W, pos, D, T, N, Heights(h))
               /\ Timers!SiftUp(h, pos) = Moved(h, pos, W, D, T, N)
  BY SiftUpIs
<1>2. PICK g : g = Timers!SiftUp(h, pos)
  OBVIOUS
<1>3. /\ DOMAIN g = D
      /\ \A i \in D : g[i] = IF i \notin W THEN h[i]
                             ELSE IF i \in T THEN h[pos] ELSE h[Timers!Parent(i)]
  BY <1>1, <1>2 DEF Moved, Parents
<1>4. /\ W \subseteq D /\ pos \in W
      /\ \A i \in W : i <= pos
      /\ \A i \in W \ T : Timers!Parent(i) \in W
      /\ \A i \in W \ {pos} : \E c \in W \ T : Timers!Parent(c) = i
  BY <1>1 DEF Reached, Heights, Parents
<1>5. ASSUME NEW i \in D \ {0}, NEW u \in D, u = Timers!Parent(i)
      PROVE  ~Timers!Less(g[i], g[u])
  <2>1. i \in Nat /\ u \in 0 .. i - 1 /\ u \in Nat
    BY <1>5, ParentBefore
  <2>2. i \in W => u # pos
    BY <1>4, <2>1
  <2>3. u \in W \ {pos} => Timers!Less(h[pos], h[u])
    BY <1>4 DEF Tops
  <2>4. i \in T <=> Behind(h, pos, u)
    BY <1>5 DEF Tops, Behind
  <2>5. u \notin T => u # 0 /\ Timers!Parent(u) \in D
    <3>1. SUFFICES ASSUME u \notin T PROVE u # 0 /\ Timers!Parent(u) \in D
      OBVIOUS
    <3>2. u # 0
      BY <3>1 DEF Tops
    <3>3. QED
      BY <2>1, <3>2, ParentBefore
  <2>6. i # pos => Behind(h, i, u)
    BY <1>5 DEF HeapBelow
  <2>7. CASE i \in W /\ i \in T
    <3>1. u \notin W
      BY <2>2, <2>3, <2>4, <2>7 DEF Behind
    <3>2. g[i] = h[pos] /\ g[u] = h[u]
      BY <1>3, <2>7, <3>1
    <3>3. QED
      BY <2>4, <2>7, <3>2 DEF Behind
  <2>8. CASE i \in W /\ i \notin T
    <3>1. u \in W /\ g[i] = h[u] /\ Timers!Less(h[pos], h[u])
      BY <1>3, <1>4, <1>5, <2>4, <2>8 DEF Behind
    <3>2. CASE u \in T
      <4>1. g[u] = h[pos] /\ Behind(h, u, pos)
        BY <1>3, <3>1, <3>2, Behinds
      <4>2. QED
        BY <3>1, <4>1 DEF Behind
    <3>3. CASE u \notin T
      <4>1. g[u] = h[Timers!Parent(u)] /\ Behind(h, u, Timers!Parent(u))
        BY <1>3, <2>2, <2>5, <2>8, <3>1, <3>3 DEF HeapBelow
      <4>2. QED
        BY <3>1, <4>1 DEF Behind
    <3>4. QED
      BY <3>2, <3>3
  <2>9. CASE i \notin W /\ u \notin W
    <3>1. i # pos /\ g[i] = h[i] /\ g[u] = h[u]
      BY <1>3, <1>4, <2>9
    <3>2. QED
      BY <2>6, <3>1 DEF Behind
  <2>10. CASE i \notin W /\ u \in W
    <3>1. i # pos /\ g[i] = h[i] /\ Behind(h, i, u)
      BY <1>3, <1>4, <2>6, <2>10
    <3>2. CASE u \in T
      <4>1. g[u] = h[pos] /\ Behind(h, u, pos)
        BY <1>3, <2>3, <2>10, <3>2, Behinds
      <4>2. Behind(h, i, pos)
        BY <3>1, <4>1, Behinds
      <4>3. QED
        BY <3>1, <4>1, <4>2 DEF Behind
    <3>3. CASE u \notin T
      <4>1. g[u] = h[Timers!Parent(u)] /\ u # 0 /\ Timers!Parent(u) \in D
        BY <1>3, <2>5, <2>10, <3>3
      <4>2. Behind(h, i, Timers!Parent(u))
        <5>1. CASE u = pos
          BY <1>5, <4>1, <5>1 DEF HeapBelow
        <5>2. CASE u # pos
          <6>1. Behind(h, u, Timers!Parent(u))
            BY <4>1, <5>2 DEF HeapBelow
          <6>2. QED
            BY <3>1, <4>1, <6>1, Behinds
        <5>3. QED
          BY <5>1, <5>2
      <4>3. QED
        BY <3>1, <4>1, <4>2 DEF Behind
    <3>4. QED
      BY <3>2, <3>3
  <2>11. QED
    BY <2>7, <2>8, <2>9, <2>10
<1>6. ASSUME NEW i \in D \ {0} PROVE ~Timers!Less(g[i], g[Timers!Parent(i)])
  <2>1. i \in Nat \ {0}
    OBVIOUS
  <2>2. Timers!Parent(i) \in 0 .. i - 1
    BY <2>1, ParentBefore
  <2>3. Timers!Parent(i) \in D
    BY <2>2
  <2>4. QED
    BY <1>5, <2>3
<1>7. QED
  BY <1>2, <1>3, <1>6 DEF IsHeap

\* Among several positions, one holds a record that is before all others.
LEMMA LeastOne ==
  ASSUME NEW h, Ranked(h), NEW n \in Nat, DOMAIN h = 0 .. n - 1,
         NEW S \in SUBSET (0 .. n - 1), S # {}
  PROVE  \E k \in S : \A j \in S \ {k} : Timers!Less(h[k], h[j])
<1> DEFINE Of(b) == {i \in S : i < b}
           Has(b) == \E k \in Of(b) : \A j \in Of(b) \ {k} : Timers!Less(h[k], h[j])
           K == {b \in 0 .. n : Of(b) # {} /\ ~Has(b)}
<1>1. K = {}
  <2>1. SUFFICES ASSUME K # {} PROVE FALSE
    OBVIOUS
  <2>2. PICK b \in K : \A c \in K : b <= c
    <3>1. K \subseteq Nat
      OBVIOUS
    <3>2. QED
      BY <2>1, <3>1, Least
  <2>3. b \in 0 .. n /\ b # 0 /\ b \in Nat
    <3>1. Of(0) = {} /\ b \in 0 .. n
      <4>1. \A i \in S : ~(i < 0)
        OBVIOUS
      <4>2. Of(0) = {}
        BY <4>1
      <4>3. b \in 0 .. n
        OBVIOUS
      <4>4. QED
        BY <4>2, <4>3
    <3>2. Of(b) # {}
      OBVIOUS
    <3>3. b # 0
      <4> HIDE DEF Of, K, Has
      <4>1. QED
        BY <3>1, <3>2
    <3>4. QED
      BY <3>1, <3>3
  <2>4. b - 1 \in 0 .. n /\ b - 1 \notin K /\ b - 1 \in 0 .. n - 1
    <3>1. b - 1 \in 0 .. n /\ b - 1 \in 0 .. n - 1 /\ ~(b <= b - 1)
      BY <2>3
    <3>2. QED
      BY <2>2, <3>1
  <2>5. Of(b) = Of(b - 1) \cup (S \cap {b - 1})
    <3>1. ASSUME NEW i \in S PROVE i < b <=> i < b - 1 \/ i = b - 1
      BY <2>3
    <3>2. QED
      BY <3>1
  <2>6. CASE Of(b - 1) = {}
    <3>1. Of(b) = {b - 1}
      BY <2>2, <2>5, <2>6
    <3>2. QED
      BY <2>2, <3>1
  <2>7. CASE Of(b - 1) # {} /\ b - 1 \notin S
    BY <2>2, <2>4, <2>5, <2>7
  <2>8. CASE Of(b - 1) # {} /\ b - 1 \in S
    <3>1. PICK k \in Of(b - 1) : \A j \in Of(b - 1) \ {k} : Timers!Less(h[k], h[j])
      BY <2>4, <2>8
    <3>2. k \in DOMAIN h /\ b - 1 \in DOMAIN h /\ k # b - 1 /\ Of(b - 1) \subseteq DOMAIN h
          /\ Of(b) = Of(b - 1) \cup {b - 1}
      BY <2>4, <2>5, <2>8, <3>1
    <3>3. CASE Timers!Less(h[k], h[b - 1])
      <4>1. \A j \in Of(b) \ {k} : Timers!Less(h[k], h[j])
        BY <3>1, <3>2, <3>3
      <4>2. Has(b)
        BY <3>2, <4>1
      <4>3. QED
        BY <2>2, <4>2
    <3>4. CASE Timers!Less(h[b - 1], h[k])
      <4>1. \A j \in Of(b) \ {b - 1} : Timers!Less(h[b - 1], h[j])
        <5>1. SUFFICES ASSUME NEW j \in Of(b - 1), j # k PROVE Timers!Less(h[b - 1], h[j])
          BY <3>2, <3>4
        <5>2. Timers!Less(h[k], h[j])
          BY <3>1, <5>1
        <5>3. QED
          BY <3>2, <3>4, <5>2 DEF Ranked
      <4>2. b - 1 \in Of(b)
        BY <3>2
      <4>3. Has(b)
        BY <4>1, <4>2
      <4>4. QED
        BY <2>2, <4>3
    <3>5. QED
      BY <3>2, <3>3, <3>4 DEF Ranked
  <2>9. QED
    BY <2>6, <2>7, <2>8
<1>2. n \in 0 .. n /\ Of(n) = S
  <2>1. \A i \in S : i < n
    OBVIOUS
  <2>2. Of(n) = S
    BY <2>1
  <2>3. QED
    BY <2>2
<1>3. Has(n)
  <2>1. n \notin K
    BY <1>1
  <2>2. Of(n) # {}
    BY <1>2
  <2>3. QED
    BY <1>2, <2>1, <2>2
<1>4. QED
  BY <1>2, <1>3

\* Where a record stays that sinks, and how far down each position is.
Bottoms(h, pos) == {p \in DOMAIN h : Timers!Stays(h, p, h[pos])}
Leasts(h) == [p \in DOMAIN h |-> Timers!Least(h, p)]
Depths(h, n) == [p \in DOMAIN h |-> n - p]

\* The smallest child is a child, and before the others.
LEMMA LeastChild ==
  ASSUME Shape, NEW n \in Nat, NEW h, DOMAIN h = 0 .. n - 1, Ranked(h),
         NEW p \in 0 .. n - 1, Timers!Children(h, p) # {}
  PROVE  /\ Timers!Least(h, p) \in 0 .. n - 1
         /\ p < Timers!Least(h, p)
         /\ Timers!Parent(Timers!Least(h, p)) = p
         /\ \A j \in 1 .. n - 1 :
              Timers!Parent(j) = p /\ j # Timers!Least(h, p)
                => Timers!Less(h[Timers!Least(h, p)], h[j])
<1> DEFINE S == Timers!Children(h, p)
           Is(k) == \A j \in S \ {k} : Timers!Less(h[k], h[j])
<1>1. S \subseteq Int
  <2>1. Timers!FirstChild(p) \in Int /\ Timers!LastChild(h, p) \in Int
    <3>1. Timers!Size(h) = n
      <4>1. Cardinality(0 .. n - 1) = n
        BY FirstInts
      <4>2. QED
        BY <4>1, SameCounting DEF Timers!Size
    <3>2. QED
      BY <3>1 DEF Timers!FirstChild, Timers!LastChild, Shape
  <2>2. QED
    BY <2>1 DEF Timers!Children
<1>2. \A k \in Int : k \in S <=> k \in 1 .. n - 1 /\ Timers!Parent(k) = p
  BY ChildrenAre
<1>3. S \in SUBSET (0 .. n - 1)
  BY <1>1, <1>2
<1>4. \E k \in S : Is(k)
  BY <1>3, LeastOne
<1>5. Timers!Least(h, p) = CHOOSE k \in S : Is(k)
  BY DEF Timers!Least
<1>6. PICK k \in S : k = Timers!Least(h, p) /\ Is(k)
  <2> HIDE DEF S, Is
  <2>1. QED
    BY <1>4, <1>5
<1>7. k \in 1 .. n - 1 /\ Timers!Parent(k) = p /\ k \in Nat \ {0}
  BY <1>1, <1>2, <1>6
<1>8. p < k
  BY <1>7, ParentBefore
<1>9. ASSUME NEW j \in 1 .. n - 1, Timers!Parent(j) = p, j # k PROVE Timers!Less(h[k], h[j])
  <2>1. j \in S
    BY <1>2, <1>9
  <2>2. QED
    BY <1>6, <1>9, <2>1
<1>10. QED
  BY <1>6, <1>7, <1>8, <1>9

\* Smallest children lead down to a bottom.
LEMMA DownOnward ==
  ASSUME Shape, NEW n \in Nat, NEW h, DOMAIN h = 0 .. n - 1, Ranked(h), NEW pos
  PROVE  Onward(0 .. n - 1, Bottoms(h, pos), Leasts(h), Depths(h, n), n)
<1>1. ASSUME NEW p \in (0 .. n - 1) \ Bottoms(h, pos)
      PROVE  Leasts(h)[p] \in 0 .. n - 1 /\ Depths(h, n)[Leasts(h)[p]] < Depths(h, n)[p]
  <2>1. Timers!Children(h, p) # {} /\ p \in 0 .. n - 1
    BY <1>1 DEF Bottoms, Timers!Stays
  <2>2. PICK k \in 0 .. n - 1 : k = Timers!Least(h, p) /\ p < k
    BY <2>1, LeastChild
  <2>3. QED
    BY <2>1, <2>2 DEF Leasts, Depths
<1>2. Depths(h, n) \in [0 .. n - 1 -> 0 .. n]
  BY DEF Depths
<1>3. QED
  BY <1>1, <1>2 DEF Onward

\* sift_down moves the record along such a way.
LEMMA SiftDownIs ==
  ASSUME Shape, NEW n \in Nat, NEW h, DOMAIN h = 0 .. n - 1, Ranked(h), NEW pos \in 0 .. n - 1
  PROVE  \E W : /\ Reached(W, pos, 0 .. n - 1, Bottoms(h, pos), Leasts(h), Depths(h, n))
                /\ Timers!SiftDown(h, pos)
                     = Moved(h, pos, W, 0 .. n - 1, Bottoms(h, pos), Leasts(h))
<1> DEFINE IsPath(path) ==
      path = [p \in DOMAIN h |->
                IF Timers!Stays(h, p, h[pos]) THEN {p} ELSE {p} \cup path[Timers!Least(h, p)]]
<1>1. \A w : IsPath(w) <=> IsWay(w, 0 .. n - 1, Bottoms(h, pos), Leasts(h))
  BY DEF IsWay, Bottoms, Leasts
<1>2. \E w : IsPath(w)
  BY <1>1, DownOnward, WayExists
<1>3. Timers!Sinks(h, pos) = CHOOSE path : IsPath(path)
  BY DEF Timers!Sinks
<1>4. IsWay(Timers!Sinks(h, pos), 0 .. n - 1, Bottoms(h, pos), Leasts(h))
  BY <1>1, <1>2, <1>3
<1>5. PICK W : W = Timers!Sinks(h, pos)[pos]
  OBVIOUS
<1>6. Reached(W, pos, 0 .. n - 1, Bottoms(h, pos), Leasts(h), Depths(h, n))
  BY <1>4, <1>5, DownOnward, WayReaches
<1>7. Timers!SiftDown(h, pos) = Moved(h, pos, W, 0 .. n - 1, Bottoms(h, pos), Leasts(h))
  BY <1>5 DEF Timers!SiftDown, Moved, Bottoms, Leasts
<1>8. QED
  BY <1>6, <1>7

\* A heap but for the record at pos, which may have to sink.
HeapAbove(h, pos) ==
  /\ \A i \in DOMAIN h \ {0, pos} :
       Timers!Parent(i) # pos => Behind(h, i, Timers!Parent(i))
  /\ pos # 0 => Behind(h, pos, Timers!Parent(pos))
  /\ \A i \in DOMAIN h \ {0} :
       Timers!Parent(i) = pos /\ pos # 0 => Behind(h, i, Timers!Parent(pos))

\* Where only one record may have to sink, sift_down makes a heap.
LEMMA DownHeap ==
  ASSUME Shape, NEW n \in Nat, NEW h, DOMAIN h = 0 .. n - 1, NEW pos \in 0 .. n - 1,
         Ranked(h), HeapAbove(h, pos)
  PROVE  IsHeap(Timers!SiftDown(h, pos))
<1> DEFINE D == 0 .. n - 1
           T == Bottoms(h, pos)
           N == Leasts(h)
<1>1. PICK W : /\ Reached(W, pos, D, T, N, Depths(h, n))
               /\ Timers!SiftDown(h, pos) = Moved(h, pos, W, D, T, N)
  BY SiftDownIs
<1>2. PICK g : g = Timers!SiftDown(h, pos)
  OBVIOUS
<1>3. /\ DOMAIN g = D
      /\ \A i \in D : g[i] = IF i \notin W THEN h[i]
                             ELSE IF i \in T THEN h[pos] ELSE h[Timers!Least(h, i)]
  BY <1>1, <1>2 DEF Moved, Leasts
<1>4. /\ W \subseteq D /\ pos \in W
      /\ \A i \in W : n - i <= n - pos
      /\ \A i \in W \ T : Timers!Least(h, i) \in W
      /\ \A i \in W \ {pos} : \E c \in W \ T : Timers!Least(h, c) = i
  BY <1>1 DEF Reached, Depths, Leasts
<1>5. \A i \in W : pos <= i
  <2>1. SUFFICES ASSUME NEW i \in W PROVE pos <= i
    OBVIOUS
  <2>2. i \in Int /\ n - i <= n - pos
    BY <1>4
  <2>3. QED
    BY <2>2
<1>6. ASSUME NEW i \in D, i \notin T
      PROVE  \E k \in D : /\ k = Timers!Least(h, i) /\ i < k /\ Timers!Parent(k) = i
                          /\ Timers!Less(h[k], h[pos])
                          /\ \A j \in D \ {0} : Timers!Parent(j) = i => Behind(h, j, k)
  <2>1. Timers!Children(h, i) # {} /\ Timers!Less(h[Timers!Least(h, i)], h[pos])
    BY <1>6 DEF Bottoms, Timers!Stays
  <2>2. PICK k \in D : /\ k = Timers!Least(h, i) /\ i < k /\ Timers!Parent(k) = i
                       /\ \A j \in 1 .. n - 1 :
                            Timers!Parent(j) = i /\ j # k => Timers!Less(h[k], h[j])
    BY <2>1, LeastChild
  <2>3. ASSUME NEW j \in D \ {0}, Timers!Parent(j) = i PROVE Behind(h, j, k)
    <3>1. CASE j = k
      BY <3>1, Behinds
    <3>2. CASE j # k
      <4>1. j \in 1 .. n - 1
        OBVIOUS
      <4>2. Timers!Less(h[k], h[j])
        BY <2>2, <2>3, <3>2, <4>1
      <4>3. QED
        BY <4>2, Behinds
    <3>3. QED
      BY <3>1, <3>2
  <2>4. QED
    BY <2>1, <2>2, <2>3
<1>7. ASSUME NEW i \in W \ {pos} PROVE Timers!Parent(i) \in W \ T
  <2>1. PICK c \in W \ T : Timers!Least(h, c) = i
    BY <1>4
  <2>2. Timers!Parent(i) = c
    BY <1>4, <1>6, <2>1
  <2>3. QED
    BY <2>1, <2>2
<1>8. ASSUME NEW i \in D \ {0}, NEW u \in D, u = Timers!Parent(i)
      PROVE  ~Timers!Less(g[i], g[u])
  <2>1. i \in Nat /\ u \in 0 .. i - 1 /\ u \in Nat
    BY <1>8, ParentBefore
  <2>2. i = pos => u \notin W
    BY <1>5, <2>1
  <2>3. CASE u \in W /\ u \in T
    <3>1. i \notin W
      BY <1>7, <1>8, <2>2, <2>3
    <3>2. g[i] = h[i] /\ g[u] = h[pos]
      BY <1>3, <2>3, <3>1
    <3>3. i \in Timers!Children(h, u)
      <4>1. i \in 1 .. n - 1 /\ i \in Int
        BY <2>1
      <4>2. QED
        BY <1>8, <4>1, ChildrenAre
    <3>4. PICK k \in D : k = Timers!Least(h, u) /\ (i # k => Timers!Less(h[k], h[i]))
      <4>1. i \in 1 .. n - 1
        BY <2>1
      <4>2. QED
        BY <1>8, <3>3, <4>1, LeastChild
    <3>5. Behind(h, k, pos)
      BY <2>3, <3>3, <3>4 DEF Bottoms, Timers!Stays, Behind
    <3>6. Behind(h, i, k)
      BY <3>4, Behinds
    <3>7. Behind(h, i, pos)
      BY <3>5, <3>6, Behinds
    <3>8. QED
      BY <3>2, <3>7 DEF Behind
  <2>4. CASE u \in W /\ u \notin T
    <3>1. PICK k \in D : /\ k = Timers!Least(h, u) /\ u < k /\ Timers!Parent(k) = u
                         /\ Timers!Less(h[k], h[pos]) /\ Behind(h, i, k)
      BY <1>6, <1>8, <2>4
    <3>2. g[u] = h[k] /\ k \in W /\ k # pos
      <4>1. pos <= u /\ u \in Int /\ k \in Int
        BY <1>5, <2>4
      <4>2. QED
        BY <1>3, <1>4, <2>4, <3>1, <4>1
    <3>3. CASE i \notin W
      <4>1. g[i] = h[i]
        BY <1>3, <3>3
      <4>2. QED
        BY <3>1, <3>2, <4>1 DEF Behind
    <3>4. CASE i \in W
      <4>1. i = k
        <5>1. i # pos
          BY <2>2, <2>4
        <5>2. PICK c \in W \ T : Timers!Least(h, c) = i
          BY <1>4, <3>4, <5>1
        <5>3. Timers!Parent(i) = c
          BY <1>4, <1>6, <5>2
        <5>4. QED
          BY <1>8, <3>1, <5>2, <5>3
      <4>2. CASE i \in T
        <5>1. g[i] = h[pos] /\ Behind(h, pos, k)
          BY <1>3, <3>1, <3>4, <4>2, Behinds
        <5>2. QED
          BY <3>2, <5>1 DEF Behind
      <4>3. CASE i \notin T
        <5>1. PICK j \in D : j = Timers!Least(h, i) /\ i < j /\ Timers!Parent(j) = i
          BY <1>6, <4>3
        <5>2. g[i] = h[j] /\ j # pos /\ j # 0 /\ i # pos
          <6>1. pos <= i /\ i \in Int /\ j \in Int /\ 0 <= i
            BY <1>5, <2>1, <3>4
          <6>2. QED
            BY <1>3, <3>2, <3>4, <4>1, <4>3, <5>1, <6>1
        <5>3. Behind(h, j, i)
          BY <5>1, <5>2 DEF HeapAbove
        <5>4. QED
          BY <3>2, <4>1, <5>2, <5>3 DEF Behind
      <4>4. QED
        BY <4>2, <4>3
    <3>5. QED
      BY <3>3, <3>4
  <2>5. CASE u \notin W
    <3>1. g[u] = h[u] /\ u # pos
      BY <1>3, <1>4, <2>5
    <3>2. CASE i \notin W
      <4>1. g[i] = h[i] /\ i # pos
        BY <1>3, <1>4, <3>2
      <4>2. Behind(h, i, u)
        BY <1>8, <3>1, <4>1 DEF HeapAbove
      <4>3. QED
        BY <3>1, <4>1, <4>2 DEF Behind
    <3>3. CASE i \in W
      <4>1. i = pos
        BY <1>7, <1>8, <2>5, <3>3
      <4>2. CASE i \in T
        <5>1. g[i] = h[pos] /\ Behind(h, pos, u)
          BY <1>3, <1>8, <3>3, <4>1, <4>2 DEF HeapAbove
        <5>2. QED
          BY <3>1, <5>1 DEF Behind
      <4>3. CASE i \notin T
        <5>1. PICK j \in D : j = Timers!Least(h, i) /\ i < j /\ Timers!Parent(j) = i
          BY <1>6, <4>3
        <5>2. g[i] = h[j] /\ j # 0
          BY <1>3, <2>1, <3>3, <4>3, <5>1
        <5>3. Behind(h, j, u)
          BY <1>8, <4>1, <5>1, <5>2 DEF HeapAbove
        <5>4. QED
          BY <3>1, <5>2, <5>3 DEF Behind
      <4>4. QED
        BY <4>2, <4>3
    <3>4. QED
      BY <3>2, <3>3
  <2>6. QED
    BY <2>3, <2>4, <2>5
<1>9. ASSUME NEW i \in D \ {0} PROVE ~Timers!Less(g[i], g[Timers!Parent(i)])
  <2>1. i \in Nat \ {0}
    OBVIOUS
  <2>2. Timers!Parent(i) \in 0 .. i - 1
    BY <2>1, ParentBefore
  <2>3. Timers!Parent(i) \in D
    BY <2>2
  <2>4. QED
    BY <1>8, <2>3
<1>10. QED
  BY <1>2, <1>3, <1>9 DEF IsHeap

\* Some records of a total order are in a total order.
LEMMA RankedThrough ==
  ASSUME NEW h, Ranked(h), NEW D, NEW E, E \subseteq DOMAIN h, NEW f, Places(f, D, E),
         NEW s, DOMAIN s = D, \A i \in D : s[i] = h[f[i]]
  PROVE  Ranked(s)
<1>1. \A i \in D : f[i] \in DOMAIN h
  BY DEF Places
<1>2. \A i, j \in D : i # j => f[i] # f[j]
  BY DEF Places
<1>3. QED
  BY <1>1, <1>2 DEF Ranked

\* One to one and one to one again.
LEMMA PlacesThrough ==
  ASSUME NEW D, NEW E, NEW F, NEW f, NEW g, Places(f, D, E), Places(g, E, F)
  PROVE  Places([i \in D |-> g[f[i]]], D, F)
BY DEF Places

\* The records of g are those that h has at the places P, and they are a heap.
Reheaped(g, n, h, P) ==
  /\ DOMAIN g = 0 .. n - 1 /\ g = [i \in 0 .. n - 1 |-> g[i]]
  /\ IsHeap(g) /\ Placed(g, h, 0 .. n - 1, P)

\* sift_up keeps the records and makes a heap.
LEMMA UpReheaps ==
  ASSUME Shape, NEW n \in Nat, NEW h, DOMAIN h = 0 .. n - 1, NEW pos \in 0 .. n - 1,
         Ranked(h), HeapBelow(h, pos)
  PROVE  Reheaped(Timers!SiftUp(h, pos), n, h, 0 .. n - 1)
<1>1. PICK g : g = Timers!SiftUp(h, pos)
  OBVIOUS
<1>2. PICK W : /\ Reached(W, pos, 0 .. n - 1, Tops(h, pos), Parents(h), Heights(h))
               /\ g = Moved(h, pos, W, 0 .. n - 1, Tops(h, pos), Parents(h))
  BY <1>1, SiftUpIs
<1>3. Placed(g, h, 0 .. n - 1, 0 .. n - 1)
  BY <1>2, UpOnward, MovedPlaces
<1>4. DOMAIN g = 0 .. n - 1 /\ g = [i \in 0 .. n - 1 |-> g[i]]
  BY <1>2 DEF Moved
<1>5. IsHeap(g)
  BY <1>1, UpHeap
<1>6. QED
  BY <1>1, <1>3, <1>4, <1>5 DEF Reheaped

\* sift_down keeps the records and makes a heap.
LEMMA DownReheaps ==
  ASSUME Shape, NEW n \in Nat, NEW h, DOMAIN h = 0 .. n - 1, NEW pos \in 0 .. n - 1,
         Ranked(h), HeapAbove(h, pos)
  PROVE  Reheaped(Timers!SiftDown(h, pos), n, h, 0 .. n - 1)
<1>1. PICK g : g = Timers!SiftDown(h, pos)
  OBVIOUS
<1>2. PICK W : /\ Reached(W, pos, 0 .. n - 1, Bottoms(h, pos), Leasts(h), Depths(h, n))
               /\ g = Moved(h, pos, W, 0 .. n - 1, Bottoms(h, pos), Leasts(h))
  BY <1>1, SiftDownIs
<1>3. Placed(g, h, 0 .. n - 1, 0 .. n - 1)
  BY <1>2, DownOnward, MovedPlaces
<1>4. DOMAIN g = 0 .. n - 1 /\ g = [i \in 0 .. n - 1 |-> g[i]]
  BY <1>2 DEF Moved
<1>5. IsHeap(g)
  BY <1>1, DownHeap
<1>6. QED
  BY <1>1, <1>3, <1>4, <1>5 DEF Reheaped

\* A record that is not before the one in front does not get there.
LEMMA UpFront ==
  ASSUME Shape, NEW n \in Nat, NEW h, DOMAIN h = 0 .. n - 1, NEW pos \in 1 .. n - 1,
         ~Timers!Less(h[pos], h[0])
  PROVE  Timers!SiftUp(h, pos)[0] = h[0]
<1>1. PICK g, W : /\ g = Timers!SiftUp(h, pos)
                  /\ Reached(W, pos, 0 .. n - 1, Tops(h, pos), Parents(h), Heights(h))
                  /\ g = Moved(h, pos, W, 0 .. n - 1, Tops(h, pos), Parents(h))
  BY SiftUpIs
<1>2. 0 \notin W
  <2>1. SUFFICES ASSUME 0 \in W PROVE FALSE
    OBVIOUS
  <2>2. PICK c \in W \ Tops(h, pos) : Parents(h)[c] = 0
    BY <1>1, <2>1 DEF Reached
  <2>3. c \in DOMAIN h
    BY <1>1 DEF Reached
  <2>4. QED
    BY <2>2, <2>3 DEF Tops, Parents
<1>3. 0 \in 0 .. n - 1
  OBVIOUS
<1>4. QED
  BY <1>1, <1>2, <1>3 DEF Moved

\* The record at pos leaves a heap: the last one takes its place and finds its own.
LEMMA WithoutReheaps ==
  ASSUME Shape, NEW n \in Nat \ {0}, NEW h, DOMAIN h = 0 .. n - 1, NEW pos \in 0 .. n - 1,
         Ranked(h), IsHeap(h)
  PROVE  Reheaped(Timers!Without(h, pos), n - 1, h, (0 .. n - 1) \ {pos})
<1> DEFINE D == 0 .. (n - 1) - 1
           P == (0 .. n - 1) \ {pos}
<1>1. Timers!Size(h) = n
  <2>1. Cardinality(0 .. n - 1) = n
    BY FirstInts
  <2>2. QED
    BY <2>1, SameCounting DEF Timers!Size
<1>2. PICK s : s = [i \in D |-> IF i = pos THEN h[n - 1] ELSE h[i]]
  OBVIOUS
<1>3. Timers!Without(h, pos) = IF n - 1 = pos THEN s
                               ELSE IF pos = 0 \/ ~Timers!Less(s[pos], s[Timers!Parent(pos)])
                               THEN Timers!SiftDown(s, pos) ELSE Timers!SiftUp(s, pos)
  BY <1>1, <1>2 DEF Timers!Without
<1>4. PICK e : e = [i \in D |-> IF i = pos THEN n - 1 ELSE i]
  OBVIOUS
<1>5. Places(e, D, P)
  <2>1. e \in [D -> P]
    BY <1>4
  <2>2. \A i, j \in D : e[i] = e[j] => i = j
    BY <1>4
  <2>3. ASSUME NEW k \in P PROVE \E i \in D : e[i] = k
    <3>1. CASE k = n - 1
      <4>1. pos \in D /\ e[pos] = k
        BY <1>4, <3>1
      <4>2. QED
        BY <4>1
    <3>2. CASE k # n - 1
      <4>1. k \in D /\ e[k] = k
        BY <1>4, <3>2
      <4>2. QED
        BY <4>1
    <3>3. QED
      BY <3>1, <3>2
  <2>4. QED
    BY <2>1, <2>2, <2>3 DEF Places
<1>6. n - 1 \in Nat /\ DOMAIN s = D /\ s = [i \in D |-> s[i]] /\ \A i \in D : s[i] = h[e[i]]
  BY <1>2, <1>4
<1>7. Ranked(s)
  BY <1>5, <1>6, RankedThrough
<1>8. \A i \in D \ {0} : i \in Nat \ {0} /\ i \in DOMAIN h \ {0} /\ Timers!Parent(i) \in D
                         /\ Timers!Parent(i) \in 0 .. i - 1
  <2>1. SUFFICES ASSUME NEW i \in D \ {0}
                 PROVE  i \in Nat \ {0} /\ i \in DOMAIN h \ {0} /\ Timers!Parent(i) \in D
                        /\ Timers!Parent(i) \in 0 .. i - 1
    OBVIOUS
  <2>2. i \in Nat \ {0} /\ i \in DOMAIN h \ {0}
    OBVIOUS
  <2>3. Timers!Parent(i) \in 0 .. i - 1
    BY <2>2, ParentBefore
  <2>4. QED
    BY <2>2, <2>3
<1>9. \A i \in DOMAIN h \ {0} : Behind(h, i, Timers!Parent(i))
  BY DEF IsHeap, Behind
<1>10. CASE n - 1 = pos
  <2>1. \A i \in D : s[i] = h[i]
    BY <1>2, <1>10
  <2>2. IsHeap(s)
    <3>1. SUFFICES ASSUME NEW i \in D \ {0} PROVE ~Timers!Less(s[i], s[Timers!Parent(i)])
      BY <1>6 DEF IsHeap
    <3>2. s[i] = h[i] /\ s[Timers!Parent(i)] = h[Timers!Parent(i)]
      BY <1>8, <2>1
    <3>3. QED
      BY <1>8, <1>9, <3>2 DEF Behind
  <2>3. Timers!Without(h, pos) = s
    BY <1>3, <1>10
  <2>4. QED
    BY <1>5, <1>6, <2>2, <2>3 DEF Reheaped, Placed
<1>11. CASE n - 1 # pos
  <2>1. pos \in D /\ s[pos] = h[n - 1] /\ \A i \in D : i # pos => s[i] = h[i]
    BY <1>2, <1>11
  <2>2. PICK g : g = Timers!Without(h, pos)
    OBVIOUS
  <2>3. ASSUME NEW i \in D \ {0}, i # pos, Timers!Parent(i) # pos
        PROVE  Behind(s, i, Timers!Parent(i))
    <3>1. s[i] = h[i] /\ s[Timers!Parent(i)] = h[Timers!Parent(i)]
      BY <1>8, <2>1, <2>3
    <3>2. QED
      BY <1>8, <1>9, <3>1 DEF Behind
  <2>4. ASSUME NEW i \in D \ {0}, Timers!Parent(i) = pos, pos # 0
        PROVE  i # pos /\ Behind(h, i, Timers!Parent(pos)) /\ Behind(s, i, Timers!Parent(pos))
    <3>1. pos \in D \ {0} /\ i # pos /\ Timers!Parent(pos) # pos /\ Timers!Parent(pos) \in D
      BY <1>8, <2>1, <2>4
    <3>2. Behind(h, i, pos) /\ Behind(h, pos, Timers!Parent(pos))
      BY <1>8, <1>9, <2>4, <3>1
    <3>3. i \in DOMAIN h /\ pos \in DOMAIN h /\ Timers!Parent(pos) \in DOMAIN h
      BY <3>1
    <3>4. Behind(h, i, Timers!Parent(pos))
      BY <3>2, <3>3, Behinds
    <3>5. s[i] = h[i] /\ s[Timers!Parent(pos)] = h[Timers!Parent(pos)]
      BY <2>1, <3>1
    <3>6. QED
      BY <3>1, <3>4, <3>5 DEF Behind
  <2>5. Reheaped(g, n - 1, s, D)
    <3>1. CASE pos = 0 \/ ~Timers!Less(s[pos], s[Timers!Parent(pos)])
      <4>1. HeapAbove(s, pos)
        BY <1>6, <2>3, <2>4, <3>1 DEF HeapAbove, Behind
      <4>2. g = Timers!SiftDown(s, pos)
        BY <1>3, <1>11, <2>2, <3>1
      <4>3. QED
        BY <1>6, <1>7, <2>1, <4>1, <4>2, DownReheaps
    <3>2. CASE ~(pos = 0 \/ ~Timers!Less(s[pos], s[Timers!Parent(pos)]))
      <4>1. pos \in D \ {0} /\ Timers!Parent(pos) \in D /\ Timers!Less(s[pos], s[Timers!Parent(pos)])
        BY <1>8, <2>1, <3>2
      <4>2. ASSUME NEW i \in D \ {0}, Timers!Parent(i) = pos PROVE Behind(s, i, pos)
        <5>1. Behind(s, i, Timers!Parent(pos)) /\ i \in D
          BY <2>4, <3>2, <4>2
        <5>2. Behind(s, Timers!Parent(pos), pos)
          BY <1>6, <1>7, <4>1, Behinds
        <5>3. QED
          BY <1>6, <1>7, <4>1, <5>1, <5>2, Behinds
      <4>3. HeapBelow(s, pos)
        BY <1>6, <2>3, <2>4, <4>2 DEF HeapBelow
      <4>4. g = Timers!SiftUp(s, pos)
        BY <1>3, <1>11, <2>2, <3>2
      <4>5. QED
        BY <1>6, <1>7, <2>1, <4>3, <4>4, UpReheaps
    <3>3. QED
      BY <3>1, <3>2
  <2>6. PICK f : Places(f, D, D) /\ \A i \in D : g[i] = s[f[i]]
    BY <2>5 DEF Reheaped, Placed
  <2>7. PICK c : c = [i \in D |-> e[f[i]]]
    OBVIOUS
  <2>8. Places(c, D, P)
    BY <1>5, <2>6, <2>7, PlacesThrough
  <2>9. \A i \in D : g[i] = h[c[i]]
    BY <1>6, <2>6, <2>7 DEF Places
  <2>10. QED
    BY <2>2, <2>5, <2>8, <2>9 DEF Reheaped, Placed
<1>12. QED
  BY <1>10, <1>11

\* Where order numbers wrap, and that half of it can tell older from younger.
Wide == 2 * HalfRange
Half == HalfRange \in Nat \ {0, 1}

\* How long ago, in order numbers, the record with number x was made.
Ago(o, x) == (o + 1 - x) % Wide

\* The records have their types.
Records(h) ==
  \A i \in DOMAIN h :
    h[i].when \in 0 .. MaxTime /\ h[i].order \in 0 .. Wide - 1 /\ h[i].se \in Timer

\* No record is so old that its number would look new, and no two are equally old.
Aged(h, o) ==
  /\ \A i \in DOMAIN h : Ago(o, h[i].order) < HalfRange
  /\ \A i, j \in DOMAIN h : Ago(o, h[i].order) = Ago(o, h[j].order) => i = j

\* The same without the remainder.
AgoOf(o, x, w) ==
  IF o + 1 < x THEN o + 1 - x + w ELSE IF o + 1 - x = w THEN 0 ELSE o + 1 - x

\* order_ counts in twos.
Even(o) == \E k \in 0 .. HalfRange - 1 : o = 2 * k

\* The age without the remainder.
LEMMA AgoIs ==
  ASSUME Half, NEW o \in 0 .. Wide - 1, NEW x \in 0 .. Wide - 1
  PROVE  Ago(o, x) = AgoOf(o, x, Wide) /\ Ago(o, x) \in 0 .. Wide - 1
<1>1. PICK w \in Nat \ {0} : w = Wide
  BY DEF Half, Wide
<1>2. PICK a \in Int : a = o + 1 - x /\ a <= w /\ -w < a
  BY <1>1
<1>3. PICK r : r = IF a < 0 THEN a + w ELSE IF a = w THEN 0 ELSE a
  OBVIOUS
<1>33. r \in 0 .. w - 1
  BY <1>1, <1>2, <1>3
<1>4. a % w = r
  <2>1. CASE a < 0
    <3>1. Leaves(a, w, -1, r) /\ -1 \in Int
      BY <1>1, <1>2, <1>3, <2>1 DEF Leaves
    <3>2. QED
      BY <1>1, <1>2, <1>33, <3>1, ModFrom
  <2>2. CASE a = w
    <3>1. Leaves(a, w, 1, r) /\ 1 \in Int
      BY <1>1, <1>2, <1>3, <2>2 DEF Leaves
    <3>2. QED
      BY <1>1, <1>2, <1>33, <3>1, ModFrom
  <2>3. CASE ~(a < 0) /\ a # w
    <3>1. Leaves(a, w, 0, r) /\ 0 \in Int
      BY <1>1, <1>2, <1>3, <2>3 DEF Leaves
    <3>2. QED
      BY <1>1, <1>2, <1>33, <3>1, ModFrom
  <2>4. QED
    BY <1>2, <2>1, <2>2, <2>3
<1>5. Ago(o, x) = r
  BY <1>1, <1>2, <1>4 DEF Ago
<1>6. QED
  BY <1>1, <1>2, <1>3, <1>33, <1>5 DEF AgoOf

\* The code's signed difference tells which of two records is older.
LEMMA Older ==
  ASSUME Half, NEW o \in 0 .. Wide - 1, NEW x \in 0 .. Wide - 1, NEW y \in 0 .. Wide - 1,
         Ago(o, x) < HalfRange, Ago(o, y) < HalfRange
  PROVE  (x - y) % Wide >= HalfRange <=> Ago(o, x) > Ago(o, y)
<1>1. PICK w \in Nat \ {0} : w = Wide /\ w = HalfRange + HalfRange /\ HalfRange \in Nat
  BY DEF Half, Wide
<1>2. (x - y) % w = IF y <= x THEN x - y ELSE x - y + w
  BY <1>1, ModGap
<1>31. PICK a, b : a = Ago(o, x) /\ b = Ago(o, y)
  OBVIOUS
<1>3. /\ a = AgoOf(o, x, w) /\ b = AgoOf(o, y, w)
      /\ a \in 0 .. w - 1 /\ b \in 0 .. w - 1 /\ a < HalfRange /\ b < HalfRange
  BY <1>1, <1>31, AgoIs
<1>4. (IF y <= x THEN x - y ELSE x - y + w) >= HalfRange <=> a > b
  BY <1>1, <1>3 DEF AgoOf
<1>5. QED
  BY <1>1, <1>2, <1>31, <1>4

\* Records of different ages are in a total order.
LEMMA RankedRecords ==
  ASSUME Half, NEW o \in 0 .. Wide - 1, NEW h, Records(h), Aged(h, o)
  PROVE  Ranked(h)
<1>1. PICK w, a : /\ w = [i \in DOMAIN h |-> h[i].when]
                  /\ a = [i \in DOMAIN h |-> Ago(o, h[i].order)]
  OBVIOUS
<1>2. \A i \in DOMAIN h : w[i] \in Int /\ a[i] \in Int
  <2>1. SUFFICES ASSUME NEW i \in DOMAIN h PROVE w[i] \in Int /\ a[i] \in Int
    OBVIOUS
  <2>2. h[i].when \in Int /\ h[i].order \in 0 .. Wide - 1 /\ Wide \in Int
    BY DEF Records, Wide, Half
  <2>3. Ago(o, h[i].order) \in 0 .. Wide - 1
    BY <2>2, AgoIs
  <2>4. QED
    BY <1>1, <2>2, <2>3
<1>3. ASSUME NEW i \in DOMAIN h, NEW j \in DOMAIN h
      PROVE  Timers!Less(h[i], h[j]) <=> w[i] < w[j] \/ (w[i] = w[j] /\ a[i] > a[j])
  <2>1. PICK x \in 0 .. Wide - 1, y \in 0 .. Wide - 1 : x = h[i].order /\ y = h[j].order
    BY DEF Records
  <2>2. Ago(o, x) < HalfRange /\ Ago(o, y) < HalfRange
    BY <2>1 DEF Aged
  <2>3. (x - y) % Wide >= HalfRange <=> Ago(o, x) > Ago(o, y)
    BY <2>2, Older
  <2>4. QED
    BY <1>1, <2>1, <2>3 DEF Timers!Less, Wide
<1>4. \A i, j \in DOMAIN h : a[i] = a[j] => i = j
  BY <1>1 DEF Aged
<1>5. \A i, j, k \in DOMAIN h :
        Timers!Less(h[i], h[j]) /\ Timers!Less(h[j], h[k]) => Timers!Less(h[i], h[k])
  BY <1>2, <1>3
<1>6. \A i, j \in DOMAIN h : ~(Timers!Less(h[i], h[j]) /\ Timers!Less(h[j], h[i]))
  BY <1>2, <1>3
<1>7. \A i, j \in DOMAIN h : i # j => Timers!Less(h[i], h[j]) \/ Timers!Less(h[j], h[i])
  BY <1>2, <1>3, <1>4
<1>8. QED
  BY <1>5, <1>6, <1>7 DEF Ranked

\* The next number: the older records are two further away, and the new one is younger.
LEMMA Ages ==
  ASSUME Half, NEW o, Even(o), NEW x \in 0 .. Wide - 1, Ago(o, x) < HalfRange,
         (o + 3 - x) % Wide < HalfRange
  PROVE  Ago((o + 2) % Wide, x) = Ago(o, x) + 2 /\ Ago(o, x) + 2 < HalfRange
         /\ Ago(o, x) \in Nat
<1>1. PICK k \in 0 .. HalfRange - 1 : o = 2 * k
  BY DEF Even
<1>2. PICK w \in Nat \ {0} : w = Wide /\ w = HalfRange + HalfRange /\ HalfRange \in Nat
                             /\ HalfRange > 1
  BY DEF Half, Wide
<1>3. o \in 0 .. w - 1 /\ o + 2 \in 2 .. w
  BY <1>1, <1>2
<1>41. PICK a : a = Ago(o, x)
  OBVIOUS
<1>42. a = AgoOf(o, x, w) /\ a \in 0 .. w - 1
  BY <1>2, <1>3, <1>41, AgoIs
<1>4. a \in 0 .. HalfRange - 1 /\ a \in Int
      /\ a = (IF o + 1 < x THEN o + 1 - x + w ELSE IF o + 1 - x = w THEN 0 ELSE o + 1 - x)
  BY <1>2, <1>41, <1>42 DEF AgoOf
<1>5. PICK p \in 0 .. w - 1 : p = (o + 2) % w /\ p = IF o + 2 < w THEN o + 2 ELSE 0
  <2>1. CASE o + 2 < w
    <3>1. Leaves(o + 2, w, 0, o + 2) /\ o + 2 \in 0 .. w - 1 /\ o + 2 \in Int
      BY <1>2, <1>3, <2>1 DEF Leaves
    <3>2. (o + 2) % w = o + 2
      BY <1>2, <3>1, ModFrom
    <3>3. QED
      BY <2>1, <3>1, <3>2
  <2>2. CASE ~(o + 2 < w)
    <3>1. Leaves(o + 2, w, 1, 0) /\ 0 \in 0 .. w - 1 /\ o + 2 \in Int
      BY <1>2, <1>3, <2>2 DEF Leaves
    <3>2. (o + 2) % w = 0
      BY <1>2, <3>1, ModFrom
    <3>3. QED
      BY <2>2, <3>1, <3>2
  <2>3. QED
    BY <2>1, <2>2
<1>6. PICK d \in Int : d = o + 3 - x
  BY <1>2, <1>3
<1>7. d % w = a + 2 /\ a + 2 \in 0 .. w - 1
  <2>1. a + 2 \in 0 .. w - 1
    BY <1>2, <1>4
  <2>2. d = a + 2 \/ d = a + 2 + w \/ d = a + 2 - w
    BY <1>2, <1>3, <1>4, <1>6
  <2>3. Leaves(d, w, 0, a + 2) \/ Leaves(d, w, 1, a + 2) \/ Leaves(d, w, -1, a + 2)
    BY <1>2, <1>4, <1>6, <2>2 DEF Leaves
  <2>4. -1 \in Int /\ 0 \in Int /\ 1 \in Int
    OBVIOUS
  <2>5. QED
    BY <1>2, <1>6, <2>1, <2>3, <2>4, ModFrom
<1>8. a + 2 < HalfRange
  BY <1>2, <1>6, <1>7
<1>9. Ago(p, x) = IF p + 1 < x THEN p + 1 - x + w
                  ELSE IF p + 1 - x = w THEN 0 ELSE p + 1 - x
  BY <1>2, <1>5, AgoIs DEF AgoOf
<1>10. Ago(p, x) = a + 2
  BY <1>2, <1>3, <1>4, <1>5, <1>8, <1>9
<1>11. QED
  BY <1>2, <1>4, <1>41, <1>5, <1>8, <1>10

\* The next number is even, and what a new record makes of it.
LEMMA NextOrder ==
  ASSUME Half, NEW o, Even(o)
  PROVE  /\ Even((o + 2) % Wide)
         /\ \A b \in {0, 1} : /\ ((o + 2) % Wide) + b \in 0 .. Wide - 1
                              /\ Ago((o + 2) % Wide, ((o + 2) % Wide) + b) = 1 - b
                              /\ (((o + 2) % Wide) + b) % 2 = b
<1>1. PICK k \in 0 .. HalfRange - 1 : o = 2 * k
  BY DEF Even
<1>2. PICK w \in Nat \ {0} : w = Wide /\ w = 2 * HalfRange /\ HalfRange \in Nat
                             /\ HalfRange > 1
  BY DEF Half, Wide
<1>3. PICK j \in 0 .. HalfRange - 1 : j = IF k + 1 < HalfRange THEN k + 1 ELSE 0
  BY <1>2
<1>4. (o + 2) % w = 2 * j
  <2>1. CASE k + 1 < HalfRange
    <3>1. Leaves(o + 2, w, 0, 2 * j) /\ 2 * j \in 0 .. w - 1 /\ o + 2 \in Int
      BY <1>1, <1>2, <1>3, <2>1 DEF Leaves
    <3>2. QED
      BY <1>2, <3>1, ModFrom
  <2>2. CASE ~(k + 1 < HalfRange)
    <3>1. Leaves(o + 2, w, 1, 2 * j) /\ 2 * j \in 0 .. w - 1 /\ o + 2 \in Int
      BY <1>1, <1>2, <1>3, <2>2 DEF Leaves
    <3>2. QED
      BY <1>2, <3>1, ModFrom
  <2>3. QED
    BY <2>1, <2>2
<1>5. ASSUME NEW b \in {0, 1}
      PROVE  2 * j + b \in 0 .. w - 1 /\ Ago(2 * j, 2 * j + b) = 1 - b /\ (2 * j + b) % 2 = b
  <2>1. 2 * j + b \in 0 .. w - 1 /\ 2 * j \in 0 .. w - 1
    BY <1>2, <1>3
  <2>2. Ago(2 * j, 2 * j + b) = 1 - b
    <3>1. PICK x, y : x = 2 * j /\ y = 2 * j + b
      OBVIOUS
    <3>2. x \in 0 .. Wide - 1 /\ y \in 0 .. Wide - 1
      BY <1>2, <2>1, <3>1
    <3>3. Ago(x, y) = AgoOf(x, y, Wide)
      BY <3>2, AgoIs
    <3>4. AgoOf(x, y, Wide) = 1 - b
      BY <1>2, <1>3, <3>1, <3>2 DEF AgoOf
    <3>5. QED
      BY <3>1, <3>3, <3>4
  <2>3. (2 * j + b) % 2 = b
    BY <1>3
  <2>4. QED
    BY <2>1, <2>2, <2>3
<1>6. QED
  BY <1>2, <1>3, <1>4, <1>5 DEF Even

\* The records of foreground timers.
Odds(h, D) == {i \in D : h[i].order % 2 = 1}

\* Moving records about does not change how many are in the foreground.
LEMMA OddsPlaced ==
  ASSUME NEW g, NEW h, NEW D, NEW E, Placed(g, h, D, E), IsFiniteSet(E)
  PROVE  Cardinality(Odds(g, D)) = Cardinality(Odds(h, E))
<1>1. PICK f : Places(f, D, E) /\ \A i \in D : g[i] = h[f[i]]
  BY DEF Placed
<1>2. PICK A, B : A = Odds(g, D) /\ B = Odds(h, E)
  OBVIOUS
<1>3. PICK e : e = [i \in A |-> f[i]]
  OBVIOUS
<1>4. A \subseteq D /\ \A i \in A : e[i] = f[i]
  BY <1>2, <1>3 DEF Odds
<1>5. e \in [A -> B]
  BY <1>1, <1>2, <1>3, <1>4 DEF Places, Odds
<1>6. \A i, j \in A : e[i] = e[j] => i = j
  BY <1>1, <1>4 DEF Places
<1>7. \A k \in B : \E i \in A : e[i] = k
  <2>1. SUFFICES ASSUME NEW k \in B PROVE \E i \in A : e[i] = k
    OBVIOUS
  <2>2. k \in E /\ h[k].order % 2 = 1
    BY <1>2 DEF Odds
  <2>3. PICK i \in D : f[i] = k
    BY <1>1, <2>2 DEF Places
  <2>4. i \in A
    BY <1>1, <1>2, <2>2, <2>3 DEF Odds
  <2>5. QED
    BY <1>4, <2>3, <2>4
<1>8. e \in Injection(A, B)
  BY <1>5, <1>6 DEF Injection, IsInjective
<1>9. e \in Surjection(A, B)
  BY <1>5, <1>7 DEF Surjection
<1>10. IsFiniteSet(B)
  BY <1>2, FS_Subset DEF Odds
<1>11. IsFiniteSet(A)
  BY <1>8, <1>10, FS_Injection
<1>12. QED
  BY <1>2, <1>8, <1>9, <1>10, FS_Injection

\* h is a heap of n records, the latest with a number at o, and c of them are in the
\* foreground.
HeapIs(h, n, o, c) ==
  /\ n \in Nat /\ DOMAIN h = 0 .. n - 1 /\ h = [i \in 0 .. n - 1 |-> h[i]]
  /\ Records(h) /\ Even(o) /\ Aged(h, o)
  /\ IsHeap(h)
  /\ c = Cardinality(Odds(h, 0 .. n - 1))

\* An even number is an order number.
LEMMA EvenIs ==
  ASSUME Half, NEW o, Even(o)
  PROVE  o \in 0 .. Wide - 1
BY DEF Half, Even, Wide

\* Fewer of the records, or the same at other places.
LEMMA RecordsPlaced ==
  ASSUME NEW g, NEW h, NEW D, NEW E, Placed(g, h, D, E), DOMAIN g = D, E \subseteq DOMAIN h,
         NEW o, Records(h), Aged(h, o)
  PROVE  Records(g) /\ Aged(g, o)
<1>1. PICK f : Places(f, D, E) /\ \A i \in D : g[i] = h[f[i]]
  BY DEF Placed
<1>2. \A i \in D : f[i] \in DOMAIN h
  BY <1>1 DEF Places
<1>3. Records(g)
  BY <1>1, <1>2 DEF Records
<1>4. \A i \in D : Ago(o, g[i].order) < HalfRange
  BY <1>1, <1>2 DEF Aged
<1>5. ASSUME NEW i \in D, NEW j \in D, Ago(o, g[i].order) = Ago(o, g[j].order) PROVE i = j
  <2>1. f[i] = f[j]
    BY <1>1, <1>2, <1>5 DEF Aged
  <2>2. QED
    BY <1>1, <2>1 DEF Places
<1>6. QED
  BY <1>3, <1>4, <1>5 DEF Aged

\* hard_cull takes the record at pos out of the heap, and nothing else.
LEMMA HeapLess ==
  ASSUME Shape, Half, NEW h, NEW n, NEW o, NEW c, HeapIs(h, n, o, c), NEW pos \in 0 .. n - 1
  PROVE  /\ HeapIs(Timers!Without(h, pos), n - 1, o, c - (h[pos].order % 2))
         /\ Placed(Timers!Without(h, pos), h, 0 .. n - 1 - 1, (0 .. n - 1) \ {pos})
<1>1. /\ n \in Nat \ {0} /\ DOMAIN h = 0 .. n - 1 /\ Records(h) /\ Even(o) /\ Aged(h, o)
      /\ IsHeap(h) /\ c = Cardinality(Odds(h, 0 .. n - 1))
  BY DEF HeapIs
<1>2. PICK D, E : D = 0 .. n - 1 - 1 /\ E = (0 .. n - 1) \ {pos}
  OBVIOUS
<1>3. Ranked(h)
  BY <1>1, EvenIs, RankedRecords
<1>4. PICK g : g = Timers!Without(h, pos)
  OBVIOUS
<1>5. Reheaped(g, n - 1, h, E)
  BY <1>1, <1>2, <1>3, <1>4, WithoutReheaps
<1>6. /\ DOMAIN g = D /\ g = [i \in D |-> g[i]] /\ IsHeap(g) /\ Placed(g, h, D, E)
  BY <1>2, <1>5 DEF Reheaped
<1>7. Records(g) /\ Aged(g, o)
  BY <1>1, <1>2, <1>6, RecordsPlaced
<1>8. IsFiniteSet(0 .. n - 1) /\ IsFiniteSet(E)
  <2>1. IsFiniteSet(0 .. n - 1)
    <3>1. n \in Nat
      BY <1>1
    <3>2. QED
      BY <3>1, FirstInts
  <2>2. IsFiniteSet((0 .. n - 1) \ {pos})
    BY <2>1, FS_RemoveElement
  <2>3. QED
    BY <1>2, <2>1, <2>2
<1>9. Cardinality(Odds(g, D)) = Cardinality(Odds(h, E))
  BY <1>6, <1>8, OddsPlaced
<1>10. Cardinality(Odds(h, E)) = c - (h[pos].order % 2)
  <2>1. PICK A : A = Odds(h, 0 .. n - 1)
    OBVIOUS
  <2>2. IsFiniteSet(A) /\ Cardinality(A) \in Nat
    BY <1>8, <2>1, FS_Subset, FS_CardinalityType DEF Odds
  <2>3. Odds(h, E) = A \ {pos}
    BY <1>2, <2>1 DEF Odds
  <2>4. Cardinality(A \ {pos}) = IF pos \in A THEN Cardinality(A) - 1 ELSE Cardinality(A)
    BY <2>2, FS_RemoveElement
  <2>5. pos \in A <=> h[pos].order % 2 = 1
    BY <2>1 DEF Odds
  <2>6. h[pos].order % 2 \in {0, 1}
    <3>1. h[pos].order \in Int
      BY <1>1 DEF Records
    <3>2. QED
      BY <3>1
  <2>7. QED
    BY <1>1, <2>1, <2>2, <2>3, <2>4, <2>5, <2>6
<1>11. n - 1 \in Nat
  BY <1>1
<1>12. HeapIs(g, n - 1, o, c - (h[pos].order % 2))
  BY <1>1, <1>2, <1>6, <1>7, <1>9, <1>10, <1>11 DEF HeapIs
<1>13. QED
  BY <1>2, <1>4, <1>6, <1>12

\* A new record, with the number that follows o.
Newest(r, o, b) ==
  /\ r.when \in 0 .. MaxTime /\ r.se \in Timer /\ b \in {0, 1}
  /\ r.order = ((o + 2) % Wide) + b

\* No record is about to look new.
Fitting(h, o) == \A i \in DOMAIN h : (o + 3 - h[i].order) % Wide < HalfRange

\* r at the end of h.
Added(h, n, r) == [i \in 0 .. n |-> IF i = n THEN r ELSE h[i]]

\* A new record is the youngest.
LEMMA AddedRecords ==
  ASSUME Half, NEW h, NEW n \in Nat, DOMAIN h = 0 .. n - 1, NEW o, Even(o),
         Records(h), Aged(h, o), Fitting(h, o), NEW r, NEW b, Newest(r, o, b)
  PROVE  Records(Added(h, n, r)) /\ Aged(Added(h, n, r), (o + 2) % Wide)
<1>1. PICK p, g : p = (o + 2) % Wide /\ g = Added(h, n, r)
  OBVIOUS
<1>2. DOMAIN g = 0 .. n /\ g[n] = r /\ n \in DOMAIN g /\ \A i \in DOMAIN h : g[i] = h[i]
  BY <1>1 DEF Added
<1>3. \A i \in DOMAIN g : i = n \/ i \in DOMAIN h
  BY <1>2
<1>4. b \in {0, 1} /\ r.order = p + b /\ r.when \in 0 .. MaxTime /\ r.se \in Timer
  BY <1>1 DEF Newest
<1>5. r.order \in 0 .. Wide - 1 /\ Ago(p, r.order) = 1 - b
  BY <1>1, <1>4, NextOrder
<1>6. Records(g)
  BY <1>2, <1>3, <1>4, <1>5 DEF Records
<1>7. ASSUME NEW i \in DOMAIN h
      PROVE  /\ Ago(p, h[i].order) = Ago(o, h[i].order) + 2 /\ Ago(p, h[i].order) < HalfRange
             /\ Ago(o, h[i].order) \in Nat
  <2>1. PICK x \in 0 .. Wide - 1 : x = h[i].order
    BY DEF Records
  <2>2. Ago(o, x) < HalfRange /\ (o + 3 - x) % Wide < HalfRange
    BY <2>1 DEF Aged, Fitting
  <2>3. QED
    BY <1>1, <2>1, <2>2, Ages
<1>8. PICK u : u = [i \in DOMAIN g |-> Ago(p, g[i].order)]
  OBVIOUS
<1>9. u[n] = 1 - b /\ u[n] \in {0, 1}
  BY <1>2, <1>4, <1>5, <1>8
<1>10. ASSUME NEW i \in DOMAIN h PROVE u[i] = Ago(o, h[i].order) + 2 /\ u[i] < HalfRange
                                       /\ u[i] \in Nat /\ u[i] >= 2
  <2>1. i \in DOMAIN g /\ g[i] = h[i]
    BY <1>2
  <2>2. QED
    BY <1>7, <1>8, <2>1
<1>11. HalfRange \in Nat /\ HalfRange > 1
  BY DEF Half
<1>12. \A i \in DOMAIN g : u[i] < HalfRange
  BY <1>3, <1>9, <1>10, <1>11
<1>13. ASSUME NEW i \in DOMAIN g, NEW j \in DOMAIN g, u[i] = u[j] PROVE i = j
  <2>1. CASE i = n \/ j = n
    BY <1>3, <1>9, <1>10, <1>13, <2>1
  <2>2. CASE i \in DOMAIN h /\ j \in DOMAIN h
    <3>1. PICK v, w : v = Ago(o, h[i].order) /\ w = Ago(o, h[j].order)
      OBVIOUS
    <3>2. v \in Nat /\ w \in Nat /\ v + 2 = w + 2
      BY <1>7, <1>10, <1>13, <2>2, <3>1
    <3>3. v = w
      BY <3>2
    <3>4. QED
      BY <2>2, <3>1, <3>3 DEF Aged
  <2>3. QED
    BY <1>3, <2>1, <2>2
<1>14. Aged(g, p)
  BY <1>8, <1>12, <1>13 DEF Aged
<1>15. QED
  BY <1>1, <1>6, <1>14

\* at_time puts a record into the heap.
LEMMA HeapMore ==
  ASSUME Shape, Half, NEW h, NEW n, NEW o, NEW c, HeapIs(h, n, o, c), Fitting(h, o),
         NEW r, NEW b, Newest(r, o, b)
  PROVE  /\ HeapIs(Timers!SiftUp(Added(h, n, r), n), n + 1, (o + 2) % Wide, c + b)
         /\ Placed(Timers!SiftUp(Added(h, n, r), n), Added(h, n, r), 0 .. n, 0 .. n)
<1>1. /\ n \in Nat /\ DOMAIN h = 0 .. n - 1 /\ Records(h) /\ Even(o) /\ Aged(h, o)
      /\ IsHeap(h) /\ c = Cardinality(Odds(h, 0 .. n - 1))
  BY DEF HeapIs
<1>2. PICK p, s, g : p = (o + 2) % Wide /\ s = Added(h, n, r) /\ g = Timers!SiftUp(s, n)
  OBVIOUS
<1>3. DOMAIN s = 0 .. n /\ s[n] = r /\ n \in DOMAIN s /\ \A i \in 0 .. n - 1 : s[i] = h[i]
  BY <1>1, <1>2 DEF Added
<1>4. Records(s) /\ Aged(s, p) /\ Even(p)
  BY <1>1, <1>2, AddedRecords, NextOrder
<1>5. Ranked(s)
  BY <1>4, EvenIs, RankedRecords
<1>6. HeapBelow(s, n)
  <2>1. ASSUME NEW i \in DOMAIN s \ {0}
        PROVE  i \in 1 .. n /\ Timers!Parent(i) \in 0 .. n - 1
    <3>1. i \in Nat \ {0} /\ i \in 1 .. n
      BY <1>1, <1>3
    <3>2. Timers!Parent(i) \in 0 .. i - 1
      BY <3>1, ParentBefore
    <3>3. QED
      BY <1>1, <3>1, <3>2
  <2>2. ASSUME NEW i \in DOMAIN s \ {0, n} PROVE Behind(s, i, Timers!Parent(i))
    <3>1. i \in DOMAIN h \ {0} /\ i \in 0 .. n - 1 /\ Timers!Parent(i) \in 0 .. n - 1
      BY <1>1, <2>1
    <3>2. s[i] = h[i] /\ s[Timers!Parent(i)] = h[Timers!Parent(i)]
      BY <1>3, <3>1
    <3>3. QED
      BY <1>1, <3>1, <3>2 DEF IsHeap, Behind
  <2>3. \A i \in DOMAIN s \ {0} : Timers!Parent(i) # n
    BY <1>1, <2>1
  <2>4. QED
    BY <2>2, <2>3 DEF HeapBelow
<1>7. n + 1 \in Nat /\ DOMAIN s = 0 .. (n + 1) - 1 /\ n \in 0 .. (n + 1) - 1
      /\ 0 .. (n + 1) - 1 = 0 .. n
  BY <1>1, <1>3
<1>8. Reheaped(g, n + 1, s, 0 .. n)
  BY <1>2, <1>5, <1>6, <1>7, UpReheaps
<1>9. DOMAIN g = 0 .. n /\ g = [i \in 0 .. n |-> g[i]] /\ IsHeap(g) /\ Placed(g, s, 0 .. n, 0 .. n)
  BY <1>7, <1>8 DEF Reheaped
<1>10. Records(g) /\ Aged(g, p)
  BY <1>3, <1>4, <1>9, RecordsPlaced
<1>11. IsFiniteSet(0 .. n) /\ IsFiniteSet(0 .. n - 1)
  <2>1. n \in Nat /\ n + 1 \in Nat /\ (n + 1) - 1 = n
    BY <1>1
  <2>2. IsFiniteSet(0 .. (n + 1) - 1)
    BY <2>1, FirstInts
  <2>3. QED
    BY <2>1, <2>2, FirstInts
<1>12. Cardinality(Odds(g, 0 .. n)) = Cardinality(Odds(s, 0 .. n))
  BY <1>9, <1>11, OddsPlaced
<1>13. Cardinality(Odds(s, 0 .. n)) = c + b
  <2>1. PICK A : A = Odds(h, 0 .. n - 1)
    OBVIOUS
  <2>2. IsFiniteSet(A) /\ Cardinality(A) \in Nat /\ n \notin A
    BY <1>1, <1>11, <2>1, FS_Subset, FS_CardinalityType DEF Odds
  <2>3. r.order % 2 = b /\ b \in {0, 1}
    BY <1>1, NextOrder DEF Newest
  <2>4. \A i \in 0 .. n : i = n \/ i \in 0 .. n - 1
    BY <1>1
  <2>5. 0 .. n - 1 \subseteq 0 .. n
    BY <1>1
  <2>6. CASE b = 1
    <3>1. Odds(s, 0 .. n) = A \cup {n}
      BY <1>3, <2>1, <2>3, <2>4, <2>5, <2>6 DEF Odds
    <3>2. Cardinality(A \cup {n}) = Cardinality(A) + 1
      BY <2>2, FS_AddElement
    <3>3. QED
      BY <1>1, <2>1, <2>6, <3>1, <3>2
  <2>7. CASE b = 0
    <3>1. Odds(s, 0 .. n) = A
      BY <1>3, <2>1, <2>3, <2>4, <2>5, <2>7 DEF Odds
    <3>2. QED
      BY <1>1, <2>1, <2>2, <2>7, <3>1
  <2>8. QED
    BY <2>3, <2>6, <2>7
<1>14. HeapIs(g, n + 1, p, c + b)
  BY <1>4, <1>7, <1>9, <1>10, <1>12, <1>13 DEF HeapIs
<1>15. QED
  BY <1>2, <1>9, <1>14

\* Each record of h but the one that fires has a reference in H, and H has no others.
Owned(h, H, A, f) ==
  /\ \A i \in DOMAIN h : h[i].se \in H \/ (i = 0 /\ h[i].se = f)
  /\ \A i, j \in DOMAIN h : h[i].se = h[j].se => i = j
  /\ A \subseteq H
  /\ \A e \in H : \E i \in DOMAIN h : h[i].se = e

\* The event f fires: its record is in front, is due and has given up its reference.
InFront(h, H, f, t) ==
  0 \in DOMAIN h /\ h[0].se = f /\ f \notin H /\ h[0].when <= t

\* The state of the timers: a heap of some size, and who owns what.
TimersInv ==
  /\ \E n \in Nat : HeapIs(ts, n, order, nfg)
  /\ Owned(ts, held, active, firing)
  /\ firing # None => popping /\ InFront(ts, held, firing, clock)
  /\ popping => ~probing
  /\ clock \in Int

\* A record goes with its reference.
LEMMA OwnedLess ==
  ASSUME NEW h, NEW H, NEW A, NEW f, Owned(h, H, A, f), NEW pos \in DOMAIN h,
         \A i \in DOMAIN h : i # pos => h[i].se \in H, h[pos].se \notin A,
         NEW g, NEW D, Placed(g, h, D, DOMAIN h \ {pos}), DOMAIN g = D
  PROVE  Owned(g, H \ {h[pos].se}, A, None)
<1>1. PICK p : Places(p, D, DOMAIN h \ {pos}) /\ \A i \in D : g[i] = h[p[i]]
  BY DEF Placed
<1>2. \A i \in D : p[i] \in DOMAIN h /\ p[i] # pos
  BY <1>1 DEF Places
<1>3. \A i, j \in DOMAIN h : h[i].se = h[j].se => i = j
  BY DEF Owned
<1>4. \A i \in D : g[i].se \in H \ {h[pos].se}
  BY <1>1, <1>2, <1>3
<1>5. \A i, j \in D : g[i].se = g[j].se => i = j
  BY <1>1, <1>2, <1>3 DEF Places
<1>6. A \subseteq H \ {h[pos].se}
  BY DEF Owned
<1>7. ASSUME NEW e \in H \ {h[pos].se} PROVE \E i \in D : g[i].se = e
  <2>1. PICK k \in DOMAIN h : h[k].se = e
    BY DEF Owned
  <2>2. k # pos
    BY <2>1
  <2>3. PICK i \in D : p[i] = k
    BY <1>1, <2>2 DEF Places
  <2>4. QED
    BY <1>1, <2>1, <2>3
<1>8. QED
  BY <1>4, <1>5, <1>6, <1>7 DEF Owned

\* A record comes with its reference.
LEMMA OwnedMore ==
  ASSUME NEW h, NEW n \in Nat, DOMAIN h = 0 .. n - 1, Records(h), None \notin Timer,
         NEW H, NEW A, NEW f, Owned(h, H, A, f),
         NEW r, \A i \in DOMAIN h : h[i].se # r.se, r.se \notin H, r.se # f,
         NEW g, DOMAIN g = 0 .. n, Placed(g, Added(h, n, r), 0 .. n, 0 .. n),
         f # None => g[0].se = f
  PROVE  Owned(g, H \cup {r.se}, A \cup {r.se}, f)
<1>1. PICK s : s = Added(h, n, r)
  OBVIOUS
<1>2. /\ DOMAIN s = 0 .. n /\ s[n] = r /\ n \in 0 .. n /\ DOMAIN h \subseteq 0 .. n
      /\ \A i \in DOMAIN h : s[i] = h[i] /\ i # n
  BY <1>1 DEF Added
<1>3. \A i \in 0 .. n : i = n \/ i \in DOMAIN h
  OBVIOUS
<1>4. PICK p : Places(p, 0 .. n, 0 .. n) /\ \A i \in 0 .. n : g[i] = s[p[i]]
  BY <1>1 DEF Placed
<1>5. \A i \in 0 .. n : p[i] \in 0 .. n
  BY <1>4 DEF Places
<1>6. \A i, j \in 0 .. n : s[i].se = s[j].se => i = j
  BY <1>2, <1>3 DEF Owned
<1>7. ASSUME NEW i \in 0 .. n, NEW j \in 0 .. n, g[i].se = g[j].se PROVE i = j
  <2>1. s[p[i]].se = s[p[j]].se /\ p[i] \in 0 .. n /\ p[j] \in 0 .. n
    BY <1>4, <1>5, <1>7
  <2>2. p[i] = p[j]
    BY <1>6, <2>1
  <2>3. QED
    BY <1>4, <2>2 DEF Places
<1>8. \A i \in 0 .. n : s[i].se \in H \cup {r.se} \/ s[i].se = f
  BY <1>2, <1>3 DEF Owned
<1>9. \A i \in 0 .. n : s[i].se = f => f # None
  <2>1. \A i \in DOMAIN h : h[i].se \in Timer
    BY DEF Records
  <2>2. QED
    BY <1>2, <1>3, <2>1
<1>10. ASSUME NEW i \in 0 .. n
       PROVE  g[i].se \in H \cup {r.se} \/ (i = 0 /\ g[i].se = f)
  <2>1. g[i] = s[p[i]] /\ p[i] \in 0 .. n /\ 0 \in 0 .. n
    BY <1>4, <1>5
  <2>2. CASE g[i].se \in H \cup {r.se}
    BY <2>2
  <2>3. CASE g[i].se = f
    <3>1. f # None
      BY <1>9, <2>1, <2>3
    <3>2. i = 0
      BY <1>7, <2>1, <2>3, <3>1
    <3>3. QED
      BY <2>3, <3>2
  <2>4. QED
    BY <1>8, <2>1, <2>2, <2>3
<1>11. ASSUME NEW e \in H \cup {r.se} PROVE \E i \in 0 .. n : g[i].se = e
  <2>1. PICK k \in 0 .. n : s[k].se = e
    <3>1. CASE e = r.se
      BY <1>2, <3>1
    <3>2. CASE e \in H
      <4>1. PICK k \in DOMAIN h : h[k].se = e
        BY <3>2 DEF Owned
      <4>2. QED
        BY <1>2, <4>1
    <3>3. QED
      BY <3>1, <3>2
  <2>2. PICK i \in 0 .. n : p[i] = k
    BY <1>4 DEF Places
  <2>3. QED
    BY <1>4, <2>1, <2>2
<1>12. A \cup {r.se} \subseteq H \cup {r.se}
  BY DEF Owned
<1>13. QED
  BY <1>7, <1>10, <1>11, <1>12 DEF Owned

\* The invariant holds of an empty heap.
LEMMA TimersStart == Timers!TimerAssumption /\ Timers!Init => TimersInv
<1> SUFFICES ASSUME Timers!TimerAssumption, Timers!Init PROVE TimersInv
  OBVIOUS
<1>1. /\ ts = [i \in {} |-> None] /\ nfg = 0 /\ order = 0 /\ active = {} /\ held = {}
      /\ firing = None /\ probing = FALSE /\ clock = 0
  BY DEF Timers!Init
<1>2. 0 .. 0 - 1 = {} /\ DOMAIN ts = {} /\ ts = [i \in {} |-> ts[i]]
  BY <1>1
<1>3. Even(0)
  <2>1. 0 \in 0 .. HalfRange - 1 /\ 0 = 2 * 0
    BY DEF Timers!TimerAssumption
  <2>2. QED
    BY <2>1 DEF Even
<1>4. Odds(ts, {}) = {} /\ Cardinality({}) = 0
  BY FS_EmptySet DEF Odds
<1>5. Records(ts) /\ Aged(ts, 0) /\ IsHeap(ts)
  BY <1>2 DEF Records, Aged, IsHeap
<1>6. HeapIs(ts, 0, order, nfg)
  BY <1>1, <1>2, <1>3, <1>4, <1>5 DEF HeapIs
<1>7. Owned(ts, held, active, firing)
  BY <1>1, <1>2 DEF Owned
<1>8. QED
  BY <1>1, <1>6, <1>7 DEF TimersInv

\* What a heap of n records is.
LEMMA Sized ==
  ASSUME NEW h, NEW n, NEW o, NEW c, HeapIs(h, n, o, c)
  PROVE  /\ n \in Nat /\ DOMAIN h = 0 .. n - 1 /\ Timers!Size(h) = n /\ Records(h)
         /\ (h # <<>> => 0 \in DOMAIN h)
<1>1. n \in Nat /\ DOMAIN h = 0 .. n - 1 /\ h = [i \in 0 .. n - 1 |-> h[i]] /\ Records(h)
  BY DEF HeapIs
<1>2. Timers!Size(h) = n
  <2>1. Cardinality(0 .. n - 1) = n
    <3>1. n \in Nat
      BY <1>1
    <3>2. QED
      BY <3>1, FirstInts
  <2>2. QED
    BY <1>1, <2>1, SameCounting DEF Timers!Size
<1>3. ASSUME n = 0 PROVE h = <<>>
  <2>1. 0 .. n - 1 = {} /\ 1 .. 0 = {}
    BY <1>3
  <2>2. h = [i \in {} |-> h[i]]
    BY <1>1, <2>1
  <2>3. DOMAIN <<>> = {}
    OBVIOUS
  <2>4. QED
    BY <2>2, <2>3
<1>4. n # 0 => 0 \in DOMAIN h
  BY <1>1
<1>5. QED
  BY <1>1, <1>2, <1>3, <1>4

\* Taking a record out, for any of the reasons below.
LEMMA HeapLoses ==
  ASSUME Timers!TimerAssumption, TimersInv, NEW pos \in DOMAIN ts, Timers!Remove(pos),
         UNCHANGED <<order, active>>, ts[pos].se \notin active,
         \A i \in DOMAIN ts : i # pos => ts[i].se \in held
  PROVE  /\ \E n \in Nat : HeapIs(ts', n, order', nfg')
         /\ Owned(ts', held \ {ts[pos].se}, active', None)
<1>1. PICK n \in Nat : HeapIs(ts, n, order, nfg)
  BY DEF TimersInv
<1>2. pos \in 0 .. n - 1 /\ DOMAIN ts = 0 .. n - 1
  BY <1>1, Sized
<1>3. Shape /\ Half
  BY DEF Timers!TimerAssumption, Shape, Half
<1>4. ts' = Timers!Without(ts, pos) /\ nfg' = nfg - (ts[pos].order % 2)
  BY DEF Timers!Remove
<1>5. /\ HeapIs(ts', n - 1, order, nfg')
      /\ Placed(ts', ts, 0 .. n - 1 - 1, (0 .. n - 1) \ {pos})
  BY <1>1, <1>2, <1>3, <1>4, HeapLess
<1>6. DOMAIN ts' = 0 .. n - 1 - 1 /\ n - 1 \in Nat
  BY <1>5, Sized
<1>7. Owned(ts, held, active, firing)
  BY DEF TimersInv
<1>8. Owned(ts', held \ {ts[pos].se}, active, None)
  BY <1>2, <1>5, <1>6, <1>7, OwnedLess
<1>9. QED
  BY <1>5, <1>6, <1>8

\* Setting a timer, in a hook too: the record that fires stays in front.
LEMMA PushTimers ==
  ASSUME Timers!TimerAssumption, TimersInv, NEW e \in Timer, NEW when \in 0 .. MaxTime,
         Timers!Push(e, when)
  PROVE  TimersInv'
<1>1. PICK n \in Nat : HeapIs(ts, n, order, nfg)
  BY DEF TimersInv
<1>2. DOMAIN ts = 0 .. n - 1 /\ Timers!Size(ts) = n /\ Records(ts)
  BY <1>1, Sized
<1>3. Shape /\ Half /\ None \notin Timer /\ e # None /\ MaxTime \in Nat /\ CullAt \in Nat
  BY DEF Timers!TimerAssumption, Shape, Half
<1>4. PICK b : b = IF e \in Background THEN 0 ELSE 1
  OBVIOUS
<1>5. PICK r : r = [when |-> when, se |-> e, order |-> ((order + 2) % Wide) + b]
  OBVIOUS
<1>6. /\ ~probing /\ (popping => firing # None /\ when > clock /\ n + 1 < CullAt)
      /\ e \notin active \cup held /\ \A i \in DOMAIN ts : ts[i].se # e
      /\ Fitting(ts, order)
      /\ order' = (order + 2) % Wide /\ nfg' = nfg + b
      /\ ts' = Timers!SiftUp(Added(ts, n, r), n) /\ probing' = (n + 1 >= CullAt)
      /\ active' = active \cup {e} /\ held' = held \cup {e}
      /\ popping' = popping /\ firing' = firing /\ clock' = clock
  <2>1. Fitting(ts, order)
    BY DEF Timers!Push, Timers!OrderFits, Fitting, Wide
  <2>2. order' = (order + 2) % Wide /\ nfg' = nfg + b /\ probing' = (n + 1 >= CullAt)
    BY <1>2, <1>4 DEF Timers!Push, Wide
  <2>3. ts' = Timers!SiftUp(Added(ts, n, r), n)
    BY <1>2, <1>4, <1>5, <2>2 DEF Timers!Push, Added
  <2>4. QED
    BY <1>2, <2>1, <2>2, <2>3 DEF Timers!Push, Timers!UserCode
<1>7. Newest(r, order, b)
  BY <1>4, <1>5 DEF Newest
<1>8. /\ HeapIs(ts', n + 1, order', nfg')
      /\ Placed(ts', Added(ts, n, r), 0 .. n, 0 .. n)
  BY <1>1, <1>3, <1>6, <1>7, HeapMore
<1>9. DOMAIN ts' = 0 .. n /\ n + 1 \in Nat
  <2>1. DOMAIN ts' = 0 .. n + 1 - 1 /\ n + 1 \in Nat
    BY <1>8, Sized
  <2>2. QED
    BY <2>1
<1>10. Owned(ts, held, active, firing) /\ clock \in Int
       /\ (firing # None => popping /\ InFront(ts, held, firing, clock))
  BY DEF TimersInv
<1>11. ASSUME firing # None PROVE ts'[0] = ts[0]
  <2>1. 0 \in DOMAIN ts /\ ts[0].when <= clock /\ popping
    BY <1>10, <1>11 DEF InFront
  <2>2. PICK s : s = Added(ts, n, r)
    OBVIOUS
  <2>3. DOMAIN s = 0 .. (n + 1) - 1 /\ s[0] = ts[0] /\ s[n] = r /\ n \in 1 .. (n + 1) - 1
        /\ n + 1 \in Nat
    BY <1>2, <2>1, <2>2 DEF Added
  <2>4. ~Timers!Less(s[n], s[0])
    <3>1. ts[0].when \in Int /\ r.when = when /\ when > clock
      BY <1>2, <1>5, <1>6, <2>1 DEF Records
    <3>2. QED
      BY <1>3, <1>10, <2>1, <2>3, <3>1 DEF Timers!Less
  <2>5. Timers!SiftUp(s, n)[0] = s[0]
    BY <1>3, <2>3, <2>4, UpFront
  <2>6. QED
    BY <1>6, <2>2, <2>3, <2>5
<1>12. r.se = e /\ firing # e
  <2>1. firing # None => firing # e
    BY <1>6, <1>10 DEF InFront
  <2>2. QED
    BY <1>3, <1>5, <2>1
<1>13. Owned(ts', held', active', firing')
  <2>1. firing # None => ts'[0].se = firing
    BY <1>10, <1>11 DEF InFront
  <2>2. Owned(ts', held \cup {r.se}, active \cup {r.se}, firing)
    BY <1>2, <1>3, <1>6, <1>8, <1>9, <1>10, <1>12, <2>1, OwnedMore
  <2>3. QED
    BY <1>6, <1>12, <2>2
<1>14. firing' # None => popping' /\ InFront(ts', held', firing', clock')
  <2>1. 0 \in 0 .. n
    OBVIOUS
  <2>2. QED
    BY <1>6, <1>9, <1>10, <1>11, <1>12, <2>1 DEF InFront
<1>15. popping' => ~probing'
  <2>1. n + 1 < CullAt => ~(n + 1 >= CullAt)
    BY <1>3
  <2>2. popping => ~(n + 1 >= CullAt)
    BY <1>6, <2>1
  <2>3. QED
    BY <1>6, <2>2
<1>16. clock' \in Int /\ \E m \in Nat : HeapIs(ts', m, order', nfg')
  BY <1>6, <1>8, <1>9, <1>10
<1>17. QED
  BY <1>13, <1>14, <1>15, <1>16 DEF TimersInv

\* A probe of push.
LEMMA ProbeTimers ==
  ASSUME Timers!TimerAssumption, TimersInv, NEW pos \in DOMAIN ts, Timers!Probe(pos)
  PROVE  TimersInv'
<1>1. /\ probing /\ UNCHANGED <<order, active, popping, firing, clock>> /\ ~popping
      /\ firing = None
  BY DEF Timers!Probe, TimersInv
<1>2. CASE ts[pos].se \in active
  <2>1. probing' = FALSE /\ UNCHANGED <<ts, nfg, held>>
    BY <1>2 DEF Timers!Probe
  <2>2. QED
    BY <1>1, <2>1 DEF TimersInv
<1>3. CASE ts[pos].se \notin active
  <2>1. Timers!Remove(pos) /\ held' = held \ {ts[pos].se}
    BY <1>3 DEF Timers!Probe
  <2>2. \A i \in DOMAIN ts : ts[i].se \in held
    <3>1. PICK n \in Nat : HeapIs(ts, n, order, nfg)
      BY DEF TimersInv
    <3>2. Records(ts) /\ None \notin Timer
      BY <3>1, Sized DEF Timers!TimerAssumption
    <3>3. QED
      BY <1>1, <3>2 DEF TimersInv, Owned, Records
  <2>3. /\ \E n \in Nat : HeapIs(ts', n, order', nfg')
        /\ Owned(ts', held \ {ts[pos].se}, active', None)
    BY <1>1, <1>3, <2>1, <2>2, HeapLoses
  <2>4. QED
    BY <1>1, <2>1, <2>3 DEF TimersInv
<1>4. QED
  BY <1>2, <1>3

\* An event that triggers keeps its record and its reference.
LEMMA CancelTimers ==
  ASSUME TimersInv, NEW e \in Timer, Timers!Cancel(e)
  PROVE  TimersInv'
<1>1. /\ active' = active \ {e}
      /\ UNCHANGED <<ts, nfg, order, held, popping, firing, probing, clock>>
  BY DEF Timers!Cancel
<1>2. Owned(ts', held', active', firing')
  BY <1>1 DEF TimersInv, Owned
<1>3. QED
  BY <1>1, <1>2 DEF TimersInv

\* A canceled timer in front goes.
LEMMA CullTimers ==
  ASSUME Timers!TimerAssumption, TimersInv, Timers!Cull
  PROVE  TimersInv'
<1>1. /\ ~popping /\ ts # <<>> /\ ts[0].se \notin active /\ Timers!Remove(0)
      /\ held' = held \ {ts[0].se}
      /\ UNCHANGED <<order, active, popping, firing, probing, clock>> /\ firing = None
  BY DEF Timers!Cull, TimersInv
<1>2. PICK n \in Nat : HeapIs(ts, n, order, nfg)
  BY DEF TimersInv
<1>3. 0 \in DOMAIN ts
  BY <1>1, <1>2, Sized
<1>4. \A i \in DOMAIN ts : i # 0 => ts[i].se \in held
  BY DEF TimersInv, Owned
<1>5. /\ \E m \in Nat : HeapIs(ts', m, order', nfg')
      /\ Owned(ts', held \ {ts[0].se}, active', None)
  BY <1>1, <1>3, <1>4, HeapLoses
<1>6. QED
  BY <1>1, <1>5 DEF TimersInv

\* The event in front gives up its reference, and its record stays for now.
LEMMA TriggerTimers ==
  ASSUME Timers!TimerAssumption, TimersInv, Timers!PopTrigger
  PROVE  TimersInv'
<1>1. /\ popping /\ firing = None /\ ts # <<>> /\ ts[0].when <= clock
      /\ firing' = ts[0].se /\ active' = active \ {ts[0].se} /\ held' = held \ {ts[0].se}
      /\ UNCHANGED <<ts, nfg, order, popping, probing, clock>>
  BY DEF Timers!PopTrigger, Timers!Expired
<1>2. PICK n \in Nat : HeapIs(ts, n, order, nfg)
  BY DEF TimersInv
<1>3. 0 \in DOMAIN ts
  BY <1>1, <1>2, Sized
<1>4. InFront(ts', held', firing', clock')
  BY <1>1, <1>3 DEF InFront
<1>5. Owned(ts', held', active', firing')
  <2>1. Owned(ts, held, active, firing)
    BY DEF TimersInv
  <2>2. \A i \in DOMAIN ts : i # 0 => ts[i].se \in held /\ ts[i].se # ts[0].se
    BY <1>3, <2>1 DEF Owned
  <2>3. \A e \in held \ {ts[0].se} : \E i \in DOMAIN ts : ts[i].se = e
    BY <2>1 DEF Owned
  <2>4. active \ {ts[0].se} \subseteq held \ {ts[0].se}
    BY <2>1 DEF Owned
  <2>5. \A i, j \in DOMAIN ts : ts[i].se = ts[j].se => i = j
    BY <2>1 DEF Owned
  <2>6. QED
    BY <1>1, <2>2, <2>3, <2>4, <2>5 DEF Owned
<1>6. QED
  BY <1>1, <1>2, <1>4, <1>5 DEF TimersInv

\* The record in front is still the one that fired.
LEMMA RemoveTimers ==
  ASSUME Timers!TimerAssumption, TimersInv, Timers!PopRemove
  PROVE  TimersInv'
<1>1. /\ firing # None /\ firing' = None
      /\ UNCHANGED <<order, active, held, popping, probing, clock>>
  BY DEF Timers!PopRemove
<1>2. popping /\ 0 \in DOMAIN ts /\ ts[0].se = firing /\ firing \notin held
  BY <1>1 DEF TimersInv, InFront
<1>3. ts # <<>>
  BY <1>2
<1>4. Timers!Remove(0)
  BY <1>3 DEF Timers!PopRemove
<1>5. \A i \in DOMAIN ts : i # 0 => ts[i].se \in held
  BY DEF TimersInv, Owned
<1>6. ts[0].se \notin active /\ held \ {ts[0].se} = held
  BY <1>2 DEF TimersInv, Owned
<1>7. /\ \E m \in Nat : HeapIs(ts', m, order', nfg')
      /\ Owned(ts', held \ {ts[0].se}, active', None)
  BY <1>1, <1>2, <1>4, <1>5, <1>6, HeapLoses
<1>8. QED
  BY <1>1, <1>6, <1>7 DEF TimersInv

\* Every step keeps the invariant.
LEMMA TimersStep ==
  ASSUME Timers!TimerAssumption, TimersInv, [Timers!Next]_Timers!vars
  PROVE  TimersInv'
<1>1. CASE UNCHANGED Timers!vars
  BY <1>1 DEF Timers!vars, TimersInv
<1>2. CASE \E e \in Timer : Timers!Cancel(e) \/ \E when \in 0 .. MaxTime : Timers!Push(e, when)
  BY <1>2, CancelTimers, PushTimers
<1>3. CASE Timers!Probes
  BY <1>3, ProbeTimers DEF Timers!Probes
<1>4. CASE Timers!Cull
  BY <1>4, CullTimers
<1>5. CASE Timers!Pops
  <2>1. CASE Timers!BeginPops
    BY <2>1 DEF Timers!BeginPops, Timers!idleVars, TimersInv
  <2>2. CASE Timers!EndPops
    BY <2>2 DEF Timers!EndPops, Timers!idleVars, TimersInv
  <2>3. QED
    BY <1>5, <2>1, <2>2, TriggerTimers, RemoveTimers DEF Timers!Pops
<1>6. CASE Timers!Tick
  <2>1. /\ clock' = clock + 1 /\ ~popping
        /\ UNCHANGED <<ts, nfg, order, active, held, popping, firing, probing>>
    BY <1>6 DEF Timers!Tick
  <2>2. QED
    BY <2>1 DEF TimersInv
<1>7. QED
  BY <1>1, <1>2, <1>3, <1>4, <1>5, <1>6 DEF Timers!Next

\* What the invariant says of the heap.
LEMMA TimersGive == TimersInv => HeapOwns /\ HeapOrder
<1> SUFFICES ASSUME TimersInv PROVE HeapOwns /\ HeapOrder
  OBVIOUS
<1>1. PICK n \in Nat : HeapIs(ts, n, order, nfg)
  BY DEF TimersInv
<1>2. DOMAIN ts = 0 .. n - 1 /\ IsHeap(ts) /\ nfg = Cardinality(Odds(ts, 0 .. n - 1))
  BY <1>1 DEF HeapIs
<1>3. Timers!ForegroundExact
  BY <1>2, SameCounting DEF Timers!ForegroundExact, Odds
<1>4. Timers!HeapOwns
  <2>1. held \subseteq {ts[i].se : i \in DOMAIN ts}
    BY DEF TimersInv, Owned
  <2>2. QED
    BY <2>1 DEF TimersInv, Owned, Timers!HeapOwns
<1>5. QED
  BY <1>2, <1>3, <1>4 DEF HeapOwns, HeapOrder, Timers!HeapOrder, IsHeap

\* Memory of the heap: each record but the one that fires holds a reference to its event
\* and no reference is left without a record, and nfg_ counts the foreground timers that
\* tell has_foreground whether to go on, whatever is pushed, probed, culled and popped.
THEOREM TimersOwned == ASSUME Timers!TimerAssumption PROVE Timers!Spec => []HeapOwns
<1>1. Timers!Init => TimersInv
  BY TimersStart
<1>2. TimersInv /\ [Timers!Next]_Timers!vars => TimersInv'
  BY TimersStep
<1>3. TimersInv => HeapOwns
  BY TimersGive
<1>4. QED
  BY <1>1, <1>2, <1>3, PTL DEF Timers!Spec

\* No step leaves a record before its parent, whichever record was added or taken out of
\* the middle, for any arity and any number of timers, and while order numbers wrap.
THEOREM TimersInOrder == ASSUME Timers!TimerAssumption PROVE Timers!Spec => []HeapOrder
<1>1. Timers!Init => TimersInv
  BY TimersStart
<1>2. TimersInv /\ [Timers!Next]_Timers!vars => TimersInv'
  BY TimersStep
<1>3. TimersInv => HeapOrder
  BY TimersGive
<1>4. QED
  BY <1>1, <1>2, <1>3, PTL DEF Timers!Spec

\* No record of a heap is before the one in front.
LEMMA FrontLeast ==
  ASSUME Timers!TimerAssumption, NEW h, NEW n, NEW o, NEW c, HeapIs(h, n, o, c), NEW j \in DOMAIN h
  PROVE  Behind(h, j, 0)
<1> DEFINE K == {k \in DOMAIN h : ~Behind(h, k, 0)}
<1>1. n \in Nat /\ DOMAIN h = 0 .. n - 1 /\ IsHeap(h) /\ Shape /\ Half /\ 0 \in DOMAIN h
  BY DEF HeapIs, Timers!TimerAssumption, Shape, Half
<1>2. Ranked(h)
  BY <1>1, EvenIs, RankedRecords DEF HeapIs
<1>3. SUFFICES ASSUME K # {} PROVE FALSE
  OBVIOUS
<1>4. PICK k \in K : \A m \in K : k <= m
  <2>1. K \subseteq Nat
    BY <1>1
  <2>2. QED
    BY <1>3, <2>1, Least
<1>5. k \in 0 .. n - 1 /\ ~Behind(h, k, 0) /\ k # 0
  BY <1>1, <1>2, Behinds
<1>6. Timers!Parent(k) \in 0 .. k - 1
  BY <1>1, <1>5, ParentBefore
<1>7. Timers!Parent(k) \in DOMAIN h /\ ~(k <= Timers!Parent(k))
  BY <1>1, <1>5, <1>6
<1>8. Behind(h, Timers!Parent(k), 0)
  BY <1>4, <1>7
<1>9. Behind(h, k, Timers!Parent(k))
  BY <1>1, <1>5 DEF IsHeap, Behind
<1>10. QED
  BY <1>1, <1>2, <1>5, <1>7, <1>8, <1>9, Behinds

\* An event begins to fire only if its record is due, and before those of all others: by
\* time, and at the same time in the order in which they were asked for.
EarliestOnly ==
  \A e \in Timer : firing # e /\ firing' = e =>
    /\ ts[0].se = e /\ ts[0].when <= clock
    /\ \A i \in DOMAIN ts : ts[i].se # e => Timers!Less(ts[0], ts[i])

\* Only pop_trigger lets an event fire, and the heap is in order then.
LEMMA FiresEarliest ==
  ASSUME Timers!TimerAssumption, TimersInv, [Timers!Next]_Timers!vars
  PROVE  EarliestOnly
<1>1. SUFFICES ASSUME NEW e \in Timer, firing # e, firing' = e
               PROVE  /\ ts[0].se = e /\ ts[0].when <= clock
                      /\ \A i \in DOMAIN ts : ts[i].se # e => Timers!Less(ts[0], ts[i])
  BY DEF EarliestOnly
<1>2. e # None
  BY DEF Timers!TimerAssumption
<1>3. Timers!PopTrigger
  BY <1>1, <1>2 DEF Timers!Next, Timers!vars, Timers!Probes, Timers!Probe, Timers!Cancel,
                    Timers!Push, Timers!Cull, Timers!Pops, Timers!BeginPops, Timers!EndPops,
                    Timers!PopRemove, Timers!Tick, Timers!idleVars
<1>4. ts # <<>> /\ ts[0].when <= clock /\ ts[0].se = e
  BY <1>1, <1>3 DEF Timers!PopTrigger, Timers!Expired
<1>5. PICK n \in Nat : HeapIs(ts, n, order, nfg)
  BY DEF TimersInv
<1>6. 0 \in DOMAIN ts
  BY <1>4, <1>5, Sized
<1>7. Ranked(ts)
  <2>1. Half
    BY DEF Timers!TimerAssumption, Half
  <2>2. QED
    BY <1>5, <2>1, EvenIs, RankedRecords DEF HeapIs
<1>8. ASSUME NEW i \in DOMAIN ts, ts[i].se # e PROVE Timers!Less(ts[0], ts[i])
  <2>1. i # 0
    BY <1>4, <1>8
  <2>2. Behind(ts, i, 0)
    BY <1>5, FrontLeast
  <2>3. QED
    BY <1>6, <1>7, <2>1, <2>2 DEF Ranked, Behind
<1>9. QED
  BY <1>4, <1>8

\* The promise of at_time and at_delay: events fire when they are due and in the order of
\* their times, those of one time in the order in which they were set, whatever was set,
\* canceled and probed before, for any number of timers and while the numbers wrap.
THEOREM EarliestFires ==
  ASSUME Timers!TimerAssumption PROVE Timers!Spec => [][EarliestOnly]_Timers!vars
<1>1. Timers!Init => TimersInv
  BY TimersStart
<1>2. TimersInv /\ [Timers!Next]_Timers!vars => TimersInv'
  BY TimersStep
<1>3. TimersInv /\ [Timers!Next]_Timers!vars => EarliestOnly
  BY FiresEarliest
<1>4. QED
  BY <1>1, <1>2, <1>3, PTL DEF Timers!Spec
================================================================================
