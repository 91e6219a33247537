------------------------------ MODULE WatchProofs ------------------------------
(***************************************************************************)
(* The kernel watches what somebody waits for, for any number of           *)
(* descriptors: the list of changes, which may be a cycle, loses nobody,   *)
(* and the poll set, its map and the registrations follow it.  Signals are *)
(* dispatched however they come, and the loops over libevent and libev     *)
(* wait and return only when they may.                                     *)
(***************************************************************************)
EXTENDS Watches, FiniteSetTheorems, SequenceTheorems, TLAPS

(* The list of changes *)

Lists(n) == [head : 0 .. n, next : [Fd -> 0 .. n]]

On(list, fd) == list.head = fd + 1 \/ \E g \in Fd : list.next[g] = fd + 1

\* From its head the list goes through the n elements of s, each once, and ends
\* there or comes back to one of them; nobody else has a successor.
Walk(list, n, s) ==
  /\ \A i, j \in 1 .. n : s[i] = s[j] => i = j
  /\ list.head = IF n = 0 THEN 0 ELSE s[1] + 1
  /\ \A i \in 1 .. n - 1 : list.next[s[i]] = s[i + 1] + 1
  /\ n > 0 => \/ list.next[s[n]] = 0
              \/ \E k \in 1 .. n : list.next[s[n]] = s[k] + 1
  /\ \A fd \in Fd : list.next[fd] # 0 => \E i \in 1 .. n : s[i] = fd

WellLinked(list) == \E n \in Nat : \E s \in [1 .. n -> Fd] : Walk(list, n, s)

LEMMA FdNat == ASSUME FdAssumption PROVE Fd \subseteq Nat /\ MaxFd \in Nat
BY DEF FdAssumption, Fd

\* Whoever has a successor is on the list.
LEMMA LinkedIsOn ==
  ASSUME FdAssumption, NEW list, WellLinked(list), NEW fd \in Fd, list.next[fd] # 0
  PROVE  On(list, fd)
<1>0. PICK n \in Nat : \E s \in [1 .. n -> Fd] : Walk(list, n, s)
  BY DEF WellLinked
<1>1. PICK s \in [1 .. n -> Fd] : Walk(list, n, s)
  BY <1>0
<1>2. PICK i \in 1 .. n : s[i] = fd
  BY <1>1 DEF Walk
<1>3. CASE i = 1
  BY <1>1, <1>2, <1>3 DEF Walk, On
<1>4. CASE i # 1
  <2>1. i - 1 \in 1 .. n - 1 /\ (i - 1) + 1 = i
    BY <1>4
  <2>2. list.next[s[i - 1]] = s[i] + 1 /\ s[i - 1] \in Fd
    BY <1>1, <2>1 DEF Walk
  <2>3. QED
    BY <1>2, <2>2 DEF On
<1>5. QED
  BY <1>3, <1>4

\* When the head is null nobody is on the list.
LEMMA EmptyList ==
  ASSUME FdAssumption, NEW list, WellLinked(list), list.head = 0, NEW fd \in Fd
  PROVE  ~On(list, fd)
<1>0. PICK n \in Nat : \E s \in [1 .. n -> Fd] : Walk(list, n, s)
  BY DEF WellLinked
<1>1. PICK s \in [1 .. n -> Fd] : Walk(list, n, s)
  BY <1>0
<1>2. n = 0
  BY <1>1, FdNat DEF Walk
<1>3. \A g \in Fd : list.next[g] = 0
  BY <1>1, <1>2 DEF Walk
<1>4. QED
  BY <1>3, FdNat DEF On

\* push_change puts a descriptor on the list and takes nobody off it.
LEMMA PushKeeps ==
  ASSUME FdAssumption, NEW n \in Nat, NEW list \in Lists(n), WellLinked(list),
         NEW fd \in Fd, fd < n
  PROVE  /\ PushChange(list, fd) \in Lists(n)
         /\ On(PushChange(list, fd), fd)
         /\ \A g \in Fd : On(list, g) => On(PushChange(list, fd), g)
<1>1. CASE list.next[fd] # 0
  BY <1>1, LinkedIsOn DEF PushChange
<1>2. CASE list.next[fd] = 0
  <2> DEFINE new == PushChange(list, fd)
  <2>1. new = [head |-> fd + 1, next |-> [list.next EXCEPT ![fd] = list.head]]
    BY <1>2 DEF PushChange
  <2>2. new \in Lists(n)
    BY <2>1, FdNat DEF Lists
  <2>3. ASSUME NEW g \in Fd, On(list, g)
        PROVE  On(new, g)
    <3>1. CASE list.head = g + 1
      <4>1. new.next[fd] = g + 1
        BY <2>1, <3>1 DEF Lists
      <4>2. QED
        BY <4>1 DEF On
    <3>2. CASE \E h \in Fd : list.next[h] = g + 1
      <4>1. PICK h \in Fd : list.next[h] = g + 1
        BY <3>2
      <4>2. h # fd
        BY <4>1, <1>2, FdNat
      <4>3. new.next[h] = g + 1
        BY <2>1, <4>1, <4>2 DEF Lists
      <4>4. QED
        BY <4>3 DEF On
    <3>3. QED
      BY <2>3, <3>1, <3>2 DEF On
  <2>4. On(new, fd)
    BY <2>1 DEF On
  <2>5. QED
    BY <2>2, <2>3, <2>4
<1>3. QED
  BY <1>1, <1>2

\* push_change keeps the list together.  The last element, which has no successor,
\* may be pushed again; it is then in front, and the others lead back to it.
LEMMA PushWalks ==
  ASSUME FdAssumption, NEW m \in Nat, NEW list \in Lists(m), WellLinked(list),
         NEW fd \in Fd
  PROVE  WellLinked(PushChange(list, fd))
<1> SUFFICES ASSUME list.next[fd] = 0
             PROVE  WellLinked(PushChange(list, fd))
  BY DEF PushChange
<1>0. PICK n \in Nat : \E s \in [1 .. n -> Fd] : Walk(list, n, s)
  BY DEF WellLinked
<1>1. PICK s \in [1 .. n -> Fd] : Walk(list, n, s)
  BY <1>0
<1> DEFINE new == [head |-> fd + 1, next |-> [list.next EXCEPT ![fd] = list.head]]
<1>2. PushChange(list, fd) = new
  BY DEF PushChange
<1>3. /\ new.head = fd + 1 /\ new.next[fd] = list.head
      /\ \A g \in Fd \ {fd} : new.next[g] = list.next[g]
  BY DEF Lists
<1> HIDE DEF new
<1>4. CASE \A i \in 1 .. n : s[i] # fd
  <2> DEFINE t == [i \in 1 .. n + 1 |-> IF i = 1 THEN fd ELSE s[i - 1]]
  <2>1. t \in [1 .. n + 1 -> Fd] /\ n + 1 \in Nat
    OBVIOUS
  <2>2. \A i, j \in 1 .. n + 1 : t[i] = t[j] => i = j
    BY <1>1, <1>4 DEF Walk
  <2>3. \A i \in 1 .. n : new.next[t[i]] = t[i + 1] + 1
    <3> TAKE i \in 1 .. n
    <3>1. CASE i = 1
      BY <1>1, <1>3, <3>1 DEF Walk
    <3>2. CASE i # 1
      <4>1. i - 1 \in 1 .. n - 1 /\ t[i] = s[i - 1] /\ t[i + 1] = s[i] /\ (i - 1) + 1 = i
        BY <3>2
      <4>2. list.next[s[i - 1]] = s[i] + 1
        BY <1>1, <4>1 DEF Walk
      <4>3. QED
        BY <1>3, <1>4, <4>1, <4>2
    <3>3. QED
      BY <3>1, <3>2
  <2>4. \/ new.next[t[n + 1]] = 0
        \/ \E k \in 1 .. n + 1 : new.next[t[n + 1]] = t[k] + 1
    <3>1. CASE n = 0
      BY <1>1, <1>3, <3>1 DEF Walk
    <3>2. CASE n > 0
      <4>1. t[n + 1] = s[n] /\ s[n] \in Fd \ {fd}
        BY <1>4, <3>2
      <4>2. ASSUME NEW k \in 1 .. n, list.next[s[n]] = s[k] + 1
            PROVE  k + 1 \in 1 .. n + 1 /\ new.next[t[n + 1]] = t[k + 1] + 1
        BY <1>3, <4>1, <4>2
      <4>3. new.next[t[n + 1]] = list.next[s[n]]
        BY <1>3, <4>1
      <4>4. list.next[s[n]] = 0 \/ \E k \in 1 .. n : list.next[s[n]] = s[k] + 1
        BY <1>1, <3>2 DEF Walk
      <4> HIDE DEF t
      <4>5. QED
        BY <4>2, <4>3, <4>4
    <3>3. QED
      BY <3>1, <3>2
  <2>5. ASSUME NEW g \in Fd, new.next[g] # 0
        PROVE  \E i \in 1 .. n + 1 : t[i] = g
    <3>1. CASE g = fd
      BY <3>1
    <3>2. CASE g # fd
      <4>1. PICK i \in 1 .. n : s[i] = g
        BY <1>1, <1>3, <2>5, <3>2 DEF Walk
      <4>2. i + 1 \in 1 .. n + 1 /\ t[i + 1] = g
        BY <4>1
      <4>3. QED
        BY <4>2
    <3>3. QED
      BY <3>1, <3>2
  <2>6. new.head = IF n + 1 = 0 THEN 0 ELSE t[1] + 1
    BY <1>3
  <2> HIDE DEF t
  <2>7. Walk(new, n + 1, t)
    <3>1. (n + 1) - 1 = n
      OBVIOUS
    <3>2. QED
      BY <2>2, <2>3, <2>4, <2>5, <2>6, <3>1 DEF Walk
  <2>8. QED
    BY <1>2, <2>1, <2>7 DEF WellLinked
<1>5. CASE \E i \in 1 .. n : s[i] = fd
  <2> DEFINE t == [i \in 1 .. n |-> IF i = 1 THEN fd ELSE s[i - 1]]
  <2>1. n > 0 /\ s[n] = fd /\ \A i \in 1 .. n - 1 : s[i] # fd
    <3>1. PICK i \in 1 .. n : s[i] = fd
      BY <1>5
    <3>2. i = n
      <4> SUFFICES ASSUME i # n PROVE FALSE
        OBVIOUS
      <4>1. i \in 1 .. n - 1 /\ i + 1 \in 1 .. n
        BY <3>1
      <4>2. list.next[s[i]] = s[i + 1] + 1
        BY <1>1, <4>1 DEF Walk
      <4>3. s[i + 1] \in Nat
        BY <1>1, <4>1, FdNat
      <4>4. QED
        BY <1>1, <3>1, <4>2, <4>3
    <3>3. QED
      BY <1>1, <3>1, <3>2 DEF Walk
  <2>2. t \in [1 .. n -> Fd]
    OBVIOUS
  <2>3. \A i, j \in 1 .. n : t[i] = t[j] => i = j
    BY <1>1, <2>1 DEF Walk
  <2>4. \A i \in 1 .. n - 1 : new.next[t[i]] = t[i + 1] + 1
    <3> TAKE i \in 1 .. n - 1
    <3>1. CASE i = 1
      BY <1>1, <1>3, <3>1 DEF Walk
    <3>2. CASE i # 1
      <4>1. i - 1 \in 1 .. n - 1 /\ t[i] = s[i - 1] /\ t[i + 1] = s[i] /\ (i - 1) + 1 = i
        BY <3>2
      <4>2. list.next[s[i - 1]] = s[i] + 1
        BY <1>1, <4>1 DEF Walk
      <4>3. QED
        BY <1>3, <2>1, <4>1, <4>2
    <3>3. QED
      BY <3>1, <3>2
  <2>5. new.next[t[n]] = t[1] + 1
    <3>1. CASE n = 1
      BY <1>1, <1>3, <2>1, <3>1 DEF Walk
    <3>2. CASE n > 1
      <4>1. n - 1 \in 1 .. n - 1 /\ t[n] = s[n - 1] /\ (n - 1) + 1 = n
        BY <3>2
      <4>2. list.next[s[n - 1]] = s[n] + 1
        BY <1>1, <4>1 DEF Walk
      <4>3. QED
        BY <1>3, <2>1, <4>1, <4>2
    <3>3. QED
      BY <2>1, <3>1, <3>2
  <2>6. ASSUME NEW g \in Fd, new.next[g] # 0
        PROVE  \E i \in 1 .. n : t[i] = g
    <3>1. CASE g = fd
      BY <2>1, <3>1
    <3>2. CASE g # fd
      <4>1. PICK i \in 1 .. n : s[i] = g
        BY <1>1, <1>3, <2>6, <3>2 DEF Walk
      <4>2. i + 1 \in 1 .. n /\ t[i + 1] = g
        BY <2>1, <3>2, <4>1
      <4>3. QED
        BY <4>2
    <3>3. QED
      BY <3>1, <3>2
  <2>7. new.head = IF n = 0 THEN 0 ELSE t[1] + 1
    BY <1>3, <2>1
  <2>8. Walk(new, n, t)
    <3>1. n > 0 => \E k \in 1 .. n : new.next[t[n]] = t[k] + 1
      BY <2>1, <2>5
    <3>2. QED
      BY <2>3, <2>4, <2>6, <2>7, <3>1 DEF Walk
  <2>9. QED
    BY <1>2, <2>2, <2>8 DEF WellLinked
<1>6. QED
  BY <1>4, <1>5

\* pop_change takes the first off, who may come back when the others lead to it;
\* nobody else leaves the list.
LEMMA PopKeeps ==
  ASSUME FdAssumption, NEW m \in 0 .. MaxFd + 1, NEW list \in Lists(m), list.head # 0
  PROVE  /\ list.head - 1 \in Fd
         /\ PopChange(list) \in Lists(m)
         /\ \A g \in Fd : g # list.head - 1 /\ On(list, g) => On(PopChange(list), g)
<1> DEFINE fd == list.head - 1
<1> DEFINE new == [head |-> list.next[fd], next |-> [list.next EXCEPT ![fd] = 0]]
<1>1. fd \in Fd /\ PopChange(list) = new
  BY FdNat DEF Lists, Fd, PopChange
<1>2. new \in Lists(m)
  BY <1>1 DEF Lists
<1>3. ASSUME NEW g \in Fd, g # fd, On(list, g)
      PROVE  On(new, g)
  <2>1. list.head # g + 1
    BY <1>3, FdNat DEF Lists
  <2>2. PICK h \in Fd : list.next[h] = g + 1
    BY <1>3, <2>1 DEF On
  <2>3. CASE h = fd
    BY <2>2, <2>3 DEF On
  <2>4. CASE h # fd
    <3>1. new.next[h] = g + 1
      BY <2>2, <2>4 DEF Lists
    <3>2. QED
      BY <3>1 DEF On
  <2>5. QED
    BY <2>3, <2>4
<1>4. QED
  BY <1>1, <1>2, <1>3

LEMMA PopWalks ==
  ASSUME FdAssumption, NEW m \in 0 .. MaxFd + 1, NEW list \in Lists(m), WellLinked(list),
         list.head # 0
  PROVE  WellLinked(PopChange(list))
<1>0. PICK n \in Nat : \E s \in [1 .. n -> Fd] : Walk(list, n, s)
  BY DEF WellLinked
<1>1. PICK s \in [1 .. n -> Fd] : Walk(list, n, s)
  BY <1>0
<1> DEFINE fd == list.head - 1
<1> DEFINE new == [head |-> list.next[fd], next |-> [list.next EXCEPT ![fd] = 0]]
<1>2. n > 0 /\ fd = s[1] /\ fd \in Fd /\ list.head = fd + 1
  <2>1. n > 0 /\ list.head = s[1] + 1
    BY <1>1 DEF Walk
  <2>2. s[1] \in Fd /\ s[1] \in Nat
    BY <2>1, FdNat
  <2>3. (s[1] + 1) - 1 = s[1]
    BY <2>2
  <2>4. QED
    BY <2>1, <2>2, <2>3
<1>3. PopChange(list) = new
  BY DEF PopChange
<1>4. /\ new.head = list.next[fd] /\ new.next[fd] = 0
      /\ \A g \in Fd \ {fd} : new.next[g] = list.next[g]
  BY <1>2 DEF Lists
<1> HIDE DEF new, fd
<1>5. \A i \in 2 .. n : s[i] \in Fd \ {fd}
  BY <1>1, <1>2 DEF Walk
<1>6. CASE list.next[s[n]] = s[1] + 1
  <2> DEFINE t == [i \in 1 .. n |-> IF i = n THEN s[1] ELSE s[i + 1]]
  <2>1. t \in [1 .. n -> Fd]
    BY <1>2
  <2>2. \A i, j \in 1 .. n : t[i] = t[j] => i = j
    BY <1>1, <1>2 DEF Walk
  <2>3. new.next[t[n]] = 0
    BY <1>2, <1>4
  <2>4. new.head = t[1] + 1
    <3>1. CASE n = 1
      BY <1>2, <1>4, <1>6, <3>1
    <3>2. CASE n > 1
      <4>1. 1 \in 1 .. n - 1 /\ t[1] = s[1 + 1]
        BY <3>2
      <4>2. QED
        BY <1>1, <1>2, <1>4, <4>1 DEF Walk
    <3>3. QED
      BY <1>2, <3>1, <3>2
  <2>5. \A i \in 1 .. n - 1 : new.next[t[i]] = t[i + 1] + 1
    <3> TAKE i \in 1 .. n - 1
    <3>1. t[i] = s[i + 1] /\ i + 1 \in 2 .. n
      OBVIOUS
    <3>2. new.next[t[i]] = list.next[s[i + 1]]
      BY <1>4, <1>5, <3>1
    <3>3. CASE i + 1 = n
      BY <1>6, <3>2, <3>3
    <3>4. CASE i + 1 # n
      <4>1. i + 1 \in 1 .. n - 1 /\ t[i + 1] = s[(i + 1) + 1]
        BY <3>4
      <4>2. QED
        BY <1>1, <3>2, <4>1 DEF Walk
    <3>5. QED
      BY <3>3, <3>4
  <2>6. ASSUME NEW g \in Fd, new.next[g] # 0
        PROVE  \E i \in 1 .. n : t[i] = g
    <3>1. g # fd /\ list.next[g] # 0
      BY <1>4, <2>6
    <3>2. PICK i \in 1 .. n : s[i] = g
      BY <1>1, <3>1 DEF Walk
    <3>3. i - 1 \in 1 .. n /\ t[i - 1] = g
      BY <1>2, <3>1, <3>2
    <3>4. QED
      BY <3>3
  <2> HIDE DEF t
  <2>7. Walk(new, n, t)
    BY <1>2, <2>2, <2>3, <2>4, <2>5, <2>6 DEF Walk
  <2>8. QED
    BY <1>3, <2>1, <2>7 DEF WellLinked
<1>7. CASE list.next[s[n]] # s[1] + 1
  <2> DEFINE t == [i \in 1 .. n - 1 |-> s[i + 1]]
  <2>1. t \in [1 .. n - 1 -> Fd] /\ n - 1 \in Nat
    BY <1>2
  <2>2. \A i, j \in 1 .. n - 1 : t[i] = t[j] => i = j
    BY <1>1, <1>2 DEF Walk
  <2>3. new.head = IF n - 1 = 0 THEN 0 ELSE t[1] + 1
    <3>1. CASE n = 1
      BY <1>1, <1>2, <1>4, <1>7, <3>1 DEF Walk
    <3>2. CASE n > 1
      <4>1. 1 \in 1 .. n - 1 /\ t[1] = s[1 + 1] /\ n - 1 # 0
        BY <3>2
      <4>2. QED
        BY <1>1, <1>2, <1>4, <4>1 DEF Walk
    <3>3. QED
      BY <1>2, <3>1, <3>2
  <2>4. \A i \in 1 .. (n - 1) - 1 : new.next[t[i]] = t[i + 1] + 1
    <3> TAKE i \in 1 .. (n - 1) - 1
    <3>1. i + 1 \in 2 .. n /\ i + 1 \in 1 .. n - 1 /\ t[i] = s[i + 1] /\ t[i + 1] = s[(i + 1) + 1]
      OBVIOUS
    <3>2. list.next[s[i + 1]] = s[(i + 1) + 1] + 1
      BY <1>1, <3>1 DEF Walk
    <3>3. new.next[s[i + 1]] = list.next[s[i + 1]]
      BY <1>4, <1>5, <3>1
    <3> HIDE DEF t
    <3>4. QED
      BY <3>1, <3>2, <3>3
  <2>5. ASSUME n - 1 > 0
        PROVE  \/ new.next[t[n - 1]] = 0
               \/ \E k \in 1 .. n - 1 : new.next[t[n - 1]] = t[k] + 1
    <3>1. t[n - 1] = s[n] /\ n \in 2 .. n
      BY <2>5
    <3>2. new.next[t[n - 1]] = list.next[s[n]]
      BY <1>4, <1>5, <3>1
    <3>3. ASSUME NEW k \in 1 .. n, list.next[s[n]] = s[k] + 1
          PROVE  k - 1 \in 1 .. n - 1 /\ list.next[s[n]] = t[k - 1] + 1
      <4>1. k # 1
        BY <1>7, <3>3
      <4>2. QED
        BY <3>3, <4>1
    <3>4. list.next[s[n]] = 0 \/ \E k \in 1 .. n : list.next[s[n]] = s[k] + 1
      BY <1>1, <1>2 DEF Walk
    <3> HIDE DEF t
    <3>5. QED
      BY <3>2, <3>3, <3>4
  <2>6. ASSUME NEW g \in Fd, new.next[g] # 0
        PROVE  \E i \in 1 .. n - 1 : t[i] = g
    <3>1. g # fd /\ list.next[g] # 0
      BY <1>4, <2>6
    <3>2. PICK i \in 1 .. n : s[i] = g
      BY <1>1, <3>1 DEF Walk
    <3>3. i - 1 \in 1 .. n - 1 /\ t[i - 1] = g
      BY <1>2, <3>1, <3>2
    <3>4. QED
      BY <3>3
  <2> HIDE DEF t
  <2>7. Walk(new, n - 1, t)
    BY <2>2, <2>3, <2>4, <2>5, <2>6 DEF Walk
  <2>8. QED
    BY <1>3, <2>1, <2>7 DEF WellLinked
<1>8. QED
  BY <1>6, <1>7

\* The hooks of canceled and triggered events do the same, once or twice.
LEMMA DisinterestOK ==
  ASSUME FdAssumption, NEW n \in Nat, NEW list \in Lists(n), WellLinked(list),
         NEW fd \in Fd, NEW actions \in SUBSET Action, actions # {} => fd < n
  PROVE  /\ Disinterest(list, fd, actions) \in Lists(n)
         /\ WellLinked(Disinterest(list, fd, actions))
         /\ actions # {} => On(Disinterest(list, fd, actions), fd)
         /\ \A g \in Fd : On(list, g) => On(Disinterest(list, fd, actions), g)
<1>1. CASE actions = {}
  BY <1>1, FS_EmptySet DEF Disinterest
<1>2. CASE actions # {}
  <2> DEFINE one == PushChange(list, fd)
  <2>1. IsFiniteSet(actions)
    <3>1. IsFiniteSet({"read"})
      BY FS_Singleton
    <3>2. IsFiniteSet({"read"} \cup {"write"})
      BY <3>1, FS_AddElement
    <3>3. IsFiniteSet(({"read"} \cup {"write"}) \cup {"hangup"})
      BY <3>2, FS_AddElement
    <3>4. Action = ({"read"} \cup {"write"}) \cup {"hangup"}
      BY DEF Action
    <3>5. QED
      BY <3>3, <3>4, FS_Subset
  <2>2. Cardinality(actions) # 0
    BY <1>2, <2>1, FS_EmptySet
  <2>3. one \in Lists(n) /\ WellLinked(one) /\ On(one, fd)
        /\ \A g \in Fd : On(list, g) => On(one, g)
    BY <1>2, PushKeeps, PushWalks
  <2>4. PushChange(one, fd) \in Lists(n) /\ WellLinked(PushChange(one, fd))
        /\ On(PushChange(one, fd), fd)
        /\ \A g \in Fd : On(one, g) => On(PushChange(one, fd), g)
    BY <1>2, <2>3, PushKeeps, PushWalks
  <2>5. Disinterest(list, fd, actions) \in {one, PushChange(one, fd)}
    BY <2>2 DEF Disinterest
  <2> HIDE DEF one
  <2>6. QED
    BY <2>3, <2>4, <2>5
<1>3. QED
  BY <1>1, <1>2

(* The poll set *)

Entry == [fd : Fd, events : SUBSET Bit]
PollSet == Seq(Entry)
Maps == [Fd -> 0 .. MaxFd + 1]

EventsIn(p, map, fd) == IF map[fd] = 0 THEN {} ELSE p[map[fd]].events

\* MapCoherent of any array and map
Coherent(p, map) ==
  /\ \A fd \in Fd : map[fd] # 0 =>
       map[fd] \in DOMAIN p /\ p[map[fd]].fd = fd /\ p[map[fd]].events # {}
  /\ \A i \in DOMAIN p : map[p[i].fd] = i

LEMMA PollBits ==
  ASSUME NEW actions \in SUBSET Action
  PROVE  PollEvents(actions) \in SUBSET Bit /\ (PollEvents(actions) = {} <=> actions = {})
BY DEF PollEvents, Bit, Action

\* As long as a descriptor is missing there is room for one.
LEMMA Room ==
  ASSUME FdAssumption, pfds \in PollSet, fdmap \in Maps, MapCoherent,
         NEW fd \in Fd, fdmap[fd] = 0
  PROVE  Len(pfds) <= MaxFd
<1> DEFINE f == [i \in 1 .. Len(pfds) |-> pfds[i].fd]
<1>1. Len(pfds) \in Nat /\ DOMAIN pfds = 1 .. Len(pfds)
  BY DEF PollSet
<1>2. \A i \in 1 .. Len(pfds) : pfds[i].fd \in Fd
  <2> TAKE i \in 1 .. Len(pfds)
  <2>1. pfds[i] \in Entry
    BY ElementOfSeq DEF PollSet
  <2>2. QED
    BY <2>1 DEF Entry
<1>3. \A i \in 1 .. Len(pfds) : fdmap[pfds[i].fd] = i
  BY <1>1 DEF MapCoherent
<1>4. f \in [1 .. Len(pfds) -> Fd \ {fd}]
  BY <1>1, <1>2, <1>3
<1>5. f \in Injection(1 .. Len(pfds), Fd \ {fd})
  BY <1>3, <1>4 DEF Injection, IsInjective
<1>6. IsFiniteSet(Fd) /\ Cardinality(Fd) = MaxFd + 1
  BY FdNat, FS_Interval DEF Fd
<1>7. IsFiniteSet(Fd \ {fd}) /\ Cardinality(Fd \ {fd}) = MaxFd
  <2>1. IsFiniteSet(Fd \ {fd}) /\ Cardinality(Fd \ {fd}) = Cardinality(Fd) - 1
    BY <1>6, FS_RemoveElement
  <2>2. QED
    BY <1>6, <2>1, FdNat
<1>8. Cardinality(1 .. Len(pfds)) = Len(pfds)
  <2> DEFINE n == Len(pfds)
  <2>1. n \in Nat /\ n \in Int /\ 1 \in Int
    BY <1>1
  <2> HIDE DEF n
  <2>2. Cardinality(1 .. n) = IF 1 > n THEN 0 ELSE n - 1 + 1
    BY <2>1, FS_Interval
  <2>3. Cardinality(1 .. n) = n
    BY <2>1, <2>2
  <2>4. QED
    BY <2>3 DEF n
<1> HIDE DEF f
<1>9. QED
  BY <1>5, <1>7, <1>8, FS_Injection

\* set_events changes the events of one descriptor and keeps the others', although
\* the last element may move.
LEMMA SetEventsOK ==
  ASSUME FdAssumption, pfds \in PollSet, fdmap \in Maps, MapCoherent,
         NEW fd \in Fd, NEW events \in SUBSET Bit, events # Events(fd)
  PROVE  /\ SetEvents(fd, events).pfds \in PollSet
         /\ SetEvents(fd, events).map \in Maps
         /\ Coherent(SetEvents(fd, events).pfds, SetEvents(fd, events).map)
         /\ \A g \in Fd :
              EventsIn(SetEvents(fd, events).pfds, SetEvents(fd, events).map, g)
                = IF g = fd THEN events ELSE Events(g)
<1> DEFINE p == SetEvents(fd, events).pfds
           map == SetEvents(fd, events).map
<1>1. Len(pfds) \in Nat /\ DOMAIN pfds = 1 .. Len(pfds)
  BY DEF PollSet
<1>2. \A i \in 1 .. Len(pfds) :
        pfds[i] \in Entry /\ pfds[i].fd \in Fd /\ fdmap[pfds[i].fd] = i
  <2> TAKE i \in 1 .. Len(pfds)
  <2>1. pfds[i] \in Entry
    BY ElementOfSeq DEF PollSet
  <2>2. QED
    BY <1>1, <2>1 DEF MapCoherent, Entry
<1>3. \A g \in Fd : fdmap[g] # 0 =>
        fdmap[g] \in 1 .. Len(pfds) /\ pfds[fdmap[g]].fd = g /\ pfds[fdmap[g]].events # {}
  BY <1>1 DEF MapCoherent
<1>4. CASE fdmap[fd] = 0
  <2> DEFINE new == [fd |-> fd, events |-> events]
  <2>1. p = Append(pfds, new) /\ map = [fdmap EXCEPT ![fd] = Len(pfds) + 1]
    BY <1>4 DEF SetEvents
  <2>2. events # {}
    BY <1>4 DEF Events
  <2>3. Len(pfds) + 1 \in 1 .. MaxFd + 1
    BY <1>1, <1>4, Room, FdNat
  <2>4. /\ p \in PollSet /\ DOMAIN p = 1 .. Len(pfds) + 1
        /\ p[Len(pfds) + 1] = new /\ \A i \in 1 .. Len(pfds) : p[i] = pfds[i]
    BY <1>1, <2>1 DEF PollSet, Entry
  <2>5. /\ map \in Maps /\ map[fd] = Len(pfds) + 1
        /\ \A g \in Fd \ {fd} : map[g] = fdmap[g]
    BY <2>1, <2>3 DEF Maps
  <2> HIDE DEF p, map
  <2>6. \A i \in 1 .. Len(pfds) : pfds[i].fd \in Fd \ {fd}
    BY <1>2, <1>4
  <2>7. Coherent(p, map)
    <3>1. ASSUME NEW g \in Fd, map[g] # 0
          PROVE  map[g] \in DOMAIN p /\ p[map[g]].fd = g /\ p[map[g]].events # {}
      <4>1. CASE g = fd
        BY <1>1, <2>2, <2>4, <2>5, <4>1
      <4>2. CASE g # fd
        BY <1>1, <1>3, <2>4, <2>5, <3>1, <4>2
      <4>3. QED
        BY <4>1, <4>2
    <3>2. ASSUME NEW i \in DOMAIN p
          PROVE  map[p[i].fd] = i
      <4>1. CASE i = Len(pfds) + 1
        BY <2>4, <2>5, <4>1
      <4>2. CASE i \in 1 .. Len(pfds)
        BY <1>2, <2>4, <2>5, <2>6, <4>2
      <4>3. QED
        BY <1>1, <2>4, <4>1, <4>2
    <3>3. QED
      BY <3>1, <3>2 DEF Coherent
  <2>8. \A g \in Fd : EventsIn(p, map, g) = IF g = fd THEN events ELSE Events(g)
    BY <1>1, <1>3, <2>4, <2>5 DEF EventsIn, Events
  <2>9. QED
    BY <2>4, <2>5, <2>7, <2>8 DEF p, map
<1>5. CASE fdmap[fd] # 0 /\ events # {}
  <2> DEFINE at == fdmap[fd]
  <2>1. p = [pfds EXCEPT ![at].events = events] /\ map = fdmap
    BY <1>5 DEF SetEvents
  <2>2. at \in 1 .. Len(pfds) /\ pfds[at].fd = fd
    BY <1>3, <1>5
  <2>3. /\ p \in PollSet /\ DOMAIN p = 1 .. Len(pfds)
        /\ p[at].events = events
        /\ \A i \in 1 .. Len(pfds) : p[i].fd = pfds[i].fd /\ (i # at => p[i] = pfds[i])
    <3>1. p = [pfds EXCEPT ![at] = [fd |-> fd, events |-> events]]
      BY <1>1, <1>2, <2>1, <2>2 DEF Entry
    <3>2. QED
      BY <1>1, <1>2, <2>2, <3>1 DEF PollSet, Entry
  <2> HIDE DEF p, map
  <2>4. ASSUME NEW g \in Fd, g # fd, fdmap[g] # 0
        PROVE  fdmap[g] # at
    BY <1>3, <2>2, <2>4
  <2>5. Coherent(p, map)
    BY <1>2, <1>3, <1>5, <2>1, <2>2, <2>3, <2>4 DEF Coherent
  <2>6. \A g \in Fd : EventsIn(p, map, g) = IF g = fd THEN events ELSE Events(g)
    BY <1>3, <1>5, <2>1, <2>3, <2>4 DEF EventsIn, Events
  <2>7. QED
    BY <2>1, <2>3, <2>5, <2>6 DEF p, map
<1>6. CASE fdmap[fd] # 0 /\ events = {}
  <2> DEFINE n == Len(pfds)
             at == fdmap[fd]
             last == pfds[n].fd
  <2>1. at \in 1 .. n /\ pfds[at].fd = fd
    BY <1>3, <1>6
  <2>2. last \in Fd /\ fdmap[last] = n /\ n \in 1 .. MaxFd + 1
    <3>1. n \in 1 .. n
      BY <1>1, <2>1
    <3>2. QED
      BY <1>1, <1>2, <3>1 DEF Maps
  <2>3. /\ p = [i \in 1 .. n - 1 |-> IF i = at THEN pfds[n] ELSE pfds[i]]
        /\ map = [fdmap EXCEPT ![last] = at, ![fd] = 0]
    BY <1>6 DEF SetEvents
  <2>4. /\ p \in PollSet /\ DOMAIN p = 1 .. n - 1
        /\ \A i \in 1 .. n - 1 : p[i] = IF i = at THEN pfds[n] ELSE pfds[i]
    <3>1. \A i \in 1 .. n - 1 : p[i] \in Entry
      BY <1>1, <1>2, <2>2, <2>3
    <3>2. QED
      BY <1>1, <2>2, <2>3, <3>1 DEF PollSet
  <2>5. /\ map \in Maps /\ map[fd] = 0
        /\ \A g \in Fd \ {fd} : map[g] = IF g = last THEN at ELSE fdmap[g]
    <3>1. at \in 0 .. MaxFd + 1
      BY DEF Maps
    <3>2. fdmap \in [Fd -> 0 .. MaxFd + 1] /\ 0 \in 0 .. MaxFd + 1
      BY FdNat DEF Maps
    <3> HIDE DEF at, last, p
    <3>3. QED
      BY <2>2, <2>3, <3>1, <3>2 DEF Maps
  <2>6. \A g \in Fd : fdmap[g] = n => g = last
    BY <1>3, <2>1, <2>2
  <2>7. \A g \in Fd : fdmap[g] = at => g = fd
    BY <1>3, <1>6, <2>1
  <2> HIDE DEF p, map
  <2>8. ASSUME NEW g \in Fd \ {fd}, fdmap[g] # 0
        PROVE  map[g] \in 1 .. n - 1 /\ p[map[g]] = pfds[fdmap[g]]
    <3>1. CASE g = last
      BY <1>1, <2>1, <2>2, <2>4, <2>5, <2>7, <2>8, <3>1
    <3>2. CASE g # last
      <4>1. fdmap[g] \in 1 .. n /\ fdmap[g] # n /\ fdmap[g] # at
        BY <1>3, <2>6, <2>7, <2>8, <3>2
      <4>2. QED
        BY <1>1, <2>4, <2>5, <3>2, <4>1
    <3>3. QED
      BY <3>1, <3>2
  <2>9. Coherent(p, map)
    <3>1. ASSUME NEW g \in Fd, map[g] # 0
          PROVE  map[g] \in DOMAIN p /\ p[map[g]].fd = g /\ p[map[g]].events # {}
      <4>1. g # fd /\ fdmap[g] # 0
        BY <1>1, <2>2, <2>5, <3>1
      <4>2. QED
        BY <1>3, <2>4, <2>8, <4>1
    <3>2. ASSUME NEW i \in DOMAIN p
          PROVE  map[p[i].fd] = i
      <4>1. i \in 1 .. n - 1 /\ i \in 1 .. n /\ i # n
        BY <1>1, <2>2, <2>4
      <4>2. CASE i = at
        <5>1. p[i].fd = last /\ last # fd
          BY <2>2, <2>4, <4>1, <4>2
        <5>2. QED
          BY <2>2, <2>5, <4>2, <5>1
      <4>3. CASE i # at
        <5>1. p[i] = pfds[i] /\ pfds[i].fd \in Fd /\ fdmap[pfds[i].fd] = i
          BY <1>2, <2>4, <4>1, <4>3
        <5>2. pfds[i].fd # fd /\ pfds[i].fd # last
          BY <2>2, <4>1, <4>3, <5>1
        <5>3. QED
          BY <2>5, <5>1, <5>2
      <4>4. QED
        BY <4>2, <4>3
    <3>3. QED
      BY <3>1, <3>2 DEF Coherent
  <2>10. ASSUME NEW g \in Fd
         PROVE  EventsIn(p, map, g) = IF g = fd THEN events ELSE Events(g)
    <3>1. CASE g = fd
      BY <1>6, <2>5, <3>1 DEF EventsIn
    <3>2. CASE g # fd /\ fdmap[g] = 0
      <4>1. map[g] = 0
        BY <1>1, <2>2, <2>5, <3>2
      <4>2. QED
        BY <3>2, <4>1 DEF EventsIn, Events
    <3>3. CASE g # fd /\ fdmap[g] # 0
      <4>1. map[g] # 0 /\ p[map[g]] = pfds[fdmap[g]]
        BY <1>1, <2>8, <3>3
      <4>2. QED
        BY <3>3, <4>1 DEF EventsIn, Events
    <3>4. QED
      BY <3>1, <3>2, <3>3
  <2>11. QED
    BY <2>4, <2>5, <2>9, <2>10 DEF p, map
<1>7. QED
  BY <1>4, <1>5, <1>6

(***************************************************************************)
(* The inductive invariant.                                                *)
(***************************************************************************)

\* Somebody waits only for descriptors that are open and have a driver_fd.
WantOpen == \A fd \in Fd : want[fd] # {} => fd \in open /\ fd < nfds

\* What epoll watches is what the poll set says, but for descriptors whose number
\* may have been reused, in a set that nobody else changes.
Registered ==
  /\ \A fd \in Fd \ open : reg[fd] = {}
  /\ epoll /\ ~SetShared(share) => \A fd \in open \ EarlyReuse : reg[fd] = Events(fd)

WatchInv ==
  /\ TypeOK
  /\ epoll => errors < MaxErrors
  /\ WellLinked(changes)
  /\ MapCoherent
  /\ ChangesNoticed
  /\ WantOpen
  /\ Registered
  /\ PollSetOpen

LEMMA Types ==
  TypeOK <=>
    /\ open \subseteq Fd /\ want \in [Fd -> SUBSET Action]
    /\ nfds \in 0 .. MaxFd + 1 /\ changes \in Lists(nfds)
    /\ pfds \in PollSet /\ fdmap \in Maps
    /\ reg \in [Fd -> SUBSET Bit] /\ epoll \in BOOLEAN
    /\ errors \in 0 .. MaxErrors /\ share \in {"alone", "files", "set", "parent"}
    /\ phase \in {"outside", "closures", "update", "wait"}
BY DEF TypeOK, Lists, PollSet, Entry, Maps, User

LEMMA WatchInit == ASSUME FdAssumption, Init PROVE WatchInv
<1> USE DEF Init
<1>1. TypeOK
  <2>1. pfds \in PollSet
    BY DEF PollSet
  <2>2. changes \in Lists(nfds) /\ fdmap \in Maps /\ reg \in [Fd -> SUBSET Bit]
    BY FdNat DEF Lists, Maps
  <2>3. nfds \in 0 .. MaxFd + 1 /\ errors \in 0 .. MaxErrors
    BY FdNat DEF FdAssumption
  <2>4. QED
    BY <2>1, <2>2, <2>3, Types
<1>2. WellLinked(changes)
  <2> DEFINE s == [i \in 1 .. 0 |-> 0]
  <2>1. s \in [1 .. 0 -> Fd] /\ 0 \in Nat
    OBVIOUS
  <2>2. Walk(changes, 0, s)
    BY DEF Walk
  <2>3. QED
    BY <2>1, <2>2 DEF WellLinked
<1>3. MapCoherent
  BY DEF MapCoherent
<1>4. ChangesNoticed
  BY DEF ChangesNoticed, Events, PollEvents
<1>5. WantOpen /\ Registered /\ PollSetOpen /\ (epoll => errors < MaxErrors)
  BY DEF WantOpen, Registered, Events, PollSetOpen, FdAssumption
<1>6. QED
  BY <1>1, <1>2, <1>3, <1>4, <1>5 DEF WatchInv

\* The list of changes takes in whoever is changed: the part of the proof that the
\* operations on events have in common.
LEMMA Noticed ==
  ASSUME WatchInv, want' \in [Fd -> SUBSET Action], UNCHANGED <<pfds, fdmap>>,
         \A g \in Fd : On(changes, g) => On(changes', g),
         \A g \in Fd : want'[g] = want[g] \/ On(changes', g)
  PROVE  ChangesNoticed' /\ MapCoherent' /\ \A g \in Fd : Events(g)' = Events(g)
<1>1. \A g \in Fd : Events(g)' = Events(g)
  BY DEF Events
<1>2. MapCoherent'
  BY DEF WatchInv, MapCoherent
<1>3. ChangesNoticed'
  BY <1>1 DEF WatchInv, ChangesNoticed, OnList, On
<1>4. QED
  BY <1>1, <1>2, <1>3

LEMMA OpenStep == ASSUME FdAssumption, WatchInv, NEW fd \in Fd, Open(fd) PROVE WatchInv'
<1> USE DEF WatchInv, Open, driverVars, epollVars, User
<1>1. TypeOK'
  BY Types DEF TypeOK
<1>2. ChangesNoticed' /\ MapCoherent' /\ \A g \in Fd : Events(g)' = Events(g)
  BY Noticed, Types
<1>3. Registered'
  BY <1>2 DEF Registered, Events
<1>4. QED
  BY <1>1, <1>2, <1>3 DEF WantOpen, PollSetOpen

LEMMA AtFdStep ==
  ASSUME FdAssumption, WatchInv, NEW fd \in Fd, NEW action \in Action, AtFd(fd, action)
  PROVE  WatchInv'
<1> USE DEF WatchInv, AtFd, driverVars, epollVars, User
<1>1. nfds' \in 0 .. MaxFd + 1 /\ nfds <= nfds' /\ fd < nfds'
  BY Types, FdNat DEF Expand, Fd
<1>2. changes \in Lists(nfds')
  BY <1>1, Types DEF Lists
<1>3. /\ changes' \in Lists(nfds') /\ On(changes', fd)
      /\ \A g \in Fd : On(changes, g) => On(changes', g)
  BY <1>1, <1>2, PushKeeps
<1>4. WellLinked(changes')
  BY <1>1, <1>2, PushWalks
<1>5. want' \in [Fd -> SUBSET Action] /\ \A g \in Fd : g # fd => want'[g] = want[g]
  BY Types
<1>6. TypeOK'
  BY <1>1, <1>3, <1>5, Types DEF TypeOK, Lists
<1>7. ChangesNoticed' /\ MapCoherent' /\ \A g \in Fd : Events(g)' = Events(g)
  BY <1>3, <1>5, Noticed
<1>8. WantOpen'
  BY <1>1, <1>5, Types, FdNat DEF WantOpen
<1>9. Registered'
  BY <1>7, Types DEF Registered
<1>10. QED
  BY <1>4, <1>6, <1>7, <1>8, <1>9 DEF PollSetOpen

\* Cancel and Deliver take away events that are active.
LEMMA Lose ==
  ASSUME FdAssumption, WatchInv, NEW fd \in Fd, NEW actions \in SUBSET want[fd],
         want' = [want EXCEPT ![fd] = @ \ actions],
         changes' = Disinterest(changes, fd, actions),
         UNCHANGED <<open, nfds, driverVars, phase>>
  PROVE  WatchInv'
<1> USE DEF WatchInv, driverVars, epollVars, User
<1>1. actions \in SUBSET Action /\ nfds \in Nat /\ (actions # {} => fd < nfds)
  BY Types DEF WantOpen
<1>2. /\ changes' \in Lists(nfds) /\ WellLinked(changes')
      /\ actions # {} => On(changes', fd)
      /\ \A g \in Fd : On(changes, g) => On(changes', g)
  BY <1>1, DisinterestOK, Types
<1>3. /\ want' \in [Fd -> SUBSET Action] /\ want'[fd] = want[fd] \ actions
      /\ \A g \in Fd : g # fd => want'[g] = want[g]
  BY Types
<1>4. TypeOK'
  BY <1>2, <1>3, Types DEF TypeOK, Lists
<1>5. ChangesNoticed' /\ MapCoherent' /\ \A g \in Fd : Events(g)' = Events(g)
  BY <1>2, <1>3, Noticed
<1>6. WantOpen' /\ PollSetOpen'
  BY <1>3 DEF WantOpen, PollSetOpen
<1>7. Registered'
  BY <1>5, Types DEF Registered
<1>8. QED
  BY <1>2, <1>4, <1>5, <1>6, <1>7

LEMMA CloseStep == ASSUME FdAssumption, WatchInv, NEW fd \in Fd, Close(fd) PROVE WatchInv'
<1> USE DEF WatchInv, Close, User
<1>1. /\ want' \in [Fd -> SUBSET Action] /\ want'[fd] = {}
      /\ \A g \in Fd : g # fd => want'[g] = want[g]
  BY Types
<1>2. /\ changes' \in Lists(nfds) /\ WellLinked(changes')
      /\ \A g \in Fd : On(changes, g) => On(changes', g)
      /\ want[fd] # {} => On(changes', fd)
  <2>1. CASE fd >= nfds
    BY <2>1, Types, FdNat DEF WantOpen
  <2>2. CASE ~(fd >= nfds)
    <3> DEFINE first == Disinterest(changes, fd, want[fd])
    <3>1. nfds \in Nat /\ fd < nfds /\ want[fd] \in SUBSET Action /\ changes \in Lists(nfds)
      BY <2>2, Types, FdNat
    <3>2. /\ first \in Lists(nfds) /\ WellLinked(first)
          /\ \A g \in Fd : On(changes, g) => On(first, g)
      BY <3>1, DisinterestOK
    <3>3. changes' = PushChange(first, fd)
      BY <2>2
    <3> HIDE DEF first
    <3>4. changes' \in Lists(nfds) /\ On(changes', fd)
          /\ \A g \in Fd : On(first, g) => On(changes', g)
      BY <3>1, <3>2, <3>3, PushKeeps
    <3>5. WellLinked(changes')
      BY <3>1, <3>2, <3>3, PushWalks
    <3>6. QED
      BY <3>2, <3>4, <3>5
  <2>3. QED
    BY <2>1, <2>2
<1>3. /\ reg' \in [Fd -> SUBSET Bit] /\ reg'[fd] = {}
      /\ \A g \in Fd : g # fd => reg'[g] = reg[g]
  BY Types
<1>4. TypeOK'
  BY <1>1, <1>2, <1>3, Types DEF TypeOK, Lists
<1>5. ChangesNoticed' /\ MapCoherent' /\ \A g \in Fd : Events(g)' = Events(g)
  BY <1>1, <1>2, Noticed
<1>6. WantOpen' /\ PollSetOpen'
  BY <1>1 DEF WantOpen, PollSetOpen
<1>7. Registered'
  BY <1>3, <1>5, Types DEF Registered
<1>8. QED
  BY <1>2, <1>4, <1>5, <1>6, <1>7

LEMMA ForkStep == ASSUME FdAssumption, WatchInv, Fork PROVE WatchInv'
<1> USE DEF WatchInv, Fork, User
<1>1. /\ share' \in {"alone", "files", "set", "parent"}
      /\ reg' = IF SetShared(share') THEN [fd \in Fd |-> {}] ELSE reg
  OBVIOUS
<1>2. ~epoll \/ (~SetShared(share') => ~SetShared(share))
  BY Types DEF SetShared
<1>3. TypeOK'
  BY <1>1, Types DEF TypeOK
<1>4. ChangesNoticed' /\ MapCoherent' /\ \A g \in Fd : Events(g)' = Events(g)
  BY Noticed, Types
<1>5. Registered'
  <2>1. CASE SetShared(share')
    BY <1>1, <2>1 DEF Registered
  <2>2. CASE ~SetShared(share')
    BY <1>1, <1>2, <1>4, <2>2, Types DEF Registered
  <2>3. QED
    BY <2>1, <2>2
<1>6. QED
  BY <1>3, <1>4, <1>5 DEF WantOpen, PollSetOpen

LEMMA EnterStep == ASSUME FdAssumption, WatchInv, Enter PROVE WatchInv'
<1> USE DEF WatchInv, Enter, epollVars
<1>1. \/ UNCHANGED epollVars
      \/ LeaveEpoll /\ UNCHANGED errors
  OBVIOUS
<1>2. TypeOK'
  BY <1>1, Types DEF TypeOK, LeaveEpoll, User
<1>3. ChangesNoticed' /\ MapCoherent' /\ \A g \in Fd : Events(g)' = Events(g)
  BY Noticed, Types
<1>4. Registered' /\ (epoll' => errors' < MaxErrors)
  <2>1. CASE UNCHANGED epollVars
    BY <1>3, <2>1, Types DEF Registered
  <2>2. CASE LeaveEpoll
    BY <2>2 DEF LeaveEpoll, Registered
  <2>3. QED
    BY <1>1, <2>1, <2>2
<1>5. QED
  BY <1>2, <1>3, <1>4 DEF WantOpen, PollSetOpen

\* One round of update_fds: the descriptor leaves the list with the poll set right.
LEMMA UpdateStep == ASSUME FdAssumption, WatchInv, UpdateFd PROVE WatchInv'
<1> DEFINE fd == changes.head - 1
           new == PollEvents(want[fd])
           p == SetEvents(fd, new).pfds
           map == SetEvents(fd, new).map
<1> USE DEF WatchInv
<1>1. /\ fd \in Fd /\ changes' \in Lists(nfds) /\ WellLinked(changes')
      /\ \A g \in Fd : g # fd /\ On(changes, g) => On(changes', g)
  <2>1. changes' = PopChange(changes) /\ changes.head # 0
    BY DEF UpdateFd
  <2>2. nfds \in 0 .. MaxFd + 1 /\ changes \in Lists(nfds)
    BY Types
  <2>3. QED
    BY <2>1, <2>2, PopKeeps, PopWalks
<1>2. new \in SUBSET Bit /\ want[fd] \in SUBSET Action /\ (new = {} <=> want[fd] = {})
  BY <1>1, PollBits, Types
<1>3. UNCHANGED <<open, want, nfds, phase>> /\ phase = "update"
  BY DEF UpdateFd
<1>4. /\ pfds' \in PollSet /\ fdmap' \in Maps /\ MapCoherent'
      /\ \A g \in Fd : Events(g)' = IF g = fd THEN new ELSE Events(g)
  <2>1. CASE Events(fd) = new
    <3>1. UNCHANGED <<pfds, fdmap>>
      BY <2>1 DEF UpdateFd, driverVars
    <3>2. QED
      BY <2>1, <3>1, Types DEF Events, MapCoherent
  <2>2. CASE Events(fd) # new
    <3>1. pfds' = p /\ fdmap' = map
      BY <2>2 DEF UpdateFd
    <3>2. /\ p \in PollSet /\ map \in Maps /\ Coherent(p, map)
          /\ \A g \in Fd : EventsIn(p, map, g) = IF g = fd THEN new ELSE Events(g)
      BY <1>1, <1>2, <2>2, SetEventsOK, Types
    <3> HIDE DEF p, map, fd, new
    <3>3. QED
      BY <3>1, <3>2 DEF Coherent, EventsIn, MapCoherent, Events
  <2>3. QED
    BY <2>1, <2>2
<1>5. ChangesNoticed'
  <2>1. ASSUME NEW g \in Fd, Events(g)' # PollEvents(want[g])
        PROVE  On(changes', g)
    <3>1. g # fd /\ Events(g) # PollEvents(want[g])
      BY <1>4, <2>1
    <3>2. On(changes, g)
      BY <3>1 DEF ChangesNoticed, OnList, On
    <3>3. QED
      BY <1>1, <3>1, <3>2
  <2>2. want' = want
    BY <1>3
  <2> HIDE DEF fd, new
  <2>3. QED
    BY <2>1, <2>2 DEF ChangesNoticed, OnList, On
<1>6. /\ reg' \in [Fd -> SUBSET Bit] /\ epoll' \in BOOLEAN
      /\ errors' \in 0 .. MaxErrors /\ (epoll' => errors' < MaxErrors)
      /\ share' \in {"alone", "files", "set", "parent"}
      /\ Registered'
  <2>1. CASE /\ UNCHANGED epollVars
             /\ Events(fd) = new \/ ~epoll \/ SetShared(share)
    <3>1. epoll /\ ~SetShared(share) => \A g \in Fd : Events(g)' = Events(g)
      BY <1>4, <2>1
    <3> HIDE DEF fd, new
    <3>2. Registered'
      BY <1>3, <2>1, <3>1, Types DEF Registered, epollVars
    <3>3. QED
      BY <2>1, <3>2, Types DEF epollVars
  <2>2. CASE LeaveEpoll /\ errors' = errors + 1 /\ epoll
    <3>1. errors' \in 0 .. MaxErrors
      BY <2>2, Types DEF FdAssumption
    <3>2. QED
      BY <2>2, <3>1, Types DEF Registered, LeaveEpoll
  <2>3. CASE /\ epoll /\ ~SetShared(share) /\ ~(new # {} /\ fd \notin open)
             /\ reg' = [reg EXCEPT ![fd] = new] /\ UNCHANGED <<epoll, errors, share>>
    <3>1. reg' \in [Fd -> SUBSET Bit]
      BY <1>1, <1>2, <2>3, Types
    <3>2. reg'[fd] = new /\ \A g \in Fd : g # fd => reg'[g] = reg[g]
      BY <1>1, <2>3, Types
    <3> HIDE DEF fd, new
    <3>3. Registered'
      BY <1>3, <1>4, <2>3, <3>2, Types DEF Registered
    <3>4. QED
      BY <2>3, <3>1, <3>3, Types
  <2>4. QED
    <3>1. Events(fd) = new => UNCHANGED epollVars
      BY DEF UpdateFd, driverVars
    <3>2. Events(fd) # new => MarkEpoll(fd, Events(fd) # {}, new)
      BY DEF UpdateFd
    <3> HIDE DEF fd, new
    <3>3. QED
      BY <2>1, <2>2, <2>3, <3>1, <3>2 DEF MarkEpoll
<1>7. TypeOK'
  BY <1>1, <1>3, <1>4, <1>6, Types DEF TypeOK, Lists, PollSet, Entry, Maps
<1>8. WantOpen' /\ PollSetOpen'
  BY <1>3 DEF WantOpen, PollSetOpen
<1>9. QED
  BY <1>1, <1>4, <1>5, <1>6, <1>7, <1>8

\* Once the list is empty the poll set says what is wanted.
LEMMA Settled ==
  ASSUME FdAssumption, WatchInv, changes.head = 0
  PROVE  /\ \A fd \in Fd : Events(fd) = PollEvents(want[fd])
         /\ \A i \in DOMAIN pfds : pfds[i].fd \in open
<1>1. \A fd \in Fd : Events(fd) = PollEvents(want[fd])
  BY EmptyList DEF WatchInv, ChangesNoticed, OnList, On
<1>2. ASSUME NEW i \in DOMAIN pfds
      PROVE  pfds[i].fd \in open
  <2> DEFINE fd == pfds[i].fd
  <2>1. pfds \in PollSet /\ i \in 1 .. Len(pfds)
    BY <1>2, Types DEF WatchInv, PollSet
  <2>2. pfds[i] \in Entry
    BY <2>1, ElementOfSeq DEF PollSet
  <2>3. fd \in Fd /\ fdmap[fd] = i /\ i # 0
    BY <2>1, <2>2 DEF Entry, WatchInv, MapCoherent
  <2>4. Events(fd) # {}
    BY <2>3 DEF Events, WatchInv, MapCoherent
  <2>5. want[fd] # {}
    BY <1>1, <2>3, <2>4 DEF PollEvents
  <2>6. QED
    BY <2>3, <2>5 DEF WatchInv, WantOpen
<1>3. QED
  BY <1>1, <1>2

LEMMA WaitStep ==
  ASSUME FdAssumption, WatchInv, BeginUpdate \/ BeginWait \/ EndWait \/ Return
  PROVE  WatchInv'
<1> USE DEF WatchInv, BeginUpdate, BeginWait, EndWait, Return, driverVars, epollVars, User
<1>1. TypeOK'
  BY Types DEF TypeOK
<1>2. ChangesNoticed' /\ MapCoherent' /\ \A g \in Fd : Events(g)' = Events(g)
  BY Noticed, Types
<1>3. WantOpen' /\ Registered'
  BY <1>2, Types DEF WantOpen, Registered
<1>4. PollSetOpen'
  BY Settled DEF PollSetOpen
<1>5. QED
  BY <1>1, <1>2, <1>3, <1>4

LEMMA RecreateStep == ASSUME FdAssumption, WatchInv, Recreate PROVE WatchInv'
<1> USE DEF WatchInv, Recreate, User
<1>1. \A fd \in Fd : PollEvents(want[fd]) \in SUBSET Bit
  BY PollBits, Types
<1>2. reg' \in [Fd -> SUBSET Bit] /\ epoll' \in BOOLEAN /\ (epoll' => errors' < MaxErrors)
  BY <1>1, Types DEF FdAssumption
<1>3. TypeOK'
  BY <1>2, Types DEF TypeOK
<1>4. ChangesNoticed' /\ MapCoherent' /\ \A g \in Fd : Events(g)' = Events(g)
  BY Noticed, Types
<1>5. Registered'
  <2>1. CASE UNCHANGED <<epoll, reg>>
    BY <1>4, <2>1, Types DEF Registered
  <2>2. CASE reg' = [fd \in Fd |-> IF fdmap[fd] = 0 THEN {} ELSE PollEvents(want[fd])]
    <3>1. \A fd \in Fd : reg'[fd] = Events(fd)
      BY <2>2, Settled DEF Events
    <3>2. \A fd \in Fd : fd \notin open => Events(fd) = {}
      BY Settled DEF WantOpen, PollEvents
    <3>3. QED
      BY <1>4, <3>1, <3>2, Types DEF Registered
  <2>3. QED
    BY <2>1, <2>2
<1>6. WantOpen' /\ PollSetOpen'
  BY Settled DEF WantOpen, PollSetOpen
<1>7. QED
  BY <1>2, <1>3, <1>4, <1>5, <1>6

LEMMA WatchNext == ASSUME FdAssumption, WatchInv, [Next]_vars PROVE WatchInv'
<1>1. CASE UNCHANGED vars
  <2> USE <1>1 DEF vars, driverVars, epollVars, WatchInv
  <2>1. ChangesNoticed' /\ MapCoherent' /\ \A g \in Fd : Events(g)' = Events(g)
    BY Noticed, Types
  <2>2. Registered'
    BY <2>1, Types DEF Registered
  <2>3. QED
    BY <2>1, <2>2 DEF TypeOK, WantOpen, PollSetOpen
<1>2. ASSUME NEW fd \in Fd, NEW action \in Action, Cancel(fd, action)
      PROVE  WatchInv'
  <2>1. {action} \in SUBSET want[fd]
    BY <1>2 DEF Cancel
  <2>2. QED
    BY <1>2, <2>1, Lose DEF Cancel
<1>3. ASSUME NEW fd \in Fd, NEW bits, Deliver(fd, bits)
      PROVE  WatchInv'
  <2> DEFINE actions == want[fd] \cap Triggered(bits)
  <2>1. actions \in SUBSET want[fd]
    OBVIOUS
  <2>2. /\ want' = [want EXCEPT ![fd] = @ \ actions]
        /\ changes' = Disinterest(changes, fd, actions)
        /\ UNCHANGED <<open, nfds, driverVars, phase>>
    BY <1>3 DEF Deliver
  <2> HIDE DEF actions
  <2>3. QED
    BY <2>1, <2>2, Lose
<1>4. QED
  BY <1>1, <1>2, <1>3, OpenStep, CloseStep, AtFdStep, ForkStep, EnterStep, UpdateStep,
     WaitStep, RecreateStep DEF Next

\* The descriptors behind at_fd_read and its like (tamer/dtamer.cc): every variable
\* has its type, so that no descriptor without a driver_fd gets on the list of
\* changes, for any number of descriptors and any limit on the errors of epoll.
THEOREM WatchTyped == ASSUME FdAssumption PROVE Spec => []TypeOK
<1>1. Init => WatchInv
  BY WatchInit
<1>2. WatchInv /\ [Next]_vars => WatchInv'
  BY WatchNext
<1>3. WatchInv => TypeOK
  BY DEF WatchInv
<1>4. QED
  BY <1>1, <1>2, <1>3, PTL DEF Spec

\* The poll set, its map and the list of changes (xpollfds, push_change and
\* pop_change in tamer/dinternal.hh) agree with what is wanted, and the driver
\* never waits with a closed descriptor in the poll set.
THEOREM PollSetFollows == ASSUME FdAssumption PROVE Spec => []PollSetCoherent
<1>1. Init => WatchInv
  BY WatchInit
<1>2. WatchInv /\ [Next]_vars => WatchInv'
  BY WatchNext
<1>3. WatchInv => PollSetCoherent
  BY DEF WatchInv, PollSetCoherent
<1>4. QED
  BY <1>1, <1>2, <1>3, PTL DEF Spec

\* When update_fds has gone through its list the kernel watches for each open
\* descriptor what somebody waits for, through poll or through epoll, whatever
\* failed on the way and whoever forked outside of loop(); with epoll, if its number
\* was not reused at once, and as long as no fork in a running loop has given the
\* epoll set to a second process that uses it.
THEOREM WatchesWhatIsWanted == ASSUME FdAssumption PROVE Spec => []KernelWatches
<1>1. Init => WatchInv
  BY WatchInit
<1>2. WatchInv /\ [Next]_vars => WatchInv'
  BY WatchNext
<1>3. WatchInv => KernelWatches
  <2> SUFFICES ASSUME WatchInv, changes.head = 0, NEW fd \in open,
                      ~(epoll /\ SetShared(share)), ~(epoll /\ fd \in EarlyReuse)
               PROVE  Watched(fd) = PollEvents(want[fd])
    BY DEF KernelWatches
  <2>1. fd \in Fd /\ Events(fd) = PollEvents(want[fd])
    BY Settled, Types DEF WatchInv
  <2>2. epoll => reg[fd] = Events(fd)
    BY DEF WatchInv, Registered
  <2>3. QED
    BY <2>1, <2>2 DEF Watched
<1>4. QED
  BY <1>1, <1>2, <1>3, PTL DEF Spec

(***************************************************************************)
(* Signals                                                                 *)
(***************************************************************************)

\* A signal that is being dispatched has the handler until it is reset, and is
\* blocked from before its events are triggered until its closures have run.
DispatchInv ==
  /\ pc \in {"user", "sleep", "polled", "clear", "drain"} => dispatching = {}
  /\ pc \in {"trigger", "run", "reset", "unblock"} => dispatching \subseteq blocked
  /\ pc # "unblock" => \A s \in dispatching : sigaction[s] = "tamer"
  /\ pc \in {"run", "reset", "unblock"} => active \cap dispatching = {}
  /\ \A s \in active : sigaction[s] = "tamer"

\* A mark that the dispatch under way will not see has left its trace in the flag
\* and in the pipe.
MarkInv ==
  /\ pc = "scan" => \A s \in active : s \in dispatching \/ s >= scan \/ (any /\ pipe)
  /\ pc \in {"block", "trigger"} =>
       \A s \in active : s \in dispatching \/ (any /\ pipe)
  /\ pc \in {"user", "sleep", "polled", "run", "reset", "unblock"} =>
       (active # {} => any /\ pipe)

SignalInv ==
  /\ Sigs!TypeOK /\ IsFiniteSet(foreground)
  /\ DispatchInv /\ MarkInv
  /\ Sigs!HandlerInstalled /\ Sigs!ForegroundExact

\* The instance has a name of its own for the number of elements of a set.
LEMMA SignalCard == \A S : Sigs!Cardinality(S) = Cardinality(S)
BY DEF Sigs!Cardinality, Cardinality

LEMMA SignalStart ==
  ASSUME Sigs!SignalAssumption, Sigs!Init PROVE SignalInv
<1>1. IsFiniteSet(foreground) /\ Cardinality(foreground) = 0
  BY FS_EmptySet DEF Sigs!Init
<1>2. Sigs!TypeOK
  <2>1. 1 \in 1 .. NSig
    BY DEF Sigs!SignalAssumption
  <2>2. QED
    BY <2>1 DEF Sigs!Init, Sigs!TypeOK, Sigs!Signal
<1>3. QED
  BY <1>1, <1>2, SignalCard DEF SignalInv, Sigs!Init, DispatchInv, MarkInv,
     Sigs!HandlerInstalled, Sigs!ForegroundExact

\* What a step that leaves the events alone has to keep.
LEMMA EventsKept ==
  ASSUME SignalInv, UNCHANGED <<handlers, joined, foreground, nforeground>>,
         \A s \in Sigs!Signal : sigaction[s] = "tamer" => sigaction'[s] = "tamer"
  PROVE  Sigs!HandlerInstalled' /\ Sigs!ForegroundExact' /\ IsFiniteSet(foreground)'
BY DEF SignalInv, Sigs!HandlerInstalled, Sigs!ForegroundExact

\* at_signal
LEMMA AtSignalKeeps ==
  ASSUME Sigs!SignalAssumption, SignalInv, NEW s \in Sigs!Signal, NEW e \in SigEvent,
         NEW fg \in BOOLEAN, Sigs!AtSignal(s, e, fg)
  PROVE  SignalInv'
<1> USE DEF Sigs!AtSignal, Sigs!kernel, Sigs!marks, SignalInv
<1>1. e \notin foreground
  BY DEF Sigs!ForegroundExact
<1>2. IsFiniteSet(foreground') /\ nforeground' = Cardinality(foreground') /\ nforeground' \in Nat
  <2>1. IsFiniteSet(foreground \cup {e})
        /\ Cardinality(foreground \cup {e}) = Cardinality(foreground) + 1
    BY <1>1, FS_AddElement
  <2>2. QED
    BY <2>1, SignalCard DEF Sigs!ForegroundExact, Sigs!TypeOK
<1>3. foreground' \subseteq UNION {handlers'[r] : r \in Sigs!Signal}
  BY DEF Sigs!ForegroundExact, Sigs!TypeOK
<1>4. \A r \in Sigs!Signal : sigaction[r] = "tamer" => sigaction'[r] = "tamer"
  BY DEF Sigs!TypeOK
<1>5. s \notin dispatching => sigaction'[s] = "tamer"
  BY DEF Sigs!TypeOK
<1>6. s \in dispatching => sigaction'[s] = "tamer"
  BY DEF DispatchInv, Sigs!UserCode
<1>7. Sigs!HandlerInstalled'
  BY <1>4, <1>5, <1>6 DEF Sigs!HandlerInstalled, Sigs!TypeOK
<1>8. DispatchInv'
  BY <1>4 DEF DispatchInv, Sigs!TypeOK
<1>9. MarkInv'
  BY DEF MarkInv
<1>10. Sigs!TypeOK'
  BY <1>2 DEF Sigs!TypeOK
<1>11. QED
  BY <1>2, <1>3, <1>7, <1>8, <1>9, <1>10, SignalCard DEF Sigs!ForegroundExact

\* The caller triggers its event.
LEMMA CancelKeeps ==
  ASSUME Sigs!SignalAssumption, CancelHot = FALSE, SignalInv,
         NEW s \in Sigs!Signal, NEW e \in SigEvent, Sigs!Cancel(s, e)
  PROVE  SignalInv'
<1> USE DEF Sigs!Cancel, Sigs!kernel, Sigs!marks, SignalInv
<1>1. IsFiniteSet(foreground') /\ nforeground' = Cardinality(foreground') /\ nforeground' \in Nat
  <2>1. CASE e \in foreground
    <3>1. foreground \cap {e} = {e} /\ Cardinality({e}) = 1
      BY <2>1, FS_Singleton
    <3>2. IsFiniteSet(foreground \ {e})
          /\ Cardinality(foreground \ {e}) = Cardinality(foreground) - 1
      BY <2>1, FS_RemoveElement
    <3>3. QED
      BY <3>1, <3>2, SignalCard, FS_CardinalityType DEF Sigs!ForegroundExact, Sigs!TypeOK
  <2>2. CASE e \notin foreground
    <3>1. foreground \cap {e} = {} /\ Cardinality({}) = 0 /\ foreground \ {e} = foreground
      BY <2>2, FS_EmptySet
    <3>2. foreground' = foreground /\ nforeground' = nforeground - 0 /\ nforeground \in Nat
      BY <3>1, SignalCard DEF Sigs!TypeOK
    <3>3. nforeground = Cardinality(foreground) /\ nforeground' = nforeground
      BY <3>2, SignalCard DEF Sigs!ForegroundExact
    <3>4. QED
      BY <3>2, <3>3 DEF Sigs!ForegroundExact, Sigs!TypeOK
  <2>3. QED
    BY <2>1, <2>2
<1>2. foreground' \subseteq UNION {handlers'[r] : r \in Sigs!Signal}
  BY DEF Sigs!ForegroundExact, Sigs!TypeOK
<1>3. s \notin active
  OBVIOUS
<1>4. \A r \in Sigs!Signal : r # s \/ r \in dispatching => sigaction'[r] = sigaction[r]
  BY DEF Sigs!TypeOK
<1>5. Sigs!HandlerInstalled'
  BY DEF Sigs!HandlerInstalled, Sigs!TypeOK
<1>6. DispatchInv'
  BY <1>3, <1>4 DEF DispatchInv, Sigs!TypeOK
<1>7. MarkInv'
  BY DEF MarkInv
<1>8. Sigs!TypeOK'
  BY <1>1 DEF Sigs!TypeOK
<1>9. QED
  BY <1>1, <1>2, <1>5, <1>6, <1>7, <1>8, SignalCard DEF Sigs!ForegroundExact

\* The handler interrupts, or the kernel holds the signal back.
LEMMA RaiseKeeps ==
  ASSUME Sigs!SignalAssumption, SignalInv, NEW s \in Sigs!Signal, Sigs!Raise(s)
  PROVE  SignalInv'
<1> USE DEF Sigs!Raise, Sigs!Handle, Sigs!events, Sigs!marks, SignalInv
<1>1. Sigs!HandlerInstalled' /\ Sigs!ForegroundExact' /\ IsFiniteSet(foreground)'
  BY EventsKept
<1>2. DispatchInv'
  BY DEF DispatchInv, Sigs!TypeOK
<1>3. MarkInv'
  BY DEF MarkInv
<1>4. Sigs!TypeOK'
  BY DEF Sigs!TypeOK
<1>5. QED
  BY <1>1, <1>2, <1>3, <1>4

\* All events of the signals are triggered.
LEMMA TriggerKeeps ==
  ASSUME Sigs!SignalAssumption, SignalInv, Sigs!Trigger
  PROVE  SignalInv'
<1> DEFINE es == UNION {handlers[s] : s \in dispatching}
<1> USE DEF Sigs!Trigger, Sigs!Goto, Sigs!kernel, SignalInv
<1>1. IsFiniteSet(foreground') /\ nforeground' = Cardinality(foreground') /\ nforeground' \in Nat
  <2>1. foreground' = foreground \ es
        /\ nforeground' = nforeground - Cardinality(foreground \cap es)
    BY SignalCard
  <2> HIDE DEF es
  <2>2. IsFiniteSet(foreground \ es) /\ IsFiniteSet(foreground \cap es)
        /\ Cardinality(foreground \ es) = Cardinality(foreground) - Cardinality(foreground \cap es)
    BY FS_Difference, FS_Intersection
  <2>3. nforeground = Cardinality(foreground)
    BY SignalCard DEF Sigs!ForegroundExact
  <2>4. Cardinality(foreground \ es) \in Nat
    BY <2>2, FS_CardinalityType
  <2>5. QED
    BY <2>1, <2>2, <2>3, <2>4
<1>2. foreground' \subseteq UNION {handlers'[r] : r \in Sigs!Signal}
  BY DEF Sigs!ForegroundExact, Sigs!TypeOK
<1>3. Sigs!HandlerInstalled'
  BY DEF Sigs!HandlerInstalled, Sigs!TypeOK
<1>4. DispatchInv'
  BY DEF DispatchInv, Sigs!TypeOK
<1>5. MarkInv'
  BY DEF MarkInv
<1>6. Sigs!TypeOK'
  BY <1>1 DEF Sigs!TypeOK
<1>7. QED
  BY <1>1, <1>2, <1>3, <1>4, <1>5, <1>6, SignalCard DEF Sigs!ForegroundExact

\* The signal's handler is taken away unless somebody waits for it again.
LEMMA ResetKeeps ==
  ASSUME Sigs!SignalAssumption, SignalInv, Sigs!Reset
  PROVE  SignalInv'
<1> USE DEF Sigs!Reset, Sigs!Goto, Sigs!kernel, Sigs!marks, SignalInv
<1>1. Sigs!HandlerInstalled' /\ Sigs!ForegroundExact'
  BY DEF Sigs!HandlerInstalled, Sigs!TypeOK, Sigs!ForegroundExact
<1>2. DispatchInv'
  BY DEF DispatchInv, Sigs!TypeOK
<1>3. MarkInv'
  BY DEF MarkInv
<1>4. Sigs!TypeOK'
  BY DEF Sigs!TypeOK
<1>5. QED
  BY <1>1, <1>2, <1>3, <1>4

\* The kernel delivers what it held back.
LEMMA UnblockKeeps ==
  ASSUME Sigs!SignalAssumption, SignalInv, Sigs!Unblock
  PROVE  SignalInv'
<1> USE DEF Sigs!Unblock, Sigs!Handle, Sigs!Goto, Sigs!events, SignalInv
<1>1. Sigs!HandlerInstalled' /\ Sigs!ForegroundExact' /\ IsFiniteSet(foreground)'
  BY EventsKept
<1>2. DispatchInv'
  BY DEF DispatchInv, Sigs!TypeOK
<1>3. MarkInv'
  BY DEF MarkInv
<1>4. Sigs!TypeOK'
  BY DEF Sigs!TypeOK
<1>5. QED
  BY <1>1, <1>2, <1>3, <1>4

\* The scan sees every mark that has left no other trace.
LEMMA ScanKeeps ==
  ASSUME Sigs!SignalAssumption, SignalInv, Sigs!Scan
  PROVE  SignalInv'
<1> USE DEF Sigs!Scan, Sigs!Goto, Sigs!kernel, Sigs!events, Sigs!marks, SignalInv
<1>0. NSig \in Nat \ {0} /\ scan \in 1 .. NSig /\ active \subseteq 1 .. NSig
  BY DEF Sigs!TypeOK, Sigs!SignalAssumption, Sigs!Signal
<1>1. Sigs!HandlerInstalled' /\ Sigs!ForegroundExact' /\ IsFiniteSet(foreground)'
  BY EventsKept
<1>2. DispatchInv'
  BY DEF DispatchInv, Sigs!TypeOK
<1>3. MarkInv'
  BY <1>0 DEF MarkInv
<1>4. Sigs!TypeOK'
  BY <1>0 DEF Sigs!TypeOK, Sigs!Signal
<1>5. QED
  BY <1>1, <1>2, <1>3, <1>4

LEMMA DriverKeeps ==
  ASSUME Sigs!SignalAssumption, SignalInv,
         Sigs!Check \/ Sigs!Wake \/ Sigs!OtherWake \/ Sigs!Polled \/ Sigs!Clear
           \/ Sigs!Drain \/ Sigs!Block \/ Sigs!EndRun
  PROVE  SignalInv'
<1> USE DEF Sigs!Check, Sigs!Wake, Sigs!OtherWake, Sigs!Polled, Sigs!Clear, Sigs!Drain,
            Sigs!Block, Sigs!EndRun, Sigs!Goto, Sigs!kernel, Sigs!events, Sigs!marks,
            SignalInv
<1>0. 1 \in Sigs!Signal /\ \A s \in active : s \in Nat /\ s >= 1
  BY DEF Sigs!SignalAssumption, Sigs!Signal, Sigs!TypeOK
<1>1. Sigs!HandlerInstalled' /\ Sigs!ForegroundExact' /\ IsFiniteSet(foreground)'
  BY EventsKept
<1>2. DispatchInv'
  BY DEF DispatchInv, Sigs!TypeOK
<1>3. MarkInv'
  BY <1>0 DEF MarkInv
<1>4. Sigs!TypeOK'
  BY <1>0 DEF Sigs!TypeOK
<1>5. QED
  BY <1>1, <1>2, <1>3, <1>4

\* The invariant of the signals, for any number of signals and events, when no
\* event is canceled between the arrival of its signal and the dispatch.
THEOREM SignalInductive ==
  ASSUME Sigs!SignalAssumption, CancelHot = FALSE
  PROVE  Sigs!Spec => []SignalInv
<1>1. Sigs!Init => SignalInv
  BY SignalStart
<1>2. SignalInv /\ [Sigs!Next]_(Sigs!vars) => SignalInv'
  <2> SUFFICES ASSUME SignalInv, [Sigs!Next]_(Sigs!vars) PROVE SignalInv'
    OBVIOUS
  <2>1. CASE UNCHANGED Sigs!vars
    BY <2>1 DEF Sigs!vars, Sigs!events, Sigs!kernel, Sigs!marks, SignalInv, Sigs!TypeOK,
       DispatchInv, MarkInv, Sigs!HandlerInstalled, Sigs!ForegroundExact
  <2>2. CASE \E s \in Sigs!Signal, e \in SigEvent, fg \in BOOLEAN : Sigs!AtSignal(s, e, fg)
    BY <2>2, AtSignalKeeps
  <2>3. CASE \E s \in Sigs!Signal, e \in SigEvent : Sigs!Cancel(s, e)
    BY <2>3, CancelKeeps
  <2>4. CASE \E s \in Sigs!Signal : Sigs!Raise(s)
    BY <2>4, RaiseKeeps
  <2>5. CASE Sigs!Loop \/ Sigs!OtherWake
    BY <2>5, TriggerKeeps, ResetKeeps, UnblockKeeps, ScanKeeps, DriverKeeps DEF Sigs!Loop
  <2>6. QED
    BY <2>1, <2>2, <2>3, <2>4, <2>5 DEF Sigs!Next
<1>3. QED
  BY <1>1, <1>2, PTL DEF Sigs!Spec

\* For any number of signals, wherever the handler interrupts the driver: the
\* responders of a signal run before it is marked again, somebody who waits keeps
\* the handler, foreground events are counted, and no mark is slept on.
THEOREM SignalsSafe ==
  ASSUME Sigs!SignalAssumption, CancelHot = FALSE
  PROVE  Sigs!Spec => []SignalSafety
<1>1. SignalInv => SignalSafety
  BY DEF SignalInv, DispatchInv, MarkInv, SignalSafety, Sigs!RespondersUndisturbed,
     Sigs!NoSleepOnSignal
<1>2. QED
  BY <1>1, SignalInductive, PTL

(***************************************************************************)
(* libev and libevent                                                      *)
(***************************************************************************)

Watching == {f \in LibFd : have[f] # {}}

ForeignTyped ==
  /\ flags \in {"forever", "once"} /\ lib \in {"libev", "libevent"}
  /\ fwant \in [LibFd -> SUBSET Foreign!Actions]
  /\ have \in [LibFd -> SUBSET Foreign!Actions]
  /\ changed \subseteq LibFd
  /\ fdactive \in Int
  /\ expired \subseteq set /\ set \subseteq LibTimer
  /\ asap \in Nat
  /\ wait \in BOOLEAN /\ armed \in BOOLEAN

\* A descriptor that is not watched as somebody wants is on the list of changes,
\* and those that are watched have been counted.
FdsInv ==
  /\ \A f \in LibFd : fwant[f] # have[f] => f \in changed
  /\ fdactive = Cardinality(Watching)

\* The decision to wait or to return holds until the library has run, and libevent
\* has the timer only in between.
DecisionInv ==
  /\ Foreign!ForeignNoOversleep
  /\ fpc = "returned" /\ flags = "forever" =>
       (\A f \in LibFd : fwant[f] = {}) /\ set \subseteq Background /\ signal # "foreground"
  /\ lib = "libevent" /\ armed => fpc \in {"wait", "run events"} /\ wait /\ set # {}

ForeignInv == ForeignTyped /\ FdsInv /\ DecisionInv

LEMMA ForeignCard == \A S : Foreign!Cardinality(S) = Cardinality(S)
BY DEF Foreign!Cardinality, Cardinality

LEMMA WatchingFinite ==
  ASSUME Foreign!ForeignAssumption PROVE IsFiniteSet(LibFd) /\ IsFiniteSet(Watching)
<1>1. IsFiniteSet(LibFd)
  BY DEF Foreign!ForeignAssumption, Foreign!IsFiniteSet, IsFiniteSet
<1>2. Watching \subseteq LibFd
  BY DEF Watching
<1>3. QED
  BY <1>1, <1>2, FS_Subset

LEMMA NatZero == \A n \in Nat : ~(n > 0) => n = 0
OBVIOUS

LEMMA FlagKept == \A p, q \in BOOLEAN : q = p => (p <=> q)
OBVIOUS

LEMMA ForeignStart ==
  ASSUME Foreign!ForeignAssumption, Foreign!Init PROVE ForeignInv
<1>1. Watching = {}
  BY DEF Foreign!Init, Watching
<1>2. FdsInv
  BY <1>1, FS_EmptySet DEF Foreign!Init, FdsInv
<1>3. ForeignTyped
  <2>1. wait \in BOOLEAN /\ armed \in BOOLEAN
    BY Zenon DEF Foreign!Init
  <2>2. /\ flags \in {"forever", "once"} /\ lib \in {"libev", "libevent"}
        /\ changed = {} /\ fdactive = 0 /\ set = {} /\ expired = {} /\ asap = 0
    BY Zenon DEF Foreign!Init
  <2>3. /\ fwant \in [LibFd -> SUBSET Foreign!Actions]
        /\ have \in [LibFd -> SUBSET Foreign!Actions]
    <3>1. fwant = [f \in LibFd |-> {}] /\ have = [f \in LibFd |-> {}]
      BY Zenon DEF Foreign!Init
    <3>2. QED
      BY <3>1
  <2>4. /\ changed \subseteq LibFd /\ fdactive \in Int
        /\ expired \subseteq set /\ set \subseteq LibTimer /\ asap \in Nat
    BY <2>2
  <2>5. QED
    BY <2>1, <2>2, <2>3, <2>4, Zenon DEF ForeignTyped
<1>4. DecisionInv
  BY DEF Foreign!Init, DecisionInv, Foreign!ForeignNoOversleep
<1>5. QED
  BY <1>2, <1>3, <1>4 DEF ForeignInv

\* A closure asks for something: what changes is on the list.
LEMMA ClosureKeeps ==
  ASSUME Foreign!ForeignAssumption, ForeignInv, Foreign!RunClosure
  PROVE  ForeignInv'
<1> USE DEF Foreign!RunClosure, ForeignInv
<1>1. /\ UNCHANGED <<have, fdactive, lib, flags, fpc, wait, armed>>
      /\ fpc \in Foreign!Running
      /\ set \subseteq set'
  BY DEF Foreign!KillFd, Foreign!AtFd, Foreign!AtTime, Foreign!AtAsap, Foreign!AtPreblock,
     Foreign!AtSignal, Foreign!BreakLoop, Foreign!fdVars
<1>2. ForeignTyped' /\ \A f \in LibFd : fwant'[f] # have'[f] => f \in changed'
  <2>1. CASE \E f \in LibFd : Foreign!KillFd(f)
    BY <2>1, <1>1 DEF Foreign!KillFd, ForeignTyped, FdsInv
  <2>2. CASE \E f \in LibFd, a \in Foreign!Actions : Foreign!AtFd(f, a)
    BY <2>2, <1>1 DEF Foreign!AtFd, ForeignTyped, FdsInv
  <2>3. CASE \E t \in LibTimer : Foreign!AtTime(t)
    BY <2>3, <1>1 DEF Foreign!AtTime, Foreign!fdVars, ForeignTyped, FdsInv
  <2>4. CASE Foreign!AtAsap
    BY <2>4, <1>1 DEF Foreign!AtAsap, Foreign!fdVars, ForeignTyped, FdsInv
  <2>5. CASE Foreign!AtPreblock
    BY <2>5, <1>1 DEF Foreign!AtPreblock, Foreign!fdVars, ForeignTyped, FdsInv
  <2>6. CASE Foreign!BreakLoop
    BY <2>6, <1>1 DEF Foreign!BreakLoop, Foreign!fdVars, ForeignTyped, FdsInv
  <2>7. CASE UNCHANGED <<Foreign!fdVars, set, expired, asap, preblock, signal, broke>>
    BY <2>7, <1>1 DEF Foreign!fdVars, ForeignTyped, FdsInv
  <2>8. CASE Foreign!AtSignal
    BY <2>8, <1>1 DEF Foreign!AtSignal, Foreign!fdVars, ForeignTyped, FdsInv
  <2>9. QED
    BY <2>1, <2>2, <2>3, <2>4, <2>5, <2>6, <2>7, <2>8
<1>3. FdsInv'
  BY <1>1, <1>2 DEF FdsInv, Watching
<1>4. DecisionInv'
  <2>1. fpc' = fpc /\ fpc # "wait" /\ fpc # "returned"
    BY <1>1 DEF Foreign!Running
  <2>2. lib' = lib /\ armed' = armed /\ wait' = wait
    BY <1>1
  <2>3. set # {} => set' # {}
    BY <1>1
  <2>4. Foreign!ForeignNoOversleep'
    BY <2>1 DEF Foreign!ForeignNoOversleep
  <2>5. lib' = "libevent" /\ armed' =>
          fpc' \in {"wait", "run events"} /\ wait' /\ set' # {}
    <3> HAVE lib' = "libevent" /\ armed'
    <3>0. wait \in BOOLEAN /\ armed \in BOOLEAN
      BY Zenon DEF ForeignTyped
    <3>1. lib = "libevent" /\ armed
      BY <2>2, <3>0, FlagKept, Zenon
    <3>2. fpc \in {"wait", "run events"} /\ wait /\ set # {}
      BY <3>1, Zenon DEF DecisionInv
    <3>3. wait'
      <4>1. wait' = wait /\ wait' \in BOOLEAN
        BY <2>2, <3>0
      <4>2. QED
        BY <4>1, <3>0, <3>2, FlagKept, Zenon
    <3>4. fpc' \in {"wait", "run events"} /\ set' # {}
      BY <2>1, <2>3, <3>2
    <3>5. QED
      BY <3>3, <3>4
  <2>6. fpc' # "returned"
    BY <2>1
  <2>7. QED
    BY <2>4, <2>5, <2>6 DEF DecisionInv
<1>5. QED
  BY <1>2, <1>3, <1>4

\* update_fds: everything wanted is watched, and counted.
LEMMA UpdateCounts ==
  ASSUME Foreign!ForeignAssumption, ForeignInv, Foreign!UpdateFds
  PROVE  /\ \A f \in LibFd : have'[f] = fwant'[f]
         /\ fwant' = fwant /\ changed' = {}
         /\ have' \in [LibFd -> SUBSET Foreign!Actions]
         /\ fdactive' \in Int /\ fdactive' = Cardinality(Watching')
         /\ fdactive' = 0 => \A f \in LibFd : fwant[f] = {}
<1> USE DEF Foreign!UpdateFds, ForeignInv
<1>1. (\A f \in LibFd : have'[f] = fwant[f]) /\ fwant' = fwant /\ changed' = {}
  BY DEF FdsInv
<1>2. have' \in [LibFd -> SUBSET Foreign!Actions]
  BY DEF ForeignTyped
<1> DEFINE up == Foreign!Added
           down == Foreign!Dropped
<1>3. /\ up \subseteq LibFd /\ up \cap Watching = {}
      /\ down \subseteq Watching
      /\ Watching' = (Watching \ down) \cup up
  BY <1>1 DEF Foreign!Added, Foreign!Dropped, Watching, ForeignTyped, FdsInv
<1>4. fdactive' = fdactive + Cardinality(up) - Cardinality(down)
  BY ForeignCard
<1>5. fdactive = Cardinality(Watching)
  BY DEF FdsInv
<1> HIDE DEF up, down
<1>6. IsFiniteSet(up) /\ IsFiniteSet(down)
  BY <1>3, WatchingFinite, FS_Subset
<1>7. IsFiniteSet(Watching \ down)
      /\ Cardinality(Watching \ down) = Cardinality(Watching) - Cardinality(down)
  <2>1. Watching \cap down = down
    BY <1>3
  <2>2. QED
    BY <2>1, WatchingFinite, FS_Difference
<1>8. IsFiniteSet(Watching')
      /\ Cardinality(Watching') = Cardinality(Watching \ down) + Cardinality(up)
  <2>1. (Watching \ down) \cap up = {} /\ Cardinality({}) = 0
    BY <1>3, FS_EmptySet
  <2>2. Cardinality((Watching \ down) \cup up)
          = Cardinality(Watching \ down) + Cardinality(up) - 0
        /\ IsFiniteSet((Watching \ down) \cup up)
    BY <2>1, <1>6, <1>7, FS_Union
  <2>3. Cardinality(Watching \ down) \in Nat /\ Cardinality(up) \in Nat
    BY <1>6, <1>7, FS_CardinalityType
  <2>4. QED
    BY <1>3, <2>2, <2>3
<1>9. /\ Cardinality(Watching) \in Nat /\ Cardinality(up) \in Nat
      /\ Cardinality(down) \in Nat /\ Cardinality(Watching') \in Nat
  BY <1>6, <1>8, WatchingFinite, FS_CardinalityType
<1>10. fdactive' = Cardinality(Watching') /\ fdactive' \in Int
  BY <1>4, <1>5, <1>7, <1>8, <1>9
<1>11. fdactive' = 0 => \A f \in LibFd : fwant[f] = {}
  <2>1. fdactive' = 0 => Watching' = {}
    BY <1>8, <1>10, FS_EmptySet
  <2>2. QED
    BY <2>1, <1>1 DEF Watching
<1>12. QED
  BY <1>1, <1>2, <1>10, <1>11

LEMMA DecideKeeps ==
  ASSUME Foreign!ForeignAssumption, ForeignInv, Foreign!Decide
  PROVE  ForeignInv'
<1> USE DEF Foreign!Decide, ForeignInv, Foreign!workVars
<1>1. /\ \A f \in LibFd : have'[f] = fwant'[f]
      /\ fwant' = fwant /\ changed' = {}
      /\ have' \in [LibFd -> SUBSET Foreign!Actions]
      /\ fdactive' \in Int /\ fdactive' = Cardinality(Watching')
      /\ fdactive' = 0 => \A f \in LibFd : fwant[f] = {}
  BY UpdateCounts
<1>2. FdsInv'
  BY <1>1 DEF FdsInv
<1>3. ForeignTyped'
  BY <1>1 DEF ForeignTyped
<1>4. ~(lib = "libevent" /\ armed)
  BY DEF DecisionInv
<1>5. DecisionInv'
  <2>1. CASE asap > 0 \/ expired # {} \/ signal = "pending" \/ unblockeds > 0
    BY <2>1, <1>4 DEF DecisionInv, Foreign!ForeignNoOversleep
  <2>2. CASE /\ ~(asap > 0 \/ expired # {} \/ signal = "pending" \/ unblockeds > 0)
             /\ set \subseteq Background /\ fdactive' = 0 /\ signal # "foreground"
    <3>1. fpc' = "returned" /\ armed' = armed /\ lib' = lib /\ set' = set
      BY <2>2
    <3>2. \A f \in LibFd : fwant'[f] = {}
      BY <2>2, <1>1
    <3>3. QED
      BY <3>1, <3>2, <2>2, <1>4 DEF DecisionInv, Foreign!ForeignNoOversleep
  <2>3. CASE /\ ~(asap > 0 \/ expired # {} \/ signal = "pending" \/ unblockeds > 0)
             /\ ~(set \subseteq Background /\ fdactive' = 0 /\ signal # "foreground")
    <3>1. /\ fpc' = "wait" /\ wait' = TRUE /\ lib' = lib
          /\ armed' = IF set # {} THEN TRUE ELSE IF lib = "libev" THEN FALSE ELSE armed
          /\ UNCHANGED <<set, expired, asap, unblockeds>>
      BY <2>3
    <3>2. asap' = 0 /\ unblockeds' = 0 /\ expired' = {}
      <4>1. unblockeds = 0 /\ asap \in Nat
        BY DEF ForeignTyped
      <4>2. expired = {} /\ ~(asap > 0)
        BY <2>3
      <4>3. asap = 0
        BY <4>1, <4>2, NatZero, Zenon
      <4>4. QED
        BY <3>1, <4>1, <4>2, <4>3
    <3>3. set' # {} => armed'
      BY <3>1
    <3>4. lib' = "libevent" /\ armed' => set' # {}
      BY <3>1, <1>4
    <3>5. Foreign!ForeignNoOversleep'
      BY <3>2, <3>3, <1>1 DEF Foreign!ForeignNoOversleep
    <3>6. QED
      BY <3>1, <3>4, <3>5 DEF DecisionInv
  <2>4. QED
    BY <2>1, <2>2, <2>3
<1>6. QED
  BY <1>2, <1>3, <1>5

LEMMA LibraryKeeps ==
  ASSUME Foreign!ForeignAssumption, ForeignInv, Foreign!Library
  PROVE  ForeignInv'
<1> USE DEF Foreign!Library, ForeignInv
<1>1. PICK got \in SUBSET UNION {{f} \X have[f] : f \in LibFd}, late \in SUBSET (set \ expired) :
        Foreign!Trigger(got) /\ expired' = expired \cup late
  OBVIOUS
<1>2. \A x \in got : x[1] \in LibFd
  <2> SUFFICES ASSUME NEW x \in got PROVE x[1] \in LibFd
    OBVIOUS
  <2>1. PICK f \in LibFd : x \in {f} \X have[f]
    OBVIOUS
  <2>2. x[1] = f
    BY <2>1
  <2>3. QED
    BY <2>2
<1>3. ForeignTyped'
  <2>1. changed' \subseteq LibFd
    <3>1. changed' = changed \cup {x[1] : x \in got} /\ changed \subseteq LibFd
      BY <1>1 DEF ForeignTyped, Foreign!Trigger
    <3>2. QED
      BY <3>1, <1>2
  <2>2. fwant' \in [LibFd -> SUBSET Foreign!Actions] /\ UNCHANGED <<have, fdactive>>
    BY <1>1 DEF ForeignTyped, Foreign!Trigger
  <2>3. wait' \in BOOLEAN /\ armed' \in BOOLEAN
    BY DEF ForeignTyped
  <2>4. expired' \subseteq set' /\ set' \subseteq LibTimer
    BY <1>1 DEF ForeignTyped
  <2>5. QED
    BY <2>1, <2>2, <2>3, <2>4 DEF ForeignTyped
<1>4. Watching' = Watching /\ fdactive' = fdactive
  BY <1>1 DEF Watching, Foreign!Trigger
<1>5. \A f \in LibFd : fwant'[f] # have'[f] => f \in changed'
  <2> SUFFICES ASSUME NEW f \in LibFd, f \notin changed' PROVE fwant'[f] = have'[f]
    OBVIOUS
  <2>1. f \notin changed /\ \A a : <<f, a>> \notin got
    <3>1. changed' = changed \cup {x[1] : x \in got}
      BY <1>1 DEF Foreign!Trigger
    <3>2. ASSUME NEW a, <<f, a>> \in got PROVE FALSE
      <4>1. <<f, a>>[1] = f
        OBVIOUS
      <4>2. f \in {x[1] : x \in got}
        BY <3>2, <4>1
      <4>3. QED
        BY <3>1, <4>2
    <3>3. QED
      BY <3>1, <3>2
  <2>2. fwant'[f] = fwant[f]
    BY <2>1, <1>1 DEF Foreign!Trigger, ForeignTyped
  <2>3. QED
    BY <2>1, <2>2, <1>1 DEF FdsInv, Foreign!Trigger
<1>6. FdsInv'
  BY <1>4, <1>5 DEF FdsInv
<1>7. DecisionInv'
  BY DEF DecisionInv, Foreign!ForeignNoOversleep
<1>8. QED
  BY <1>3, <1>6, <1>7

LEMMA ForeignRest ==
  ASSUME Foreign!ForeignAssumption, ForeignInv,
         Foreign!Signal \/ Foreign!Preblock \/ Foreign!Timers \/ Foreign!Asap \/ Foreign!Again
  PROVE  ForeignInv'
<1> USE DEF Foreign!Signal, Foreign!Preblock, Foreign!Timers, Foreign!Asap, Foreign!Again,
            Foreign!loopVars, Foreign!fdVars, Foreign!workVars, ForeignInv
<1>1. UNCHANGED Foreign!fdVars /\ UNCHANGED <<lib, flags>>
  OBVIOUS
<1>2. FdsInv'
  BY <1>1 DEF FdsInv, Watching
<1>3. ForeignTyped'
  <2>1. wait' \in BOOLEAN /\ armed' \in BOOLEAN
    BY DEF ForeignTyped
  <2>2. UNCHANGED Foreign!fdVars /\ UNCHANGED <<lib, flags>>
    BY <1>1
  <2>3. expired' \subseteq set' /\ set' \subseteq LibTimer /\ asap' \in Nat
    <3>1. expired \subseteq set /\ set \subseteq LibTimer /\ asap \in Nat
      BY Zenon DEF ForeignTyped
    <3>2. CASE Foreign!Timers
      BY <3>1, <3>2
    <3>3. CASE Foreign!Asap
      BY <3>1, <3>3
    <3>4. CASE Foreign!Signal \/ Foreign!Preblock \/ Foreign!Again
      BY <3>1, <3>4
    <3>5. QED
      BY <3>2, <3>3, <3>4
  <2>4. QED
    BY <2>1, <2>2, <2>3 DEF ForeignTyped
<1>4. DecisionInv'
  <2>1. CASE Foreign!Signal
    BY <2>1 DEF DecisionInv, Foreign!ForeignNoOversleep
  <2>2. CASE Foreign!Preblock
    BY <2>2 DEF DecisionInv, Foreign!ForeignNoOversleep
  <2>3. CASE Foreign!Timers
    <3>1. lib = "libevent" /\ armed => wait /\ set # {}
      BY DEF DecisionInv
    <3>2. ~(lib' = "libevent" /\ armed')
      BY <2>3, <3>1
    <3>3. QED
      BY <2>3, <3>2 DEF DecisionInv, Foreign!ForeignNoOversleep
  <2>4. CASE Foreign!Asap
    BY <2>4 DEF DecisionInv, Foreign!ForeignNoOversleep
  <2>5. CASE Foreign!Again
    BY <2>5 DEF DecisionInv, Foreign!ForeignNoOversleep
  <2>6. QED
    BY <2>1, <2>2, <2>3, <2>4, <2>5
<1>5. QED
  BY <1>2, <1>3, <1>4

\* The invariant of the loops over libev and libevent, for any descriptors, timers
\* and amount of work.
THEOREM ForeignInductive ==
  ASSUME Foreign!ForeignAssumption PROVE Foreign!Spec => []ForeignInv
<1>1. Foreign!Init => ForeignInv
  BY ForeignStart
<1>2. ForeignInv /\ [Foreign!Next]_(Foreign!vars) => ForeignInv'
  <2> SUFFICES ASSUME ForeignInv, [Foreign!Next]_(Foreign!vars) PROVE ForeignInv'
    OBVIOUS
  <2>1. CASE UNCHANGED Foreign!vars
    BY <2>1 DEF Foreign!vars, Foreign!loopVars, Foreign!fdVars, Foreign!workVars,
       ForeignInv, ForeignTyped, FdsInv, DecisionInv, Watching, Foreign!ForeignNoOversleep
  <2>2. CASE Foreign!Next
    BY <2>2, ClosureKeeps, DecideKeeps, LibraryKeeps, ForeignRest DEF Foreign!Next
  <2>3. QED
    BY <2>1, <2>2
<1>3. QED
  BY <1>1, <1>2, PTL DEF Foreign!Spec

\* libev and libevent are never told to block while there is work, a descriptor
\* that is not watched as wanted, or a timer the library does not know.
THEOREM ForeignSleepsRight ==
  ASSUME Foreign!ForeignAssumption PROVE Foreign!Spec => []ForeignNoOversleep
<1>1. ForeignInv => ForeignNoOversleep
  BY DEF ForeignInv, DecisionInv, ForeignNoOversleep
<1>2. QED
  BY <1>1, ForeignInductive, PTL

\* fdactive_ counts the watched descriptors exactly, so that the loop returns of
\* its own accord only when nobody waits for a descriptor, a foreground timer or a
\* foreground signal, and libevent does not hold the timer of a frame that is gone.
THEOREM ForeignReturnsRight ==
  ASSUME Foreign!ForeignAssumption PROVE Foreign!Spec => []ForeignReturnsIdle
<1>1. ForeignInv => ForeignReturnsIdle
  BY ForeignCard DEF ForeignInv, FdsInv, DecisionInv, ForeignReturnsIdle,
     Foreign!ForeignReturnsIdle, Foreign!NoDeadTimer, Watching
<1>2. QED
  BY <1>1, ForeignInductive, PTL
===============================================================================
