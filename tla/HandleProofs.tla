------------------------------ MODULE HandleProofs ------------------------------
(***************************************************************************)
(* What holds references, for every value of the constants.                *)
(*                                                                         *)
(* Counted!Refs.  Between two calls of the library the counts of an object *)
(* are the numbers of variables, elements and unfinished operations that   *)
(* refer to it, and what was released and deleted follows from the counts  *)
(* (Ledger).  While a release is under way the stack of operations says    *)
(* which count is ahead of the variables (WellStacked), so RefsInv counts  *)
(* what the stack still owes.                                              *)
(*                                                                         *)
(* Values!Results.  A handle that was not moved from has the results that  *)
(* its own occurrence was made for (OwnResults), and what waits does so in *)
(* the call of its results, which goes on (OccsAtHome, PresAtHome): so who *)
(* triggers writes in time.  An assignment that interrupts another, or the *)
(* hook of one, only passes on what some handle knew before (Shift), and   *)
(* no occurrence becomes active again (Quiet).                             *)
(* HandlesInv says what the counters of an occurrence are by those who     *)
(* refer to it (Exact), for which no two unfinished operations may share   *)
(* an operand or an occurrence (CallsApart), an occurrence is ready once,  *)
(* and empty (ReadyOnce), and so is that of every unfinished operation     *)
(* (CallsOver).                                                            *)
(***************************************************************************)
EXTENDS Handles, FiniteSetTheorems, SequenceTheorems, TLAPS

(* Counting *)

\* The model's operators on finite sets are the library's.
LEMMA SameCounting ==
  \A S : /\ Counted!IsFiniteSet(S) <=> IsFiniteSet(S)
         /\ Counted!Cardinality(S) = Cardinality(S)
BY DEF Counted!IsFiniteSet, Counted!Cardinality, IsFiniteSet, Cardinality

LEMMA Plus ==
  ASSUME NEW S, IsFiniteSet(S), NEW x, x \notin S
  PROVE  IsFiniteSet(S \cup {x}) /\ Cardinality(S \cup {x}) = Cardinality(S) + 1
BY FS_AddElement

LEMMA Minus ==
  ASSUME NEW S, IsFiniteSet(S), NEW x \in S
  PROVE  /\ IsFiniteSet(S \ {x}) /\ Cardinality(S \ {x}) = Cardinality(S) - 1
         /\ Cardinality(S) \in Nat /\ Cardinality(S) # 0
<1>1. IsFiniteSet(S \ {x}) /\ Cardinality(S \ {x}) = Cardinality(S) - 1
  BY FS_RemoveElement
<1>2. Cardinality(S) \in Nat /\ Cardinality(S) # 0
  BY FS_CardinalityType, FS_EmptySet
<1> QED
  BY <1>1, <1>2

LEMMA Swap ==
  ASSUME NEW S, IsFiniteSet(S), NEW x \in S, NEW y, y \notin S
  PROVE  Cardinality((S \ {x}) \cup {y}) = Cardinality(S)
<1>1. IsFiniteSet(S \ {x}) /\ Cardinality(S \ {x}) = Cardinality(S) - 1 /\ Cardinality(S) \in Nat
  BY Minus
<1>2. Cardinality((S \ {x}) \cup {y}) = Cardinality(S \ {x}) + 1
  BY <1>1, Plus
<1> QED
  BY <1>1, <1>2

LEMMA Only ==
  ASSUME NEW S, IsFiniteSet(S), Cardinality(S) = 1, NEW x \in S
  PROVE  S = {x}
<1>1. IsFiniteSet(S \ {x}) /\ Cardinality(S \ {x}) = 0
  BY Minus
<1>2. S \ {x} = {}
  BY <1>1, FS_EmptySet
<1> QED
  BY <1>2

LEMMA Zero ==
  ASSUME NEW S, IsFiniteSet(S)
  PROVE  Cardinality(S) \in Nat /\ (Cardinality(S) = 0 <=> S = {})
BY FS_CardinalityType, FS_EmptySet

(* Stacks of unfinished operations *)

Elements(s) == {s[i] : i \in DOMAIN s}

\* No two operations share an operand, or an object whose reference they give back.
Apart(f, g) ==
  /\ {f.p, f.q} \cap {g.p, g.q} \subseteq {Nobody}
  /\ f.o = g.o => f.o = Nobody

Ops ==
  {f \in [op : {"release", "full", "assign"}, o : Obj \cup {Nobody},
          p : Counted!Pointer \cup {Nobody}, q : Counted!Pointer \cup {Nobody},
          to : Obj \cup {Nobody}] :
     IF f.op = "assign"
     THEN /\ f.o = Nobody
          /\ (f.p \in Var /\ f.q \in Counted!Strong) \/ {f.p, f.q} \subseteq Passive
     ELSE /\ f.o \in Obj /\ f.p = Nobody /\ f.q = Nobody /\ f.to = Nobody
          /\ f.op = "full" => f.o \in Full}

\* A release is never interrupted.
WellStacked(s) ==
  /\ s \in Seq(Ops)
  /\ \A i, j \in DOMAIN s : i # j => Apart(s[i], s[j])
  /\ \A i \in DOMAIN s : s[i].op = "release" => i = 1

LEMMA StackPush ==
  ASSUME NEW s, WellStacked(s), NEW f \in Ops, \A g \in Elements(s) : Apart(f, g),
         s # <<>> => Head(s).op # "release"
  PROVE  /\ WellStacked(<<f>> \o s) /\ Elements(<<f>> \o s) = Elements(s) \cup {f}
         /\ <<f>> \o s # <<>> /\ Head(<<f>> \o s) = f
<1>s. s \in Seq(Ops) /\ Len(s) \in Nat /\ DOMAIN s = 1 .. Len(s)
  BY DEF WellStacked
<1> DEFINE t == <<f>> \o s
<1>1. /\ t \in Seq(Ops) /\ Len(t) = Len(s) + 1 /\ DOMAIN t = 1 .. Len(s) + 1
      /\ t[1] = f /\ \A i \in 1 .. Len(s) : t[i + 1] = s[i]
  BY <1>s
<1>2. \A i \in DOMAIN t : i # 1 => i - 1 \in DOMAIN s /\ t[i] = s[i - 1]
  <2> TAKE i \in DOMAIN t
  <2> HAVE i # 1
  <2>1. i - 1 \in 1 .. Len(s) /\ (i - 1) + 1 = i
    BY <1>1, <1>s
  <2> QED
    BY <2>1, <1>1, <1>s
<1> HIDE DEF t
<1>3. Elements(t) = Elements(s) \cup {f}
  <2>1. ASSUME NEW g \in Elements(t) PROVE g \in Elements(s) \cup {f}
    <3>1. PICK i \in DOMAIN t : t[i] = g
      BY DEF Elements
    <3> QED
      BY <3>1, <1>1, <1>2 DEF Elements
  <2>2. f \in Elements(t)
    BY <1>1, <1>s DEF Elements
  <2>3. ASSUME NEW g \in Elements(s) PROVE g \in Elements(t)
    <3>1. PICK i \in 1 .. Len(s) : s[i] = g
      BY <1>s DEF Elements
    <3>2. i + 1 \in DOMAIN t /\ t[i + 1] = g
      BY <3>1, <1>1, <1>s
    <3> QED
      BY <3>2 DEF Elements
  <2> QED
    BY <2>1, <2>2, <2>3
<1>4. \A i, j \in DOMAIN t : i # j => Apart(t[i], t[j])
  <2> TAKE i, j \in DOMAIN t
  <2> HAVE i # j
  <2>1. CASE i # 1 /\ j # 1
    <3>1. i - 1 # j - 1
      BY <1>1, <1>s, <2>1
    <3> QED
      BY <2>1, <3>1, <1>2 DEF WellStacked
  <2>2. CASE i = 1
    BY <2>2, <1>1, <1>2 DEF Elements
  <2>3. CASE j = 1
    <3>1. i # 1
      BY <2>3
    <3>2. Apart(f, t[i])
      BY <3>1, <1>2 DEF Elements
    <3> QED
      BY <3>2, <2>3, <1>1 DEF Apart
  <2> QED
    BY <2>1, <2>2, <2>3
<1>5. \A i \in DOMAIN t : t[i].op = "release" => i = 1
  <2> SUFFICES ASSUME NEW i \in DOMAIN t, t[i].op = "release", i # 1 PROVE FALSE
    OBVIOUS
  <2>1. i - 1 \in DOMAIN s /\ s[i - 1].op = "release"
    BY <1>2
  <2>2. i - 1 = 1
    BY <2>1 DEF WellStacked
  <2>3. s # <<>> /\ Head(s) = s[1]
    BY <2>1, <1>s
  <2> QED
    BY <2>1, <2>2, <2>3
<1>6. t # <<>> /\ Head(t) = f
  BY <1>1, <1>s
<1> QED
  BY <1>1, <1>3, <1>4, <1>5, <1>6 DEF WellStacked, t

\* None is no pointer and no object.
LEMMA NoneIsNot == ASSUME Counted!RefAssumption PROVE Nobody \notin Counted!Pointer /\ Nobody \notin Obj
BY DEF Counted!RefAssumption, Counted!Pointer, Counted!Strong

\* What an operation is about.
LEMMA OpFacts ==
  ASSUME Counted!RefAssumption, NEW f \in Ops
  PROVE  /\ f.op \in {"release", "full", "assign"}
         /\ f.op = "assign" => /\ f.o = Nobody /\ {f.p, f.q} \subseteq Counted!Pointer /\ f.p # Nobody
                               /\ f.p \notin Obj /\ f.q # Nobody
                               /\ (f.p \in Counted!Strong <=> f.q \in Counted!Strong)
                               /\ (f.p \in Passive <=> f.q \in Passive)
         /\ f.op # "assign" => f.o \in Obj /\ f.o # Nobody /\ f.p = Nobody /\ f.q = Nobody
         /\ f.op = "full" => f.o \in Full
<1>1. f.op \in {"release", "full", "assign"}
  BY DEF Ops
<1>2. CASE f.op = "assign"
  <2>1. f.o = Nobody /\ ((f.p \in Var /\ f.q \in Counted!Strong) \/ {f.p, f.q} \subseteq Passive)
    BY <1>2 DEF Ops
  <2>2. Passive \cap Counted!Strong = {} /\ Var \cap Obj = {} /\ Obj \subseteq Counted!Strong /\ Var \subseteq Counted!Strong
        /\ Nobody \notin Counted!Pointer /\ Counted!Strong \subseteq Counted!Pointer /\ Passive \subseteq Counted!Pointer
    BY DEF Counted!RefAssumption, Counted!Strong, Counted!Pointer
  <2> QED
    BY <1>1, <1>2, <2>1, <2>2
<1>3. CASE f.op # "assign"
  <2>1. f.o \in Obj /\ f.p = Nobody /\ f.q = Nobody /\ (f.op = "full" => f.o \in Full)
    BY <1>3 DEF Ops
  <2> QED
    BY <1>1, <1>3, <2>1, NoneIsNot
<1> QED
  BY <1>2, <1>3

LEMMA StackPop ==
  ASSUME Counted!RefAssumption, NEW s, WellStacked(s), s # <<>>
  PROVE  /\ WellStacked(Tail(s)) /\ Head(s) \in Ops /\ Head(s) \in Elements(s)
         /\ Elements(Tail(s)) = Elements(s) \ {Head(s)}
         /\ \A g \in Elements(Tail(s)) :
              g \in Ops /\ g.op # "release" /\ Apart(Head(s), g) /\ Apart(g, Head(s))
<1>s. s \in Seq(Ops) /\ Len(s) \in Nat \ {0} /\ DOMAIN s = 1 .. Len(s)
  BY DEF WellStacked
<1> DEFINE t == Tail(s)
<1>1. /\ t \in Seq(Ops) /\ DOMAIN t = 1 .. Len(s) - 1 /\ Head(s) = s[1]
      /\ \A i \in DOMAIN t : i + 1 \in DOMAIN s /\ i + 1 # 1 /\ t[i] = s[i + 1]
  BY <1>s
<1>2. 1 \in DOMAIN s /\ \A i \in DOMAIN s : i # 1 => i - 1 \in DOMAIN t /\ t[i - 1] = s[i]
  <2>1. \A i \in DOMAIN s : i # 1 => i - 1 \in DOMAIN t /\ (i - 1) + 1 = i
    BY <1>1, <1>s
  <2> QED
    BY <2>1, <1>1, <1>s
<1> HIDE DEF t
<1>3. Head(s) \in Ops /\ Head(s) \in Elements(s)
  BY <1>1, <1>2, <1>s DEF Elements
<1>4. \A i \in DOMAIN s : i # 1 => Apart(s[1], s[i]) /\ Apart(s[i], s[1]) /\ s[i] # s[1]
  <2> TAKE i \in DOMAIN s
  <2> HAVE i # 1
  <2>1. Apart(s[1], s[i]) /\ Apart(s[i], s[1])
    BY <1>2 DEF WellStacked
  <2>2. s[1] \in Ops /\ s[i] \in Ops
    BY <1>s, <1>2
  <2>3. s[1] # s[i]
    <3> SUFFICES ASSUME s[1] = s[i] PROVE FALSE
      OBVIOUS
    <3>1. s[1].o = Nobody /\ s[1].p \in {Nobody}
      BY <2>1 DEF Apart
    <3> QED
      BY <3>1, <2>2, OpFacts
  <2> QED
    BY <2>1, <2>3
<1>5. Elements(t) = Elements(s) \ {Head(s)}
  BY <1>1, <1>2, <1>4 DEF Elements
<1>6. ASSUME NEW g \in Elements(t)
      PROVE  g \in Ops /\ g.op # "release" /\ Apart(Head(s), g) /\ Apart(g, Head(s))
  <2>1. PICK i \in DOMAIN t : t[i] = g
    BY DEF Elements
  <2>2. i + 1 \in DOMAIN s /\ i + 1 # 1 /\ s[i + 1] = g
    BY <2>1, <1>1
  <2> QED
    BY <2>2, <1>1, <1>4, <1>s DEF WellStacked
<1>7. \A i, j \in DOMAIN t : i # j => Apart(t[i], t[j])
  <2> TAKE i, j \in DOMAIN t
  <2> HAVE i # j
  <2>1. i + 1 # j + 1
    BY <1>1, <1>s
  <2> QED
    BY <2>1, <1>1 DEF WellStacked
<1>8. \A i \in DOMAIN t : t[i].op = "release" => i = 1
  BY <1>1 DEF WellStacked
<1> QED
  BY <1>1, <1>3, <1>5, <1>6, <1>7, <1>8 DEF WellStacked, t

(* Who refers to an object *)

\* With unfinished operations G and pointers a.
RefersIn(G, a, x, o) ==
  IF \E c \in G : c.p = x THEN \E c \in G : c.p = x /\ c.to = o ELSE a[x] = o
ReleasedIn(G, o) == \E c \in G : c.o = o
UsersIn(G, a, o) ==
  {p \in Counted!Strong : RefersIn(G, a, p, o)} \cup {u \in {Nobody} : ReleasedIn(G, o)}
HoldersIn(G, a, o) == {p \in Passive : RefersIn(G, a, p, o)}

CountedIn(G, a, u, w) ==
  \A o \in Obj : u[o] = Cardinality(UsersIn(G, a, o)) /\ w[o] = Cardinality(HoldersIn(G, a, o))

NoOperand(G, x) == \A c \in G : x \notin {c.p, c.q}
NoTarget(G, x) == \A c \in G : x # c.p

LEMMA GoingIs == Counted!Going = Elements(frames)
BY DEF Counted!Going, Elements

LEMMA UsersAreIn ==
  /\ \A o : Counted!Users(o) = UsersIn(Counted!Going, at, o) /\ Counted!Holders(o) = HoldersIn(Counted!Going, at, o)
  /\ \A p, o : Counted!Refers(p, o) <=> RefersIn(Counted!Going, at, p, o)
BY DEF Counted!Users, UsersIn, Counted!Holders, HoldersIn, Counted!Refers, RefersIn, Counted!Released, ReleasedIn

LEMMA Finite ==
  ASSUME Counted!RefAssumption, NEW G, NEW a, NEW o \in Obj
  PROVE  /\ IsFiniteSet(UsersIn(G, a, o)) /\ IsFiniteSet(HoldersIn(G, a, o))
         /\ \A p \in Counted!Strong : p \in UsersIn(G, a, o) <=> RefersIn(G, a, p, o)
         /\ \A p \in Passive : p \in HoldersIn(G, a, o) <=> RefersIn(G, a, p, o)
         /\ Nobody \in UsersIn(G, a, o) <=> ReleasedIn(G, o)
<1>1. UsersIn(G, a, o) \subseteq Counted!Strong \cup {Nobody} /\ HoldersIn(G, a, o) \subseteq Passive
  BY DEF UsersIn, HoldersIn
<1>2. IsFiniteSet(Counted!Strong) /\ IsFiniteSet(Passive)
  BY FS_Subset, SameCounting DEF Counted!RefAssumption, Counted!Pointer
<1>3. IsFiniteSet(Counted!Strong \cup {Nobody})
  BY <1>2, FS_AddElement
<1>4. IsFiniteSet(UsersIn(G, a, o)) /\ IsFiniteSet(HoldersIn(G, a, o))
  BY <1>1, <1>2, <1>3, FS_Subset
<1> QED
  BY <1>4, NoneIsNot DEF UsersIn, HoldersIn, Counted!Pointer

\* What refers to what stays the same, but for a pointer x that is no target.
LEMMA Redirected ==
  ASSUME Counted!RefAssumption, NEW G, NEW H, NEW a, NEW b, NEW x, NoTarget(G, x),
         \A c : c.p # Nobody => (c \in G <=> c \in H),
         \A y \in Counted!Pointer : y # x => a[y] = b[y]
  PROVE  \A y \in Counted!Pointer : \A o :
           RefersIn(H, b, y, o) <=> IF y = x THEN b[x] = o ELSE RefersIn(G, a, y, o)
<1> TAKE y \in Counted!Pointer
<1> TAKE o
<1>1. y # Nobody
  BY NoneIsNot
<1>2. \A c : c.p = y => (c \in G <=> c \in H)
  BY <1>1
<1>3. CASE y = x
  BY <1>2, <1>3 DEF RefersIn, NoTarget
<1>4. CASE y # x
  <2>1. (\E c \in G : c.p = y) <=> (\E c \in H : c.p = y)
    BY <1>2
  <2>2. a[y] = b[y]
    BY <1>4
  <2> QED
    BY <1>2, <1>4, <2>1, <2>2 DEF RefersIn
<1> QED
  BY <1>3, <1>4

\* A release is no pointer's.
LEMMA DoHas ==
  ASSUME NEW op, NEW o
  PROVE  Counted!Do(op, o).op = op /\ Counted!Do(op, o).o = o /\ Counted!Do(op, o).p = Nobody /\ Counted!Do(op, o).q = Nobody
BY DEF Counted!Do, Counted!Frame

\* Sets that differ in one element at most.
LEMMA Difference ==
  ASSUME NEW S, IsFiniteSet(S), NEW T, NEW x, \A y : y # x => (y \in T <=> y \in S)
  PROVE  Cardinality(T) = IF x \in T /\ x \notin S THEN Cardinality(S) + 1
                          ELSE IF x \in S /\ x \notin T THEN Cardinality(S) - 1
                          ELSE Cardinality(S)
<1>1. CASE x \in T /\ x \notin S
  <2>1. T = S \cup {x}
    BY <1>1
  <2> QED
    BY <1>1, <2>1, Plus
<1>2. CASE x \in S /\ x \notin T
  <2>1. T = S \ {x}
    BY <1>2
  <2> QED
    BY <1>2, <2>1, Minus
<1>3. CASE x \in S <=> x \in T
  <2>1. T = S
    BY <1>3
  <2> QED
    BY <1>3, <2>1
<1> QED
  BY <1>1, <1>2, <1>3

\* Counts when one that was held for m is held for n.
Changed(f, m, n) ==
  [o \in Obj |-> IF o = n /\ o # m THEN f[o] + 1 ELSE IF o = m /\ o # n THEN f[o] - 1 ELSE f[o]]

LEMMA Retargeted ==
  ASSUME Counted!RefAssumption, NEW G, NEW H, NEW a, NEW b, NEW x \in Counted!Pointer, NEW m, NEW n,
         \A o \in Obj : RefersIn(G, a, x, o) <=> o = m,
         \A o \in Obj : RefersIn(H, b, x, o) <=> o = n,
         \A o \in Obj : ReleasedIn(H, o) <=> ReleasedIn(G, o),
         \A y \in Counted!Pointer : \A o \in Obj :
           y # x => (RefersIn(H, b, y, o) <=> RefersIn(G, a, y, o)),
         NEW u, NEW w, CountedIn(G, a, u, w)
  PROVE  /\ x \in Counted!Strong => CountedIn(H, b, Changed(u, m, n), w)
         /\ x \in Passive => CountedIn(H, b, u, Changed(w, m, n))
<1>k. \A y : (y \in Counted!Strong => y \in Counted!Pointer /\ y \notin Passive) /\ (y \in Passive => y \in Counted!Pointer)
  BY DEF Counted!RefAssumption, Counted!Pointer
<1>1. ASSUME NEW o \in Obj
      PROVE  /\ \A y : y # x => (y \in UsersIn(H, b, o) <=> y \in UsersIn(G, a, o))
             /\ \A y : y # x => (y \in HoldersIn(H, b, o) <=> y \in HoldersIn(G, a, o))
  <2>1. ReleasedIn(H, o) <=> ReleasedIn(G, o)
    OBVIOUS
  <2>2. \A y : y # x => (y \in UsersIn(H, b, o) <=> y \in UsersIn(G, a, o))
    BY <2>1, <1>k DEF UsersIn
  <2>3. \A y : y # x => (y \in HoldersIn(H, b, o) <=> y \in HoldersIn(G, a, o))
    BY <1>k DEF HoldersIn
  <2> QED
    BY <2>2, <2>3
<1>2. ASSUME NEW o \in Obj, x \in Counted!Strong
      PROVE  /\ x \in UsersIn(G, a, o) <=> o = m
             /\ x \in UsersIn(H, b, o) <=> o = n
             /\ HoldersIn(H, b, o) = HoldersIn(G, a, o)
  <2>1. x \in UsersIn(G, a, o) <=> o = m
    BY <1>2, Finite
  <2>2. x \in UsersIn(H, b, o) <=> o = n
    BY <1>2, Finite
  <2>3. x \notin HoldersIn(H, b, o) /\ x \notin HoldersIn(G, a, o)
    BY <1>2, <1>k DEF HoldersIn
  <2>4. HoldersIn(H, b, o) = HoldersIn(G, a, o)
    BY <2>3, <1>1
  <2> QED
    BY <2>1, <2>2, <2>4
<1>3. ASSUME NEW o \in Obj, x \in Passive
      PROVE  /\ x \in HoldersIn(G, a, o) <=> o = m
             /\ x \in HoldersIn(H, b, o) <=> o = n
             /\ UsersIn(H, b, o) = UsersIn(G, a, o)
  <2>1. x \in HoldersIn(G, a, o) <=> o = m
    BY <1>3, Finite
  <2>2. x \in HoldersIn(H, b, o) <=> o = n
    BY <1>3, Finite
  <2>3. x \notin UsersIn(H, b, o) /\ x \notin UsersIn(G, a, o)
    BY <1>3, <1>k, NoneIsNot DEF UsersIn
  <2>4. UsersIn(H, b, o) = UsersIn(G, a, o)
    BY <2>3, <1>1
  <2> QED
    BY <2>1, <2>2, <2>4
<1>4. ASSUME x \in Counted!Strong, NEW o \in Obj
      PROVE  /\ Changed(u, m, n)[o] = Cardinality(UsersIn(H, b, o))
             /\ w[o] = Cardinality(HoldersIn(H, b, o))
  <2>1. u[o] = Cardinality(UsersIn(G, a, o)) /\ w[o] = Cardinality(HoldersIn(G, a, o))
    BY DEF CountedIn
  <2>2. IsFiniteSet(UsersIn(G, a, o))
    BY Finite
  <2>3. Cardinality(UsersIn(H, b, o)) =
          IF x \in UsersIn(H, b, o) /\ x \notin UsersIn(G, a, o)
          THEN Cardinality(UsersIn(G, a, o)) + 1
          ELSE IF x \in UsersIn(G, a, o) /\ x \notin UsersIn(H, b, o)
          THEN Cardinality(UsersIn(G, a, o)) - 1
          ELSE Cardinality(UsersIn(G, a, o))
    BY <2>2, <1>1, Difference
  <2>4. /\ x \in UsersIn(G, a, o) <=> o = m
        /\ x \in UsersIn(H, b, o) <=> o = n
        /\ HoldersIn(H, b, o) = HoldersIn(G, a, o)
    BY <1>2, <1>4
  <2> QED
    BY <2>1, <2>3, <2>4 DEF Changed
<1>5. ASSUME x \in Passive, NEW o \in Obj
      PROVE  /\ u[o] = Cardinality(UsersIn(H, b, o))
             /\ Changed(w, m, n)[o] = Cardinality(HoldersIn(H, b, o))
  <2>1. u[o] = Cardinality(UsersIn(G, a, o)) /\ w[o] = Cardinality(HoldersIn(G, a, o))
    BY DEF CountedIn
  <2>2. IsFiniteSet(HoldersIn(G, a, o))
    BY Finite
  <2>3. Cardinality(HoldersIn(H, b, o)) =
          IF x \in HoldersIn(H, b, o) /\ x \notin HoldersIn(G, a, o)
          THEN Cardinality(HoldersIn(G, a, o)) + 1
          ELSE IF x \in HoldersIn(G, a, o) /\ x \notin HoldersIn(H, b, o)
          THEN Cardinality(HoldersIn(G, a, o)) - 1
          ELSE Cardinality(HoldersIn(G, a, o))
    BY <2>2, <1>1, Difference
  <2>4. /\ x \in HoldersIn(G, a, o) <=> o = m
        /\ x \in HoldersIn(H, b, o) <=> o = n
        /\ UsersIn(H, b, o) = UsersIn(G, a, o)
    BY <1>3, <1>5
  <2> QED
    BY <2>1, <2>3, <2>4 DEF Changed
<1> QED
  BY <1>4, <1>5 DEF CountedIn

LEMMA FreeRefers ==
  ASSUME NEW G, NEW x, NoTarget(G, x), NEW a, NEW o
  PROVE  RefersIn(G, a, x, o) <=> a[x] = o
BY DEF NoTarget, RefersIn

LEMMA NoOperandIsNoTarget == \A G, x : NoOperand(G, x) => NoTarget(G, x)
BY DEF NoOperand, NoTarget

\* The target of an assignment is no member.
LEMMA OpsTargets ==
  ASSUME Counted!RefAssumption, NEW G, \A c \in G : c \in Ops
  PROVE  \A y \in Obj : NoTarget(G, y)
<1> SUFFICES ASSUME NEW c \in G, NEW y \in Obj PROVE c.p # y
  BY DEF NoTarget
<1>1. c \in Ops
  OBVIOUS
<1>2. Nobody \notin Obj
  BY NoneIsNot
<1> QED
  BY <1>1, <1>2, OpFacts

\* A pointer that is no target comes to refer to n.
LEMMA FreeMoves ==
  ASSUME Counted!RefAssumption, NEW G, \A c \in G : c \in Ops, NEW x \in Counted!Pointer, NoTarget(G, x),
         NEW a \in [Counted!Pointer -> Obj \cup {Nobody}], NEW n \in Obj \cup {Nobody},
         NEW u, NEW w, CountedIn(G, a, u, w)
  PROVE  /\ x \in Counted!Strong => CountedIn(G, [a EXCEPT ![x] = n], Changed(u, a[x], n), w)
         /\ x \in Passive => CountedIn(G, [a EXCEPT ![x] = n], u, Changed(w, a[x], n))
<1> DEFINE b == [a EXCEPT ![x] = n]
<1>1. b[x] = n /\ \A y \in Counted!Pointer : y # x => a[y] = b[y]
  OBVIOUS
<1> HIDE DEF b
<1>2. \A y \in Counted!Pointer : \A o : RefersIn(G, b, y, o) <=> IF y = x THEN b[x] = o ELSE RefersIn(G, a, y, o)
  BY <1>1, Redirected
<1>3. \A o \in Obj : RefersIn(G, a, x, o) <=> o = a[x]
  BY FreeRefers
<1>4. \A o \in Obj : RefersIn(G, b, x, o) <=> o = n
  BY FreeRefers, <1>1
<1>5. \A y \in Counted!Pointer : \A o \in Obj : y # x => (RefersIn(G, b, y, o) <=> RefersIn(G, a, y, o))
  BY <1>2
<1>6. /\ x \in Counted!Strong => CountedIn(G, b, Changed(u, a[x], n), w)
      /\ x \in Passive => CountedIn(G, b, u, Changed(w, a[x], n))
  BY <1>3, <1>4, <1>5, Retargeted
<1> QED
  BY <1>6 DEF b

\* An assignment that begins: its target counts for its source.
LEMMA AssignBegins ==
  ASSUME Counted!RefAssumption, NEW G, \A c \in G : c \in Ops,
         NEW x \in Counted!Pointer, NEW y \in Counted!Pointer, NoTarget(G, x),
         NEW a, NEW u, NEW w, CountedIn(G, a, u, w)
  PROVE  LET H == G \cup {Counted!Frame("assign", Nobody, x, y, a[y])}
         IN  /\ x \in Counted!Strong => CountedIn(H, a, Changed(u, a[x], a[y]), w)
             /\ x \in Passive => CountedIn(H, a, u, Changed(w, a[x], a[y]))
<1> DEFINE f == Counted!Frame("assign", Nobody, x, y, a[y])
           H == G \cup {f}
<1>1. f.p = x /\ f.to = a[y] /\ f.o = Nobody
  BY DEF Counted!Frame
<1> HIDE DEF f
<1>n. Nobody \notin Obj
  BY NoneIsNot
<1>2. \A o \in Obj : RefersIn(G, a, x, o) <=> o = a[x]
  BY FreeRefers
<1>3. \A o \in Obj : RefersIn(H, a, x, o) <=> o = a[y]
  BY <1>1 DEF RefersIn, NoTarget
<1>4. \A z \in Counted!Pointer : \A o \in Obj : z # x => (RefersIn(H, a, z, o) <=> RefersIn(G, a, z, o))
  <2> TAKE z \in Counted!Pointer
  <2> TAKE o \in Obj
  <2> HAVE z # x
  <2>1. \A c : c.p = z => (c \in H <=> c \in G)
    BY <1>1
  <2> HIDE DEF H
  <2> QED
    BY <2>1 DEF RefersIn
<1>5. \A o \in Obj : ReleasedIn(H, o) <=> ReleasedIn(G, o)
  BY <1>1, <1>n DEF ReleasedIn
<1> HIDE DEF H
<1>6. /\ x \in Counted!Strong => CountedIn(H, a, Changed(u, a[x], a[y]), w)
      /\ x \in Passive => CountedIn(H, a, u, Changed(w, a[x], a[y]))
  BY <1>2, <1>3, <1>4, <1>5, Retargeted
<1> QED
  BY <1>6 DEF H, f

\* A release that begins takes over a reference of its own.
LEMMA ReleaseBegins ==
  ASSUME Counted!RefAssumption, NEW G, NEW f, f.p = Nobody, f.o \in Obj, ~ReleasedIn(G, f.o),
         NEW a, NEW u, NEW w, CountedIn(G, a, u, w)
  PROVE  CountedIn(G \cup {f}, a, [o \in Obj |-> IF o = f.o THEN u[o] + 1 ELSE u[o]], w)
<1> DEFINE H == G \cup {f}
<1>1. \A y \in Counted!Pointer : \A o : RefersIn(H, a, y, o) <=> RefersIn(G, a, y, o)
  <2> TAKE y \in Counted!Pointer
  <2> TAKE o
  <2>1. \A c : c.p = y => (c \in H <=> c \in G)
    BY NoneIsNot
  <2> HIDE DEF H
  <2> QED
    BY <2>1 DEF RefersIn
<1>p. \A y : (y \in Counted!Strong => y \in Counted!Pointer) /\ (y \in Passive => y \in Counted!Pointer)
  BY DEF Counted!Pointer
<1>2. \A o : ReleasedIn(H, o) <=> (ReleasedIn(G, o) \/ o = f.o)
  BY DEF ReleasedIn
<1> HIDE DEF H
<1>3. ASSUME NEW o \in Obj
      PROVE  /\ (IF o = f.o THEN u[o] + 1 ELSE u[o]) = Cardinality(UsersIn(H, a, o))
             /\ w[o] = Cardinality(HoldersIn(H, a, o))
  <2>1. HoldersIn(H, a, o) = HoldersIn(G, a, o)
    BY <1>1, <1>p DEF HoldersIn
  <2>2. CASE o # f.o
    <3>1. ReleasedIn(H, o) <=> ReleasedIn(G, o)
      BY <1>2, <2>2
    <3>2. UsersIn(H, a, o) = UsersIn(G, a, o)
      BY <1>1, <1>p, <3>1 DEF UsersIn
    <3> QED
      BY <2>1, <2>2, <3>2 DEF CountedIn
  <2>3. CASE o = f.o
    <3>1. ReleasedIn(H, o) /\ ~ReleasedIn(G, o)
      BY <1>2, <2>3
    <3>2. UsersIn(H, a, o) = UsersIn(G, a, o) \cup {Nobody}
      BY <1>1, <1>p, <3>1 DEF UsersIn
    <3>3. Nobody \notin UsersIn(G, a, o) /\ IsFiniteSet(UsersIn(G, a, o))
      BY <3>1, Finite
    <3>4. u[o] = Cardinality(UsersIn(G, a, o)) /\ w[o] = Cardinality(HoldersIn(G, a, o))
      BY DEF CountedIn
    <3> QED
      BY <2>1, <2>3, <3>2, <3>3, <3>4, Plus
  <2> QED
    BY <2>2, <2>3
<1>4. \A o \in Obj : [r \in Obj |-> IF r = f.o THEN u[r] + 1 ELSE u[r]][o] =
                       IF o = f.o THEN u[o] + 1 ELSE u[o]
  OBVIOUS
<1>5. CountedIn(H, a, [o \in Obj |-> IF o = f.o THEN u[o] + 1 ELSE u[o]], w)
  BY <1>3, <1>4 DEF CountedIn
<1> QED
  BY <1>5 DEF H

\* A release that ends gives its reference back.
LEMMA ReleaseEnds ==
  ASSUME Counted!RefAssumption, NEW G, NEW f \in G, f.p = Nobody, f.o \in Obj,
         \A g \in G : g # f => g.o # f.o,
         NEW a, NEW u, NEW w, CountedIn(G, a, u, w)
  PROVE  /\ CountedIn(G \ {f}, a, [o \in Obj |-> IF o = f.o THEN u[o] - 1 ELSE u[o]], w)
         /\ u[f.o] \in Nat /\ u[f.o] # 0
<1> DEFINE H == G \ {f}
<1>1. \A y \in Counted!Pointer : \A o : RefersIn(H, a, y, o) <=> RefersIn(G, a, y, o)
  <2> TAKE y \in Counted!Pointer
  <2> TAKE o
  <2>1. \A c : c.p = y => (c \in H <=> c \in G)
    BY NoneIsNot
  <2> HIDE DEF H
  <2> QED
    BY <2>1 DEF RefersIn
<1>p. \A y : (y \in Counted!Strong => y \in Counted!Pointer) /\ (y \in Passive => y \in Counted!Pointer)
  BY DEF Counted!Pointer
<1>2. \A o : ReleasedIn(H, o) <=> (ReleasedIn(G, o) /\ o # f.o)
  BY DEF ReleasedIn
<1>g. ReleasedIn(G, f.o)
  BY DEF ReleasedIn
<1> HIDE DEF H
<1>3. ASSUME NEW o \in Obj
      PROVE  /\ (IF o = f.o THEN u[o] - 1 ELSE u[o]) = Cardinality(UsersIn(H, a, o))
             /\ w[o] = Cardinality(HoldersIn(H, a, o))
             /\ o = f.o => u[o] \in Nat /\ u[o] # 0
  <2>1. HoldersIn(H, a, o) = HoldersIn(G, a, o)
    BY <1>1, <1>p DEF HoldersIn
  <2>2. CASE o # f.o
    <3>1. ReleasedIn(H, o) <=> ReleasedIn(G, o)
      BY <1>2, <2>2
    <3>2. UsersIn(H, a, o) = UsersIn(G, a, o)
      BY <1>1, <1>p, <3>1 DEF UsersIn
    <3> QED
      BY <2>1, <2>2, <3>2 DEF CountedIn
  <2>3. CASE o = f.o
    <3>1. ~ReleasedIn(H, o) /\ ReleasedIn(G, o)
      BY <1>2, <2>3, <1>g
    <3>2. UsersIn(H, a, o) = UsersIn(G, a, o) \ {Nobody}
      BY <1>1, <1>p, <3>1, NoneIsNot DEF UsersIn
    <3>3. Nobody \in UsersIn(G, a, o) /\ IsFiniteSet(UsersIn(G, a, o))
      BY <3>1, Finite
    <3>4. u[o] = Cardinality(UsersIn(G, a, o)) /\ w[o] = Cardinality(HoldersIn(G, a, o))
      BY DEF CountedIn
    <3> QED
      BY <2>1, <2>3, <3>2, <3>3, <3>4, Minus
  <2> QED
    BY <2>2, <2>3
<1>4. \A o \in Obj : [r \in Obj |-> IF r = f.o THEN u[r] - 1 ELSE u[r]][o] =
                       IF o = f.o THEN u[o] - 1 ELSE u[o]
  OBVIOUS
<1>5. CountedIn(H, a, [o \in Obj |-> IF o = f.o THEN u[o] - 1 ELSE u[o]], w)
  BY <1>3, <1>4 DEF CountedIn
<1> QED
  BY <1>5, <1>3 DEF H

(* The invariant of references *)

FullIn(G, o) == \E f \in G : f.op = "full" /\ f.o = o

\* What the counts say of each object: full_release runs while the count is one; an
\* object that does not exist has no member; and how often each thing was done.
Ledger(G, u, w, a, md, dl, rl) ==
  \A o \in Obj :
    /\ FullIn(G, o) => u[o] = 1
    /\ o \notin md => u[o] = 0 /\ w[o] = 0
    /\ o \notin md \/ dl[o] # 0 => a[o] = Nobody
    /\ rl[o] = IF o \in Full /\ o \in md /\ (u[o] = 0 \/ FullIn(G, o)) THEN 1 ELSE 0
    /\ dl[o] = IF o \in md /\ u[o] = 0 /\ w[o] = 0 THEN 1 ELSE 0

RefsTyped ==
  /\ use \in [Obj -> Int] /\ weak \in [Obj -> Int]
  /\ at \in [Counted!Pointer -> Obj \cup {Nobody}] /\ made \subseteq Obj
  /\ deleted \in [Obj -> Int] /\ released \in [Obj -> Int]
  /\ WellStacked(frames)

RefsInv ==
  /\ RefsTyped
  /\ CountedIn(Elements(frames), at, use, weak)
  /\ Ledger(Elements(frames), use, weak, at, made, deleted, released)

LEMMA Natural ==
  ASSUME Counted!RefAssumption, NEW G, NEW a, NEW u, NEW w, CountedIn(G, a, u, w), NEW o \in Obj
  PROVE  u[o] \in Nat /\ w[o] \in Nat
<1>1. u[o] = Cardinality(UsersIn(G, a, o)) /\ w[o] = Cardinality(HoldersIn(G, a, o))
  BY DEF CountedIn
<1> QED
  BY <1>1, Finite, Zero

LEMMA Counting ==
  ASSUME Counted!RefAssumption, NEW G, NEW a, NEW u, NEW w, CountedIn(G, a, u, w), NEW o \in Obj
  PROVE  /\ \A p \in Counted!Strong : RefersIn(G, a, p, o) => u[o] # 0
         /\ \A p \in Passive : RefersIn(G, a, p, o) => w[o] # 0
<1>1. u[o] = Cardinality(UsersIn(G, a, o)) /\ w[o] = Cardinality(HoldersIn(G, a, o))
  BY DEF CountedIn
<1>2. \A p \in Counted!Strong : RefersIn(G, a, p, o) => UsersIn(G, a, o) # {}
  BY Finite
<1>3. \A p \in Passive : RefersIn(G, a, p, o) => HoldersIn(G, a, o) # {}
  BY Finite
<1> QED
  BY <1>1, <1>2, <1>3, Finite, Zero

\* The object of a full_release has no other counted reference.
LEMMA Alone ==
  ASSUME Counted!RefAssumption, NEW G, NEW a, NEW u, NEW w, CountedIn(G, a, u, w), NEW o \in Obj,
         ReleasedIn(G, o), u[o] = 1, NEW p \in Counted!Strong
  PROVE  ~RefersIn(G, a, p, o)
<1>1. Cardinality(UsersIn(G, a, o)) = 1
  BY DEF CountedIn
<1>2. Nobody \in UsersIn(G, a, o) /\ IsFiniteSet(UsersIn(G, a, o))
  BY Finite
<1>3. UsersIn(G, a, o) = {Nobody}
  BY <1>1, <1>2, Only
<1>4. p # Nobody
  BY NoneIsNot DEF Counted!Pointer
<1> QED
  BY <1>3, <1>4, Finite

\* An object some pointer refers to is not being released, unless a release is next.
LEMMA NotReleased ==
  ASSUME Counted!RefAssumption, NEW s, WellStacked(s), s # <<>> => Head(s).op # "release",
         NEW a, NEW u, NEW w, CountedIn(Elements(s), a, u, w), NEW o \in Obj,
         FullIn(Elements(s), o) => u[o] = 1,
         NEW p \in Counted!Strong, RefersIn(Elements(s), a, p, o)
  PROVE  ~ReleasedIn(Elements(s), o)
<1> SUFFICES ASSUME ReleasedIn(Elements(s), o) PROVE FALSE
  OBVIOUS
<1>1. PICK f \in Elements(s) : f.o = o
  BY DEF ReleasedIn
<1>2. f \in Ops
  BY DEF Elements, WellStacked
<1>3. f.op # "release"
  <2>1. PICK i \in DOMAIN s : s[i] = f
    BY DEF Elements
  <2>2. s[i].op = "release" => i = 1 /\ s # <<>> /\ Head(s) = s[1]
    BY DEF WellStacked
  <2> QED
    BY <2>1, <2>2
<1>4. f.op = "full"
  BY <1>1, <1>2, <1>3, OpFacts, NoneIsNot
<1>5. u[o] = 1
  BY <1>1, <1>4 DEF FullIn
<1> QED
  BY <1>5, Alone

\* A pointer that goes away leaves its reference to the release that begins.
GivesUp(s, a, u, w, m, t, b) ==
  /\ WellStacked(s) /\ (s # <<>> => Head(s).op # "release")
  /\ a \in [Counted!Pointer -> Obj \cup {Nobody}] /\ m \in Counted!Strong
  /\ NoTarget(Elements(s), m) /\ CountedIn(Elements(s), a, u, w)
  /\ \A o \in Obj : FullIn(Elements(s), o) => u[o] = 1
  /\ t = IF a[m] = Nobody THEN s ELSE <<Counted!Do("release", a[m])>> \o s
  /\ b[m] = Nobody /\ \A y \in Counted!Pointer : y # m => a[y] = b[y]

LEMMA Leaving ==
  ASSUME Counted!RefAssumption, NEW s, NEW a, NEW u, NEW w, NEW m, NEW t, NEW b,
         GivesUp(s, a, u, w, m, t, b)
  PROVE  /\ WellStacked(t) /\ CountedIn(Elements(t), b, u, w)
         /\ \A o \in Obj : FullIn(Elements(t), o) <=> FullIn(Elements(s), o)
<1> USE DEF GivesUp
<1>r. a[m] # Nobody => ~ReleasedIn(Elements(s), a[m])
  <2> SUFFICES ASSUME a[m] # Nobody PROVE ~ReleasedIn(Elements(s), a[m])
    OBVIOUS
  <2>1. a[m] \in Obj
    BY DEF Counted!Pointer
  <2>2. RefersIn(Elements(s), a, m, a[m])
    BY FreeRefers
  <2> QED
    BY <2>1, <2>2, NotReleased
<1> DEFINE G == Elements(s)  H == Elements(t)
<1>0. m \in Counted!Pointer /\ a[m] \in Obj \cup {Nobody} /\ Nobody \notin Obj
  BY NoneIsNot DEF Counted!Pointer
<1>1. b[m] = Nobody /\ \A y \in Counted!Pointer : y # m => a[y] = b[y]
  OBVIOUS
<1>G. \A c \in G : c \in Ops
  BY DEF Elements, WellStacked
<1>F. NoTarget(G, m)
  OBVIOUS
<1>P. \A y \in Counted!Strong : y \in Counted!Pointer
  BY DEF Counted!Pointer
<1>2. CASE a[m] = Nobody
  <2>1. t = s
    BY <1>2
  <2> HIDE DEF G
  <2>2. \A y \in Counted!Pointer : \A o : RefersIn(G, b, y, o) <=> IF y = m THEN b[m] = o ELSE RefersIn(G, a, y, o)
    BY <1>1, <1>F, Redirected
  <2>3. \A y \in Counted!Pointer : \A o \in Obj : RefersIn(G, b, y, o) <=> RefersIn(G, a, y, o)
    <3> TAKE y \in Counted!Pointer
    <3> TAKE o \in Obj
    <3>1. CASE y = m
      <4>1. RefersIn(G, a, m, o) <=> a[m] = o
        BY <1>F DEF RefersIn, NoTarget
      <4> QED
        BY <4>1, <3>1, <2>2, <1>0, <1>1, <1>2
    <3> QED
      BY <3>1, <2>2
  <2>4. \A o \in Obj : UsersIn(G, b, o) = UsersIn(G, a, o) /\ HoldersIn(G, b, o) = HoldersIn(G, a, o)
    BY <2>3 DEF UsersIn, HoldersIn, Counted!Pointer
  <2> QED
    BY <2>1, <2>4 DEF CountedIn, G
<1>3. CASE a[m] # Nobody
  <2> DEFINE f == Counted!Do("release", a[m])
  <2>1. f \in Ops
    BY <1>0, <1>3 DEF Ops, Counted!Do, Counted!Frame
  <2>2. \A g \in G : Apart(f, g)
    BY <1>3, <1>r, DoHas DEF Apart, ReleasedIn
  <2>3. t = <<f>> \o s
    BY <1>3
  <2> HIDE DEF f
  <2>4. WellStacked(t) /\ H = G \cup {f}
    BY <2>1, <2>2, <2>3, StackPush
  <2> HIDE DEF H, G
  <2>5. f.p = Nobody /\ f.o = a[m] /\ f.op = "release"
    BY DoHas DEF f
  <2>6. \A y \in Counted!Pointer : \A o : RefersIn(H, b, y, o) <=> IF y = m THEN b[m] = o ELSE RefersIn(G, a, y, o)
    <3>1. \A c : c.p # Nobody => (c \in G <=> c \in H)
      BY <2>4, <2>5
    <3> QED
      BY <3>1, <1>1, <1>F, Redirected
  <2>7. \A o \in Obj : /\ ~RefersIn(H, b, m, o) /\ (RefersIn(G, a, m, o) <=> o = a[m])
                      /\ (ReleasedIn(H, o) <=> (ReleasedIn(G, o) \/ o = a[m]))
    <3> TAKE o \in Obj
    <3>1. ~RefersIn(H, b, m, o)
      BY <2>6, <1>0, <1>1
    <3>2. RefersIn(G, a, m, o) <=> o = a[m]
      BY <1>F DEF RefersIn, NoTarget
    <3>3. ReleasedIn(H, o) <=> ReleasedIn(G, o) \/ o = a[m]
      BY <2>4, <2>5 DEF ReleasedIn
    <3> QED
      BY <3>1, <3>2, <3>3
  <2>8. ASSUME NEW o \in Obj
        PROVE  /\ Cardinality(UsersIn(H, b, o)) = Cardinality(UsersIn(G, a, o))
               /\ HoldersIn(H, b, o) = HoldersIn(G, a, o)
    <3>a. ~RefersIn(H, b, m, o)
      BY <2>7
    <3>b. RefersIn(G, a, m, o) <=> o = a[m]
      BY <2>7
    <3>c. ReleasedIn(H, o) <=> (ReleasedIn(G, o) \/ o = a[m])
      BY <2>7
    <3>1. HoldersIn(H, b, o) = HoldersIn(G, a, o)
      <4>1. \A y \in Passive : y # m /\ y \in Counted!Pointer
        BY DEF Counted!RefAssumption, Counted!Pointer
      <4> QED
        BY <4>1, <2>6 DEF HoldersIn
    <3>2. CASE o # a[m]
      <4>1. \A y \in Counted!Strong : RefersIn(H, b, y, o) <=> RefersIn(G, a, y, o)
        <5> TAKE y \in Counted!Strong
        <5>1. y \in Counted!Pointer
          BY <1>P
        <5>2. CASE y = m
          BY <5>2, <3>a, <3>b, <3>2
        <5>3. CASE y # m
          BY <5>1, <5>3, <2>6
        <5> QED
          BY <5>2, <5>3
      <4>2. ReleasedIn(H, o) <=> ReleasedIn(G, o)
        BY <3>c, <3>2
      <4>3. UsersIn(H, b, o) = UsersIn(G, a, o)
        BY <4>1, <4>2 DEF UsersIn
      <4> QED
        BY <3>1, <4>3
    <3>3. CASE o = a[m]
      <4>1. \A y \in Counted!Strong : RefersIn(H, b, y, o) <=> RefersIn(G, a, y, o) /\ y # m
        <5> TAKE y \in Counted!Strong
        <5>1. y \in Counted!Pointer
          BY <1>P
        <5>2. CASE y = m
          BY <5>2, <3>a
        <5>3. CASE y # m
          BY <5>1, <5>3, <2>6
        <5> QED
          BY <5>2, <5>3
      <4>r. ReleasedIn(H, o)
        BY <2>7, <3>3
      <4>g. ~ReleasedIn(G, o)
        BY <3>3, <1>3, <1>r DEF G
      <4>m. RefersIn(G, a, m, o)
        BY <2>7, <3>3
      <4>2. ReleasedIn(H, o) /\ ~ReleasedIn(G, o) /\ m \in UsersIn(G, a, o) /\ Nobody \notin UsersIn(G, a, o)
        BY <4>r, <4>g, <4>m, Finite
      <4>3. UsersIn(H, b, o) = (UsersIn(G, a, o) \ {m}) \cup {Nobody}
        BY <4>1, <4>2 DEF UsersIn
      <4> QED
        BY <3>1, <4>2, <4>3, Finite, Swap
    <3> QED
      BY <3>2, <3>3
  <2>9. CountedIn(H, b, u, w)
    BY <2>8 DEF CountedIn, G
  <2> QED
    <3>1. \A o \in Obj : FullIn(H, o) <=> FullIn(G, o)
      BY <2>4, <2>5 DEF FullIn
    <3> QED
      BY <2>4, <2>9, <3>1 DEF H, G
<1> QED
  BY <1>2, <1>3

\* What goes on below the innermost operation, when that ends.
LEMMA Popped ==
  ASSUME Counted!RefAssumption, NEW s, WellStacked(s), s # <<>>, Head(s).op # "assign"
  PROVE  LET f == Head(s)
             r == Tail(s)
         IN  /\ f \in Elements(s) /\ f \in Ops /\ f.o \in Obj /\ f.p = Nobody
             /\ WellStacked(r) /\ Elements(r) = Elements(s) \ {f}
             /\ r # <<>> => Head(r).op # "release"
             /\ \A g \in Elements(s) : g # f => g.o # f.o
             /\ \A o \in Obj : FullIn(Elements(r), o) <=> (FullIn(Elements(s), o) /\ o # f.o)
             /\ FullIn(Elements(s), f.o) <=> f.op = "full"
<1> DEFINE f == Head(s)  r == Tail(s)
<1>1. /\ WellStacked(r) /\ f \in Ops /\ f \in Elements(s) /\ Elements(r) = Elements(s) \ {f}
      /\ \A g \in Elements(r) : g \in Ops /\ g.op # "release" /\ Apart(f, g)
  BY StackPop
<1>0. f.op # "assign"
  OBVIOUS
<1>2. r # <<>> => Head(r).op # "release"
  <2> SUFFICES ASSUME r # <<>> PROVE Head(r).op # "release"
    OBVIOUS
  <2>1. Head(r) \in Elements(r)
    BY <1>1, StackPop
  <2> QED
    BY <2>1, <1>1
<1> HIDE DEF f, r
<1>3. f.o \in Obj /\ f.o # Nobody /\ f.p = Nobody
  BY <1>0, <1>1, OpFacts
<1>4. \A g \in Elements(s) : g # f => g.o # f.o
  BY <1>1, <1>3 DEF Apart
<1>5. \A o \in Obj : FullIn(Elements(r), o) <=> (FullIn(Elements(s), o) /\ o # f.o)
  BY <1>1, <1>4 DEF FullIn
<1>6. FullIn(Elements(s), f.o) <=> f.op = "full"
  BY <1>1, <1>4 DEF FullIn
<1> QED
  BY <1>1, <1>2, <1>3, <1>4, <1>5, <1>6 DEF f, r

\* A release that is over: one reference less, and the last one deletes the object.
LEMMA DecrementKeeps ==
  ASSUME Counted!RefAssumption, RefsInv, frames # <<>>, Head(frames).op # "assign", NEW o,
         o = Head(frames).o, Head(frames).op = "full" \/ o \notin Full \/ use[o] # 1,
         Counted!Decrement(o, Tail(frames)), UNCHANGED <<weak, made, released>>
  PROVE  RefsInv'
<1> PICK f : f = Head(frames)
  OBVIOUS
<1> PICK r : r = Tail(frames)
  OBVIOUS
<1>t. RefsTyped
  BY DEF RefsInv
<1>c. CountedIn(Elements(frames), at, use, weak)
  BY DEF RefsInv
<1>p. /\ f \in Elements(frames) /\ f \in Ops /\ f.o \in Obj /\ f.p = Nobody
      /\ WellStacked(r) /\ Elements(r) = Elements(frames) \ {f}
      /\ r # <<>> => Head(r).op # "release"
      /\ \A g \in Elements(frames) : g # f => g.o # f.o
      /\ \A x \in Obj : FullIn(Elements(r), x) <=> (FullIn(Elements(frames), x) /\ x # f.o)
      /\ FullIn(Elements(frames), f.o) <=> f.op = "full"
  BY <1>t, Popped DEF RefsTyped
<1>o. o \in Obj /\ o = f.o
  BY <1>p
<1>u. use' = [x \in Obj |-> IF x = o THEN use[x] - 1 ELSE use[x]]
  BY <1>t, <1>o DEF Counted!Decrement, RefsTyped
<1>1. CountedIn(Elements(r), at, use', weak) /\ use[o] \in Nat /\ use[o] # 0
  <2>1. use' = [x \in Obj |-> IF x = f.o THEN use[x] - 1 ELSE use[x]]
    BY <1>o, <1>u
  <2>2. /\ CountedIn(Elements(frames) \ {f}, at,
                     [x \in Obj |-> IF x = f.o THEN use[x] - 1 ELSE use[x]], weak)
        /\ use[f.o] \in Nat /\ use[f.o] # 0
    BY <1>c, <1>p, ReleaseEnds, ZenonT(60)
  <2> QED
    BY <2>1, <2>2, <1>p, <1>o
<1>l. Ledger(Elements(frames), use, weak, at, made, deleted, released)
  BY DEF RefsInv
<1>2. \A x \in Obj : FullIn(Elements(r), x) => use'[x] = 1
  BY <1>l, <1>p, <1>o, <1>u DEF Ledger
<1>3. o \in made /\ deleted[o] = 0
  BY <1>l, <1>1, <1>o DEF Ledger
<1>s. weak' = weak /\ made' = made /\ released' = released
  OBVIOUS
<1>d. o \in Counted!Strong /\ o \in Counted!Pointer
  BY <1>o DEF Counted!Strong, Counted!Pointer
<1>f. NoTarget(Elements(r), o)
  <2>1. \A g \in Elements(r) : g \in Ops
    BY <1>p DEF Elements, WellStacked
  <2> QED
    BY <2>1, <1>o, OpsTargets
<1>r. use[o] - 1 = 0 => released[o] = IF o \in Full THEN 1 ELSE 0
  <2>1. use[o] - 1 = 0 => use[o] = 1
    BY <1>1
  <2>2. /\ FullIn(Elements(frames), o) <=> f.op = "full"
        /\ f.op = "full" => o \in Full
    BY <1>p, <1>o, OpFacts
  <2>3. released[o] = IF o \in Full /\ o \in made /\ (use[o] = 0 \/ FullIn(Elements(frames), o))
                      THEN 1 ELSE 0
    BY <1>l, <1>o DEF Ledger
  <2>4. f.op = "full" \/ o \notin Full \/ use[o] # 1
    OBVIOUS
  <2> QED
    BY <2>1, <2>2, <2>3, <2>4, <1>1, <1>3
<1>n. use[o] - 1 # 0 => released[o] = 0
  <2>1. use[o] - 1 # 0 => use[o] # 1
    BY <1>1
  <2>2. FullIn(Elements(frames), o) => use[o] = 1
    BY <1>l, <1>o DEF Ledger
  <2>3. released[o] = IF o \in Full /\ o \in made /\ (use[o] = 0 \/ FullIn(Elements(frames), o))
                      THEN 1 ELSE 0
    BY <1>l, <1>o DEF Ledger
  <2> QED
    BY <2>1, <2>2, <2>3, <1>1
<1>4. CASE use[o] = 1 /\ weak[o] = 0
  <2>1. /\ deleted' = [deleted EXCEPT ![o] = @ + 1] /\ at' = [at EXCEPT ![o] = Nobody]
        /\ frames' = IF at[o] = Nobody THEN r ELSE <<Counted!Do("release", at[o])>> \o r
    BY <1>4 DEF Counted!Decrement, Counted!Delete
  <2>2. /\ WellStacked(frames') /\ CountedIn(Elements(frames'), at', use', weak)
        /\ \A x \in Obj : FullIn(Elements(frames'), x) <=> FullIn(Elements(r), x)
    <3>1. at \in [Counted!Pointer -> Obj \cup {Nobody}]
      BY <1>t DEF RefsTyped
    <3> QED
      <4>u. PICK u : u = use'
        OBVIOUS
      <4>t. PICK t : t = frames'
        OBVIOUS
      <4>b. PICK b : b = at'
        OBVIOUS
      <4>1. CountedIn(Elements(r), at, u, weak) /\ \A x \in Obj : FullIn(Elements(r), x) => u[x] = 1
        BY <1>1, <1>2, <4>u
      <4>2. t = IF at[o] = Nobody THEN r ELSE <<Counted!Do("release", at[o])>> \o r
        BY <2>1, <4>t
      <4>3. WellStacked(r) /\ (r # <<>> => Head(r).op # "release")
        BY <1>p
      <4>4. b[o] = Nobody /\ \A y \in Counted!Pointer : y # o => at[y] = b[y]
        BY <2>1, <3>1, <1>d, <4>b
      <4>5. o \in Counted!Strong
        BY <1>d
      <4>6. /\ WellStacked(t) /\ CountedIn(Elements(t), b, u, weak)
            /\ \A x \in Obj : FullIn(Elements(t), x) <=> FullIn(Elements(r), x)
        <5>1. GivesUp(r, at, u, weak, o, t, b)
          BY <4>1, <4>2, <4>3, <4>4, <4>5, <3>1, <1>f DEF GivesUp
        <5> QED
          BY <5>1, Leaving
      <4> QED
        BY <4>6, <4>u, <4>t, <4>b
  <2>3. RefsTyped'
    <3>1. use \in [Obj -> Int] /\ at \in [Counted!Pointer -> Obj \cup {Nobody}] /\ deleted \in [Obj -> Int]
      BY <1>t DEF RefsTyped
    <3>2. use' \in [Obj -> Int]
      BY <3>1, <1>u
    <3>3. at' \in [Counted!Pointer -> Obj \cup {Nobody}] /\ deleted' \in [Obj -> Int]
      BY <3>1, <2>1, <1>d, <1>o
    <3> QED
      BY <3>2, <3>3, <2>2, <1>t, <1>s DEF RefsTyped
  <2>4. ASSUME NEW x \in Obj
        PROVE  /\ FullIn(Elements(frames'), x) => use'[x] = 1
               /\ x \notin made => use'[x] = 0 /\ weak[x] = 0
               /\ x \notin made \/ deleted'[x] # 0 => at'[x] = Nobody
               /\ released[x] = IF x \in Full /\ x \in made /\ (use'[x] = 0 \/ FullIn(Elements(frames'), x))
                                THEN 1 ELSE 0
               /\ deleted'[x] = IF x \in made /\ use'[x] = 0 /\ weak[x] = 0 THEN 1 ELSE 0
    <3>1. FullIn(Elements(frames'), x) => use'[x] = 1
      BY <2>2, <1>2
    <3>2. CASE x = o
      <4>1. use'[x] = 0 /\ at'[x] = Nobody /\ deleted'[x] = 1 /\ x \in made /\ weak[x] = 0
        BY <3>2, <2>1, <1>3, <1>4, <1>t, <1>u, <1>d DEF RefsTyped
      <4>2. released[x] = IF x \in Full THEN 1 ELSE 0
        BY <3>2, <1>r, <1>4
      <4> QED
        BY <3>1, <4>1, <4>2
    <3>3. CASE x # o
      <4>1. use'[x] = use[x] /\ at'[x] = at[x] /\ deleted'[x] = deleted[x]
        BY <3>3, <2>1, <1>t, <1>u, <1>d DEF RefsTyped, Counted!Pointer, Counted!Strong
      <4>2. FullIn(Elements(frames'), x) <=> FullIn(Elements(frames), x)
        BY <3>3, <2>2, <1>p
      <4> QED
        BY <4>1, <4>2, <1>l DEF Ledger
    <3> QED
      BY <3>2, <3>3
  <2>5. Ledger(Elements(frames'), use', weak, at', made, deleted', released)
    BY <2>4 DEF Ledger
  <2> QED
    BY <2>2, <2>3, <2>5, <1>s DEF RefsInv
<1>5. CASE ~(use[o] = 1 /\ weak[o] = 0)
  <2>1. frames' = r /\ at' = at /\ deleted' = deleted
    BY <1>5 DEF Counted!Decrement
  <2>3. RefsTyped'
    BY <2>1, <1>p, <1>t, <1>s, <1>u, <1>d DEF RefsTyped
  <2>4. ASSUME NEW x \in Obj
        PROVE  /\ FullIn(Elements(r), x) => use'[x] = 1
               /\ x \notin made => use'[x] = 0 /\ weak[x] = 0
               /\ x \notin made \/ deleted[x] # 0 => at[x] = Nobody
               /\ released[x] = IF x \in Full /\ x \in made /\ (use'[x] = 0 \/ FullIn(Elements(r), x))
                                THEN 1 ELSE 0
               /\ deleted[x] = IF x \in made /\ use'[x] = 0 /\ weak[x] = 0 THEN 1 ELSE 0
    <3>1. FullIn(Elements(r), x) => use'[x] = 1
      BY <1>2
    <3>2. CASE x = o
      <4>1. use'[x] = use[o] - 1 /\ x \in made /\ deleted[x] = 0 /\ ~FullIn(Elements(r), x)
        BY <3>2, <1>3, <1>u, <1>o, <1>p
      <4>2. use[o] - 1 = 0 => weak[o] # 0
        BY <1>5, <1>1
      <4> QED
        BY <3>1, <3>2, <4>1, <4>2, <1>r, <1>n
    <3>3. CASE x # o
      <4>1. use'[x] = use[x]
        BY <3>3, <1>u
      <4>2. FullIn(Elements(r), x) <=> FullIn(Elements(frames), x)
        BY <3>3, <1>o, <1>p
      <4> QED
        BY <4>1, <4>2, <1>l DEF Ledger
    <3> QED
      BY <3>2, <3>3
  <2>5. Ledger(Elements(r), use', weak, at, made, deleted, released)
    BY <2>4 DEF Ledger
  <2> QED
    BY <2>1, <2>3, <2>5, <1>1, <1>s DEF RefsInv
<1> QED
  BY <1>4, <1>5

\* Changes of the counts that the ledger does not notice.
LEMMA LedgerKept ==
  ASSUME NEW G, NEW H, NEW u, NEW w, NEW a, NEW md, NEW dl, NEW rl, NEW v, NEW x, NEW b,
         Ledger(G, u, w, a, md, dl, rl),
         \A o \in Obj : /\ FullIn(H, o) <=> FullIn(G, o)
                        /\ FullIn(G, o) => v[o] = 1
                        /\ v[o] = 0 <=> u[o] = 0
                        /\ u[o] = 0 => (x[o] = 0 <=> w[o] = 0)
                        /\ o \notin md \/ dl[o] # 0 => b[o] = Nobody
  PROVE  Ledger(H, v, x, b, md, dl, rl)
<1>1. ASSUME NEW o \in Obj
      PROVE  /\ FullIn(H, o) => v[o] = 1
             /\ o \notin md => v[o] = 0 /\ x[o] = 0
             /\ o \notin md \/ dl[o] # 0 => b[o] = Nobody
             /\ rl[o] = IF o \in Full /\ o \in md /\ (v[o] = 0 \/ FullIn(H, o)) THEN 1 ELSE 0
             /\ dl[o] = IF o \in md /\ v[o] = 0 /\ x[o] = 0 THEN 1 ELSE 0
  <2>1. /\ FullIn(H, o) <=> FullIn(G, o)
        /\ FullIn(G, o) => v[o] = 1
        /\ v[o] = 0 <=> u[o] = 0
        /\ u[o] = 0 => (x[o] = 0 <=> w[o] = 0)
        /\ o \notin md \/ dl[o] # 0 => b[o] = Nobody
    OBVIOUS
  <2>2. /\ o \notin md => u[o] = 0 /\ w[o] = 0
        /\ rl[o] = IF o \in Full /\ o \in md /\ (u[o] = 0 \/ FullIn(G, o)) THEN 1 ELSE 0
        /\ dl[o] = IF o \in md /\ u[o] = 0 /\ w[o] = 0 THEN 1 ELSE 0
    BY DEF Ledger
  <2> QED
    BY <2>1, <2>2
<1> QED
  BY <1>1 DEF Ledger

LEMMA FullIsReleased == \A G, o : FullIn(G, o) => ReleasedIn(G, o)
BY DEF FullIn, ReleasedIn

\* What the program's code finds when it uses a pointer.
LEMMA ReadyFacts ==
  ASSUME Counted!RefAssumption, RefsInv, NEW p \in Counted!Pointer, Counted!Ready(p)
  PROVE  /\ NoOperand(Elements(frames), p) /\ NoTarget(Elements(frames), p)
         /\ (frames # <<>> => Head(frames).op # "release")
         /\ at[p] \in Obj \cup {Nobody}
         /\ p \in Obj => p \in made /\ deleted[p] = 0
         /\ at[p] # Nobody /\ p \in Counted!Strong =>
              /\ ~ReleasedIn(Elements(frames), at[p]) /\ ~FullIn(Elements(frames), at[p])
              /\ use[at[p]] \in Nat /\ use[at[p]] # 0
         /\ at[p] # Nobody /\ p \in Passive => weak[at[p]] \in Nat /\ weak[at[p]] # 0
<1>1. NoOperand(Elements(frames), p) /\ NoTarget(Elements(frames), p)
  BY GoingIs, NoOperandIsNoTarget DEF Counted!Ready, Counted!Usable, NoOperand
<1>2. frames # <<>> => Head(frames).op # "release"
  BY DEF Counted!Ready, Counted!UserCode
<1>3. at[p] \in Obj \cup {Nobody} /\ WellStacked(frames)
  BY DEF RefsInv, RefsTyped
<1>4. p \in Obj => p \in made /\ deleted[p] = 0
  BY DEF Counted!Ready, Counted!Exists
<1>5. RefersIn(Elements(frames), at, p, at[p])
  BY <1>1, FreeRefers
<1>c. CountedIn(Elements(frames), at, use, weak)
  BY DEF RefsInv
<1>6. ASSUME at[p] # Nobody, p \in Counted!Strong
      PROVE  /\ ~ReleasedIn(Elements(frames), at[p]) /\ ~FullIn(Elements(frames), at[p])
             /\ use[at[p]] \in Nat /\ use[at[p]] # 0
  <2>1. at[p] \in Obj
    BY <1>3, <1>6
  <2>2. FullIn(Elements(frames), at[p]) => use[at[p]] = 1
    BY <2>1 DEF RefsInv, Ledger
  <2>3. ~ReleasedIn(Elements(frames), at[p])
    BY <1>2, <1>3, <1>5, <1>6, <1>c, <2>1, <2>2, NotReleased
  <2>4. use[at[p]] \in Nat /\ use[at[p]] # 0
    BY <1>5, <1>6, <1>c, <2>1, Counting, Natural
  <2> QED
    BY <2>3, <2>4, FullIsReleased
<1>7. ASSUME at[p] # Nobody, p \in Passive PROVE weak[at[p]] \in Nat /\ weak[at[p]] # 0
  BY <1>3, <1>5, <1>7, <1>c, Counting, Natural
<1> QED
  BY <1>1, <1>2, <1>3, <1>4, <1>6, <1>7

LEMMA ReleaseKeeps == ASSUME Counted!RefAssumption, RefsInv, Counted!Release PROVE RefsInv'
<1> PICK f : f = Head(frames)
  OBVIOUS
<1> PICK r : r = Tail(frames)
  OBVIOUS
<1>1. frames # <<>> /\ f.op = "release"
  BY DEF Counted!Release
<1>2. CASE ~(f.o \in Full /\ use[f.o] = 1)
  <2>1. Counted!Decrement(f.o, Tail(frames)) /\ UNCHANGED <<weak, made, released>>
    BY <1>2 DEF Counted!Release
  <2>2. Head(frames).op # "assign"
    BY <1>1
  <2> QED
    BY <1>1, <1>2, <2>1, <2>2, DecrementKeeps
<1>3. CASE f.o \in Full /\ use[f.o] = 1
  <2> PICK g : g = Counted!Do("full", f.o)
    OBVIOUS
  <2>1. /\ frames' = <<g>> \o r /\ released' = [released EXCEPT ![f.o] = @ + 1]
        /\ UNCHANGED <<use, at, deleted, weak, made>>
    BY <1>3 DEF Counted!Release
  <2>t. RefsTyped
    BY DEF RefsInv
  <2>p. /\ f \in Elements(frames) /\ f \in Ops /\ f.o \in Obj /\ f.p = Nobody
        /\ WellStacked(r) /\ Elements(r) = Elements(frames) \ {f}
        /\ r # <<>> => Head(r).op # "release"
        /\ \A h \in Elements(frames) : h # f => h.o # f.o
        /\ \A x \in Obj : FullIn(Elements(r), x) <=> (FullIn(Elements(frames), x) /\ x # f.o)
        /\ FullIn(Elements(frames), f.o) <=> f.op = "full"
    BY <1>1, <2>t, Popped DEF RefsTyped
  <2>2. g.op = "full" /\ g.o = f.o /\ g.p = Nobody /\ g.q = Nobody
    BY DoHas
  <2>3. g \in Ops
    BY <2>p, <1>3 DEF Ops, Counted!Do, Counted!Frame
  <2>4. \A h \in Elements(r) : Apart(g, h)
    <3> TAKE h \in Elements(r)
    <3>1. h.o # g.o
      BY <2>p, <2>2
    <3> QED
      BY <3>1, <2>2 DEF Apart
  <2>5. WellStacked(frames') /\ Elements(frames') = Elements(r) \cup {g}
    <3>1. WellStacked(<<g>> \o r) /\ Elements(<<g>> \o r) = Elements(r) \cup {g}
      BY <2>3, <2>4, <2>p, StackPush
    <3> QED
      BY <3>1, <2>1
  <2>6. \A x : FullIn(Elements(frames'), x) <=> (FullIn(Elements(r), x) \/ x = f.o)
    BY <2>2, <2>5 DEF FullIn
  <2>7. \A x : ReleasedIn(Elements(frames'), x) <=> ReleasedIn(Elements(frames), x)
    BY <2>2, <2>5, <2>p DEF ReleasedIn
  <2>8. \A y \in Counted!Pointer : \A x : RefersIn(Elements(frames'), at, y, x) <=> RefersIn(Elements(frames), at, y, x)
    <3> TAKE y \in Counted!Pointer
    <3> TAKE x
    <3>1. \A c : c.p = y => (c \in Elements(frames') <=> c \in Elements(frames))
      BY <2>2, <2>5, <2>p, NoneIsNot
    <3> QED
      BY <3>1 DEF RefersIn
  <2>9. CountedIn(Elements(frames'), at, use, weak)
    <3>1. \A x \in Obj : /\ UsersIn(Elements(frames'), at, x) = UsersIn(Elements(frames), at, x)
                         /\ HoldersIn(Elements(frames'), at, x) = HoldersIn(Elements(frames), at, x)
      BY <2>7, <2>8 DEF UsersIn, HoldersIn, Counted!Pointer
    <3> QED
      BY <3>1 DEF CountedIn, RefsInv
  <2>l. Ledger(Elements(frames), use, weak, at, made, deleted, released)
    BY DEF RefsInv
  <2>10. ASSUME NEW x \in Obj
         PROVE  /\ FullIn(Elements(frames'), x) => use[x] = 1
                /\ x \notin made => use[x] = 0 /\ weak[x] = 0
                /\ x \notin made \/ deleted[x] # 0 => at[x] = Nobody
                /\ released'[x] = IF x \in Full /\ x \in made /\ (use[x] = 0 \/ FullIn(Elements(frames'), x))
                                  THEN 1 ELSE 0
                /\ deleted[x] = IF x \in made /\ use[x] = 0 /\ weak[x] = 0 THEN 1 ELSE 0
    <3>1. CASE x = f.o
      <4>1. FullIn(Elements(frames'), x) /\ ~FullIn(Elements(frames), x)
        BY <3>1, <2>6, <2>p, <1>1
      <4>2. x \in made /\ x \in Full /\ use[x] = 1 /\ deleted[x] = 0 /\ released[x] = 0
        BY <4>1, <3>1, <1>3, <2>l DEF Ledger
      <4>3. released'[x] = 1
        BY <4>2, <3>1, <2>1, <2>t DEF RefsTyped
      <4> QED
        BY <4>1, <4>2, <4>3
    <3>2. CASE x # f.o
      <4>1. FullIn(Elements(frames'), x) <=> FullIn(Elements(frames), x)
        BY <3>2, <2>6, <2>p
      <4>2. released'[x] = released[x]
        BY <3>2, <2>1, <2>p, <2>t DEF RefsTyped
      <4> QED
        BY <4>1, <4>2, <2>l DEF Ledger
    <3> QED
      BY <3>1, <3>2
  <2>11. Ledger(Elements(frames'), use, weak, at, made, deleted, released')
    BY <2>10 DEF Ledger
  <2>12. RefsTyped'
    <3>1. released' \in [Obj -> Int]
      BY <2>1, <2>p, <2>t DEF RefsTyped
    <3> QED
      BY <3>1, <2>1, <2>5, <2>t DEF RefsTyped
  <2> QED
    BY <2>1, <2>9, <2>11, <2>12 DEF RefsInv
<1> QED
  BY <1>2, <1>3

LEMMA FullReturnsKeeps == ASSUME Counted!RefAssumption, RefsInv, Counted!FullReturns PROVE RefsInv'
<1>1. frames # <<>> /\ Head(frames).op = "full"
  BY DEF Counted!FullReturns
<1>2. Counted!Decrement(Head(frames).o, Tail(frames)) /\ UNCHANGED <<weak, made, released>>
  BY DEF Counted!FullReturns
<1>3. Head(frames).op # "assign"
  BY <1>1
<1> QED
  BY <1>1, <1>2, <1>3, DecrementKeeps

\* The source of an assignment keeps referring to the same object while it exists.
SourcesKept ==
  \A c \in Elements(frames) : c.op = "assign" =>
    /\ c.q \in Obj => c.q \in made
    /\ Counted!Exists(c.q) => at[c.q] = c.to

LEMMA AssignEndsKeeps ==
  ASSUME Counted!RefAssumption, RefsInv, SourcesKept, Counted!AssignEnds, ~wild'
  PROVE  RefsInv'
<1> PICK f : f = Head(frames)
  OBVIOUS
<1> PICK r : r = Tail(frames)
  OBVIOUS
<1>1. /\ frames # <<>> /\ f.op = "assign" /\ at' = [at EXCEPT ![f.p] = at[f.q]] /\ frames' = r
      /\ UNCHANGED <<use, weak, made, deleted, released>> /\ Counted!Exists(f.q)
  BY DEF Counted!AssignEnds
<1>t. RefsTyped
  BY DEF RefsInv
<1>2. /\ WellStacked(r) /\ f \in Ops /\ f \in Elements(frames)
      /\ Elements(r) = Elements(frames) \ {f}
      /\ \A g \in Elements(r) : g \in Ops /\ Apart(f, g)
  BY <1>1, <1>t, StackPop DEF RefsTyped
<1>3. f.o = Nobody /\ {f.p, f.q} \subseteq Counted!Pointer /\ f.p # Nobody /\ f.p \notin Obj
  BY <1>1, <1>2, OpFacts
<1>s. at[f.q] = f.to
  BY <1>1, <1>2 DEF SourcesKept
<1>4. \A g \in Elements(r) : f.p # g.p /\ f.p # g.q
  BY <1>2, <1>3 DEF Apart
<1>5. at \in [Counted!Pointer -> Obj \cup {Nobody}]
  BY <1>t DEF RefsTyped
<1>6. /\ at'[f.p] = at[f.q] /\ \A y \in Counted!Pointer : y # f.p => at'[y] = at[y]
      /\ at' \in [Counted!Pointer -> Obj \cup {Nobody}]
  BY <1>1, <1>3, <1>5
<1>7. ASSUME NEW y \in Counted!Pointer, NEW o \in Obj
      PROVE  RefersIn(Elements(r), at', y, o) <=> RefersIn(Elements(frames), at, y, o)
  <2>1. CASE y = f.p
    <3>1. RefersIn(Elements(r), at', y, o) <=> f.to = o
      BY <2>1, <1>4, <1>6, <1>s DEF RefersIn
    <3>2. RefersIn(Elements(frames), at, y, o) <=> f.to = o
      BY <2>1, <1>2, <1>4 DEF RefersIn
    <3> QED
      BY <3>1, <3>2
  <2>2. CASE y # f.p
    <3>1. \A c : c.p = y => (c \in Elements(r) <=> c \in Elements(frames))
      BY <2>2, <1>2
    <3>2. at'[y] = at[y]
      BY <2>2, <1>6
    <3> QED
      BY <3>1, <3>2 DEF RefersIn
  <2> QED
    BY <2>1, <2>2
<1>8. \A o \in Obj : ReleasedIn(Elements(r), o) <=> ReleasedIn(Elements(frames), o)
  BY <1>2, <1>3, NoneIsNot DEF ReleasedIn
<1>9. CountedIn(Elements(r), at', use, weak)
  <2>1. \A o \in Obj : /\ UsersIn(Elements(r), at', o) = UsersIn(Elements(frames), at, o)
                       /\ HoldersIn(Elements(r), at', o) = HoldersIn(Elements(frames), at, o)
    BY <1>7, <1>8 DEF UsersIn, HoldersIn, Counted!Pointer
  <2> QED
    BY <2>1 DEF CountedIn, RefsInv
<1>10. \A o : FullIn(Elements(r), o) <=> FullIn(Elements(frames), o)
  BY <1>1, <1>2 DEF FullIn
<1>11. Ledger(Elements(r), use, weak, at', made, deleted, released)
  <2>l. Ledger(Elements(frames), use, weak, at, made, deleted, released)
    BY DEF RefsInv
  <2>1. \A o \in Obj : at'[o] = at[o]
    BY <1>3, <1>6 DEF Counted!Pointer, Counted!Strong
  <2>2. \A o \in Obj : /\ FullIn(Elements(frames), o) => use[o] = 1
                       /\ o \notin made \/ deleted[o] # 0 => at'[o] = Nobody
    BY <2>1, <2>l DEF Ledger
  <2> QED
    BY <2>l, <2>2, <1>10, LedgerKept
<1> QED
  BY <1>1, <1>2, <1>6, <1>9, <1>11, <1>t DEF RefsInv, RefsTyped

LEMMA CopyKeeps ==
  ASSUME Counted!RefAssumption, RefsInv, NEW p, NEW q, Counted!Copy(p, q)
  PROVE  RefsInv'
<1>1. /\ p \in Counted!Strong /\ q \in Counted!Strong /\ p \in Counted!Pointer /\ q \in Counted!Pointer /\ Counted!Ready(p) /\ Counted!Ready(q)
      /\ at[p] = Nobody /\ at[q] # Nobody
      /\ use' = [use EXCEPT ![at[q]] = @ + 1] /\ at' = [at EXCEPT ![p] = at[q]]
      /\ UNCHANGED <<weak, made, deleted, released, frames>>
  BY DEF Counted!Copy, Counted!Pointer
<1>2. /\ NoTarget(Elements(frames), p) /\ at[q] \in Obj /\ ~FullIn(Elements(frames), at[q])
      /\ use[at[q]] \in Nat /\ use[at[q]] # 0
      /\ p \in Obj => p \in made /\ deleted[p] = 0
  BY <1>1, ReadyFacts
<1>t. /\ use \in [Obj -> Int] /\ at \in [Counted!Pointer -> Obj \cup {Nobody}]
      /\ \A c \in Elements(frames) : c \in Ops
  BY DEF RefsInv, RefsTyped, WellStacked, Elements
<1>3. CountedIn(Elements(frames), at', use', weak)
  <2>1. CountedIn(Elements(frames), [at EXCEPT ![p] = at[q]], Changed(use, at[p], at[q]), weak)
    BY <1>1, <1>2, <1>t, FreeMoves DEF RefsInv
  <2>2. use' = Changed(use, at[p], at[q])
    BY <1>1, <1>2, <1>t, NoneIsNot DEF Changed
  <2> QED
    BY <2>1, <2>2, <1>1
<1>4. Ledger(Elements(frames), use', weak, at', made, deleted, released)
  <2>l. Ledger(Elements(frames), use, weak, at, made, deleted, released)
    BY DEF RefsInv
  <2>1. ASSUME NEW o \in Obj
        PROVE  /\ FullIn(Elements(frames), o) => use'[o] = 1
               /\ use'[o] = 0 <=> use[o] = 0
               /\ o \notin made \/ deleted[o] # 0 => at'[o] = Nobody
    <3>1. CASE o = at[q]
      <4>1. use'[o] # 0 /\ use[o] # 0 /\ ~FullIn(Elements(frames), o)
        BY <3>1, <1>1, <1>2, <1>t
      <4>2. o \notin made \/ deleted[o] # 0 => at[o] = Nobody /\ o # p
        BY <2>l, <1>2 DEF Ledger
      <4> QED
        BY <4>1, <4>2, <1>1, <1>t DEF Counted!Pointer, Counted!Strong
    <3>2. CASE o # at[q]
      <4>1. use'[o] = use[o] /\ (FullIn(Elements(frames), o) => use[o] = 1)
        BY <3>2, <1>1, <1>2, <1>t, <2>l DEF Ledger
      <4>2. o \notin made \/ deleted[o] # 0 => at[o] = Nobody /\ o # p
        BY <2>l, <1>2 DEF Ledger
      <4> QED
        BY <4>1, <4>2, <1>1, <1>t DEF Counted!Pointer, Counted!Strong
    <3> QED
      BY <3>1, <3>2
  <2> QED
    BY <2>l, <2>1, LedgerKept
<1>5. use' \in [Obj -> Int] /\ at' \in [Counted!Pointer -> Obj \cup {Nobody}]
  BY <1>1, <1>2, <1>t
<1> QED
  BY <1>1, <1>3, <1>4, <1>5 DEF RefsInv, RefsTyped

LEMMA NewKeeps ==
  ASSUME Counted!RefAssumption, RefsInv, NEW p, NEW o \in Obj, Counted!New(p, o)
  PROVE  RefsInv'
<1>1. /\ p \in Counted!Strong /\ p \in Counted!Pointer /\ Counted!Ready(p) /\ at[p] = Nobody /\ o \notin made
      /\ made' = made \cup {o} /\ use' = [use EXCEPT ![o] = 1] /\ at' = [at EXCEPT ![p] = o]
      /\ UNCHANGED <<weak, deleted, released, frames>>
  BY DEF Counted!New, Counted!Pointer
<1>2. NoTarget(Elements(frames), p) /\ (p \in Obj => p \in made /\ deleted[p] = 0)
  BY <1>1, ReadyFacts
<1>t. /\ use \in [Obj -> Int] /\ at \in [Counted!Pointer -> Obj \cup {Nobody}] /\ made \subseteq Obj
      /\ \A c \in Elements(frames) : c \in Ops
  BY DEF RefsInv, RefsTyped, WellStacked, Elements
<1>l. Ledger(Elements(frames), use, weak, at, made, deleted, released)
  BY DEF RefsInv
<1>n. use[o] = 0 /\ weak[o] = 0 /\ at[o] = Nobody /\ deleted[o] = 0 /\ released[o] = 0
  BY <1>1, <1>l DEF Ledger
<1>3. CountedIn(Elements(frames), at', use', weak)
  <2>1. CountedIn(Elements(frames), [at EXCEPT ![p] = o], Changed(use, at[p], o), weak)
    BY <1>1, <1>2, <1>t, FreeMoves DEF RefsInv
  <2>2. use' = Changed(use, at[p], o)
    <3>1. o # at[p] /\ \A x \in Obj : x # at[p]
      BY <1>1, NoneIsNot
    <3>2. Changed(use, at[p], o) = [x \in Obj |-> IF x = o THEN use[x] + 1 ELSE use[x]]
      BY <3>1 DEF Changed
    <3>3. use[o] + 1 = 1
      BY <1>n
    <3> QED
      BY <1>1, <1>t, <3>2, <3>3
  <2> QED
    BY <2>1, <2>2, <1>1
<1>4. ASSUME NEW x \in Obj
      PROVE  /\ FullIn(Elements(frames), x) => use'[x] = 1
             /\ x \notin made' => use'[x] = 0 /\ weak[x] = 0
             /\ x \notin made' \/ deleted[x] # 0 => at'[x] = Nobody
             /\ released[x] = IF x \in Full /\ x \in made' /\ (use'[x] = 0 \/ FullIn(Elements(frames), x))
                              THEN 1 ELSE 0
             /\ deleted[x] = IF x \in made' /\ use'[x] = 0 /\ weak[x] = 0 THEN 1 ELSE 0
  <2>1. x \notin made' \/ deleted[x] # 0 => at'[x] = Nobody
    <3>1. x \notin made' \/ deleted[x] # 0 => at[x] = Nobody /\ x # p
      BY <1>l, <1>1, <1>2 DEF Ledger
    <3> QED
      BY <3>1, <1>1, <1>t DEF Counted!Pointer, Counted!Strong
  <2>2. CASE x = o
    <3>1. use'[x] = 1 /\ x \in made' /\ deleted[x] = 0 /\ released[x] = 0
      BY <2>2, <1>1, <1>n, <1>t
    <3>2. ~FullIn(Elements(frames), x)
      BY <2>2, <1>n, <1>l DEF Ledger
    <3> QED
      BY <2>1, <3>1, <3>2
  <2>3. CASE x # o
    <3>1. use'[x] = use[x] /\ (x \in made' <=> x \in made)
      BY <2>3, <1>1, <1>t
    <3> QED
      BY <2>1, <3>1, <1>l DEF Ledger
  <2> QED
    BY <2>2, <2>3
<1>5. Ledger(Elements(frames), use', weak, at', made', deleted, released)
  BY <1>4 DEF Ledger
<1>6. use' \in [Obj -> Int] /\ at' \in [Counted!Pointer -> Obj \cup {Nobody}] /\ made' \subseteq Obj
  BY <1>1, <1>t
<1> QED
  BY <1>1, <1>3, <1>5, <1>6 DEF RefsInv, RefsTyped

LEMMA AssignKeeps ==
  ASSUME Counted!RefAssumption, RefsInv, NEW p, NEW q, Counted!Assign(p, q)
  PROVE  RefsInv'
<1> PICK g : g = Counted!Frame("assign", Nobody, p, q, at[q])
  OBVIOUS
<1> PICK h : h = Counted!Do("release", at[p])
  OBVIOUS
<1>1. /\ p \in Var /\ q \in Counted!Strong /\ Counted!Ready(p) /\ Counted!Ready(q) /\ at[p] # Nobody
      /\ use' = IF at[q] = Nobody THEN use ELSE [use EXCEPT ![at[q]] = @ + 1]
      /\ frames' = <<h, g>> \o frames
      /\ UNCHANGED <<weak, at, made, deleted, released>>
  BY DEF Counted!Assign
<1>p. p \in Counted!Strong /\ p \in Counted!Pointer /\ q \in Counted!Strong /\ q \in Counted!Pointer
  BY <1>1 DEF Counted!Strong, Counted!Pointer
<1>2. /\ NoOperand(Elements(frames), p) /\ NoOperand(Elements(frames), q)
      /\ NoTarget(Elements(frames), p)
      /\ at[p] \in Obj /\ at[q] \in Obj \cup {Nobody}
      /\ ~ReleasedIn(Elements(frames), at[p])
      /\ frames # <<>> => Head(frames).op # "release"
  BY <1>1, <1>p, ReadyFacts
<1>3. at[q] # Nobody => ~FullIn(Elements(frames), at[q]) /\ use[at[q]] \in Nat /\ use[at[q]] # 0
  BY <1>1, <1>p, ReadyFacts
<1>t. /\ use \in [Obj -> Int] /\ WellStacked(frames) /\ frames \in Seq(Ops)
      /\ \A c \in Elements(frames) : c \in Ops
  BY DEF RefsInv, RefsTyped, WellStacked, Elements
<1>g. g.op = "assign" /\ g.o = Nobody /\ g.p = p /\ g.q = q /\ g \in Ops
  BY <1>1, <1>2, <1>p DEF Ops, Counted!Frame
<1>h. h.op = "release" /\ h.o = at[p] /\ h.p = Nobody /\ h.q = Nobody /\ h \in Ops
  BY <1>2 DEF Ops, Counted!Do, Counted!Frame
<1>n. Nobody \notin Obj
  BY NoneIsNot
<1> PICK s : s = <<g>> \o frames
  OBVIOUS
<1>4. WellStacked(s) /\ Elements(s) = Elements(frames) \cup {g} /\ s # <<>> /\ Head(s) = g
  <2>1. \A c \in Elements(frames) : Apart(g, c)
    BY <1>2, <1>g DEF Apart, NoOperand
  <2>2. /\ WellStacked(<<g>> \o frames) /\ Elements(<<g>> \o frames) = Elements(frames) \cup {g}
        /\ <<g>> \o frames # <<>> /\ Head(<<g>> \o frames) = g
    BY <2>1, <1>g, <1>t, <1>2, StackPush
  <2> QED
    BY <2>2
<1>5. frames' = <<h>> \o s
  BY <1>1, <1>t
<1>6. WellStacked(frames') /\ Elements(frames') = Elements(s) \cup {h}
  <2>1. \A c \in Elements(s) : Apart(h, c)
    BY <1>2, <1>4, <1>g, <1>h, <1>n DEF Apart, ReleasedIn
  <2>2. s # <<>> => Head(s).op # "release"
    BY <1>4, <1>g
  <2>3. WellStacked(<<h>> \o s) /\ Elements(<<h>> \o s) = Elements(s) \cup {h}
    BY <2>1, <2>2, <1>h, <1>4, StackPush
  <2> QED
    BY <2>3, <1>5
<1>7. CountedIn(Elements(s), at, Changed(use, at[p], at[q]), weak)
  <2>c. CountedIn(Elements(frames), at, use, weak)
    BY DEF RefsInv
  <2>1. CountedIn(Elements(frames) \cup {Counted!Frame("assign", Nobody, p, q, at[q])}, at,
                  Changed(use, at[p], at[q]), weak)
    BY <2>c, <1>p, <1>2, <1>t, AssignBegins
  <2> QED
    BY <2>1, <1>4
<1>8. CountedIn(Elements(frames'), at, use', weak)
  <2> PICK u : u = Changed(use, at[p], at[q])
    OBVIOUS
  <2>1. ~ReleasedIn(Elements(s), at[p])
    BY <1>2, <1>4, <1>g, <1>n DEF ReleasedIn
  <2>2. CountedIn(Elements(s) \cup {h}, at, [o \in Obj |-> IF o = h.o THEN u[o] + 1 ELSE u[o]], weak)
    BY <2>1, <1>7, <1>2, <1>h, ReleaseBegins
  <2>3. \A o \in Obj : (IF o = h.o THEN u[o] + 1 ELSE u[o]) = IF o = at[q] THEN use[o] + 1 ELSE use[o]
    <3> TAKE o \in Obj
    <3>1. use[o] \in Int
      BY <1>t
    <3>2. u[o] = IF o = at[q] /\ o # at[p] THEN use[o] + 1
                 ELSE IF o = at[p] /\ o # at[q] THEN use[o] - 1 ELSE use[o]
      BY DEF Changed
    <3> QED
      BY <3>1, <3>2, <1>h
  <2>4. use' = [o \in Obj |-> IF o = at[q] THEN use[o] + 1 ELSE use[o]]
    BY <1>1, <1>2, <1>t, <1>n
  <2>5. use' = [o \in Obj |-> IF o = h.o THEN u[o] + 1 ELSE u[o]]
    BY <2>3, <2>4
  <2> QED
    BY <2>2, <2>5, <1>6
<1>9. \A o \in Obj : FullIn(Elements(frames'), o) <=> FullIn(Elements(frames), o)
  BY <1>4, <1>6, <1>g, <1>h DEF FullIn
<1>10. Ledger(Elements(frames'), use', weak, at, made, deleted, released)
  <2>l. Ledger(Elements(frames), use, weak, at, made, deleted, released)
    BY DEF RefsInv
  <2>1. ASSUME NEW o \in Obj
        PROVE  /\ FullIn(Elements(frames), o) => use'[o] = 1
               /\ use'[o] = 0 <=> use[o] = 0
               /\ o \notin made \/ deleted[o] # 0 => at[o] = Nobody
    <3>0. /\ FullIn(Elements(frames), o) => use[o] = 1
          /\ o \notin made \/ deleted[o] # 0 => at[o] = Nobody
      BY <2>l DEF Ledger
    <3>1. CASE o = at[q]
      <4>1. use'[o] = use[o] + 1 /\ use[o] \in Nat /\ use[o] # 0 /\ ~FullIn(Elements(frames), o)
        BY <3>1, <1>1, <1>3, <1>t, <1>n
      <4> QED
        BY <3>0, <4>1
    <3>2. CASE o # at[q]
      <4>1. use'[o] = use[o]
        BY <3>2, <1>1, <1>2, <1>t
      <4> QED
        BY <3>0, <4>1
    <3> QED
      BY <3>1, <3>2
  <2> QED
    BY <2>l, <2>1, <1>9, LedgerKept
<1>11. use' \in [Obj -> Int]
  BY <1>1, <1>2, <1>t
<1> QED
  BY <1>1, <1>6, <1>8, <1>10, <1>11 DEF RefsInv, RefsTyped

LEMMA MoveKeeps ==
  ASSUME Counted!RefAssumption, RefsInv, NEW p, NEW q, Counted!Move(p, q)
  PROVE  RefsInv'
<1>1. /\ p \in Counted!Pointer /\ q \in Counted!Pointer /\ p # q /\ Counted!Ready(p) /\ Counted!Ready(q)
      /\ {p, q} \subseteq Counted!Strong \/ {p, q} \subseteq Passive
      /\ at' = [at EXCEPT ![p] = at[q], ![q] = at[p]]
      /\ UNCHANGED <<use, weak, made, deleted, released, frames>>
  BY DEF Counted!Move, Counted!Pointer
<1>2. /\ NoTarget(Elements(frames), p) /\ NoTarget(Elements(frames), q)
      /\ at[p] \in Obj \cup {Nobody} /\ at[q] \in Obj \cup {Nobody}
      /\ p \in Obj => p \in made /\ deleted[p] = 0
      /\ q \in Obj => q \in made /\ deleted[q] = 0
  BY <1>1, ReadyFacts
<1>t. /\ use \in [Obj -> Int] /\ weak \in [Obj -> Int] /\ at \in [Counted!Pointer -> Obj \cup {Nobody}]
      /\ \A c \in Elements(frames) : c \in Ops
  BY DEF RefsInv, RefsTyped, WellStacked, Elements
<1> PICK b : b = [at EXCEPT ![p] = at[q]]
  OBVIOUS
<1>3. b \in [Counted!Pointer -> Obj \cup {Nobody}] /\ b[q] = at[q] /\ at' = [b EXCEPT ![q] = at[p]]
  BY <1>1, <1>2, <1>t
<1>u. \A f \in [Obj -> Int] : \A m, n : Changed(Changed(f, m, n), n, m) = f
  <2> TAKE f \in [Obj -> Int]
  <2> TAKE m, n
  <2> PICK h : h = Changed(f, m, n)
    OBVIOUS
  <2>1. \A o \in Obj : h[o] = IF o = n /\ o # m THEN f[o] + 1 ELSE IF o = m /\ o # n THEN f[o] - 1 ELSE f[o]
    BY DEF Changed
  <2>2. \A o \in Obj : (IF o = m /\ o # n THEN h[o] + 1 ELSE IF o = n /\ o # m THEN h[o] - 1 ELSE h[o]) = f[o]
    BY <2>1
  <2>3. Changed(h, n, m) = [o \in Obj |-> f[o]]
    BY <2>2 DEF Changed
  <2> QED
    BY <2>3
<1>c. CountedIn(Elements(frames), at, use, weak)
  BY DEF RefsInv
<1>4. ASSUME {p, q} \subseteq Counted!Strong PROVE CountedIn(Elements(frames), at', use, weak)
  <2> PICK u : u = Changed(use, at[p], at[q])
    OBVIOUS
  <2>1. CountedIn(Elements(frames), b, u, weak)
    BY <1>1, <1>2, <1>4, <1>c, <1>t, FreeMoves
  <2>2. CountedIn(Elements(frames), [b EXCEPT ![q] = at[p]], Changed(u, b[q], at[p]), weak)
    BY <2>1, <1>1, <1>2, <1>3, <1>4, <1>t, FreeMoves
  <2>3. Changed(u, b[q], at[p]) = use
    BY <1>3, <1>t, <1>u
  <2> QED
    BY <2>2, <2>3, <1>3
<1>5. ASSUME {p, q} \subseteq Passive PROVE CountedIn(Elements(frames), at', use, weak)
  <2> PICK w : w = Changed(weak, at[p], at[q])
    OBVIOUS
  <2>1. CountedIn(Elements(frames), b, use, w)
    BY <1>1, <1>2, <1>5, <1>c, <1>t, FreeMoves
  <2>2. CountedIn(Elements(frames), [b EXCEPT ![q] = at[p]], use, Changed(w, b[q], at[p]))
    BY <2>1, <1>1, <1>2, <1>3, <1>5, <1>t, FreeMoves
  <2>3. Changed(w, b[q], at[p]) = weak
    BY <1>3, <1>t, <1>u
  <2> QED
    BY <2>2, <2>3, <1>3
<1>6. Ledger(Elements(frames), use, weak, at', made, deleted, released)
  <2>l. Ledger(Elements(frames), use, weak, at, made, deleted, released)
    BY DEF RefsInv
  <2>1. ASSUME NEW o \in Obj
        PROVE  /\ FullIn(Elements(frames), o) => use[o] = 1
               /\ o \notin made \/ deleted[o] # 0 => at'[o] = Nobody
    <3>1. /\ FullIn(Elements(frames), o) => use[o] = 1
          /\ o \notin made \/ deleted[o] # 0 => at[o] = Nobody /\ o # p /\ o # q
      BY <2>l, <1>2 DEF Ledger
    <3>2. o # p /\ o # q => at'[o] = at[o]
      BY <1>1, <1>t DEF Counted!Pointer, Counted!Strong
    <3> QED
      BY <3>1, <3>2
  <2> QED
    BY <2>l, <2>1, LedgerKept
<1>7. at' \in [Counted!Pointer -> Obj \cup {Nobody}]
  BY <1>1, <1>2, <1>t
<1> QED
  BY <1>1, <1>4, <1>5, <1>6, <1>7 DEF RefsInv, RefsTyped

LEMMA DropKeeps ==
  ASSUME Counted!RefAssumption, RefsInv, NEW p, Counted!Drop(p)
  PROVE  RefsInv'
<1>1. /\ p \in Counted!Strong /\ p \in Var /\ p \in Counted!Pointer /\ Counted!Ready(p) /\ at[p] # Nobody
      /\ at' = [at EXCEPT ![p] = Nobody]
      /\ frames' = <<Counted!Do("release", at[p])>> \o frames
      /\ UNCHANGED <<use, weak, made, deleted, released>>
  BY DEF Counted!Drop, Counted!Strong, Counted!Pointer
<1>2. NoTarget(Elements(frames), p) /\ (frames # <<>> => Head(frames).op # "release")
  BY <1>1, ReadyFacts
<1>t. at \in [Counted!Pointer -> Obj \cup {Nobody}] /\ WellStacked(frames)
  BY DEF RefsInv, RefsTyped
<1>l. Ledger(Elements(frames), use, weak, at, made, deleted, released)
  BY DEF RefsInv
<1>3. /\ WellStacked(frames') /\ CountedIn(Elements(frames'), at', use, weak)
      /\ \A o \in Obj : FullIn(Elements(frames'), o) <=> FullIn(Elements(frames), o)
  <2>t. PICK t : t = frames'
    OBVIOUS
  <2>b. PICK b : b = at'
    OBVIOUS
  <2>1. GivesUp(frames, at, use, weak, p, t, b)
    <3>1. b[p] = Nobody /\ \A y \in Counted!Pointer : y # p => at[y] = b[y]
      BY <1>1, <1>t, <2>b
    <3>2. t = IF at[p] = Nobody THEN frames ELSE <<Counted!Do("release", at[p])>> \o frames
      BY <1>1, <2>t
    <3>3. \A o \in Obj : FullIn(Elements(frames), o) => use[o] = 1
      BY <1>l DEF Ledger
    <3>4. CountedIn(Elements(frames), at, use, weak)
      BY DEF RefsInv
    <3>5. p \in Counted!Strong
      BY <1>1
    <3> QED
      BY <3>1, <3>2, <3>3, <3>4, <3>5, <1>2, <1>t DEF GivesUp
  <2>2. /\ WellStacked(t) /\ CountedIn(Elements(t), b, use, weak)
        /\ \A o \in Obj : FullIn(Elements(t), o) <=> FullIn(Elements(frames), o)
    BY <2>1, Leaving
  <2> QED
    BY <2>2, <2>t, <2>b
<1>4. Ledger(Elements(frames'), use, weak, at', made, deleted, released)
  <2>1. p \notin Obj
    BY <1>1 DEF Counted!RefAssumption
  <2>2. \A o \in Obj : at'[o] = at[o]
    BY <2>1, <1>1, <1>t DEF Counted!Pointer, Counted!Strong
  <2>3. \A o \in Obj : /\ FullIn(Elements(frames), o) => use[o] = 1
                       /\ o \notin made \/ deleted[o] # 0 => at'[o] = Nobody
    BY <2>2, <1>l DEF Ledger
  <2> QED
    BY <1>l, <1>3, <2>3, LedgerKept
<1>5. at' \in [Counted!Pointer -> Obj \cup {Nobody}]
  BY <1>1, <1>t
<1> QED
  BY <1>1, <1>3, <1>4, <1>5 DEF RefsInv, RefsTyped

LEMMA HoldKeeps ==
  ASSUME Counted!RefAssumption, RefsInv, NEW p, NEW o \in Obj, Counted!Hold(p, o)
  PROVE  RefsInv'
<1>1. /\ p \in Passive /\ p \in Counted!Pointer /\ Counted!Ready(p) /\ at[p] = Nobody /\ o \in made /\ deleted[o] = 0
      /\ weak' = [weak EXCEPT ![o] = @ + 1] /\ at' = [at EXCEPT ![p] = o]
      /\ UNCHANGED <<use, made, deleted, released, frames>>
  BY DEF Counted!Hold, Counted!Pointer
<1>2. NoTarget(Elements(frames), p)
  BY <1>1, ReadyFacts
<1>t. /\ weak \in [Obj -> Int] /\ at \in [Counted!Pointer -> Obj \cup {Nobody}]
      /\ \A c \in Elements(frames) : c \in Ops
  BY DEF RefsInv, RefsTyped, WellStacked, Elements
<1>c. CountedIn(Elements(frames), at, use, weak)
  BY DEF RefsInv
<1>l. Ledger(Elements(frames), use, weak, at, made, deleted, released)
  BY DEF RefsInv
<1>3. CountedIn(Elements(frames), at', use, weak')
  <2>1. CountedIn(Elements(frames), [at EXCEPT ![p] = o], use, Changed(weak, at[p], o))
    BY <1>1, <1>2, <1>c, <1>t, FreeMoves
  <2>2. weak' = Changed(weak, at[p], o)
    BY <1>1, <1>t, NoneIsNot DEF Changed
  <2> QED
    BY <2>1, <2>2, <1>1
<1>4. Ledger(Elements(frames), use, weak', at', made, deleted, released)
  <2>1. p \notin Obj
    BY <1>1 DEF Counted!RefAssumption, Counted!Strong
  <2>2. \A x \in Obj : at'[x] = at[x]
    BY <2>1, <1>1, <1>t DEF Counted!Pointer, Counted!Strong
  <2>3. weak[o] \in Nat /\ (use[o] = 0 => weak[o] # 0)
    BY <1>c, <1>l, <1>1, Natural DEF Ledger
  <2>4. ASSUME NEW x \in Obj
        PROVE  /\ FullIn(Elements(frames), x) => use[x] = 1
               /\ use[x] = 0 => (weak'[x] = 0 <=> weak[x] = 0)
               /\ x \notin made \/ deleted[x] # 0 => at'[x] = Nobody
    <3>1. weak'[x] = IF x = o THEN weak[x] + 1 ELSE weak[x]
      BY <1>1, <1>t
    <3>2. /\ FullIn(Elements(frames), x) => use[x] = 1
          /\ x \notin made \/ deleted[x] # 0 => at[x] = Nobody
      BY <1>l DEF Ledger
    <3> QED
      BY <3>1, <3>2, <2>2, <2>3
  <2> QED
    BY <2>4, <1>l, LedgerKept
<1>5. weak' \in [Obj -> Int] /\ at' \in [Counted!Pointer -> Obj \cup {Nobody}]
  BY <1>1, <1>t
<1> QED
  BY <1>1, <1>3, <1>4, <1>5 DEF RefsInv, RefsTyped

\* The ledger when the last passive reference to an object goes.
LastGoes(G, H, u, w, x, a, b, dl, d, o) ==
  /\ o \in Obj /\ u[o] = 0 /\ w[o] # 0 /\ x[o] = 0 /\ b[o] = Nobody /\ d[o] = dl[o] + 1
  /\ \A r \in Obj : /\ FullIn(H, r) <=> FullIn(G, r)
                    /\ r # o /\ u[r] = 0 => (x[r] = 0 <=> w[r] = 0)
                    /\ r # o => b[r] = a[r] /\ d[r] = dl[r]

LEMMA LedgerDeleted ==
  ASSUME NEW G, NEW H, NEW u, NEW w, NEW a, NEW md, NEW dl, NEW rl, NEW x, NEW b, NEW d,
         NEW o, Ledger(G, u, w, a, md, dl, rl), LastGoes(G, H, u, w, x, a, b, dl, d, o)
  PROVE  Ledger(H, u, x, b, md, d, rl)
<1> USE DEF LastGoes
<1>1. ASSUME NEW r \in Obj
      PROVE  /\ FullIn(H, r) => u[r] = 1
             /\ r \notin md => u[r] = 0 /\ x[r] = 0
             /\ r \notin md \/ d[r] # 0 => b[r] = Nobody
             /\ rl[r] = IF r \in Full /\ r \in md /\ (u[r] = 0 \/ FullIn(H, r)) THEN 1 ELSE 0
             /\ d[r] = IF r \in md /\ u[r] = 0 /\ x[r] = 0 THEN 1 ELSE 0
  <2>1. /\ FullIn(H, r) <=> FullIn(G, r)
        /\ r # o /\ u[r] = 0 => (x[r] = 0 <=> w[r] = 0)
        /\ r # o => b[r] = a[r] /\ d[r] = dl[r]
    OBVIOUS
  <2>2. /\ FullIn(G, r) => u[r] = 1
        /\ r \notin md => u[r] = 0 /\ w[r] = 0
        /\ r \notin md \/ dl[r] # 0 => a[r] = Nobody
        /\ rl[r] = IF r \in Full /\ r \in md /\ (u[r] = 0 \/ FullIn(G, r)) THEN 1 ELSE 0
        /\ dl[r] = IF r \in md /\ u[r] = 0 /\ w[r] = 0 THEN 1 ELSE 0
    BY DEF Ledger
  <2>3. CASE r = o
    BY <2>1, <2>2, <2>3
  <2>4. CASE r # o
    BY <2>1, <2>2, <2>4
  <2> QED
    BY <2>3, <2>4
<1> QED
  BY <1>1 DEF Ledger

LEMMA LetGoKeeps ==
  ASSUME Counted!RefAssumption, RefsInv, NEW p, Counted!LetGo(p)
  PROVE  RefsInv'
<1> PICK o : o = at[p]
  OBVIOUS
<1>1. /\ p \in Passive /\ p \in Counted!Pointer /\ Counted!Ready(p) /\ o # Nobody
      /\ weak' = [weak EXCEPT ![o] = @ - 1] /\ UNCHANGED <<use, made, released>>
  BY DEF Counted!LetGo, Counted!Pointer
<1>2. /\ NoTarget(Elements(frames), p) /\ o \in Obj /\ weak[o] \in Nat /\ weak[o] # 0
      /\ frames # <<>> => Head(frames).op # "release"
  BY <1>1, ReadyFacts
<1>t. /\ weak \in [Obj -> Int] /\ at \in [Counted!Pointer -> Obj \cup {Nobody}] /\ deleted \in [Obj -> Int]
      /\ use \in [Obj -> Int] /\ WellStacked(frames) /\ \A c \in Elements(frames) : c \in Ops
  BY DEF RefsInv, RefsTyped, WellStacked, Elements
<1>c. CountedIn(Elements(frames), at, use, weak)
  BY DEF RefsInv
<1>l. Ledger(Elements(frames), use, weak, at, made, deleted, released)
  BY DEF RefsInv
<1>o. o \in Counted!Strong /\ o \in Counted!Pointer /\ p # o /\ p \notin Obj
  BY <1>1, <1>2 DEF Counted!RefAssumption, Counted!Strong, Counted!Pointer
<1>a. PICK a : a = [at EXCEPT ![p] = Nobody]
  OBVIOUS
<1>b. /\ a \in [Counted!Pointer -> Obj \cup {Nobody}] /\ a[p] = Nobody
      /\ \A y \in Counted!Pointer : y # p => a[y] = at[y]
  BY <1>a, <1>1, <1>t
<1>3. CountedIn(Elements(frames), a, use, weak')
  <2>1. CountedIn(Elements(frames), [at EXCEPT ![p] = Nobody], use, Changed(weak, at[p], Nobody))
    BY <1>1, <1>2, <1>c, <1>t, FreeMoves
  <2>2. weak' = Changed(weak, o, Nobody)
    BY <1>1, <1>t, NoneIsNot DEF Changed
  <2> QED
    BY <2>1, <2>2, <1>a
<1>w. weak' \in [Obj -> Int] /\ \A x \in Obj : weak'[x] = IF x = o THEN weak[x] - 1 ELSE weak[x]
  BY <1>1, <1>2, <1>t
<1>4. CASE weak[o] = 1 /\ use[o] = 0
  <2>1. /\ deleted' = [deleted EXCEPT ![o] = @ + 1]
        /\ at' = [at EXCEPT ![p] = Nobody, ![o] = Nobody]
        /\ frames' = IF at[o] = Nobody THEN frames ELSE <<Counted!Do("release", at[o])>> \o frames
    BY <1>4 DEF Counted!LetGo
  <2>a. /\ at' \in [Counted!Pointer -> Obj \cup {Nobody}] /\ at'[o] = Nobody
        /\ \A y \in Counted!Pointer : y # o => at'[y] = a[y]
    BY <2>1, <1>b, <1>o, <1>t, <1>1
  <2>d. deleted' \in [Obj -> Int] /\ deleted'[o] = deleted[o] + 1 /\ \A x \in Obj : x # o => deleted'[x] = deleted[x]
    BY <2>1, <1>2, <1>t
  <2>2. /\ WellStacked(frames') /\ CountedIn(Elements(frames'), at', use, weak')
        /\ \A x \in Obj : FullIn(Elements(frames'), x) <=> FullIn(Elements(frames), x)
    <3>t. PICK t : t = frames'
      OBVIOUS
    <3>b. PICK b : b = at'
      OBVIOUS
    <3>w. PICK w : w = weak'
      OBVIOUS
    <3>1. GivesUp(frames, a, use, w, o, t, b)
      <4>1. b[o] = Nobody /\ \A y \in Counted!Pointer : y # o => a[y] = b[y]
        BY <2>a, <3>b
      <4>2. t = IF a[o] = Nobody THEN frames ELSE <<Counted!Do("release", a[o])>> \o frames
        BY <2>1, <3>t, <1>b, <1>o
      <4>3. \A x \in Obj : FullIn(Elements(frames), x) => use[x] = 1
        BY <1>l DEF Ledger
      <4>4. CountedIn(Elements(frames), a, use, w)
        BY <1>3, <3>w
      <4>5. NoTarget(Elements(frames), o)
        BY <1>2, <1>t, OpsTargets
      <4>6. o \in Counted!Strong /\ a \in [Counted!Pointer -> Obj \cup {Nobody}]
        BY <1>o, <1>b
      <4> QED
        BY <4>1, <4>2, <4>3, <4>4, <4>5, <4>6, <1>2, <1>t DEF GivesUp
    <3>2. /\ WellStacked(t) /\ CountedIn(Elements(t), b, use, w)
          /\ \A x \in Obj : FullIn(Elements(t), x) <=> FullIn(Elements(frames), x)
      BY <3>1, Leaving
    <3> QED
      BY <3>2, <3>t, <3>b, <3>w
  <2>3. Ledger(Elements(frames'), use, weak', at', made, deleted', released)
    <3>1. use[o] = 0 /\ weak[o] # 0 /\ weak'[o] = 0
      BY <1>2, <1>4, <1>w
    <3>2. \A r \in Obj : r # o => at'[r] = at[r]
      BY <2>a, <1>b, <1>o DEF Counted!Pointer, Counted!Strong
    <3>3. \A r \in Obj : r # o /\ use[r] = 0 => (weak'[r] = 0 <=> weak[r] = 0)
      BY <1>w
    <3>4. \A r \in Obj : /\ FullIn(Elements(frames'), r) <=> FullIn(Elements(frames), r)
                         /\ r # o /\ use[r] = 0 => (weak'[r] = 0 <=> weak[r] = 0)
                         /\ r # o => at'[r] = at[r] /\ deleted'[r] = deleted[r]
      BY <3>2, <3>3, <2>2, <2>d
    <3>5. o \in Obj /\ at'[o] = Nobody /\ deleted'[o] = deleted[o] + 1
      BY <2>a, <2>d, <1>2
    <3>6. LastGoes(Elements(frames), Elements(frames'), use, weak, weak', at, at', deleted, deleted', o)
      BY <3>1, <3>4, <3>5 DEF LastGoes
    <3> QED
      BY <3>6, <1>l, LedgerDeleted
  <2> QED
    BY <2>2, <2>3, <2>a, <2>d, <1>1, <1>w, <1>t DEF RefsInv, RefsTyped
<1>5. CASE ~(weak[o] = 1 /\ use[o] = 0)
  <2>1. at' = a /\ UNCHANGED <<deleted, frames>>
    BY <1>5, <1>a DEF Counted!LetGo
  <2>2. Ledger(Elements(frames), use, weak', a, made, deleted, released)
    <3>1. ASSUME NEW x \in Obj
          PROVE  /\ FullIn(Elements(frames), x) => use[x] = 1
                 /\ use[x] = 0 => (weak'[x] = 0 <=> weak[x] = 0)
                 /\ x \notin made \/ deleted[x] # 0 => a[x] = Nobody
      <4>1. /\ FullIn(Elements(frames), x) => use[x] = 1
            /\ x \notin made \/ deleted[x] # 0 => at[x] = Nobody
        BY <1>l DEF Ledger
      <4>2. a[x] = at[x]
        BY <1>b, <1>o DEF Counted!Pointer, Counted!Strong
      <4>3. x = o /\ use[x] = 0 => weak'[x] # 0 /\ weak[x] # 0
        BY <1>2, <1>5, <1>w
      <4>4. x # o => weak'[x] = weak[x]
        BY <1>w
      <4> QED
        BY <4>1, <4>2, <4>3, <4>4
    <3> QED
      BY <3>1, <1>l, LedgerKept
  <2> QED
    BY <2>1, <2>2, <1>3, <1>b, <1>1, <1>w, <1>t DEF RefsInv, RefsTyped
<1> QED
  BY <1>4, <1>5

LEMMA HoldOtherKeeps ==
  ASSUME Counted!RefAssumption, RefsInv, NEW p, NEW q, Counted!HoldOther(p, q)
  PROVE  RefsInv'
<1> PICK o : o = at[p]
  OBVIOUS
<1> PICK n : n = at[q]
  OBVIOUS
<1>1. /\ p \in Passive /\ q \in Passive /\ p \in Counted!Pointer /\ q \in Counted!Pointer
      /\ Counted!Ready(p) /\ Counted!Ready(q) /\ o # Nobody /\ n # Nobody /\ o # n
      /\ weak' = [weak EXCEPT ![n] = @ + 1, ![o] = @ - 1] /\ UNCHANGED <<use, made, released>>
  BY DEF Counted!HoldOther, Counted!Pointer
<1>2. /\ NoOperand(Elements(frames), p) /\ NoTarget(Elements(frames), p)
      /\ o \in Obj /\ weak[o] \in Nat /\ weak[o] # 0
      /\ frames # <<>> => Head(frames).op # "release"
  BY <1>1, ReadyFacts
<1>3. NoOperand(Elements(frames), q) /\ n \in Obj /\ weak[n] \in Nat /\ weak[n] # 0
  BY <1>1, ReadyFacts
<1>t. /\ weak \in [Obj -> Int] /\ at \in [Counted!Pointer -> Obj \cup {Nobody}] /\ deleted \in [Obj -> Int]
      /\ use \in [Obj -> Int] /\ WellStacked(frames) /\ \A c \in Elements(frames) : c \in Ops
  BY DEF RefsInv, RefsTyped, WellStacked, Elements
<1>c. CountedIn(Elements(frames), at, use, weak)
  BY DEF RefsInv
<1>l. Ledger(Elements(frames), use, weak, at, made, deleted, released)
  BY DEF RefsInv
<1>o. o \in Counted!Strong /\ o \in Counted!Pointer /\ p # o /\ p \notin Obj
  BY <1>1, <1>2 DEF Counted!RefAssumption, Counted!Strong, Counted!Pointer
<1>w. /\ weak' \in [Obj -> Int] /\ weak' = Changed(weak, o, n)
      /\ \A x \in Obj : weak'[x] = IF x = n THEN weak[x] + 1 ELSE IF x = o THEN weak[x] - 1 ELSE weak[x]
  <2>1. \A x \in Obj : weak'[x] = IF x = n THEN weak[x] + 1 ELSE IF x = o THEN weak[x] - 1 ELSE weak[x]
    BY <1>1, <1>2, <1>3, <1>t
  <2>2. weak' \in [Obj -> Int]
    BY <1>1, <1>2, <1>3, <1>t
  <2>3. weak' = Changed(weak, o, n)
    BY <2>1, <2>2, <1>1 DEF Changed
  <2> QED
    BY <2>1, <2>2, <2>3
<1>4. CASE weak'[o] = 0 /\ use[o] = 0
  <2> PICK g : g = Counted!Frame("assign", Nobody, p, q, n)
    OBVIOUS
  <2> PICK s : s = <<g>> \o frames
    OBVIOUS
  <2>1. /\ deleted' = [deleted EXCEPT ![o] = @ + 1] /\ at' = [at EXCEPT ![o] = Nobody]
        /\ frames' = IF at[o] = Nobody THEN s ELSE <<Counted!Do("release", at[o])>> \o s
    BY <1>1, <1>4 DEF Counted!HoldOther, Counted!Delete
  <2>a. /\ at' \in [Counted!Pointer -> Obj \cup {Nobody}] /\ at'[o] = Nobody
        /\ \A y \in Counted!Pointer : y # o => at'[y] = at[y]
    BY <2>1, <1>o, <1>t
  <2>d. deleted' \in [Obj -> Int] /\ deleted'[o] = deleted[o] + 1 /\ \A x \in Obj : x # o => deleted'[x] = deleted[x]
    BY <2>1, <1>2, <1>t
  <2>g. g.op = "assign" /\ g.o = Nobody /\ g.p = p /\ g.q = q /\ g \in Ops
    BY <1>1, <1>3 DEF Ops, Counted!Frame
  <2>2. WellStacked(s) /\ Elements(s) = Elements(frames) \cup {g} /\ s # <<>> /\ Head(s) = g
    <3>1. \A c \in Elements(frames) : Apart(g, c)
      BY <1>2, <1>3, <2>g DEF Apart, NoOperand
    <3>2. /\ WellStacked(<<g>> \o frames) /\ Elements(<<g>> \o frames) = Elements(frames) \cup {g}
          /\ <<g>> \o frames # <<>> /\ Head(<<g>> \o frames) = g
      BY <3>1, <2>g, <1>t, <1>2, StackPush
    <3> QED
      BY <3>2
  <2>3. CountedIn(Elements(s), at, use, weak')
    <3>1. CountedIn(Elements(frames) \cup {Counted!Frame("assign", Nobody, p, q, at[q])}, at, use,
                    Changed(weak, at[p], at[q]))
      BY <1>1, <1>2, <1>c, <1>t, AssignBegins
    <3> QED
      BY <3>1, <2>2, <1>w
  <2>4. \A x \in Obj : FullIn(Elements(s), x) <=> FullIn(Elements(frames), x)
    BY <2>2, <2>g DEF FullIn
  <2>5. /\ WellStacked(frames') /\ CountedIn(Elements(frames'), at', use, weak')
        /\ \A x \in Obj : FullIn(Elements(frames'), x) <=> FullIn(Elements(frames), x)
    <3>t. PICK t : t = frames'
      OBVIOUS
    <3>b. PICK b : b = at'
      OBVIOUS
    <3>w. PICK w : w = weak'
      OBVIOUS
    <3>1. GivesUp(s, at, use, w, o, t, b)
      <4>1. b[o] = Nobody /\ \A y \in Counted!Pointer : y # o => at[y] = b[y]
        BY <2>a, <3>b
      <4>2. t = IF at[o] = Nobody THEN s ELSE <<Counted!Do("release", at[o])>> \o s
        BY <2>1, <3>t
      <4>3. \A x \in Obj : FullIn(Elements(s), x) => use[x] = 1
        BY <1>l, <2>4 DEF Ledger
      <4>4. CountedIn(Elements(s), at, use, w)
        BY <2>3, <3>w
      <4>5. NoTarget(Elements(s), o)
        <5>1. \A c \in Elements(s) : c \in Ops
          BY <2>2, <2>g, <1>t
        <5> QED
          BY <5>1, <1>2, OpsTargets
      <4>6. o \in Counted!Strong /\ at \in [Counted!Pointer -> Obj \cup {Nobody}]
        BY <1>o, <1>t
      <4>7. WellStacked(s) /\ (s # <<>> => Head(s).op # "release")
        BY <2>2, <2>g
      <4> QED
        BY <4>1, <4>2, <4>3, <4>4, <4>5, <4>6, <4>7 DEF GivesUp
    <3>2. /\ WellStacked(t) /\ CountedIn(Elements(t), b, use, w)
          /\ \A x \in Obj : FullIn(Elements(t), x) <=> FullIn(Elements(s), x)
      BY <3>1, Leaving
    <3> QED
      BY <3>2, <3>t, <3>b, <3>w, <2>4
  <2>6. Ledger(Elements(frames'), use, weak', at', made, deleted', released)
    <3>1. use[o] = 0 /\ weak[o] # 0 /\ weak'[o] = 0
      BY <1>2, <1>4
    <3>2. \A r \in Obj : r # o => at'[r] = at[r]
      BY <2>a DEF Counted!Pointer, Counted!Strong
    <3>3. \A r \in Obj : r # o /\ use[r] = 0 => (weak'[r] = 0 <=> weak[r] = 0)
      <4> TAKE r \in Obj
      <4> HAVE r # o /\ use[r] = 0
      <4>1. CASE r = n
        BY <4>1, <1>3, <1>w
      <4>2. CASE r # n
        BY <4>2, <1>w
      <4> QED
        BY <4>1, <4>2
    <3>4. \A r \in Obj : /\ FullIn(Elements(frames'), r) <=> FullIn(Elements(frames), r)
                         /\ r # o /\ use[r] = 0 => (weak'[r] = 0 <=> weak[r] = 0)
                         /\ r # o => at'[r] = at[r] /\ deleted'[r] = deleted[r]
      BY <3>2, <3>3, <2>5, <2>d
    <3>5. o \in Obj /\ at'[o] = Nobody /\ deleted'[o] = deleted[o] + 1
      BY <2>a, <2>d, <1>2
    <3>6. LastGoes(Elements(frames), Elements(frames'), use, weak, weak', at, at', deleted, deleted', o)
      BY <3>1, <3>4, <3>5 DEF LastGoes
    <3> QED
      BY <3>6, <1>l, LedgerDeleted
  <2> QED
    BY <2>5, <2>6, <2>a, <2>d, <1>1, <1>w, <1>t DEF RefsInv, RefsTyped
<1>5. CASE ~(weak'[o] = 0 /\ use[o] = 0)
  <2>1. at' = [at EXCEPT ![p] = n] /\ UNCHANGED <<deleted, frames>>
    BY <1>1, <1>5 DEF Counted!HoldOther
  <2>2. CountedIn(Elements(frames), at', use, weak')
    <3>1. CountedIn(Elements(frames), [at EXCEPT ![p] = n], use, Changed(weak, at[p], n))
      BY <1>1, <1>2, <1>3, <1>c, <1>t, FreeMoves
    <3> QED
      BY <3>1, <2>1, <1>w
  <2>3. Ledger(Elements(frames), use, weak', at', made, deleted, released)
    <3>1. ASSUME NEW x \in Obj
          PROVE  /\ FullIn(Elements(frames), x) => use[x] = 1
                 /\ use[x] = 0 => (weak'[x] = 0 <=> weak[x] = 0)
                 /\ x \notin made \/ deleted[x] # 0 => at'[x] = Nobody
      <4>1. /\ FullIn(Elements(frames), x) => use[x] = 1
            /\ x \notin made \/ deleted[x] # 0 => at[x] = Nobody
        BY <1>l DEF Ledger
      <4>2. at'[x] = at[x]
        BY <2>1, <1>1, <1>o, <1>t DEF Counted!Pointer, Counted!Strong
      <4>3. x = o /\ use[x] = 0 => weak'[x] # 0 /\ weak[x] # 0
        BY <1>2, <1>5
      <4>4. x = n => weak'[x] # 0 /\ weak[x] # 0
        BY <1>3, <1>w
      <4>5. x # o /\ x # n => weak'[x] = weak[x]
        BY <1>w
      <4> QED
        BY <4>1, <4>2, <4>3, <4>4, <4>5
    <3> QED
      BY <3>1, <1>l, LedgerKept
  <2>4. at' \in [Counted!Pointer -> Obj \cup {Nobody}]
    BY <2>1, <1>1, <1>3, <1>t
  <2> QED
    BY <2>1, <2>2, <2>3, <2>4, <1>1, <1>w, <1>t DEF RefsInv, RefsTyped
<1> QED
  BY <1>4, <1>5

(* The sources of assignments *)

LEMMA Prepended ==
  ASSUME NEW S, NEW s \in Seq(S), NEW f \in S, NEW g \in Elements(<<f>> \o s)
  PROVE  g = f \/ g \in Elements(s)
<1> DEFINE t == <<f>> \o s
<1>1. Len(s) \in Nat /\ DOMAIN s = 1 .. Len(s)
  OBVIOUS
<1>2. DOMAIN t = 1 .. Len(s) + 1 /\ t[1] = f /\ \A i \in 1 .. Len(s) : t[i + 1] = s[i]
  BY <1>1
<1>3. PICK i \in DOMAIN t : t[i] = g
  BY DEF Elements
<1>4. i = 1 \/ (i - 1 \in 1 .. Len(s) /\ (i - 1) + 1 = i)
  BY <1>1, <1>2, <1>3
<1> HIDE DEF t
<1> QED
  BY <1>1, <1>2, <1>3, <1>4 DEF Elements

\* What a destructor leaves: no assignment begins.
LEMMA Started ==
  ASSUME NEW s \in Seq(Ops), NEW o,
         o # Nobody => Counted!Do("release", o) \in Ops,
         NEW t, t = IF o = Nobody THEN s ELSE <<Counted!Do("release", o)>> \o s
  PROVE  \A c \in Elements(t) : c.op = "assign" => c \in Elements(s)
<1>1. CASE o = Nobody
  BY <1>1
<1>2. CASE o # Nobody
  <2>1. \A c \in Elements(t) : c = Counted!Do("release", o) \/ c \in Elements(s)
    BY <1>2, Prepended
  <2> QED
    BY <2>1, DoHas
<1> QED
  BY <1>1, <1>2

LEMMA Dropped ==
  ASSUME NEW S, NEW s \in Seq(S), s # <<>>
  PROVE  Tail(s) \in Seq(S) /\ \A g \in Elements(Tail(s)) : g \in Elements(s)
<1> DEFINE t == Tail(s)
<1>1. /\ t \in Seq(S) /\ Len(s) \in Nat \ {0} /\ DOMAIN s = 1 .. Len(s)
      /\ DOMAIN t = 1 .. Len(s) - 1 /\ \A i \in 1 .. Len(s) - 1 : t[i] = s[i + 1]
  OBVIOUS
<1>2. \A i \in DOMAIN t : i + 1 \in DOMAIN s /\ t[i] = s[i + 1]
  BY <1>1
<1> HIDE DEF t
<1>3. \A g \in Elements(t) : g \in Elements(s)
  BY <1>2 DEF Elements
<1> QED
  BY <1>1, <1>3 DEF t

\* A step that changes only pointers of X, which are no operands or whose object is
\* gone, and that begins no assignment of anything else than what its source has.
Touches(X) ==
  /\ made \subseteq made'
  /\ \A o \in Obj : deleted'[o] = 0 => deleted[o] = 0
  /\ \A y \in Counted!Pointer : y \notin X => at'[y] = at[y]
  /\ \A y \in X : NoOperand(Elements(frames), y) \/ (y \in Obj /\ deleted'[y] # 0)
  /\ \A c \in Elements(frames') : c.op = "assign" =>
       \/ c \in Elements(frames)
       \/ c.q \in Counted!Pointer /\ c.q \notin X /\ (c.q \in Obj => c.q \in made) /\ at[c.q] = c.to

LEMMA SourcesStay ==
  ASSUME Counted!RefAssumption, RefsInv, SourcesKept, NEW X, Touches(X)
  PROVE  SourcesKept'
<1> SUFFICES ASSUME NEW c \in Elements(frames'), c.op = "assign"
             PROVE  /\ c.q \in Obj => c.q \in made'
                    /\ Counted!Exists(c.q)' => at'[c.q] = c.to
  BY DEF SourcesKept, Counted!Exists
<1>1. CASE c \in Elements(frames)
  <2>1. c.q \in Counted!Pointer
    BY <1>1, OpFacts DEF RefsInv, RefsTyped, WellStacked, Elements
  <2>2. c.q \in Obj => c.q \in made /\ c.q \in made'
    BY <1>1 DEF SourcesKept, Touches
  <2>3. Counted!Exists(c.q)' => Counted!Exists(c.q) /\ c.q \notin X
    BY <1>1, <2>2 DEF Touches, Counted!Exists, NoOperand
  <2> QED
    BY <1>1, <2>1, <2>2, <2>3 DEF Touches, SourcesKept
<1>2. CASE c \notin Elements(frames)
  BY <1>2 DEF Touches
<1> QED
  BY <1>1, <1>2

\* A release that is over
LEMMA DecrementSources ==
  ASSUME Counted!RefAssumption, RefsInv, SourcesKept, frames # <<>>, NEW o \in Obj,
         Counted!Decrement(o, Tail(frames)), made' = made
  PROVE  SourcesKept'
<1>t. /\ at \in [Counted!Pointer -> Obj \cup {Nobody}] /\ frames \in Seq(Ops)
      /\ deleted \in [Obj -> Int] /\ o \in Counted!Pointer
  BY DEF RefsInv, RefsTyped, WellStacked, Counted!Pointer, Counted!Strong
<1> PICK r : r = Tail(frames)
  OBVIOUS
<1>r. r \in Seq(Ops) /\ \A g \in Elements(r) : g \in Elements(frames)
  BY <1>t, Dropped
<1>1. CASE Counted!Delete(o, Tail(frames))
  <2>1. /\ deleted' = [deleted EXCEPT ![o] = @ + 1] /\ at' = [at EXCEPT ![o] = Nobody]
        /\ frames' = IF at[o] = Nobody THEN r ELSE <<Counted!Do("release", at[o])>> \o r
    BY <1>1 DEF Counted!Delete
  <2>2. deleted[o] \in {0, 1}
    BY DEF RefsInv, Ledger
  <2>3. \A c \in Elements(frames') : c.op = "assign" => c \in Elements(frames)
    <3>1. CASE at[o] = Nobody
      BY <3>1, <2>1, <1>r
    <3>2. CASE at[o] # Nobody
      <4>1. Counted!Do("release", at[o]) \in Ops
        BY <3>2, <1>t DEF Ops, Counted!Do, Counted!Frame
      <4>2. \A c \in Elements(frames') : c = Counted!Do("release", at[o]) \/ c \in Elements(r)
        BY <4>1, <3>2, <2>1, <1>r, Prepended
      <4> QED
        BY <4>2, <1>r, DoHas
    <3> QED
      BY <3>1, <3>2
  <2>4. Touches({o})
    BY <2>1, <2>2, <2>3, <1>t DEF Touches
  <2> QED
    BY <2>4, SourcesStay
<1>2. CASE frames' = r /\ UNCHANGED <<at, deleted>>
  <2>1. Touches({})
    BY <1>2, <1>r DEF Touches
  <2> QED
    BY <2>1, SourcesStay
<1> QED
  BY <1>1, <1>2 DEF Counted!Decrement

LEMMA ReleaseSources ==
  ASSUME Counted!RefAssumption, RefsInv, SourcesKept, Counted!Release \/ Counted!FullReturns
  PROVE  SourcesKept'
<1> PICK f : f = Head(frames)
  OBVIOUS
<1>t. frames \in Seq(Ops) /\ frames # <<>>
  BY DEF RefsInv, RefsTyped, WellStacked, Counted!Release, Counted!FullReturns
<1>f. f \in Ops /\ f.op # "assign" /\ made' = made
  BY <1>t DEF Counted!Release, Counted!FullReturns
<1>o. f.o \in Obj
  BY <1>f, OpFacts
<1>1. CASE Counted!Decrement(f.o, Tail(frames))
  BY <1>1, <1>t, <1>f, <1>o, DecrementSources
<1>2. CASE /\ frames' = <<Counted!Do("full", f.o)>> \o Tail(frames) /\ f.o \in Full
           /\ UNCHANGED <<at, deleted>>
  <2> PICK g : g = Counted!Do("full", f.o)
    OBVIOUS
  <2>1. g \in Ops /\ g.op = "full"
    BY <1>2, <1>o, DoHas DEF Ops, Counted!Do, Counted!Frame
  <2>2. Tail(frames) \in Seq(Ops) /\ \A c \in Elements(Tail(frames)) : c \in Elements(frames)
    BY <1>t, Dropped
  <2>3. \A c \in Elements(frames') : c = g \/ c \in Elements(Tail(frames))
    BY <2>1, <2>2, <1>2, Prepended
  <2>4. Touches({})
    BY <1>2, <1>f, <2>1, <2>2, <2>3 DEF Touches
  <2> QED
    BY <2>4, SourcesStay
<1> QED
  BY <1>1, <1>2 DEF Counted!Release, Counted!FullReturns

\* An assignment that ends, and what the program does with references.
LEMMA AssignEndsSources ==
  ASSUME Counted!RefAssumption, RefsInv, SourcesKept, Counted!AssignEnds
  PROVE  SourcesKept'
<1> PICK f : f = Head(frames)
  OBVIOUS
<1>1. /\ frames # <<>> /\ at' = [at EXCEPT ![f.p] = at[f.q]] /\ frames' = Tail(frames)
      /\ UNCHANGED <<made, deleted>> /\ f.op = "assign"
  BY DEF Counted!AssignEnds
<1>t. at \in [Counted!Pointer -> Obj \cup {Nobody}] /\ WellStacked(frames)
  BY DEF RefsInv, RefsTyped
<1>2. /\ f \in Ops
      /\ \A g \in Elements(frames') : g \in Elements(frames) /\ g \in Ops /\ Apart(f, g)
  BY <1>1, <1>t, StackPop
<1>3. f.p \in Counted!Pointer /\ f.p # Nobody
  BY <1>1, <1>2, OpFacts
<1> SUFFICES ASSUME NEW c \in Elements(frames'), c.op = "assign"
             PROVE  /\ c.q \in Obj => c.q \in made'
                    /\ Counted!Exists(c.q)' => at'[c.q] = c.to
  BY DEF SourcesKept, Counted!Exists
<1>4. c \in Elements(frames) /\ c.q # f.p
  BY <1>2, <1>3 DEF Apart
<1>5. c.q \in Counted!Pointer
  BY <1>2, OpFacts
<1>6. at'[c.q] = at[c.q]
  BY <1>1, <1>3, <1>4, <1>5, <1>t
<1> QED
  BY <1>1, <1>4, <1>6 DEF SourcesKept, Counted!Exists

LEMMA AssignSources ==
  ASSUME Counted!RefAssumption, RefsInv, SourcesKept, NEW p, NEW q, Counted!Assign(p, q)
  PROVE  SourcesKept'
<1> PICK g : g = Counted!Frame("assign", Nobody, p, q, at[q])
  OBVIOUS
<1> PICK h : h = Counted!Do("release", at[p])
  OBVIOUS
<1>1. /\ p \in Var /\ q \in Counted!Strong /\ Counted!Ready(p) /\ Counted!Ready(q) /\ at[p] # Nobody
      /\ frames' = <<h, g>> \o frames /\ UNCHANGED <<at, made, deleted>>
  BY DEF Counted!Assign
<1>p. p \in Counted!Pointer /\ q \in Counted!Pointer
  BY <1>1 DEF Counted!Strong, Counted!Pointer
<1>2. at[p] \in Obj /\ at[q] \in Obj \cup {Nobody} /\ (q \in Obj => q \in made)
  BY <1>1, <1>p, ReadyFacts
<1>t. frames \in Seq(Ops)
  BY DEF RefsInv, RefsTyped, WellStacked
<1>g. g.op = "assign" /\ g.q = q /\ g.to = at[q] /\ g \in Ops
  BY <1>1, <1>2, <1>p DEF Ops, Counted!Frame
<1>h. h.op = "release" /\ h \in Ops
  BY <1>2 DEF Ops, Counted!Do, Counted!Frame
<1> PICK s : s = <<g>> \o frames
  OBVIOUS
<1>3. s \in Seq(Ops) /\ frames' = <<h>> \o s
  BY <1>1, <1>t, <1>g, <1>h
<1>4. \A c \in Elements(s) : c = g \/ c \in Elements(frames)
  BY <1>g, <1>t, Prepended
<1>5. \A c \in Elements(frames') : c = h \/ c \in Elements(s)
  BY <1>3, <1>h, Prepended
<1>6. Touches({})
  BY <1>1, <1>2, <1>4, <1>5, <1>p, <1>g, <1>h DEF Touches
<1> QED
  BY <1>6, SourcesStay

\* What the program does without a release: X is who changes.
LEMMA UserSources ==
  ASSUME Counted!RefAssumption, RefsInv, SourcesKept, NEW X,
         made \subseteq made', UNCHANGED <<deleted, frames>>,
         \A y \in Counted!Pointer : y \notin X => at'[y] = at[y],
         \A y \in X : y \in Counted!Pointer /\ Counted!Ready(y)
  PROVE  SourcesKept'
<1>1. \A y \in X : NoOperand(Elements(frames), y)
  BY ReadyFacts
<1>2. Touches(X)
  BY <1>1 DEF Touches
<1> QED
  BY <1>2, SourcesStay

LEMMA PlainSources ==
  ASSUME Counted!RefAssumption, RefsInv, SourcesKept, NEW p \in Counted!Pointer,
         \/ \E o \in Obj : Counted!New(p, o) \/ Counted!Hold(p, o)
         \/ \E q \in Counted!Pointer : Counted!Copy(p, q) \/ Counted!Move(p, q)
  PROVE  SourcesKept'
<1>t. at \in [Counted!Pointer -> Obj \cup {Nobody}]
  BY DEF RefsInv, RefsTyped
<1>1. CASE \E o \in Obj : Counted!New(p, o) \/ Counted!Hold(p, o)
  <2>1. PICK o \in Obj : Counted!New(p, o) \/ Counted!Hold(p, o)
    BY <1>1
  <2>2. /\ made \subseteq made' /\ UNCHANGED <<deleted, frames>>
        /\ at' = [at EXCEPT ![p] = o] /\ Counted!Ready(p)
    BY <2>1 DEF Counted!New, Counted!Hold
  <2>3. \A y \in Counted!Pointer : y \notin {p} => at'[y] = at[y]
    BY <2>2, <1>t
  <2>4. \A y \in {p} : y \in Counted!Pointer /\ Counted!Ready(y)
    BY <2>2
  <2> QED
    BY <2>2, <2>3, <2>4, UserSources
<1>2. CASE \E q \in Counted!Pointer : Counted!Copy(p, q) \/ Counted!Move(p, q)
  <2>1. PICK q \in Counted!Pointer : Counted!Copy(p, q) \/ Counted!Move(p, q)
    BY <1>2
  <2>2. /\ made' = made /\ UNCHANGED <<deleted, frames>>
        /\ at' = [at EXCEPT ![p] = at[q]] \/ at' = [at EXCEPT ![p] = at[q], ![q] = at[p]]
        /\ Counted!Ready(p) /\ Counted!Ready(q)
    BY <2>1 DEF Counted!Copy, Counted!Move
  <2> PICK X : X = {p, q}
    OBVIOUS
  <2>3. \A y \in Counted!Pointer : y \notin X => at'[y] = at[y]
    BY <2>2, <1>t
  <2>4. \A y \in X : y \in Counted!Pointer /\ Counted!Ready(y)
    BY <2>1, <2>2
  <2>5. made \subseteq made' /\ UNCHANGED <<deleted, frames>>
    BY <2>2
  <2> QED
    BY <2>3, <2>4, <2>5, UserSources
<1> QED
  BY <1>1, <1>2

LEMMA DropSources ==
  ASSUME Counted!RefAssumption, RefsInv, SourcesKept, NEW p \in Var, Counted!Drop(p)
  PROVE  SourcesKept'
<1> PICK h : h = Counted!Do("release", at[p])
  OBVIOUS
<1>1. /\ at' = [at EXCEPT ![p] = Nobody] /\ frames' = <<h>> \o frames
      /\ UNCHANGED <<made, deleted>> /\ Counted!Ready(p) /\ at[p] # Nobody /\ p \in Counted!Pointer
  BY DEF Counted!Drop, Counted!Pointer, Counted!Strong
<1>t. at \in [Counted!Pointer -> Obj \cup {Nobody}] /\ frames \in Seq(Ops)
  BY DEF RefsInv, RefsTyped, WellStacked
<1>h. h.op = "release" /\ h \in Ops
  BY <1>1, <1>t DEF Ops, Counted!Do, Counted!Frame
<1>2. \A c \in Elements(frames') : c = h \/ c \in Elements(frames)
  BY <1>1, <1>h, <1>t, Prepended
<1>3. NoOperand(Elements(frames), p)
  BY <1>1, ReadyFacts
<1>4. \A y \in Counted!Pointer : y \notin {p} => at'[y] = at[y]
  BY <1>1, <1>t
<1>5. Touches({p})
  BY <1>1, <1>2, <1>3, <1>4, <1>h DEF Touches
<1> QED
  BY <1>5, SourcesStay

LEMMA PassiveSources ==
  ASSUME Counted!RefAssumption, RefsInv, SourcesKept, NEW p \in Counted!Pointer,
         Counted!LetGo(p) \/ \E q \in Counted!Pointer : Counted!HoldOther(p, q)
  PROVE  SourcesKept'
<1>t. /\ at \in [Counted!Pointer -> Obj \cup {Nobody}] /\ frames \in Seq(Ops)
      /\ deleted \in [Obj -> Int]
  BY DEF RefsInv, RefsTyped, WellStacked
<1> PICK o : o = at[p]
  OBVIOUS
<1>p. /\ p \in Passive /\ Counted!Ready(p) /\ o \in Obj /\ o \in Counted!Pointer /\ made' = made
  BY <1>t DEF Counted!LetGo, Counted!HoldOther, Counted!Pointer, Counted!Strong
<1>n. NoOperand(Elements(frames), p)
  BY <1>p, ReadyFacts
<1>d. deleted[o] \in {0, 1}
  BY <1>p DEF RefsInv, Ledger
<1>o. p \notin Obj /\ Passive \cap Obj = {}
  BY <1>p DEF Counted!RefAssumption, Counted!Strong
<1>r. at[o] # Nobody => Counted!Do("release", at[o]) \in Ops
  BY <1>p, <1>t DEF Ops, Counted!Do, Counted!Frame
<1>1. CASE \E x \in Obj \cup {Nobody} : UNCHANGED <<deleted, frames>> /\ at' = [at EXCEPT ![p] = x]
  <2>1. \A y \in Counted!Pointer : y \notin {p} => at'[y] = at[y]
    BY <1>1, <1>t
  <2>2. Touches({p})
    BY <1>1, <1>n, <1>p, <2>1 DEF Touches
  <2> QED
    BY <2>2, SourcesStay
<1>2. CASE Counted!LetGo(p) /\ deleted' # deleted
  <2>1. /\ deleted' = [deleted EXCEPT ![o] = @ + 1] /\ at' = [at EXCEPT ![p] = Nobody, ![o] = Nobody]
        /\ frames' = IF at[o] = Nobody THEN frames ELSE <<Counted!Do("release", at[o])>> \o frames
    BY <1>2 DEF Counted!LetGo
  <2>2. \A c \in Elements(frames') : c.op = "assign" => c \in Elements(frames)
    BY <2>1, <1>t, <1>r, Started
  <2>3. \A y \in Counted!Pointer : y \notin {p, o} => at'[y] = at[y]
    BY <2>1, <1>t
  <2>y. deleted'[o] # 0 /\ (\A x \in Obj : deleted'[x] = 0 => deleted[x] = 0)
    BY <2>1, <1>d, <1>p, <1>t
  <2>4. Touches({p, o})
    BY <2>2, <2>3, <2>y, <1>n, <1>p DEF Touches
  <2> QED
    BY <2>4, SourcesStay
<1>3. ASSUME NEW q \in Counted!Pointer, Counted!HoldOther(p, q), deleted' # deleted
      PROVE  SourcesKept'
  <2> PICK g : g = Counted!Frame("assign", Nobody, p, q, at[q])
    OBVIOUS
  <2> PICK s : s = <<g>> \o frames
    OBVIOUS
  <2>1. /\ deleted' = [deleted EXCEPT ![o] = @ + 1] /\ at' = [at EXCEPT ![o] = Nobody]
        /\ frames' = IF at[o] = Nobody THEN s ELSE <<Counted!Do("release", at[o])>> \o s
        /\ q \in Passive
    BY <1>3 DEF Counted!HoldOther, Counted!Delete
  <2>g. g \in Ops /\ g.q = q /\ g.to = at[q]
    BY <1>p, <1>t, <2>1 DEF Ops, Counted!Frame
  <2>s. s \in Seq(Ops) /\ \A c \in Elements(s) : c = g \/ c \in Elements(frames)
    BY <2>g, <1>t, Prepended
  <2>x. \A c \in Elements(frames') : c.op = "assign" => c \in Elements(s)
    BY <2>1, <2>s, <1>r, Started
  <2>2. \A c \in Elements(frames') : c.op = "assign" => c = g \/ c \in Elements(frames)
    BY <2>x, <2>s
  <2>3. \A y \in Counted!Pointer : y \notin {o} => at'[y] = at[y]
    BY <2>1, <1>t
  <2>4. q \notin Obj /\ q # o
    BY <2>1, <1>o, <1>p
  <2>y. deleted'[o] # 0 /\ (\A x \in Obj : deleted'[x] = 0 => deleted[x] = 0)
    BY <2>1, <1>d, <1>p, <1>t
  <2>5. Touches({o})
    BY <2>2, <2>3, <2>4, <2>y, <2>g, <1>p DEF Touches
  <2> QED
    BY <2>5, SourcesStay
<1>4. CASE deleted' = deleted
  <2>1. deleted # [deleted EXCEPT ![o] = @ + 1]
    BY <1>d, <1>p, <1>t
  <2>2. CASE Counted!LetGo(p)
    <3>1. UNCHANGED <<deleted, frames>> /\ at' = [at EXCEPT ![p] = Nobody]
      BY <2>1, <2>2, <1>4 DEF Counted!LetGo
    <3> QED
      BY <3>1, <1>1
  <2>3. ASSUME NEW q \in Counted!Pointer, Counted!HoldOther(p, q)
        PROVE  SourcesKept'
    <3>1. UNCHANGED <<deleted, frames>> /\ at' = [at EXCEPT ![p] = at[q]]
      BY <2>1, <2>3, <1>4 DEF Counted!HoldOther, Counted!Delete
    <3> QED
      BY <3>1, <1>1, <1>t
  <2> QED
    BY <2>2, <2>3
<1> QED
  BY <1>2, <1>3, <1>4

LEMMA RefsInitially == ASSUME Counted!RefAssumption, Counted!Init PROVE RefsInv
<1>1. /\ use = [o \in Obj |-> 0] /\ weak = [o \in Obj |-> 0]
      /\ at = [p \in Counted!Pointer |-> Nobody] /\ made = {} /\ frames = <<>>
      /\ deleted = [o \in Obj |-> 0] /\ released = [o \in Obj |-> 0]
  BY DEF Counted!Init
<1>2. WellStacked(<<>>) /\ Elements(<<>>) = {}
  BY DEF WellStacked, Elements
<1>3. RefsTyped
  BY <1>1, <1>2 DEF RefsTyped
<1>4. CountedIn({}, at, use, weak)
  <2>1. \A o \in Obj : UsersIn({}, at, o) = {} /\ HoldersIn({}, at, o) = {}
    BY <1>1, NoneIsNot DEF UsersIn, HoldersIn, RefersIn, ReleasedIn, Counted!Pointer
  <2>2. \A o \in Obj : use[o] = 0 /\ weak[o] = 0
    BY <1>1
  <2> QED
    BY <2>1, <2>2, FS_EmptySet DEF CountedIn
<1>5. Ledger({}, use, weak, at, made, deleted, released)
  <2>1. \A o \in Obj : /\ use[o] = 0 /\ weak[o] = 0 /\ at[o] = Nobody
                       /\ deleted[o] = 0 /\ released[o] = 0
    BY <1>1 DEF Counted!Pointer, Counted!Strong
  <2> QED
    BY <2>1, <1>1 DEF Ledger, FullIn
<1> QED
  BY <1>1, <1>2, <1>3, <1>4, <1>5 DEF RefsInv

LEMMA SourcesNext ==
  ASSUME Counted!RefAssumption, RefsInv, SourcesKept, [Counted!Next]_(Counted!vars)
  PROVE  SourcesKept'
<1>1. CASE UNCHANGED Counted!vars
  BY <1>1 DEF SourcesKept, Counted!Exists, Counted!vars
<1>2. CASE Counted!Release \/ Counted!FullReturns
  BY <1>2, ReleaseSources
<1>3. CASE Counted!AssignEnds
  BY <1>3, AssignEndsSources
<1>4. ASSUME NEW p \in Counted!Pointer,
             \/ \E o \in Obj : Counted!New(p, o) \/ Counted!Hold(p, o)
             \/ \E q \in Counted!Pointer : Counted!Copy(p, q) \/ Counted!Move(p, q)
      PROVE  SourcesKept'
  BY <1>4, PlainSources
<1>5. ASSUME NEW p \in Counted!Pointer, NEW q \in Counted!Pointer, Counted!Assign(p, q)
      PROVE  SourcesKept'
  BY <1>5, AssignSources
<1>6. ASSUME NEW p \in Counted!Pointer, NEW q \in Counted!Pointer, Counted!PassiveOps(p, q)
      PROVE  SourcesKept'
  BY <1>6, PassiveSources DEF Counted!PassiveOps
<1>7. ASSUME NEW p \in Var, Counted!Drop(p) PROVE SourcesKept'
  BY <1>7, DropSources
<1> QED
  BY <1>1, <1>2, <1>3, <1>4, <1>5, <1>6, <1>7 DEF Counted!Next

LEMMA RefsKept ==
  ASSUME Counted!RefAssumption, RefsInv, SourcesKept, ~wild', [Counted!Next]_(Counted!vars)
  PROVE  RefsInv'
<1>1. CASE UNCHANGED Counted!vars
  BY <1>1 DEF RefsInv, RefsTyped, Counted!vars
<1>2. CASE Counted!Release
  BY <1>2, ReleaseKeeps
<1>3. CASE Counted!FullReturns
  BY <1>3, FullReturnsKeeps
<1>4. CASE Counted!AssignEnds
  BY <1>4, AssignEndsKeeps
<1>5. ASSUME NEW p \in Counted!Pointer, NEW o \in Obj, Counted!New(p, o) PROVE RefsInv'
  BY <1>5, NewKeeps
<1>6. ASSUME NEW p \in Counted!Pointer, NEW o \in Obj, Counted!Hold(p, o) PROVE RefsInv'
  BY <1>6, HoldKeeps
<1>7. ASSUME NEW p \in Counted!Pointer, NEW q \in Counted!Pointer, Counted!Copy(p, q) PROVE RefsInv'
  BY <1>7, CopyKeeps
<1>8. ASSUME NEW p \in Counted!Pointer, NEW q \in Counted!Pointer, Counted!Assign(p, q) PROVE RefsInv'
  BY <1>8, AssignKeeps
<1>9. ASSUME NEW p \in Counted!Pointer, NEW q \in Counted!Pointer, Counted!Move(p, q) PROVE RefsInv'
  BY <1>9, MoveKeeps
<1>10. ASSUME NEW p \in Counted!Pointer, Counted!LetGo(p) PROVE RefsInv'
  BY <1>10, LetGoKeeps
<1>11. ASSUME NEW p \in Counted!Pointer, NEW q \in Counted!Pointer, Counted!HoldOther(p, q) PROVE RefsInv'
  BY <1>11, HoldOtherKeeps
<1>12. ASSUME NEW p \in Var, Counted!Drop(p) PROVE RefsInv'
  BY <1>12, DropKeeps
<1> QED
  BY <1>1, <1>2, <1>3, <1>4, <1>5, <1>6, <1>7, <1>8, <1>9, <1>10, <1>11, <1>12
  DEF Counted!Next, Counted!PassiveOps

\* The counts and the numbers of calls say what the property says.
LEMMA RefsInvExact == ASSUME Counted!RefAssumption, ~wild => RefsInv PROVE ReferencesExact
<1> SUFFICES ASSUME NEW o \in Obj, RefsInv
             PROVE  /\ use[o] = Counted!Cardinality(Counted!Users(o))
                    /\ weak[o] = Counted!Cardinality(Counted!Holders(o))
                    /\ released[o] = IF /\ o \in Full /\ o \in made
                                        /\ \/ Counted!Users(o) = {}
                                           \/ Counted!Do("full", o) \in Counted!Going
                                     THEN 1 ELSE 0
                    /\ deleted[o] = IF o \in made /\ Counted!Users(o) = {} /\ Counted!Holders(o) = {} THEN 1 ELSE 0
  BY DEF ReferencesExact, Counted!ReferencesExact
<1>1. Counted!Users(o) = UsersIn(Elements(frames), at, o) /\ Counted!Holders(o) = HoldersIn(Elements(frames), at, o)
  BY UsersAreIn, GoingIs
<1>2. use[o] = Cardinality(Counted!Users(o)) /\ weak[o] = Cardinality(Counted!Holders(o))
  BY <1>1 DEF RefsInv, CountedIn
<1>3. (use[o] = 0 <=> Counted!Users(o) = {}) /\ (weak[o] = 0 <=> Counted!Holders(o) = {})
  BY <1>1, <1>2, Finite, Zero
<1>4. FullIn(Elements(frames), o) <=> Counted!Do("full", o) \in Counted!Going
  <2>1. ASSUME NEW f \in Elements(frames), f.op = "full", f.o = o PROVE f = Counted!Do("full", o)
    <3>1. f \in Ops
      BY DEF RefsInv, RefsTyped, WellStacked, Elements
    <3>2. f.p = Nobody /\ f.q = Nobody /\ f.to = Nobody
      BY <2>1, <3>1 DEF Ops
    <3>3. f = [op |-> f.op, o |-> f.o, p |-> f.p, q |-> f.q, to |-> f.to]
      BY <3>1 DEF Ops
    <3> QED
      BY <2>1, <3>2, <3>3 DEF Counted!Do, Counted!Frame
  <2> QED
    BY <2>1, GoingIs, DoHas DEF FullIn
<1>5. /\ released[o] = IF o \in Full /\ o \in made /\ (use[o] = 0 \/ FullIn(Elements(frames), o))
                       THEN 1 ELSE 0
      /\ deleted[o] = IF o \in made /\ use[o] = 0 /\ weak[o] = 0 THEN 1 ELSE 0
  BY DEF RefsInv, Ledger
<1> QED
  BY <1>2, <1>3, <1>4, <1>5, SameCounting

\* ref_ptr and passive_ref_ptr (tamer/ref.hh): both counts of an object are exact;
\* full_release is called once, when the last counted reference goes; the object is
\* deleted once, when no reference is left.  All of this for any objects and any
\* variables, and members as sources, up to the moment when an assignment reads its
\* source in an object that is gone.
THEOREM ReferencesAreExact ==
  ASSUME Counted!RefAssumption
  PROVE  Counted!Spec => []ReferencesExact
<1> DEFINE IInv == ~wild => RefsInv /\ SourcesKept
<1>1. Counted!Init => IInv
  <2> SUFFICES ASSUME Counted!Init PROVE IInv
    OBVIOUS
  <2>1. SourcesKept
    BY DEF Counted!Init, SourcesKept, Elements
  <2> QED
    BY <2>1, RefsInitially
<1>2. IInv /\ [Counted!Next]_(Counted!vars) => IInv'
  <2> SUFFICES ASSUME IInv, [Counted!Next]_(Counted!vars), ~wild' PROVE RefsInv' /\ SourcesKept'
    OBVIOUS
  <2>1. ~wild
    BY DEF Counted!Next, Counted!vars
  <2> QED
    BY <2>1, RefsKept, SourcesNext
<1>3. IInv => ReferencesExact
  BY RefsInvExact
<1> QED
  BY <1>1, <1>2, <1>3, PTL DEF Counted!Spec

(* Values!Results: what the handles, the preevents and the variables know of each other *)

Rec == [on : Scope \cup {Nobody}, refs : Int, hook : BOOLEAN, made : BOOLEAN,
        deleted : Int, ids : Int]

Call == [op : {"assign", "drop", "trigger"}, x : Values!Handle, y : Values!Handle, e : Occ, dies : BOOLEAN]

CallsTyped ==
  /\ calls \in Seq(Call)
  /\ \A i \in DOMAIN calls : calls[i].x \in Typed => calls[i].y \in Typed

ResultsTyped ==
  /\ ev \in [Occ -> Rec]
  /\ se \in [Values!Handle -> Occ \cup {Nobody}] /\ sv \in [Values!Handle -> SUBSET Slot]
  /\ pre \in [Pre -> [r : Scope \cup {Nobody}, s : SUBSET Slot]]
  /\ bound \in [Slot -> Occ \cup Pre \cup {Nobody}]
  /\ over \subseteq Scope
  /\ CallsTyped

\* What a handle or a variable knows has been made.
KnownMade ==
  /\ \A x \in Values!Handle : se[x] # Nobody => ev[se[x]].made
  /\ \A s \in Slot : bound[s] \in Occ => ev[bound[s]].made

\* A handle that was not moved from has the results of its own occurrence.
OwnResults ==
  \A x \in Typed : x \notin moved /\ se[x] # Nobody /\ ev[se[x]].on # Nobody =>
    \A s \in sv[x] : bound[s] = se[x]

\* What waits does so in the call of its results, which goes on.
OccsAtHome ==
  /\ \A s \in Slot : bound[s] \in Occ =>
       ev[bound[s]].on = Nobody \/ ev[bound[s]].on = Home[s]
  /\ \A e \in Occ : ev[e].on \notin over

PresAtHome ==
  \A p \in Pre : pre[p].r # Nobody =>
    /\ pre[p].r \notin over
    /\ \A s \in pre[p].s : bound[s] = p /\ Home[s] = pre[p].r

ResultsInv == ResultsTyped /\ KnownMade /\ OwnResults /\ OccsAtHome /\ PresAtHome

(* Occurrences only become empty *)

\* g knows no more occurrences than f, and nothing waits in it that does not in f.
Quiet(f, g) ==
  /\ g \in [Occ -> Rec]
  /\ \A e \in Occ : /\ f[e].made => g[e].made
                    /\ g[e].on = f[e].on \/ g[e].on = Nobody

LEMMA QuietAgain ==
  ASSUME NEW f, NEW g, NEW h, Quiet(f, g), Quiet(g, h)
  PROVE  Quiet(f, h)
BY DEF Quiet

LEMMA QuietParts ==
  ASSUME NEW f \in [Occ -> Rec], NEW e \in Occ
  PROVE  /\ Quiet(f, f) /\ Quiet(f, Values!Reap(f, e)) /\ Quiet(f, Values!Use(f, e)) /\ Quiet(f, Values!Unlinked(f, e))
         /\ Quiet(f, [f EXCEPT ![e].refs = @ - 1])
         /\ Quiet(f, [f EXCEPT ![e].deleted = @ + 1])
<1>1. f[e].deleted + 1 \in Int /\ f[e].refs - 1 \in Int /\ f[e].refs + 1 \in Int
  BY DEF Rec
<1>2. Quiet(f, f)
  BY DEF Quiet
<1>3. Quiet(f, [f EXCEPT ![e].refs = @ - 1])
  BY <1>1 DEF Quiet, Rec
<1>4. Quiet(f, [f EXCEPT ![e].deleted = @ + 1])
  BY <1>1 DEF Quiet, Rec
<1>5. Quiet(f, Values!Use(f, e))
  <2>1. Quiet(f, [f EXCEPT ![e].refs = @ + 1])
    BY <1>1 DEF Quiet, Rec
  <2> QED
    BY <1>2, <2>1 DEF Values!Use
<1>6. Quiet(f, Values!Reap(f, e))
  BY <1>2, <1>4 DEF Values!Reap
<1>7. Quiet(f, Values!Unlinked(f, e))
  <2> PICK n : n = (IF f[e].refs > 0 THEN f[e].refs - 1 ELSE 0) +
                   (IF f[e].on # Nobody /\ Kind[f[e].on] # "gather" THEN 1 ELSE 0)
    OBVIOUS
  <2>1. n \in Int
    BY <1>1 DEF Rec
  <2>2. Values!Unlinked(f, e) = [f EXCEPT ![e].on = Nobody, ![e].refs = n]
    BY DEF Values!Unlinked
  <2>3. Quiet(f, [f EXCEPT ![e].on = Nobody, ![e].refs = n])
    BY <2>1 DEF Quiet, Rec
  <2> QED
    BY <2>2, <2>3
<1> QED
  BY <1>2, <1>3, <1>4, <1>5, <1>6, <1>7

(* Handles exchange what they know *)

Shift ==
  /\ se' \in [Values!Handle -> Occ \cup {Nobody}] /\ sv' \in [Values!Handle -> SUBSET Slot]
  /\ \A x \in Values!Handle : se'[x] = Nobody \/ \E y \in Values!Handle : se'[x] = se[y]
  /\ \A x \in Typed : x \notin moved' /\ se'[x] # Nobody =>
       \E y \in Typed : y \notin moved /\ se'[x] = se[y] /\ sv'[x] = sv[y]

LEMMA TypedHandles == ASSUME Values!ResultAssumption PROVE Typed \subseteq Values!Handle /\ Typed \cap Plain = {}
BY DEF Values!ResultAssumption, Values!Handle

LEMMA NoneIsNothing ==
  ASSUME Values!ResultAssumption
  PROVE  Nobody \notin Occ /\ Nobody \notin Pre /\ Nobody \notin Scope /\ Nobody \notin Values!Handle /\ Pre \cap Occ = {}
BY DEF Values!ResultAssumption

LEMMA SameShift ==
  ASSUME Values!ResultAssumption, ResultsTyped, UNCHANGED <<se, sv, moved>>
  PROVE  Shift
BY TypedHandles DEF Shift, ResultsTyped

LEMMA FinishShifts ==
  ASSUME Values!ResultAssumption, ResultsTyped, NEW op, NEW x \in Values!Handle, NEW y \in Values!Handle,
         x \in Typed => y \in Typed, Values!Finish(op, x, y)
  PROVE  Shift
<1>t. se \in [Values!Handle -> Occ \cup {Nobody}] /\ sv \in [Values!Handle -> SUBSET Slot]
  BY DEF ResultsTyped
<1>1. CASE op = "assign"
  <2>1. /\ se' = [se EXCEPT ![x] = se[y]] /\ sv' = [sv EXCEPT ![x] = sv[y]]
        /\ moved' = IF y \in moved THEN moved \cup {x} ELSE moved \ {x}
    BY <1>1 DEF Values!Finish
  <2>2. se' \in [Values!Handle -> Occ \cup {Nobody}] /\ sv' \in [Values!Handle -> SUBSET Slot]
    BY <2>1, <1>t
  <2>3. \A z \in Values!Handle : z # x => se'[z] = se[z] /\ sv'[z] = sv[z]
    BY <2>1, <1>t
  <2>4. se'[x] = se[y] /\ sv'[x] = sv[y]
    BY <2>1, <1>t
  <2>5. x \notin moved' => y \notin moved
    BY <2>1
  <2>6. \A z : z # x /\ z \notin moved' => z \notin moved
    BY <2>1
  <2>7. ASSUME NEW z \in Typed, z \notin moved'
        PROVE  \E h \in Typed : h \notin moved /\ se'[z] = se[h] /\ sv'[z] = sv[h]
    <3>1. CASE z = x
      BY <2>4, <2>5, <2>7, <3>1
    <3>2. CASE z # x
      BY <2>3, <2>6, <2>7, <3>2, TypedHandles
    <3> QED
      BY <3>1, <3>2
  <2>8. \A z \in Values!Handle : \E h \in Values!Handle : se'[z] = se[h]
    BY <2>3, <2>4
  <2> QED
    BY <2>2, <2>7, <2>8 DEF Shift
<1>2. CASE op # "assign"
  <2>1. /\ se' = [se EXCEPT ![x] = Nobody] /\ sv' = [sv EXCEPT ![x] = {}]
        /\ moved' = moved \ {x}
    BY <1>2 DEF Values!Finish
  <2>2. se' \in [Values!Handle -> Occ \cup {Nobody}] /\ sv' \in [Values!Handle -> SUBSET Slot]
    BY <2>1, <1>t
  <2>3. \A z \in Values!Handle : z # x => se'[z] = se[z] /\ sv'[z] = sv[z]
    BY <2>1, <1>t
  <2>4. se'[x] = Nobody
    BY <2>1, <1>t
  <2>6. \A z : z # x /\ z \notin moved' => z \notin moved
    BY <2>1
  <2> QED
    BY <2>2, <2>3, <2>4, <2>6, TypedHandles DEF Shift
<1> QED
  BY <1>1, <1>2

LEMMA ShiftKeeps ==
  ASSUME Values!ResultAssumption, ResultsInv, Quiet(ev, ev'), Shift, CallsTyped',
         UNCHANGED <<pre, bound, over>>
  PROVE  ResultsInv'
<1>t. ResultsTyped
  BY DEF ResultsInv
<1>1. ResultsTyped'
  BY <1>t DEF ResultsTyped, Quiet, Shift
<1>2. KnownMade'
  <2>1. ASSUME NEW x \in Values!Handle, se'[x] # Nobody PROVE ev'[se'[x]].made
    <3>1. PICK y \in Values!Handle : se'[x] = se[y]
      BY <2>1 DEF Shift
    <3>2. se[y] \in Occ /\ ev[se[y]].made
      BY <2>1, <3>1, <1>t DEF ResultsInv, KnownMade, ResultsTyped
    <3> QED
      BY <3>1, <3>2 DEF Quiet
  <2>2. ASSUME NEW s \in Slot, bound[s] \in Occ PROVE ev'[bound[s]].made
    BY <2>2 DEF ResultsInv, KnownMade, Quiet
  <2> QED
    BY <2>1, <2>2 DEF KnownMade
<1>3. OwnResults'
  <2> SUFFICES ASSUME NEW x \in Typed, x \notin moved', se'[x] # Nobody, ev'[se'[x]].on # Nobody,
                      NEW s \in sv'[x]
               PROVE  bound[s] = se'[x]
    BY DEF OwnResults
  <2>1. PICK y \in Typed : y \notin moved /\ se'[x] = se[y] /\ sv'[x] = sv[y]
    BY DEF Shift
  <2>2. se[y] \in Occ
    BY <2>1, <1>t, TypedHandles DEF ResultsTyped
  <2>3. ev[se[y]].on # Nobody
    BY <2>1, <2>2 DEF Quiet
  <2> QED
    BY <2>1, <2>3 DEF ResultsInv, OwnResults
<1>4. OccsAtHome'
  <2>1. ASSUME NEW s \in Slot, bound[s] \in Occ
        PROVE  ev'[bound[s]].on = Nobody \/ ev'[bound[s]].on = Home[s]
    BY <2>1 DEF ResultsInv, OccsAtHome, Quiet
  <2>2. ASSUME NEW e \in Occ PROVE ev'[e].on \notin over
    BY <1>t, NoneIsNothing DEF ResultsInv, OccsAtHome, Quiet, ResultsTyped
  <2> QED
    BY <2>1, <2>2 DEF OccsAtHome
<1>5. PresAtHome'
  BY DEF ResultsInv, PresAtHome
<1> QED
  BY <1>1, <1>2, <1>3, <1>4, <1>5 DEF ResultsInv

LEMMA CallsPush ==
  ASSUME CallsTyped, NEW c \in Call, c.x \in Typed => c.y \in Typed, calls' = <<c>> \o calls
  PROVE  CallsTyped'
<1>1. calls \in Seq(Call) /\ Len(calls) \in Nat /\ DOMAIN calls = 1 .. Len(calls)
  BY DEF CallsTyped
<1>2. /\ calls' \in Seq(Call) /\ DOMAIN calls' = 1 .. Len(calls) + 1 /\ calls'[1] = c
      /\ \A i \in DOMAIN calls' : i # 1 => i - 1 \in DOMAIN calls /\ calls'[i] = calls[i - 1]
  BY <1>1
<1> QED
  BY <1>2 DEF CallsTyped

LEMMA CallsPop ==
  ASSUME CallsTyped, calls # <<>>, calls' = Tail(calls)
  PROVE  /\ CallsTyped' /\ Head(calls) \in Call
         /\ Head(calls).x \in Typed => Head(calls).y \in Typed
<1>1. calls \in Seq(Call) /\ Len(calls) \in Nat \ {0} /\ DOMAIN calls = 1 .. Len(calls)
  BY DEF CallsTyped
<1>2. /\ calls' \in Seq(Call) /\ Head(calls) = calls[1] /\ 1 \in DOMAIN calls
      /\ \A i \in DOMAIN calls' : i + 1 \in DOMAIN calls /\ calls'[i] = calls[i + 1]
  BY <1>1
<1> QED
  BY <1>1, <1>2 DEF CallsTyped

LEMMA TriggerShifts ==
  ASSUME Values!ResultAssumption, ResultsTyped, NEW f, Quiet(ev, f), NEW e \in Occ,
         NEW op \in {"assign", "drop", "trigger"}, NEW x \in Values!Handle, NEW y \in Values!Handle,
         x \in Typed => y \in Typed, Values!SimpleTrigger(f, e, op, x, y)
  PROVE  Quiet(ev, ev') /\ Shift /\ CallsTyped'
<1> PICK g : g = Values!Unlinked(f, e)
  OBVIOUS
<1>0. f \in [Occ -> Rec]
  BY DEF Quiet
<1>1. Quiet(f, g)
  BY <1>0, QuietParts
<1>2. Quiet(ev, g) /\ g \in [Occ -> Rec]
  BY <1>1, QuietAgain DEF Quiet
<1>3. CASE f[e].on # Nobody /\ f[e].hook
  <2> PICK c : c = [op |-> op, x |-> x, y |-> y, e |-> e, dies |-> g[e].refs = 0]
    OBVIOUS
  <2>1. ev' = g /\ calls' = <<c>> \o calls /\ UNCHANGED <<se, sv, moved>>
    BY <1>3 DEF Values!SimpleTrigger
  <2>2. c \in Call /\ (c.x \in Typed => c.y \in Typed)
    BY DEF Call
  <2>3. CallsTyped'
    BY <2>1, <2>2, CallsPush DEF ResultsTyped
  <2> QED
    BY <1>2, <2>1, <2>3, SameShift
<1>4. CASE ~(f[e].on # Nobody /\ f[e].hook)
  <2>1. ev' = Values!Reap(g, e) /\ Values!Finish(op, x, y) /\ calls' = calls
    BY <1>4 DEF Values!SimpleTrigger
  <2>2. Quiet(g, Values!Reap(g, e))
    BY <1>2, QuietParts
  <2>3. Quiet(ev, ev')
    BY <2>1, <2>2, <1>2, QuietAgain
  <2>4. CallsTyped'
    BY <2>1 DEF ResultsTyped, CallsTyped
  <2> QED
    BY <2>1, <2>3, <2>4, FinishShifts
<1> QED
  BY <1>3, <1>4

LEMMA UnuseShifts ==
  ASSUME Values!ResultAssumption, ResultsTyped, NEW f, Quiet(ev, f), NEW e \in Occ \cup {Nobody},
         NEW op \in {"assign", "drop", "trigger"}, NEW x \in Values!Handle, NEW y \in Values!Handle,
         x \in Typed => y \in Typed, Values!Unuse(f, e, op, x, y)
  PROVE  Quiet(ev, ev') /\ Shift /\ CallsTyped'
<1> PICK g : g = [f EXCEPT ![e].refs = @ - 1]
  OBVIOUS
<1>0. f \in [Occ -> Rec]
  BY DEF Quiet
<1>1. CASE e # Nobody /\ g[e].refs = 0
  <2>1. Values!SimpleTrigger(g, e, op, x, y)
    BY <1>1 DEF Values!Unuse
  <2>2. Quiet(ev, g)
    <3>1. Quiet(f, g)
      BY <1>0, <1>1, QuietParts
    <3> QED
      BY <3>1, QuietAgain
  <2> QED
    BY <1>1, <2>1, <2>2, TriggerShifts
<1>2. CASE ~(e # Nobody /\ g[e].refs = 0)
  <2>1. ev' = (IF e = Nobody THEN f ELSE g) /\ Values!Finish(op, x, y) /\ calls' = calls
    BY <1>2 DEF Values!Unuse
  <2>2. Quiet(ev, ev')
    <3>1. CASE e = Nobody
      BY <2>1, <3>1
    <3>2. CASE e # Nobody
      <4>1. Quiet(f, g)
        BY <1>0, <3>2, QuietParts
      <4> QED
        BY <2>1, <3>2, <4>1, QuietAgain
    <3> QED
      BY <3>1, <3>2
  <2>3. CallsTyped'
    BY <2>1 DEF ResultsTyped, CallsTyped
  <2> QED
    BY <2>1, <2>2, <2>3, FinishShifts
<1> QED
  BY <1>1, <1>2

\* What clear() does to the occurrences.
LEMMA ClearedFacts ==
  ASSUME Values!ResultAssumption, ResultsTyped, NEW r \in Scope, Values!Cleared(r)
  PROVE  Quiet(ev, ev') /\ \A e \in Occ : ev'[e].on # r
<1> DEFINE listed == {readyList[r][i] : i \in DOMAIN readyList[r]}
           freed(e) == IF Kind[r] = "ids" THEN ev[e].ids - 1 ELSE ev[e].ids
<1>1. ev' = [e \in Occ |->
           IF e \in Values!Waiting(r) THEN [ev[e] EXCEPT !.on = Nobody, !.ids = freed(e)]
           ELSE IF e \in listed
             THEN [ev[e] EXCEPT !.refs = @ - 1, !.ids = freed(e),
                                !.deleted = IF ev[e].refs = 1 THEN @ + 1 ELSE @]
             ELSE ev[e]]
  BY DEF Values!Cleared
<1>t. \A e \in Occ : ev[e] \in Rec
  BY DEF ResultsTyped
<1>2. \A e \in Occ : freed(e) \in Int
  BY <1>t DEF Rec
<1> HIDE DEF listed, freed
<1>n. Nobody # r
  BY NoneIsNothing
<1>3. ASSUME NEW e \in Occ
      PROVE  /\ ev'[e] \in Rec /\ ev'[e].made = ev[e].made /\ ev'[e].on # r
             /\ ev'[e].on = ev[e].on \/ ev'[e].on = Nobody
  <2>1. CASE e \in Values!Waiting(r)
    <3>1. ev'[e] = [ev[e] EXCEPT !.on = Nobody, !.ids = freed(e)]
      BY <1>1, <2>1
    <3> QED
      BY <3>1, <1>t, <1>2, <1>n DEF Rec
  <2>2. CASE e \notin Values!Waiting(r)
    <3>0. ev[e].on # r
      BY <2>2 DEF Values!Waiting
    <3>1. CASE e \in listed
      <4>1. ev'[e] = [ev[e] EXCEPT !.refs = @ - 1, !.ids = freed(e),
                                   !.deleted = IF ev[e].refs = 1 THEN @ + 1 ELSE @]
        BY <1>1, <2>2, <3>1
      <4>2. /\ ev[e].refs - 1 \in Int
            /\ (IF ev[e].refs = 1 THEN ev[e].deleted + 1 ELSE ev[e].deleted) \in Int
        BY <1>t DEF Rec
      <4> QED
        BY <3>0, <4>1, <4>2, <1>t, <1>2 DEF Rec
    <3>2. CASE e \notin listed
      <4>1. ev'[e] = ev[e]
        BY <1>1, <2>2, <3>2
      <4> QED
        BY <3>0, <4>1, <1>t
    <3> QED
      BY <3>1, <3>2
  <2> QED
    BY <2>1, <2>2
<1>4. ev' \in [Occ -> Rec]
  <2>1. DOMAIN ev' = Occ /\ ev' = [e \in Occ |-> ev'[e]]
    BY <1>1
  <2> QED
    BY <2>1, <1>3
<1> QED
  BY <1>3, <1>4 DEF Quiet

(* The operations on handles, and what a rendezvous does with its occurrences *)

LEMMA ReturnKeeps ==
  ASSUME Values!ResultAssumption, ResultsInv, Values!Return
  PROVE  ResultsInv'
<1>t. ResultsTyped
  BY DEF ResultsInv
<1>u. /\ ev \in [Occ -> Rec] /\ se \in [Values!Handle -> Occ \cup {Nobody}] /\ sv \in [Values!Handle -> SUBSET Slot]
      /\ CallsTyped
  BY <1>t DEF ResultsTyped
<1>h. \A h : h \in Typed => h \in Values!Handle
  BY TypedHandles
<1>q. Quiet(ev, ev)
  BY <1>u DEF Quiet
<1>1. ASSUME Values!Return PROVE ResultsInv'
  <2> PICK c : c = Head(calls)
    OBVIOUS
  <2>1. /\ calls # <<>> /\ calls' = Tail(calls) /\ Values!Finish(c.op, c.x, c.y)
        /\ ev' = IF c.dies THEN [ev EXCEPT ![c.e].deleted = @ + 1] ELSE ev
        /\ UNCHANGED <<pre, bound, over>>
    BY <1>1 DEF Values!Return
  <2>2. CallsTyped' /\ c \in Call /\ (c.x \in Typed => c.y \in Typed)
    BY <1>u, <2>1, CallsPop
  <2>3. c.e \in Occ /\ c.x \in Values!Handle /\ c.y \in Values!Handle
    BY <2>2 DEF Call
  <2>4. Quiet(ev, [ev EXCEPT ![c.e].deleted = @ + 1])
    BY <1>u, <2>3, QuietParts
  <2>5. Quiet(ev, ev')
    BY <2>1, <2>4, <1>q
  <2>6. Shift
    BY <1>t, <2>1, <2>2, <2>3, FinishShifts
  <2> QED
    BY <2>1, <2>2, <2>5, <2>6, ShiftKeeps
<1> QED
  BY <1>1

LEMMA HandleOpKeeps ==
  ASSUME Values!ResultAssumption, ResultsInv, NEW x \in Values!Handle,
         \/ Values!TriggerWith(x) \/ Values!Unblock(x) \/ Values!SetResult(x)
         \/ Values!SetHook(x) \/ Values!Drop(x)
  PROVE  ResultsInv'
<1>t. ResultsTyped
  BY DEF ResultsInv
<1>u. /\ ev \in [Occ -> Rec] /\ se \in [Values!Handle -> Occ \cup {Nobody}] /\ sv \in [Values!Handle -> SUBSET Slot]
      /\ CallsTyped
  BY <1>t DEF ResultsTyped
<1>h. \A h : h \in Typed => h \in Values!Handle
  BY TypedHandles
<1>e. se[x] \in Occ \cup {Nobody}
  BY <1>u
<1>q. Quiet(ev, ev)
  BY <1>u DEF Quiet
<1>2. ASSUME Values!TriggerWith(x) \/ Values!Unblock(x) PROVE ResultsInv'
  <2>1. se[x] # Nobody /\ Values!SimpleTrigger(ev, se[x], "trigger", x, x) /\ UNCHANGED <<pre, bound, over>>
    BY <1>2 DEF Values!TriggerWith, Values!Unblock, Values!Active
  <2>2. se[x] \in Occ
    BY <2>1, <1>e
  <2>3. Quiet(ev, ev') /\ Shift /\ CallsTyped'
    BY <2>1, <2>2, <1>q, <1>t, TriggerShifts
  <2> QED
    BY <2>1, <2>3, ShiftKeeps
<1>3. ASSUME Values!SetResult(x) PROVE ResultsInv'
  <2>1. UNCHANGED <<ev, se, sv, moved, pre, bound, over, calls>>
    BY <1>3 DEF Values!SetResult
  <2>2. Quiet(ev, ev') /\ CallsTyped'
    BY <2>1, <1>q, <1>u DEF CallsTyped
  <2> QED
    BY <1>t, <2>1, <2>2, SameShift, ShiftKeeps
<1>4. ASSUME Values!SetHook(x) PROVE ResultsInv'
  <2>1. /\ se[x] \in Occ /\ ev' = [ev EXCEPT ![se[x]].hook = TRUE]
        /\ UNCHANGED <<se, sv, moved, pre, bound, over, calls>>
    BY <1>4, <1>e DEF Values!SetHook, Values!Active
  <2>2. Quiet(ev, ev')
    BY <2>1, <1>u DEF Quiet, Rec
  <2>3. CallsTyped'
    BY <2>1, <1>u DEF CallsTyped
  <2> QED
    BY <1>t, <2>1, <2>2, <2>3, SameShift, ShiftKeeps
<1>5. ASSUME Values!Drop(x) PROVE ResultsInv'
  <2>1. Values!Unuse(ev, se[x], "drop", x, x) /\ UNCHANGED <<pre, bound, over>>
    BY <1>5 DEF Values!Drop
  <2>2. Quiet(ev, ev') /\ Shift /\ CallsTyped'
    BY <2>1, <1>e, <1>q, <1>t, UnuseShifts
  <2> QED
    BY <2>1, <2>2, ShiftKeeps
<1> QED
  BY <1>2, <1>3, <1>4, <1>5

LEMMA HandlesOpKeeps ==
  ASSUME Values!ResultAssumption, "moved" \notin Misuse, ResultsInv, NEW x \in Values!Handle, NEW y \in Values!Handle,
         Values!Assign(x, y) \/ Values!Move(x, y) \/ Values!Unblocker(x, y)
  PROVE  ResultsInv'
<1>t. ResultsTyped
  BY DEF ResultsInv
<1>u. /\ ev \in [Occ -> Rec] /\ se \in [Values!Handle -> Occ \cup {Nobody}] /\ sv \in [Values!Handle -> SUBSET Slot]
      /\ CallsTyped
  BY <1>t DEF ResultsTyped
<1>h. \A h : h \in Typed => h \in Values!Handle
  BY TypedHandles
<1>e. se[x] \in Occ \cup {Nobody} /\ se[y] \in Occ \cup {Nobody}
  BY <1>u
<1>q. Quiet(ev, ev)
  BY <1>u DEF Quiet
<1>6. ASSUME Values!Assign(x, y) PROVE ResultsInv'
  <2>1. /\ Values!Alike(x, y) /\ Values!Unuse(Values!Use(ev, se[y]), se[x], "assign", x, y)
        /\ se[y] # Nobody /\ UNCHANGED <<pre, bound, over>>
    BY <1>6 DEF Values!Assign
  <2>2. x \in Typed => y \in Typed
    BY <2>1, TypedHandles DEF Values!Alike
  <2>3. Quiet(ev, Values!Use(ev, se[y]))
    BY <2>1, <1>e, <1>u, QuietParts
  <2>4. Quiet(ev, ev') /\ Shift /\ CallsTyped'
    BY <2>1, <2>2, <2>3, <1>e, <1>t, UnuseShifts
  <2> QED
    BY <2>1, <2>4, ShiftKeeps
<1>7. ASSUME Values!Move(x, y) PROVE ResultsInv'
  <2>1. /\ Values!Alike(x, y) /\ x # y
        /\ se' = [se EXCEPT ![x] = se[y], ![y] = se[x]]
        /\ sv' = [sv EXCEPT ![x] = sv[y], ![y] = IF se[x] = Nobody THEN {} ELSE @]
        /\ moved' = IF se[x] = Nobody THEN moved \ {x, y} ELSE (moved \ {x}) \cup ({y} \cap Typed)
        /\ y \notin moved
        /\ UNCHANGED <<ev, pre, bound, over, calls>>
    BY <1>7 DEF Values!Move, Values!Trusted
  <2>2. /\ x \in Typed => y \in Typed
        /\ y \in Typed => x \in Typed
    BY <2>1, TypedHandles DEF Values!Alike
  <2>3. se' \in [Values!Handle -> Occ \cup {Nobody}]
    BY <2>1, <1>u
  <2>4. sv' \in [Values!Handle -> SUBSET Slot]
    BY <2>1, <1>u
  <2>5. /\ se'[x] = se[y] /\ sv'[x] = sv[y] /\ se'[y] = se[x]
        /\ \A z \in Values!Handle : z # x /\ z # y => se'[z] = se[z] /\ sv'[z] = sv[z]
    BY <2>1, <1>u
  <2>6. Shift
    <3>1. \A z \in Values!Handle : \E h \in Values!Handle : se'[z] = se[h]
      BY <2>5
    <3>2. ASSUME NEW z \in Typed, z \notin moved', se'[z] # Nobody
          PROVE  \E h \in Typed : h \notin moved /\ se'[z] = se[h] /\ sv'[z] = sv[h]
      <4>1. CASE z = x
        BY <2>1, <2>2, <2>5, <4>1, <3>2
      <4>2. CASE z = y
        <5>1. se[x] # Nobody
          BY <4>2, <2>5, <3>2
        <5>2. y \in moved'
          BY <5>1, <4>2, <2>1, <3>2
        <5> QED
          BY <5>2, <4>2, <3>2
      <4>3. CASE z # x /\ z # y
        <5>1. z \notin moved
          BY <4>3, <2>1, <3>2
        <5> QED
          BY <5>1, <4>3, <2>5, <1>h, <3>2
      <4> QED
        BY <4>1, <4>2, <4>3
    <3> QED
      BY <2>3, <2>4, <3>1, <3>2 DEF Shift
  <2>7. Quiet(ev, ev') /\ CallsTyped'
    BY <2>1, <1>q, <1>u DEF CallsTyped
  <2> QED
    BY <2>1, <2>6, <2>7, ShiftKeeps
<1>8. ASSUME Values!Unblocker(x, y) PROVE ResultsInv'
  <2>1. /\ x \in Plain /\ se[y] # Nobody /\ ev' = Values!Use(ev, se[y]) /\ se' = [se EXCEPT ![x] = se[y]]
        /\ moved' = moved \ {x} /\ UNCHANGED <<sv, pre, bound, over, calls>>
    BY <1>8 DEF Values!Unblocker
  <2>2. se' \in [Values!Handle -> Occ \cup {Nobody}] /\ se'[x] = se[y] /\ \A z \in Values!Handle : z # x => se'[z] = se[z]
    BY <2>1, <1>u
  <2>3. x \notin Typed
    BY <2>1, TypedHandles
  <2>4. Shift
    <3>1. \A z \in Values!Handle : \E h \in Values!Handle : se'[z] = se[h]
      BY <2>2
    <3>2. \A z \in Typed : z \notin moved' => z \notin moved /\ se'[z] = se[z] /\ sv'[z] = sv[z]
      BY <2>1, <2>2, <2>3, <1>h
    <3> QED
      BY <2>1, <2>2, <3>1, <3>2, <1>u DEF Shift
  <2>5. Quiet(ev, ev')
    BY <2>1, <1>e, <1>u, QuietParts
  <2>6. CallsTyped'
    BY <2>1, <1>u DEF CallsTyped
  <2> QED
    BY <2>1, <2>4, <2>5, <2>6, ShiftKeeps
<1> QED
  BY <1>6, <1>7, <1>8

LEMMA ScopeOpKeeps ==
  ASSUME Values!ResultAssumption, ResultsInv, NEW r \in Scope,
         Values!Join(r) \/ Values!Clear(r)
  PROVE  ResultsInv'
<1>t. ResultsTyped
  BY DEF ResultsInv
<1>u. /\ ev \in [Occ -> Rec] /\ se \in [Values!Handle -> Occ \cup {Nobody}] /\ sv \in [Values!Handle -> SUBSET Slot]
      /\ CallsTyped
  BY <1>t DEF ResultsTyped
<1>h. \A h : h \in Typed => h \in Values!Handle
  BY TypedHandles
<1>q. Quiet(ev, ev)
  BY <1>u DEF Quiet
<1>9. ASSUME Values!Join(r) PROVE ResultsInv'
  <2> PICK e : e = Head(readyList[r])
    OBVIOUS
  <2> PICK f : f = [ev EXCEPT ![e].refs = @ - 1,
                              ![e].ids = IF Kind[r] = "ids" THEN @ - 1 ELSE @]
    OBVIOUS
  <2>1. ev' = Values!Reap(f, e) /\ UNCHANGED <<se, sv, moved, pre, bound, over, calls>>
    BY <1>9 DEF Values!Join
  <2>2. Quiet(ev, ev')
    <3>1. CASE e \in Occ
      <4>1. Quiet(ev, f)
        <5>1. ev[e].refs - 1 \in Int /\ (IF Kind[r] = "ids" THEN ev[e].ids - 1 ELSE ev[e].ids) \in Int
          BY <1>u, <3>1 DEF Rec
        <5> QED
          BY <1>u, <3>1, <5>1 DEF Quiet, Rec
      <4>2. Quiet(f, Values!Reap(f, e))
        <5>1. f \in [Occ -> Rec]
          BY <4>1 DEF Quiet
        <5> QED
          BY <3>1, <5>1, QuietParts
      <4> QED
        BY <2>1, <4>1, <4>2, QuietAgain
    <3>2. CASE e \notin Occ
      <4>1. f = ev
        BY <1>u, <3>2
      <4>2. Values!Reap(f, e) = ev
        BY <1>u, <3>2, <4>1 DEF Values!Reap
      <4> QED
        BY <2>1, <4>2, <1>q
    <3> QED
      BY <3>1, <3>2
  <2>3. CallsTyped'
    BY <2>1, <1>u DEF CallsTyped
  <2> QED
    BY <1>t, <2>1, <2>2, <2>3, SameShift, ShiftKeeps
<1>10. ASSUME Values!Clear(r) PROVE ResultsInv'
  <2>1. Values!Cleared(r) /\ UNCHANGED <<se, sv, moved, pre, bound, over, calls>>
    BY <1>10 DEF Values!Clear
  <2>2. Quiet(ev, ev')
    BY <2>1, <1>t, ClearedFacts
  <2>3. CallsTyped'
    BY <2>1, <1>u DEF CallsTyped
  <2> QED
    BY <1>t, <2>1, <2>2, <2>3, SameShift, ShiftKeeps
<1> QED
  BY <1>9, <1>10

\* A new occurrence, for results that no other handle has.
LEMMA InstantiateKeeps ==
  ASSUME Values!ResultAssumption, ResultsInv, NEW x \in Values!Handle, NEW r \in Scope, NEW S \in SUBSET Slot,
         Values!Instantiate(x, r, S),
         \A s \in S : Home[s] = r /\ bound[s] \notin Occ,
         pre' \in [Pre -> [r : Scope \cup {Nobody}, s : SUBSET Slot]],
         \A p \in Pre : pre'[p].r # Nobody => pre'[p] = pre[p] /\ \A s \in pre[p].s : s \notin S
  PROVE  ResultsInv'
<1>t. ResultsTyped
  BY DEF ResultsInv
<1>u. /\ ev \in [Occ -> Rec] /\ se \in [Values!Handle -> Occ \cup {Nobody}] /\ sv \in [Values!Handle -> SUBSET Slot]
      /\ CallsTyped /\ bound \in [Slot -> Occ \cup Pre \cup {Nobody}] /\ over \subseteq Scope
  BY <1>t DEF ResultsTyped
<1>h. \A h : h \in Typed => h \in Values!Handle
  BY TypedHandles
<1>1. PICK e \in Occ :
        /\ ~ev[e].made
        /\ ev' = [ev EXCEPT ![e] = [on |-> r, refs |-> 1, hook |-> FALSE, made |-> TRUE,
                                    deleted |-> 0, ids |-> IF Kind[r] = "ids" THEN 1 ELSE 0]]
        /\ se' = [se EXCEPT ![x] = e]
        /\ bound' = [s \in Slot |-> IF s \in S THEN e ELSE bound[s]]
  BY DEF Values!Instantiate
<1>2. /\ r \notin over /\ sv' = [sv EXCEPT ![x] = S] /\ moved' = moved \ {x}
      /\ UNCHANGED <<over, calls>>
  BY DEF Values!Instantiate
<1>n. Nobody \notin Occ /\ Nobody \notin Scope /\ Nobody \notin Pre /\ Pre \cap Occ = {}
  BY NoneIsNothing
<1>3. /\ ev' \in [Occ -> Rec] /\ ev'[e].made /\ ev'[e].on = r
      /\ \A d \in Occ : d # e => ev'[d] = ev[d]
  <2>1. [on |-> r, refs |-> 1, hook |-> FALSE, made |-> TRUE,
         deleted |-> 0, ids |-> IF Kind[r] = "ids" THEN 1 ELSE 0] \in Rec
    BY DEF Rec
  <2> QED
    BY <1>1, <1>u, <2>1
<1>4. /\ se' \in [Values!Handle -> Occ \cup {Nobody}] /\ se'[x] = e
      /\ \A y \in Values!Handle : y # x => se'[y] = se[y]
  BY <1>1, <1>u
<1>5. /\ sv' \in [Values!Handle -> SUBSET Slot] /\ sv'[x] = S
      /\ \A y \in Values!Handle : y # x => sv'[y] = sv[y]
  BY <1>2, <1>u
<1>6. /\ bound' \in [Slot -> Occ \cup Pre \cup {Nobody}]
      /\ \A s \in Slot : bound'[s] = IF s \in S THEN e ELSE bound[s]
  BY <1>1, <1>u
<1>7. \A y \in Values!Handle : y # x => se[y] # e
  <2> SUFFICES ASSUME NEW y \in Values!Handle, se[y] = e PROVE FALSE
    OBVIOUS
  <2>1. se[y] # Nobody
    BY <1>n
  <2> QED
    BY <1>1, <2>1 DEF ResultsInv, KnownMade
<1>8. \A s \in Slot : bound[s] # e
  BY <1>1 DEF ResultsInv, KnownMade
<1>9. ResultsTyped'
  <2>1. CallsTyped'
    BY <1>2, <1>u DEF CallsTyped
  <2> QED
    BY <2>1, <1>2, <1>3, <1>4, <1>5, <1>6, <1>u DEF ResultsTyped
<1>10. KnownMade'
  <2>1. ASSUME NEW y \in Values!Handle, se'[y] # Nobody PROVE ev'[se'[y]].made
    <3>1. CASE y = x
      BY <3>1, <1>3, <1>4
    <3>2. CASE y # x
      <4>1. se'[y] = se[y] /\ se[y] \in Occ /\ se[y] # e
        BY <2>1, <3>2, <1>4, <1>7, <1>u
      <4>2. ev[se[y]].made
        BY <2>1, <4>1 DEF ResultsInv, KnownMade
      <4> QED
        BY <4>1, <4>2, <1>3
    <3> QED
      BY <3>1, <3>2
  <2>2. ASSUME NEW s \in Slot, bound'[s] \in Occ PROVE ev'[bound'[s]].made
    <3>1. CASE s \in S
      BY <3>1, <1>3, <1>6
    <3>2. CASE s \notin S
      <4>1. bound'[s] = bound[s] /\ bound[s] # e /\ bound[s] \in Occ
        BY <2>2, <3>2, <1>6, <1>8
      <4>2. ev[bound[s]].made
        BY <4>1 DEF ResultsInv, KnownMade
      <4> QED
        BY <4>1, <4>2, <1>3
    <3> QED
      BY <3>1, <3>2
  <2> QED
    BY <2>1, <2>2 DEF KnownMade
<1>11. OwnResults'
  <2> SUFFICES ASSUME NEW y \in Typed, y \notin moved', se'[y] # Nobody, ev'[se'[y]].on # Nobody,
                      NEW s \in sv'[y]
               PROVE  bound'[s] = se'[y]
    BY DEF OwnResults
  <2>1. CASE y = x
    BY <2>1, <1>4, <1>5, <1>6
  <2>2. CASE y # x
    <3>1. /\ se'[y] = se[y] /\ sv'[y] = sv[y] /\ y \notin moved /\ se[y] \in Occ /\ se[y] # e
          /\ s \in Slot
      BY <2>2, <1>2, <1>4, <1>5, <1>7, <1>h, <1>u
    <3>2. ev[se[y]].on # Nobody
      BY <3>1, <1>3
    <3>3. bound[s] = se[y]
      BY <3>1, <3>2 DEF ResultsInv, OwnResults
    <3>4. s \notin S
      BY <3>1, <3>3
    <3> QED
      BY <3>1, <3>3, <3>4, <1>6
  <2> QED
    BY <2>1, <2>2
<1>12. OccsAtHome'
  <2>1. ASSUME NEW s \in Slot, bound'[s] \in Occ
        PROVE  ev'[bound'[s]].on = Nobody \/ ev'[bound'[s]].on = Home[s]
    <3>1. CASE s \in S
      BY <3>1, <1>3, <1>6
    <3>2. CASE s \notin S
      <4>1. bound'[s] = bound[s] /\ bound[s] # e /\ bound[s] \in Occ
        BY <2>1, <3>2, <1>6, <1>8
      <4>2. ev[bound[s]].on = Nobody \/ ev[bound[s]].on = Home[s]
        BY <4>1 DEF ResultsInv, OccsAtHome
      <4> QED
        BY <4>1, <4>2, <1>3
    <3> QED
      BY <3>1, <3>2
  <2>2. ASSUME NEW d \in Occ PROVE ev'[d].on \notin over
    <3>1. ev[d].on \notin over
      BY DEF ResultsInv, OccsAtHome
    <3> QED
      BY <3>1, <1>2, <1>3
  <2> QED
    BY <2>1, <2>2, <1>2 DEF OccsAtHome
<1>13. PresAtHome'
  <2> SUFFICES ASSUME NEW p \in Pre, pre'[p].r # Nobody
               PROVE  /\ pre'[p].r \notin over'
                      /\ \A s \in pre'[p].s : bound'[s] = p /\ Home[s] = pre'[p].r
    BY DEF PresAtHome
  <2>1. pre'[p] = pre[p] /\ \A s \in pre[p].s : s \notin S
    OBVIOUS
  <2>2. pre[p].r \notin over /\ \A s \in pre[p].s : bound[s] = p /\ Home[s] = pre[p].r
    BY <2>1 DEF ResultsInv, PresAtHome
  <2>3. \A s \in pre[p].s : s \in Slot
    BY <1>t DEF ResultsTyped
  <2> QED
    BY <2>1, <2>2, <2>3, <1>2, <1>6
<1> QED
  BY <1>9, <1>10, <1>11, <1>12, <1>13 DEF ResultsInv

LEMMA MakeKeeps ==
  ASSUME Values!ResultAssumption, ResultsInv, NEW x \in Values!Handle, NEW r \in Scope, NEW S \in Values!Results(x, r),
         Values!MakeEvent(x, r, S) \/ Values!MakeWithId(x, r, S) \/ Values!MakeInTwait(x, r, S)
  PROVE  ResultsInv'
<1>1. Values!Instantiate(x, r, S) /\ pre' = pre
  BY DEF Values!MakeEvent, Values!MakeWithId, Values!MakeInTwait
<1>2. S \in SUBSET Slot /\ \A s \in S : Home[s] = r /\ bound[s] = Nobody
  BY DEF Values!Results, Values!Free
<1>3. \A s \in S : bound[s] \notin Occ
  BY <1>2, NoneIsNothing
<1>4. pre' \in [Pre -> [r : Scope \cup {Nobody}, s : SUBSET Slot]]
  BY <1>1 DEF ResultsInv, ResultsTyped
<1>5. \A p \in Pre : pre'[p].r # Nobody => pre'[p] = pre[p] /\ \A s \in pre[p].s : s \notin S
  <2> SUFFICES ASSUME NEW p \in Pre, pre[p].r # Nobody, NEW s \in pre[p].s, s \in S PROVE FALSE
    BY <1>1
  <2>1. bound[s] = p
    BY DEF ResultsInv, PresAtHome
  <2> QED
    BY <2>1, <1>2, NoneIsNothing
<1> QED
  BY <1>1, <1>2, <1>3, <1>4, <1>5, InstantiateKeeps

LEMMA PreToEventKeeps ==
  ASSUME Values!ResultAssumption, ResultsInv, NEW x \in Values!Handle, NEW p \in Pre, Values!PreToEvent(x, p)
  PROVE  ResultsInv'
<1>t. pre \in [Pre -> [r : Scope \cup {Nobody}, s : SUBSET Slot]]
  BY DEF ResultsInv, ResultsTyped
<1> PICK r : r = pre[p].r
  OBVIOUS
<1> PICK S : S = pre[p].s
  OBVIOUS
<1>1. r # Nobody /\ Values!Instantiate(x, r, S) /\ pre' = [pre EXCEPT ![p] = Values!NoPre]
  BY DEF Values!PreToEvent
<1>2. r \in Scope /\ S \in SUBSET Slot
  BY <1>1, <1>t
<1>3. \A s \in S : Home[s] = r /\ bound[s] = p
  BY <1>1 DEF ResultsInv, PresAtHome
<1>4. \A s \in S : bound[s] \notin Occ
  BY <1>3, NoneIsNothing
<1>5. /\ pre' \in [Pre -> [r : Scope \cup {Nobody}, s : SUBSET Slot]] /\ pre'[p].r = Nobody
      /\ \A q \in Pre : q # p => pre'[q] = pre[q]
  BY <1>1, <1>t DEF Values!NoPre
<1>6. \A q \in Pre : pre'[q].r # Nobody => pre'[q] = pre[q] /\ \A s \in pre[q].s : s \notin S
  <2> SUFFICES ASSUME NEW q \in Pre, pre'[q].r # Nobody
               PROVE  pre'[q] = pre[q] /\ \A s \in pre[q].s : s \notin S
    OBVIOUS
  <2>1. q # p /\ pre'[q] = pre[q]
    BY <1>5
  <2>2. \A s \in pre[q].s : bound[s] = q
    BY <2>1 DEF ResultsInv, PresAtHome
  <2> QED
    BY <2>1, <2>2, <1>3
<1> QED
  BY <1>1, <1>2, <1>3, <1>4, <1>5, <1>6, InstantiateKeeps

LEMMA RebindKeeps ==
  ASSUME Values!ResultAssumption, ResultsInv, NEW x \in Typed, NEW u \in Plain, NEW keep \in BOOLEAN,
         NEW S \in SUBSET Slot, Values!Rebind(x, u, keep, S)
  PROVE  ResultsInv'
<1> PICK e : e = se[u]
  OBVIOUS
<1> PICK r : r = ev[e].on
  OBVIOUS
<1>t. ResultsTyped
  BY DEF ResultsInv
<1>u. /\ ev \in [Occ -> Rec] /\ se \in [Values!Handle -> Occ \cup {Nobody}] /\ sv \in [Values!Handle -> SUBSET Slot]
      /\ CallsTyped /\ bound \in [Slot -> Occ \cup Pre \cup {Nobody}] /\ over \subseteq Scope
  BY <1>t DEF ResultsTyped
<1>n. Nobody \notin Occ /\ Nobody \notin Scope /\ Nobody \notin Pre /\ Pre \cap Occ = {}
  BY NoneIsNothing
<1>h. /\ \A h : h \in Typed => h \in Values!Handle
      /\ u \in Values!Handle /\ u \notin Typed /\ x # u
  BY TypedHandles DEF Values!Handle
<1>1. /\ e # Nobody /\ r # Nobody /\ S \in SUBSET Values!Free(r)
      /\ ev' = IF keep THEN Values!Use(ev, e) ELSE ev
      /\ se' = [se EXCEPT ![x] = e, ![u] = IF keep THEN @ ELSE Nobody]
      /\ sv' = [sv EXCEPT ![x] = S] /\ moved' = moved \ {x}
      /\ bound' = [s \in Slot |-> IF s \in S THEN e ELSE bound[s]]
      /\ UNCHANGED <<pre, over, calls>>
  BY DEF Values!Rebind, Values!Active
<1>2. e \in Occ
  BY <1>1, <1>h, <1>u
<1>3. \A s \in S : s \in Slot /\ Home[s] = r /\ bound[s] = Nobody
  BY <1>1 DEF Values!Free
<1>4. Quiet(ev, ev') /\ \A d \in Occ : ev'[d].on = ev[d].on
  <2>1. Quiet(ev, ev) /\ Quiet(ev, Values!Use(ev, e))
    BY <1>2, <1>u, QuietParts
  <2>2. \A d \in Occ : Values!Use(ev, e)[d].on = ev[d].on
    BY <1>u DEF Values!Use, Rec
  <2> QED
    BY <1>1, <2>1, <2>2
<1>5. /\ se' \in [Values!Handle -> Occ \cup {Nobody}] /\ se'[x] = e
      /\ \A y \in Values!Handle : y # x => se'[y] = se[y] \/ se'[y] = Nobody
      /\ \A y \in Typed : y # x => se'[y] = se[y]
  BY <1>1, <1>2, <1>h, <1>u
<1>6. /\ sv' \in [Values!Handle -> SUBSET Slot] /\ sv'[x] = S
      /\ \A y \in Values!Handle : y # x => sv'[y] = sv[y]
  BY <1>1, <1>h, <1>u
<1>7. /\ bound' \in [Slot -> Occ \cup Pre \cup {Nobody}]
      /\ \A s \in Slot : bound'[s] = IF s \in S THEN e ELSE bound[s]
  BY <1>1, <1>2, <1>u
<1>m. ev[e].made
  BY <1>1, <1>h DEF ResultsInv, KnownMade
<1>8. ResultsTyped'
  <2>1. CallsTyped'
    BY <1>1, <1>u DEF CallsTyped
  <2>2. ev' \in [Occ -> Rec]
    BY <1>4 DEF Quiet
  <2> QED
    BY <2>1, <2>2, <1>1, <1>5, <1>6, <1>7, <1>t DEF ResultsTyped
<1>9. KnownMade'
  <2>1. ASSUME NEW y \in Values!Handle, se'[y] # Nobody PROVE ev'[se'[y]].made
    <3>1. CASE y = x
      BY <3>1, <1>2, <1>4, <1>5, <1>m DEF Quiet
    <3>2. CASE y # x
      <4>1. se'[y] = se[y] /\ se[y] \in Occ
        BY <2>1, <3>2, <1>5, <1>u
      <4>2. ev[se[y]].made
        BY <2>1, <4>1 DEF ResultsInv, KnownMade
      <4> QED
        BY <4>1, <4>2, <1>4 DEF Quiet
    <3> QED
      BY <3>1, <3>2
  <2>2. ASSUME NEW s \in Slot, bound'[s] \in Occ PROVE ev'[bound'[s]].made
    <3>1. CASE s \in S
      BY <3>1, <1>2, <1>4, <1>7, <1>m DEF Quiet
    <3>2. CASE s \notin S
      BY <2>2, <3>2, <1>4, <1>7 DEF ResultsInv, KnownMade, Quiet
    <3> QED
      BY <3>1, <3>2
  <2> QED
    BY <2>1, <2>2 DEF KnownMade
<1>10. OwnResults'
  <2> SUFFICES ASSUME NEW y \in Typed, y \notin moved', se'[y] # Nobody, ev'[se'[y]].on # Nobody,
                      NEW s \in sv'[y]
               PROVE  bound'[s] = se'[y]
    BY DEF OwnResults
  <2>1. CASE y = x
    BY <2>1, <1>3, <1>5, <1>6, <1>7
  <2>2. CASE y # x
    <3>1. /\ se'[y] = se[y] /\ sv'[y] = sv[y] /\ y \notin moved /\ se[y] \in Occ /\ s \in Slot
      BY <2>2, <1>1, <1>5, <1>6, <1>h, <1>u
    <3>2. ev[se[y]].on # Nobody
      BY <3>1, <1>4
    <3>3. bound[s] = se[y]
      BY <3>1, <3>2 DEF ResultsInv, OwnResults
    <3>4. s \notin S
      BY <3>1, <3>3, <1>3, <1>n
    <3> QED
      BY <3>1, <3>3, <3>4, <1>7
  <2> QED
    BY <2>1, <2>2
<1>11. OccsAtHome'
  <2>1. ASSUME NEW s \in Slot, bound'[s] \in Occ
        PROVE  ev'[bound'[s]].on = Nobody \/ ev'[bound'[s]].on = Home[s]
    <3>1. CASE s \in S
      BY <3>1, <1>2, <1>3, <1>4, <1>7
    <3>2. CASE s \notin S
      BY <2>1, <3>2, <1>4, <1>7 DEF ResultsInv, OccsAtHome
    <3> QED
      BY <3>1, <3>2
  <2>2. ASSUME NEW d \in Occ PROVE ev'[d].on \notin over
    BY <1>4 DEF ResultsInv, OccsAtHome
  <2> QED
    BY <2>1, <2>2, <1>1 DEF OccsAtHome
<1>12. PresAtHome'
  <2> SUFFICES ASSUME NEW p \in Pre, pre[p].r # Nobody
               PROVE  /\ pre[p].r \notin over
                      /\ \A s \in pre[p].s : bound'[s] = p /\ Home[s] = pre[p].r
    BY <1>1 DEF PresAtHome
  <2>1. pre[p].r \notin over /\ \A s \in pre[p].s : bound[s] = p /\ Home[s] = pre[p].r
    BY DEF ResultsInv, PresAtHome
  <2>2. \A s \in pre[p].s : s \in Slot /\ s \notin S
    BY <2>1, <1>3, <1>n, <1>t DEF ResultsTyped
  <2> QED
    BY <2>1, <2>2, <1>7
<1> QED
  BY <1>8, <1>9, <1>10, <1>11, <1>12 DEF ResultsInv

\* Preevents: only they and the variables meant for them change.
LEMMA PreChange ==
  ASSUME Values!ResultAssumption, ResultsInv, UNCHANGED <<ev, se, sv, moved, over, calls>>,
         pre' \in [Pre -> [r : Scope \cup {Nobody}, s : SUBSET Slot]],
         bound' \in [Slot -> Occ \cup Pre \cup {Nobody}],
         \A s \in Slot : bound'[s] = bound[s] \/ (bound[s] \notin Occ /\ bound'[s] \notin Occ),
         PresAtHome'
  PROVE  ResultsInv'
<1>t. ResultsTyped
  BY DEF ResultsInv
<1>h. \A h : h \in Typed => h \in Values!Handle
  BY TypedHandles
<1>1. ResultsTyped'
  <2>1. CallsTyped'
    BY <1>t DEF ResultsTyped, CallsTyped
  <2> QED
    BY <2>1, <1>t DEF ResultsTyped
<1>2. KnownMade'
  <2>1. \A s \in Slot : bound'[s] \in Occ => bound'[s] = bound[s]
    OBVIOUS
  <2> QED
    BY <2>1 DEF ResultsInv, KnownMade
<1>3. OwnResults'
  <2> SUFFICES ASSUME NEW x \in Typed, x \notin moved, se[x] # Nobody, ev[se[x]].on # Nobody,
                      NEW s \in sv[x]
               PROVE  bound'[s] = se[x]
    BY DEF OwnResults
  <2>1. bound[s] = se[x]
    BY DEF ResultsInv, OwnResults
  <2>2. se[x] \in Occ /\ s \in Slot
    BY <1>h, <1>t DEF ResultsTyped
  <2> QED
    BY <2>1, <2>2
<1>4. OccsAtHome'
  <2>1. \A s \in Slot : bound'[s] \in Occ => bound'[s] = bound[s]
    OBVIOUS
  <2> QED
    BY <2>1 DEF ResultsInv, OccsAtHome
<1> QED
  BY <1>1, <1>2, <1>3, <1>4 DEF ResultsInv

LEMMA MakePreKeeps ==
  ASSUME Values!ResultAssumption, ResultsInv, NEW p \in Pre, NEW r \in Scope, NEW S,
         Values!MakePre(p, r, S)
  PROVE  ResultsInv'
<1>t. /\ pre \in [Pre -> [r : Scope \cup {Nobody}, s : SUBSET Slot]]
      /\ bound \in [Slot -> Occ \cup Pre \cup {Nobody}]
  BY DEF ResultsInv, ResultsTyped
<1>n. Nobody \notin Occ /\ Nobody \notin Scope /\ Nobody \notin Pre /\ Pre \cap Occ = {}
  BY NoneIsNothing
<1>i. \A z \in Pre : pre[z].r # Nobody =>
        /\ pre[z].r \notin over
        /\ \A s \in pre[z].s : bound[s] = z /\ Home[s] = pre[z].r
  BY DEF ResultsInv, PresAtHome
<1>1. ASSUME Values!MakePre(p, r, S) PROVE ResultsInv'
  <2>1. /\ pre[p].r = Nobody /\ r \notin over /\ S \subseteq Slot
        /\ \A s \in S : Home[s] = r /\ bound[s] = Nobody
        /\ pre' = [pre EXCEPT ![p] = [r |-> r, s |-> S]]
        /\ bound' = [s \in Slot |-> IF s \in S THEN p ELSE bound[s]]
        /\ UNCHANGED <<ev, se, sv, moved, over, calls>>
    BY <1>1 DEF Values!MakePre, Values!Free
  <2>2. /\ pre' \in [Pre -> [r : Scope \cup {Nobody}, s : SUBSET Slot]]
        /\ pre'[p].r = r /\ pre'[p].s = S /\ \A z \in Pre : z # p => pre'[z] = pre[z]
    BY <2>1, <1>t
  <2>3. /\ bound' \in [Slot -> Occ \cup Pre \cup {Nobody}]
        /\ \A s \in Slot : bound'[s] = IF s \in S THEN p ELSE bound[s]
    BY <2>1, <1>t
  <2>4. \A s \in Slot : bound'[s] = bound[s] \/ (bound[s] \notin Occ /\ bound'[s] \notin Occ)
    BY <2>1, <2>3, <1>n
  <2>5. PresAtHome'
    <3> SUFFICES ASSUME NEW z \in Pre, pre'[z].r # Nobody
                 PROVE  /\ pre'[z].r \notin over
                        /\ \A s \in pre'[z].s : bound'[s] = z /\ Home[s] = pre'[z].r
      BY <2>1 DEF PresAtHome
    <3>1. CASE z = p
      BY <3>1, <2>1, <2>2, <2>3
    <3>2. CASE z # p
      <4>1. pre'[z] = pre[z] /\ \A s \in pre[z].s : s \in Slot /\ s \notin S
        BY <3>2, <2>1, <2>2, <1>i, <1>n, <1>t
      <4> QED
        BY <4>1, <2>3, <1>i
    <3> QED
      BY <3>1, <3>2
  <2> QED
    BY <2>1, <2>2, <2>3, <2>4, <2>5, PreChange
<1> QED
  BY <1>1

LEMMA PreOpKeeps ==
  ASSUME Values!ResultAssumption, ResultsInv, NEW p \in Pre, NEW q \in Pre,
         Values!PreTrigger(p) \/ Values!PreUnblock(p) \/ Values!PreMove(p, q)
  PROVE  ResultsInv'
<1>t. /\ pre \in [Pre -> [r : Scope \cup {Nobody}, s : SUBSET Slot]]
      /\ bound \in [Slot -> Occ \cup Pre \cup {Nobody}]
  BY DEF ResultsInv, ResultsTyped
<1>n. Nobody \notin Occ /\ Nobody \notin Scope /\ Nobody \notin Pre /\ Pre \cap Occ = {}
  BY NoneIsNothing
<1>i. \A z \in Pre : pre[z].r # Nobody =>
        /\ pre[z].r \notin over
        /\ \A s \in pre[z].s : bound[s] = z /\ Home[s] = pre[z].r
  BY DEF ResultsInv, PresAtHome
<1>2. ASSUME Values!PreTrigger(p) \/ Values!PreUnblock(p) PROVE ResultsInv'
  <2>1. pre' = [pre EXCEPT ![p] = Values!NoPre] /\ UNCHANGED <<ev, se, sv, moved, bound, over, calls>>
    BY <1>2 DEF Values!PreTrigger, Values!PreUnblock
  <2>2. /\ pre' \in [Pre -> [r : Scope \cup {Nobody}, s : SUBSET Slot]]
        /\ pre'[p].r = Nobody /\ \A z \in Pre : z # p => pre'[z] = pre[z]
    BY <2>1, <1>t DEF Values!NoPre
  <2>3. PresAtHome'
    BY <2>1, <2>2, <1>i DEF PresAtHome
  <2> QED
    BY <2>1, <2>2, <2>3, <1>t, PreChange
<1>3. ASSUME Values!PreMove(p, q) PROVE ResultsInv'
  <2>1. /\ pre[p].r = Nobody /\ pre[q].r # Nobody
        /\ pre' = [pre EXCEPT ![p] = pre[q], ![q] = Values!NoPre]
        /\ bound' = [s \in Slot |-> IF s \in pre[q].s THEN p ELSE bound[s]]
        /\ UNCHANGED <<ev, se, sv, moved, over, calls>>
    BY <1>3 DEF Values!PreMove
  <2>2. /\ pre' \in [Pre -> [r : Scope \cup {Nobody}, s : SUBSET Slot]]
        /\ pre'[q].r = Nobody /\ pre'[p] = pre[q] /\ p # q
        /\ \A z \in Pre : z # p /\ z # q => pre'[z] = pre[z]
    BY <2>1, <1>t DEF Values!NoPre
  <2>3. /\ bound' \in [Slot -> Occ \cup Pre \cup {Nobody}]
        /\ \A s \in Slot : bound'[s] = IF s \in pre[q].s THEN p ELSE bound[s]
    BY <2>1, <1>t
  <2>4. \A s \in Slot : bound'[s] = bound[s] \/ (bound[s] \notin Occ /\ bound'[s] \notin Occ)
    BY <2>1, <2>3, <1>i, <1>n
  <2>5. PresAtHome'
    <3> SUFFICES ASSUME NEW z \in Pre, pre'[z].r # Nobody
                 PROVE  /\ pre'[z].r \notin over
                        /\ \A s \in pre'[z].s : bound'[s] = z /\ Home[s] = pre'[z].r
      BY <2>1 DEF PresAtHome
    <3>0. \A s \in pre'[z].s : s \in Slot
      BY <2>2
    <3>1. CASE z = p
      BY <3>0, <3>1, <2>1, <2>2, <2>3, <1>i
    <3>2. CASE z # p
      <4>1. z # q /\ pre'[z] = pre[z]
        BY <3>2, <2>2
      <4>2. \A s \in pre[z].s : s \notin pre[q].s
        BY <4>1, <2>1, <1>i
      <4> QED
        BY <3>0, <4>1, <4>2, <2>3, <1>i
    <3> QED
      BY <3>1, <3>2
  <2> QED
    BY <2>1, <2>2, <2>3, <2>4, <2>5, PreChange
<1> QED
  BY <1>2, <1>3

LEMMA EndKeeps ==
  ASSUME Values!ResultAssumption, "preevents" \notin Misuse, ResultsInv, NEW r \in Scope,
         Values!Destroy(r) \/ Values!Leave(r)
  PROVE  ResultsInv'
<1>t. ResultsTyped
  BY DEF ResultsInv
<1>u. /\ ev \in [Occ -> Rec] /\ se \in [Values!Handle -> Occ \cup {Nobody}] /\ sv \in [Values!Handle -> SUBSET Slot]
      /\ CallsTyped /\ bound \in [Slot -> Occ \cup Pre \cup {Nobody}] /\ over \subseteq Scope
  BY <1>t DEF ResultsTyped
<1>n. Nobody \notin Occ /\ Nobody \notin Scope /\ Nobody \notin Pre
  BY NoneIsNothing
<1>h. \A h : h \in Typed => h \in Values!Handle
  BY TypedHandles
<1>1. /\ Values!Ends(r) /\ ~Values!Held(r) /\ UNCHANGED <<se, sv, moved, pre, calls>>
  BY DEF Values!Destroy, Values!Leave
<1>2. Quiet(ev, ev') /\ \A e \in Occ : ev'[e].on # r
  <2>1. CASE Values!Destroy(r)
    BY <2>1, <1>t, ClearedFacts DEF Values!Destroy
  <2>2. CASE Values!Leave(r)
    <3>1. ev' = ev /\ \A e \in Occ : ev[e].on # r
      BY <2>2 DEF Values!Leave, Values!Waiting
    <3> QED
      BY <3>1, <1>u DEF Quiet
  <2> QED
    BY <2>1, <2>2
<1>3. /\ over' = over \cup {r} /\ bound' \in [Slot -> Occ \cup Pre \cup {Nobody}]
      /\ \A s \in Slot : bound'[s] = IF Home[s] = r THEN Nobody ELSE bound[s]
  BY <1>1, <1>u DEF Values!Ends
<1>4. \A p \in Pre : pre[p].r # r
  BY <1>1 DEF Values!Held
<1>5. ResultsTyped'
  <2>1. CallsTyped'
    BY <1>1, <1>u DEF CallsTyped
  <2>2. ev' \in [Occ -> Rec]
    BY <1>2 DEF Quiet
  <2> QED
    BY <2>1, <2>2, <1>1, <1>3, <1>t DEF ResultsTyped
<1>6. KnownMade'
  <2>1. ASSUME NEW x \in Values!Handle, se[x] # Nobody PROVE ev'[se[x]].made
    <3>1. se[x] \in Occ /\ ev[se[x]].made
      BY <2>1, <1>u DEF ResultsInv, KnownMade
    <3> QED
      BY <3>1, <1>2 DEF Quiet
  <2>2. ASSUME NEW s \in Slot, bound'[s] \in Occ PROVE ev'[bound'[s]].made
    <3>1. bound'[s] = bound[s]
      BY <2>2, <1>3, <1>n
    <3>2. ev[bound[s]].made
      BY <2>2, <3>1 DEF ResultsInv, KnownMade
    <3> QED
      BY <2>2, <3>1, <3>2, <1>2 DEF Quiet
  <2> QED
    BY <2>1, <2>2, <1>1 DEF KnownMade
<1>7. OwnResults'
  <2> SUFFICES ASSUME NEW y \in Typed, y \notin moved, se[y] # Nobody, ev'[se[y]].on # Nobody,
                      NEW s \in sv[y]
               PROVE  bound'[s] = se[y]
    BY <1>1 DEF OwnResults
  <2>1. se[y] \in Occ /\ s \in Slot
    BY <1>h, <1>u
  <2>2. ev[se[y]].on # Nobody /\ ev[se[y]].on # r
    BY <2>1, <1>2 DEF Quiet
  <2>3. bound[s] = se[y]
    BY <2>2 DEF ResultsInv, OwnResults
  <2>4. Home[s] # r
    BY <2>1, <2>2, <2>3 DEF ResultsInv, OccsAtHome
  <2> QED
    BY <2>1, <2>3, <2>4, <1>3
<1>8. OccsAtHome'
  <2>1. ASSUME NEW s \in Slot, bound'[s] \in Occ
        PROVE  ev'[bound'[s]].on = Nobody \/ ev'[bound'[s]].on = Home[s]
    <3>1. bound'[s] = bound[s]
      BY <2>1, <1>3, <1>n
    <3>2. ev[bound[s]].on = Nobody \/ ev[bound[s]].on = Home[s]
      BY <2>1, <3>1 DEF ResultsInv, OccsAtHome
    <3> QED
      BY <2>1, <3>1, <3>2, <1>2 DEF Quiet
  <2>2. ASSUME NEW d \in Occ PROVE ev'[d].on \notin over'
    <3>1. ev[d].on \notin over
      BY DEF ResultsInv, OccsAtHome
    <3>2. Nobody \notin over
      BY <1>n, <1>u
    <3>3. ev'[d].on = ev[d].on \/ ev'[d].on = Nobody
      BY <1>2 DEF Quiet
    <3>4. ev'[d].on # r
      BY <1>2
    <3> QED
      BY <3>1, <3>2, <3>3, <3>4, <1>3
  <2> QED
    BY <2>1, <2>2 DEF OccsAtHome
<1>9. PresAtHome'
  <2> SUFFICES ASSUME NEW p \in Pre, pre[p].r # Nobody
               PROVE  /\ pre[p].r \notin over'
                      /\ \A s \in pre[p].s : bound'[s] = p /\ Home[s] = pre[p].r
    BY <1>1 DEF PresAtHome
  <2>1. pre[p].r \notin over /\ \A s \in pre[p].s : bound[s] = p /\ Home[s] = pre[p].r
    BY DEF ResultsInv, PresAtHome
  <2>2. \A s \in pre[p].s : s \in Slot
    BY <1>t DEF ResultsTyped
  <2> QED
    BY <2>1, <2>2, <1>3, <1>4
<1> QED
  BY <1>5, <1>6, <1>7, <1>8, <1>9 DEF ResultsInv

LEMMA ResultsInitially == ASSUME Values!ResultAssumption, Values!Init PROVE ResultsInv
<1>1. /\ ev = [e \in Occ |-> Values!Unmade]
      /\ se = [x \in Values!Handle |-> Nobody] /\ sv = [x \in Values!Handle |-> {}]
      /\ pre = [p \in Pre |-> Values!NoPre] /\ bound = [s \in Slot |-> Nobody]
      /\ over \subseteq Scope /\ calls = <<>>
  BY DEF Values!Init
<1>n. Nobody \notin Occ /\ Nobody \notin Scope /\ Nobody \notin Pre
  BY NoneIsNothing
<1>2. ev \in [Occ -> Rec] /\ \A e \in Occ : ev[e].on = Nobody
  BY <1>1 DEF Values!Unmade, Rec
<1>3. pre \in [Pre -> [r : Scope \cup {Nobody}, s : SUBSET Slot]] /\ \A p \in Pre : pre[p].r = Nobody
  BY <1>1 DEF Values!NoPre
<1>4. CallsTyped
  BY <1>1 DEF CallsTyped
<1>5. ResultsTyped
  BY <1>1, <1>2, <1>3, <1>4 DEF ResultsTyped
<1>6. \A x \in Values!Handle : se[x] = Nobody
  BY <1>1
<1>7. \A s \in Slot : bound[s] \notin Occ
  BY <1>1, <1>n
<1> QED
  BY <1>1, <1>2, <1>3, <1>5, <1>6, <1>7, <1>n, TypedHandles
  DEF ResultsInv, KnownMade, OwnResults, OccsAtHome, PresAtHome

LEMMA ResultsKept ==
  ASSUME Values!ResultAssumption, Misuse \subseteq {"operands"},
         ResultsInv, [Values!Next]_(Values!vars)
  PROVE  ResultsInv'
<1>m. "moved" \notin Misuse /\ "preevents" \notin Misuse
  OBVIOUS
<1>1. CASE UNCHANGED Values!vars
  BY <1>1 DEF Values!vars, ResultsInv, ResultsTyped, CallsTyped, KnownMade, OwnResults,
              OccsAtHome, PresAtHome
<1>2. CASE Values!Return
  BY <1>2, ReturnKeeps
<1>3. ASSUME NEW x \in Values!Handle, NEW r \in Scope, NEW S \in Values!Results(x, r),
             Values!MakeEvent(x, r, S) \/ Values!MakeWithId(x, r, S) \/ Values!MakeInTwait(x, r, S)
      PROVE  ResultsInv'
  BY <1>3, MakeKeeps
<1>4. ASSUME NEW x \in Values!Handle, Values!Triggers(x) \/ Values!PlainOps(x) PROVE ResultsInv'
  BY <1>4, HandleOpKeeps DEF Values!Triggers, Values!PlainOps
<1>5. ASSUME NEW x \in Values!Handle, NEW y \in Values!Handle, Values!EventOps(x, y) \/ Values!Unblocker(x, y) PROVE ResultsInv'
  BY <1>5, <1>m, HandlesOpKeeps DEF Values!EventOps
<1>6. ASSUME NEW x \in Typed, NEW u \in Plain, NEW keep \in BOOLEAN, NEW S \in SUBSET Slot,
             Values!Rebind(x, u, keep, S)
      PROVE  ResultsInv'
  BY <1>6, RebindKeeps
<1>7. ASSUME NEW p \in Pre, NEW r \in Scope, NEW S \in SUBSET Values!Free(r), Values!MakePre(p, r, S) PROVE ResultsInv'
  BY <1>7, MakePreKeeps
<1>8. ASSUME NEW p \in Pre, NEW q \in Pre, Values!PreOps(p, q) PROVE ResultsInv'
  BY <1>8, PreOpKeeps DEF Values!PreOps
<1>9. ASSUME NEW x \in Values!Handle, NEW p \in Pre, Values!PreToEvent(x, p) PROVE ResultsInv'
  BY <1>9, PreToEventKeeps
<1>10. ASSUME NEW r \in Scope, Values!Join(r) \/ Values!Clear(r) PROVE ResultsInv'
  BY <1>10, ScopeOpKeeps
<1>11. ASSUME NEW r \in Scope, Values!Destroy(r) \/ Values!Leave(r) PROVE ResultsInv'
  BY <1>11, <1>m, EndKeeps
<1> QED
  BY <1>1, <1>2, <1>3, <1>4, <1>5, <1>6, <1>7, <1>8, <1>9, <1>10, <1>11 DEF Values!Next

(* What a step writes *)

InTime == \A s \in Slot : value'[s] # value[s] => Values!Pending(bound[s]) /\ Home[s] \notin over

LEMMA WrittenOnly ==
  ASSUME NEW S, value' = Values!Written(S)
  PROVE  \A s \in Slot : value'[s] # value[s] => s \in S
BY DEF Values!Written

LEMMA HandleWritesInTime ==
  ASSUME Values!ResultAssumption, ResultsInv, "moved" \notin Misuse, NEW x \in Typed,
         Values!TriggerWith(x) \/ Values!SetResult(x)
  PROVE  InTime
<1>1. x \notin moved /\ se[x] # Nobody /\ ev[se[x]].on # Nobody
  BY DEF Values!TriggerWith, Values!SetResult, Values!Trusted, Values!Active
<1>2. se[x] \in Occ
  BY <1>1, TypedHandles DEF ResultsInv, ResultsTyped
<1>3. \A s \in Slot : value'[s] # value[s] => s \in sv[x]
  <2>1. CASE Values!TriggerWith(x)
    BY <2>1, WrittenOnly DEF Values!TriggerWith
  <2>2. CASE Values!SetResult(x)
    <3>1. PICK s \in sv[x] : value' = Values!Written({s})
      BY <2>2 DEF Values!SetResult
    <3> QED
      BY <3>1, WrittenOnly
  <2> QED
    BY <2>1, <2>2
<1>4. ASSUME NEW s \in Slot, value'[s] # value[s]
      PROVE  Values!Pending(bound[s]) /\ Home[s] \notin over
  <2>1. bound[s] = se[x]
    BY <1>1, <1>3, <1>4 DEF ResultsInv, OwnResults
  <2>2. ev[se[x]].on = Home[s] /\ ev[se[x]].on \notin over
    BY <1>1, <1>2, <2>1 DEF ResultsInv, OccsAtHome
  <2> QED
    BY <1>1, <1>2, <2>1, <2>2 DEF Values!Pending
<1> QED
  BY <1>4 DEF InTime

LEMMA PreWritesInTime ==
  ASSUME Values!ResultAssumption, ResultsInv, NEW p \in Pre, Values!PreTrigger(p)
  PROVE  InTime
<1>1. pre[p].r # Nobody /\ value' = Values!Written(pre[p].s)
  BY DEF Values!PreTrigger
<1>2. ASSUME NEW s \in Slot, value'[s] # value[s]
      PROVE  Values!Pending(bound[s]) /\ Home[s] \notin over
  <2>1. s \in pre[p].s
    BY <1>1, <1>2, WrittenOnly
  <2>2. bound[s] = p /\ Home[s] = pre[p].r /\ pre[p].r \notin over
    BY <1>1, <2>1 DEF ResultsInv, PresAtHome
  <2> QED
    BY <1>1, <2>2 DEF Values!Pending
<1> QED
  BY <1>2 DEF InTime

\* No other step writes.
LEMMA StepInTime ==
  ASSUME Values!ResultAssumption, "moved" \notin Misuse, ResultsInv, [Values!Next]_(Values!vars)
  PROVE  InTime
<1>u. UNCHANGED value => InTime
  BY DEF InTime
<1>1. CASE UNCHANGED Values!vars
  BY <1>1, <1>u DEF Values!vars
<1>2. CASE Values!Return
  BY <1>2, <1>u DEF Values!Return
<1>3. ASSUME NEW x \in Values!Handle, NEW r \in Scope, NEW S \in Values!Results(x, r),
             Values!MakeEvent(x, r, S) \/ Values!MakeWithId(x, r, S) \/ Values!MakeInTwait(x, r, S)
      PROVE  InTime
  BY <1>3, <1>u DEF Values!MakeEvent, Values!MakeWithId, Values!MakeInTwait, Values!Instantiate
<1>4. ASSUME NEW x \in Values!Handle, Values!Triggers(x) PROVE InTime
  <2>1. x \in Typed /\ (Values!TriggerWith(x) \/ Values!SetResult(x))
    BY <1>4 DEF Values!Triggers, Values!TriggerWith, Values!SetResult
  <2> QED
    BY <2>1, HandleWritesInTime
<1>5. ASSUME NEW x \in Values!Handle, Values!PlainOps(x) PROVE InTime
  BY <1>5, <1>u DEF Values!PlainOps, Values!Unblock, Values!SetHook, Values!Drop
<1>6. ASSUME NEW x \in Values!Handle, NEW y \in Values!Handle, Values!EventOps(x, y) \/ Values!Unblocker(x, y) PROVE InTime
  BY <1>6, <1>u DEF Values!EventOps, Values!Assign, Values!Move, Values!Unblocker
<1>7. ASSUME NEW x \in Typed, NEW u \in Plain, NEW keep \in BOOLEAN, NEW S \in SUBSET Slot,
             Values!Rebind(x, u, keep, S)
      PROVE  InTime
  BY <1>7, <1>u DEF Values!Rebind
<1>8. ASSUME NEW p \in Pre, NEW r \in Scope, NEW S \in SUBSET Values!Free(r), Values!MakePre(p, r, S) PROVE InTime
  BY <1>8, <1>u DEF Values!MakePre
<1>9. ASSUME NEW p \in Pre, NEW q \in Pre, Values!PreOps(p, q) PROVE InTime
  <2>1. CASE Values!PreTrigger(p)
    BY <2>1, PreWritesInTime
  <2>2. CASE Values!PreUnblock(p) \/ Values!PreMove(p, q)
    BY <2>2, <1>u DEF Values!PreUnblock, Values!PreMove
  <2> QED
    BY <1>9, <2>1, <2>2 DEF Values!PreOps
<1>10. ASSUME NEW x \in Values!Handle, NEW p \in Pre, Values!PreToEvent(x, p) PROVE InTime
  BY <1>10, <1>u DEF Values!PreToEvent, Values!Instantiate
<1>11. ASSUME NEW r \in Scope, Values!Join(r) \/ Values!Clear(r) \/ Values!Destroy(r) \/ Values!Leave(r) PROVE InTime
  BY <1>11, <1>u DEF Values!Join, Values!Clear, Values!Destroy, Values!Leave
<1> QED
  BY <1>1, <1>2, <1>3, <1>4, <1>5, <1>6, <1>7, <1>8, <1>9, <1>10, <1>11 DEF Values!Next

\* A result variable is written only through an event that was made for it and is still
\* active, and while the call goes on that the variable belongs to.  The program may
\* touch the operands of an operation while that calls a hook; it must neither use a
\* handle that was moved from (assignment leaves that with the results of the other
\* event) nor keep a preevent for longer than the call.
THEOREM ResultsWrittenInTime ==
  ASSUME Values!ResultAssumption, Misuse \subseteq {"operands"}
  PROVE  Values!Spec => ResultsInTime
<1>1. Values!Init => ResultsInv
  BY ResultsInitially
<1>2. ResultsInv /\ [Values!Next]_(Values!vars) => ResultsInv'
  BY ResultsKept
<1>3. ResultsInv /\ [Values!Next]_(Values!vars) =>
        [\A s \in Slot : value'[s] # value[s] => Values!Pending(bound[s]) /\ Home[s] \notin over]_(Values!vars)
  <2>1. "moved" \notin Misuse
    OBVIOUS
  <2> QED
    BY <2>1, StepInTime DEF InTime
<1> QED
  BY <1>1, <1>2, <1>3, PTL DEF Values!Spec, ResultsInTime, Values!ResultsInTime

(* Values!Results: who refers to an occurrence *)

\* Unfinished operations are of different occurrences and handles.
CallsApart ==
  \A i, j \in DOMAIN calls : i # j =>
    /\ calls[i].e # calls[j].e
    /\ {calls[i].x, calls[i].y} \cap {calls[j].x, calls[j].y} = {}

CallsOver == \A c \in Values!Ongoing : ev[c.e].made /\ ev[c.e].on = Nobody

\* What is ready is so once, on one list.
ReadyOnce ==
  /\ readyList \in [Scope -> Seq(Occ)]
  /\ \A r \in Scope : \A i \in DOMAIN readyList[r] :
       ev[readyList[r][i]].made /\ ev[readyList[r][i]].on = Nobody
  /\ \A r, q \in Scope : \A i \in DOMAIN readyList[r], j \in DOMAIN readyList[q] :
       readyList[r][i] = readyList[q][j] => r = q /\ i = j

ActiveMade == \A e \in Occ : ev[e].on # Nobody => ev[e].made

Dies(e) == \E c \in Values!Ongoing : c.e = e /\ c.dies

Numbered(e) == \E r \in Scope : Kind[r] = "ids" /\ Values!Listed(e, r)

\* What the counters of an occurrence say if those in H refer to it, if D says whether
\* an operation is going to delete it, and L whether it is listed with an identifier.
Exact(v, H, D, L) ==
  /\ v.refs = Cardinality(H)
  /\ v.deleted = IF v.made /\ H = {} /\ ~D THEN 1 ELSE 0
  /\ D => H = {}
  /\ v.ids = IF L THEN 1 ELSE 0

HandlesInv ==
  /\ CallsApart /\ CallsOver /\ ReadyOnce /\ ActiveMade
  /\ \A e \in Occ : Exact(ev[e], Values!Holders(e), Dies(e), Numbered(e))

LEMMA ValuesCounting ==
  \A S : /\ Values!IsFiniteSet(S) <=> IsFiniteSet(S)
         /\ Values!Cardinality(S) = Cardinality(S)
BY DEF Values!IsFiniteSet, Values!Cardinality, IsFiniteSet, Cardinality

\* Operations on the stack, as a set.
LEMMA OngoingApart ==
  ASSUME CallsApart, NEW c \in Values!Ongoing, NEW d \in Values!Ongoing, c # d
  PROVE  /\ c.e # d.e
         /\ c.x # d.x /\ c.x # d.y /\ c.y # d.x /\ c.y # d.y
<1>1. PICK i \in DOMAIN calls : c = calls[i]
  BY DEF Values!Ongoing
<1>2. PICK j \in DOMAIN calls : d = calls[j]
  BY DEF Values!Ongoing
<1>3. i # j
  BY <1>1, <1>2
<1>4. calls[i].e # calls[j].e /\ {calls[i].x, calls[i].y} \cap {calls[j].x, calls[j].y} = {}
  BY <1>3 DEF CallsApart
<1> QED
  BY <1>1, <1>2, <1>4

LEMMA OngoingPush ==
  ASSUME CallsTyped, CallsApart, NEW c \in Call, calls' = <<c>> \o calls,
         \A d \in Values!Ongoing : c.e # d.e /\ {c.x, c.y} \cap {d.x, d.y} = {}
  PROVE  CallsApart' /\ \A d : d \in Values!Ongoing' <=> d \in Values!Ongoing \/ d = c
<1>1. calls \in Seq(Call) /\ Len(calls) \in Nat /\ DOMAIN calls = 1 .. Len(calls)
  BY DEF CallsTyped
<1>2. /\ DOMAIN calls' = 1 .. Len(calls) + 1 /\ calls'[1] = c
      /\ \A i \in DOMAIN calls' : i # 1 => i - 1 \in DOMAIN calls /\ calls'[i] = calls[i - 1]
      /\ \A i \in DOMAIN calls : i + 1 \in DOMAIN calls' /\ calls'[i + 1] = calls[i]
  BY <1>1
<1>3. \A i \in DOMAIN calls' : i = 1 \/ (i - 1 \in DOMAIN calls /\ calls'[i] = calls[i - 1] /\ calls'[i] \in Values!Ongoing)
  BY <1>2 DEF Values!Ongoing
<1>4. CallsApart'
  <2> SUFFICES ASSUME NEW i \in DOMAIN calls', NEW j \in DOMAIN calls', i # j
               PROVE  /\ calls'[i].e # calls'[j].e
                      /\ {calls'[i].x, calls'[i].y} \cap {calls'[j].x, calls'[j].y} = {}
    BY DEF CallsApart
  <2>1. CASE i = 1
    <3>1. calls'[j] \in Values!Ongoing
      BY <2>1, <1>3
    <3> QED
      BY <3>1, <2>1, <1>2
  <2>2. CASE j = 1
    <3>1. calls'[i] \in Values!Ongoing
      BY <2>2, <1>3
    <3>2. c.e # calls'[i].e /\ {c.x, c.y} \cap {calls'[i].x, calls'[i].y} = {}
      BY <3>1
    <3> QED
      BY <3>2, <2>2, <1>2
  <2>3. CASE i # 1 /\ j # 1
    <3>1. i - 1 \in DOMAIN calls /\ j - 1 \in DOMAIN calls /\ i - 1 # j - 1
      BY <2>3, <1>2
    <3>2. /\ calls[i - 1].e # calls[j - 1].e
          /\ {calls[i - 1].x, calls[i - 1].y} \cap {calls[j - 1].x, calls[j - 1].y} = {}
      BY <3>1 DEF CallsApart
    <3> QED
      BY <3>2, <2>3, <1>2
  <2> QED
    BY <2>1, <2>2, <2>3
<1>5. 1 \in DOMAIN calls'
  BY <1>1, <1>2
<1>6. ASSUME NEW d \in Values!Ongoing' PROVE d \in Values!Ongoing \/ d = c
  <2>1. PICK i \in DOMAIN calls' : d = calls'[i]
    BY <1>6 DEF Values!Ongoing
  <2> QED
    BY <2>1, <1>2, <1>3
<1>7. ASSUME NEW d \in Values!Ongoing PROVE d \in Values!Ongoing'
  <2>1. PICK i \in DOMAIN calls : d = calls[i]
    BY <1>7 DEF Values!Ongoing
  <2>2. i + 1 \in DOMAIN calls' /\ calls'[i + 1] = d
    BY <2>1, <1>2
  <2> QED
    BY <2>2 DEF Values!Ongoing
<1>8. c \in Values!Ongoing'
  BY <1>2, <1>5 DEF Values!Ongoing
<1> QED
  BY <1>4, <1>6, <1>7, <1>8

LEMMA OngoingPop ==
  ASSUME CallsTyped, CallsApart, calls # <<>>, calls' = Tail(calls)
  PROVE  /\ CallsApart' /\ Head(calls) \in Values!Ongoing
         /\ \A d : d \in Values!Ongoing' <=> d \in Values!Ongoing /\ d # Head(calls)
<1>1. calls \in Seq(Call) /\ Len(calls) \in Nat \ {0} /\ DOMAIN calls = 1 .. Len(calls)
  BY DEF CallsTyped
<1>2. /\ Head(calls) = calls[1] /\ 1 \in DOMAIN calls
      /\ \A i \in DOMAIN calls' : i + 1 \in DOMAIN calls /\ calls'[i] = calls[i + 1] /\ i + 1 # 1
      /\ \A i \in DOMAIN calls : i # 1 => i - 1 \in DOMAIN calls' /\ calls'[i - 1] = calls[i]
      /\ DOMAIN calls' \subseteq Nat
  BY <1>1
<1>3. CallsApart'
  <2> SUFFICES ASSUME NEW i \in DOMAIN calls', NEW j \in DOMAIN calls', i # j
               PROVE  /\ calls'[i].e # calls'[j].e
                      /\ {calls'[i].x, calls'[i].y} \cap {calls'[j].x, calls'[j].y} = {}
    BY DEF CallsApart
  <2>1. i + 1 \in DOMAIN calls /\ j + 1 \in DOMAIN calls /\ i + 1 # j + 1
    BY <1>2
  <2>2. /\ calls[i + 1].e # calls[j + 1].e
        /\ {calls[i + 1].x, calls[i + 1].y} \cap {calls[j + 1].x, calls[j + 1].y} = {}
    BY <2>1 DEF CallsApart
  <2> QED
    BY <2>2, <1>2
<1>4. \A i \in DOMAIN calls : i # 1 => calls[i].e # calls[1].e
  BY <1>2 DEF CallsApart
<1>5. Head(calls) \in Values!Ongoing
  BY <1>2 DEF Values!Ongoing
<1>6. ASSUME NEW d \in Values!Ongoing' PROVE d \in Values!Ongoing /\ d # Head(calls)
  <2>1. PICK i \in DOMAIN calls' : d = calls'[i]
    BY <1>6 DEF Values!Ongoing
  <2>2. d = calls[i + 1] /\ i + 1 \in DOMAIN calls /\ i + 1 # 1
    BY <2>1, <1>2
  <2> QED
    BY <2>2, <1>2, <1>4 DEF Values!Ongoing
<1>7. ASSUME NEW d \in Values!Ongoing, d # Head(calls) PROVE d \in Values!Ongoing'
  <2>1. PICK i \in DOMAIN calls : d = calls[i]
    BY <1>7 DEF Values!Ongoing
  <2>2. i - 1 \in DOMAIN calls' /\ calls'[i - 1] = d
    BY <2>1, <1>7, <1>2
  <2> QED
    BY <2>2 DEF Values!Ongoing
<1> QED
  BY <1>3, <1>5, <1>6, <1>7

(* Who refers *)

Operand(x) == \E c \in Values!Ongoing : x \in {c.x, c.y}

LEMMA Usables == ASSUME "operands" \notin Misuse, NEW x, Values!Usable(x) PROVE ~Operand(x)
BY DEF Values!Usable, Operand

LEMMA FreeKnows ==
  ASSUME NEW x, ~Operand(x), NEW d
  PROVE  Values!Refers(x, d) <=> se[x] = d
BY DEF Operand, Values!Refers

LEMMA HoldersHas ==
  ASSUME Values!ResultAssumption, NEW d
  PROVE  /\ \A x \in Values!Handle : x \in Values!Holders(d) <=> Values!Refers(x, d)
         /\ \A r \in Scope : r \in Values!Holders(d) <=> Values!InList(r, d)
         /\ Values!Holders(d) \subseteq Values!Handle \cup Scope /\ Values!Handle \cap Scope = {}
         /\ IsFiniteSet(Values!Holders(d))
<1>1. Values!Handle \cap Scope = {} /\ IsFiniteSet(Values!Handle) /\ IsFiniteSet(Scope)
  BY ValuesCounting DEF Values!ResultAssumption
<1>2. IsFiniteSet(Values!Handle \cup Scope)
  BY <1>1, FS_Union
<1>3. Values!Holders(d) \subseteq Values!Handle \cup Scope
  BY DEF Values!Holders
<1>4. IsFiniteSet(Values!Holders(d))
  BY <1>2, <1>3, FS_Subset
<1> QED
  BY <1>1, <1>3, <1>4 DEF Values!Holders

LEMMA NextHoldersHas ==
  ASSUME Values!ResultAssumption, NEW d
  PROVE  /\ \A x \in Values!Handle : x \in Values!Holders(d)' <=> Values!Refers(x, d)'
         /\ \A r \in Scope : r \in Values!Holders(d)' <=> Values!InList(r, d)'
         /\ Values!Holders(d)' \subseteq Values!Handle \cup Scope
BY DEF Values!Holders, Values!ResultAssumption

(* A handle gives up what it knew, or takes what another knows *)

MovesTo(op, x, y) ==
  \A z \in Values!Handle : \A d \in Occ :
    Values!Refers(z, d)' <=> IF z = x THEN op = "assign" /\ se[y] = d ELSE Values!Refers(z, d)

LEMMA FinishMoves ==
  ASSUME Values!ResultAssumption, ResultsTyped, NEW op, NEW x \in Values!Handle, NEW y \in Values!Handle,
         ~Operand(x), Values!Finish(op, x, y), UNCHANGED calls
  PROVE  MovesTo(op, x, y)
<1>1. /\ \A c \in Values!Ongoing : c.x # x /\ c.y # x
      /\ \A c : c \in Values!Ongoing' <=> c \in Values!Ongoing
  BY DEF Operand, Values!Ongoing
<1>2. se'[x] = IF op = "assign" THEN se[y] ELSE Nobody
  BY DEF ResultsTyped, Values!Finish
<1>3. \A z : z # x => se'[z] = se[z]
  BY DEF ResultsTyped, Values!Finish
<1>4. Nobody \notin Occ
  BY NoneIsNothing
<1>5. ASSUME NEW d \in Occ PROVE Values!Refers(x, d)' <=> op = "assign" /\ se[y] = d
  BY <1>1, <1>2, <1>4 DEF Values!Refers
<1>6. ASSUME NEW z \in Values!Handle, z # x, NEW d \in Occ PROVE Values!Refers(z, d)' <=> Values!Refers(z, d)
  BY <1>1, <1>3, <1>6 DEF Values!Refers
<1> QED
  BY <1>5, <1>6 DEF MovesTo

LEMMA PushMoves ==
  ASSUME NEW op, NEW x \in Values!Handle, NEW y \in Values!Handle, ~Operand(x), UNCHANGED se,
         NEW c, c.op = op, c.x = x, c.y = y, \A b : b \in Values!Ongoing' <=> b \in Values!Ongoing \/ b = c
  PROVE  MovesTo(op, x, y)
<1>1. \A b \in Values!Ongoing : b.x # x
  BY DEF Operand
<1>5. ASSUME NEW d \in Occ PROVE Values!Refers(x, d)' <=> op = "assign" /\ se[y] = d
  BY <1>1 DEF Values!Refers
<1>6. ASSUME NEW z \in Values!Handle, z # x, NEW d \in Occ PROVE Values!Refers(z, d)' <=> Values!Refers(z, d)
  BY <1>1, <1>6 DEF Values!Refers
<1> QED
  BY <1>5, <1>6 DEF MovesTo

\* Who refers to d then, apart from lists.
Moved(op, x, y, d) == (Values!Holders(d) \ {x}) \cup {z \in {x} : op = "assign" /\ se[y] = d}

\* The lists that name d then, and did not before.
Joins(d, Q) == \A r \in Scope : Values!InList(r, d)' <=> Values!InList(r, d) \/ r \in Q

Passes(op, x, y, d, Q) ==
  /\ x \in Values!Handle /\ y \in Values!Handle /\ d \in Occ /\ Q \subseteq Scope
  /\ MovesTo(op, x, y) /\ Joins(d, Q)

LEMMA MovedHolders ==
  ASSUME Values!ResultAssumption, NEW op, NEW x, NEW y, NEW d, NEW Q, Passes(op, x, y, d, Q)
  PROVE  Values!Holders(d)' = Moved(op, x, y, d) \cup Q
<1>0. /\ x \in Values!Handle /\ y \in Values!Handle /\ d \in Occ /\ Q \subseteq Scope
      /\ MovesTo(op, x, y) /\ Joins(d, Q)
  BY DEF Passes
<1>1. ASSUME NEW z \in Values!Handle PROVE z \in Values!Holders(d)' <=> z \in Moved(op, x, y, d)
  <2>1. Values!Refers(z, d)' <=> IF z = x THEN op = "assign" /\ se[y] = d ELSE Values!Refers(z, d)
    BY <1>0 DEF MovesTo
  <2>2. (z \in Values!Holders(d)' <=> Values!Refers(z, d)') /\ (z \in Values!Holders(d) <=> Values!Refers(z, d))
    BY HoldersHas, NextHoldersHas
  <2>3. z \in Moved(op, x, y, d) <=> IF z = x THEN op = "assign" /\ se[y] = d ELSE z \in Values!Holders(d)
    BY DEF Moved
  <2> QED
    BY <2>1, <2>2, <2>3
<1>2. ASSUME NEW r \in Scope PROVE r \in Values!Holders(d)' <=> r \in Moved(op, x, y, d) \/ r \in Q
  <2>1. (r \in Values!Holders(d)' <=> Values!InList(r, d)') /\ (r \in Values!Holders(d) <=> Values!InList(r, d)) /\ r # x
    BY <1>0, HoldersHas, NextHoldersHas DEF Values!ResultAssumption
  <2>2. Values!InList(r, d)' <=> Values!InList(r, d) \/ r \in Q
    BY <1>0 DEF Joins
  <2> QED
    BY <2>1, <2>2 DEF Moved
<1>3. Values!Holders(d)' \subseteq Values!Handle \cup Scope /\ Moved(op, x, y, d) \subseteq Values!Handle \cup Scope
  BY <1>0, HoldersHas, NextHoldersHas DEF Moved
<1>4. Values!Handle \cap Scope = {}
  BY DEF Values!ResultAssumption
<1> QED
  BY <1>0, <1>1, <1>2, <1>3, <1>4

LEMMA MovedOnly ==
  ASSUME Values!ResultAssumption, NEW op, NEW x, NEW y, NEW d, Passes(op, x, y, d, {})
  PROVE  Values!Holders(d)' = Moved(op, x, y, d)
<1>1. Values!Holders(d)' = Moved(op, x, y, d) \cup {}
  BY MovedHolders
<1> QED
  BY <1>1

\* Where x did not know d before.
LEMMA MovedElsewhere ==
  ASSUME Values!ResultAssumption, NEW op, NEW x \in Values!Handle, NEW y \in Values!Handle, ~Operand(x), ~Operand(y),
         NEW d \in Occ, se[x] # d
  PROVE  /\ x \notin Values!Holders(d)
         /\ Moved(op, x, y, d) = IF op = "assign" /\ se[y] = d THEN Values!Holders(d) \cup {x} ELSE Values!Holders(d)
         /\ op = "assign" /\ se[y] = d => y \in Values!Holders(d)
         /\ Moved(op, x, y, d) = {} <=> Values!Holders(d) = {}
<1>1. x \notin Values!Holders(d)
  BY FreeKnows, HoldersHas
<1>2. se[y] = d => y \in Values!Holders(d)
  BY FreeKnows, HoldersHas
<1>3. Moved(op, x, y, d) = IF op = "assign" /\ se[y] = d THEN Values!Holders(d) \cup {x} ELSE Values!Holders(d)
  BY <1>1 DEF Moved
<1> QED
  BY <1>1, <1>2, <1>3

\* f differs from ev in reference counts only.
Kept(f) ==
  \A d \in Occ : /\ f[d].on = ev[d].on /\ f[d].made = ev[d].made /\ f[d].hook = ev[d].hook
                 /\ f[d].deleted = ev[d].deleted /\ f[d].ids = ev[d].ids

LEMMA SameNumbered ==
  ASSUME NEW d \in Occ, ev'[d].on = ev[d].on, UNCHANGED readyList
  PROVE  Numbered(d)' <=> Numbered(d)
BY DEF Numbered, Values!Listed, Values!InList

LEMMA SameDies ==
  ASSUME NEW d, UNCHANGED calls
  PROVE  Dies(d)' <=> Dies(d)
BY DEF Dies, Values!Ongoing

LEMMA SameLists ==
  ASSUME HandlesInv, \A d \in Occ : ev[d].made => ev'[d].made,
         \A d \in Occ : ev'[d].on = ev[d].on \/ ev'[d].on = Nobody,
         UNCHANGED readyList
  PROVE  ReadyOnce' /\ ActiveMade'
<1>1. ReadyOnce /\ ActiveMade
  BY DEF HandlesInv
<1>2. ActiveMade'
  BY <1>1 DEF ActiveMade
<1>3. \A r \in Scope : \A i \in DOMAIN readyList[r] : readyList[r][i] \in Occ
  BY <1>1 DEF ReadyOnce
<1>4. \A r \in Scope : \A i \in DOMAIN readyList[r] :
        ev'[readyList[r][i]].made /\ ev'[readyList[r][i]].on = Nobody
  BY <1>1, <1>3 DEF ReadyOnce
<1> QED
  BY <1>1, <1>2, <1>4 DEF ReadyOnce

LEMMA SameCalls ==
  ASSUME HandlesInv, CallsTyped, \A d \in Occ : ev[d].made => ev'[d].made,
         \A d \in Occ : ev'[d].on = ev[d].on \/ ev'[d].on = Nobody,
         UNCHANGED calls
  PROVE  CallsApart' /\ CallsOver'
<1>1. CallsApart /\ CallsOver
  BY DEF HandlesInv
<1>2. CallsApart'
  BY <1>1 DEF CallsApart
<1>3. ASSUME NEW c \in Values!Ongoing PROVE c.e \in Occ
  <2>1. PICK i \in DOMAIN calls : c = calls[i]
    BY DEF Values!Ongoing
  <2>2. calls[i] \in Call
    BY DEF CallsTyped
  <2> QED
    BY <2>1, <2>2 DEF Call
<1>4. CallsOver'
  BY <1>1, <1>3 DEF CallsOver, Values!Ongoing
<1> QED
  BY <1>2, <1>4

LEMMA FinishCounts ==
  ASSUME Values!ResultAssumption, ResultsTyped, HandlesInv, NEW op, NEW x \in Values!Handle, NEW y \in Values!Handle,
         ~Operand(x), ~Operand(y), Values!Finish(op, x, y), UNCHANGED <<calls, readyList>>,
         Kept(ev'), \A d \in Occ : ev'[d].refs = Cardinality(Moved(op, x, y, d)),
         se[x] \in Occ => ev'[se[x]].refs # 0
  PROVE  HandlesInv'
<1>m. MovesTo(op, x, y)
  BY FinishMoves
<1>k. \A d \in Occ : /\ ev'[d].on = ev[d].on /\ ev'[d].made = ev[d].made
                     /\ ev'[d].deleted = ev[d].deleted /\ ev'[d].ids = ev[d].ids
  BY DEF Kept
<1>1. ReadyOnce' /\ ActiveMade'
  BY <1>k, SameLists
<1>2. CallsApart' /\ CallsOver'
  BY <1>k, SameCalls DEF ResultsTyped
<1>3. ASSUME NEW d \in Occ
      PROVE  Exact(ev'[d], Values!Holders(d)', Dies(d)', Numbered(d)')
  <2>1. Exact(ev[d], Values!Holders(d), Dies(d), Numbered(d))
    BY DEF HandlesInv
  <2>2. Joins(d, {})
    BY DEF Values!InList, Joins
  <2>3. Values!Holders(d)' = Moved(op, x, y, d)
    BY <1>m, <2>2, MovedOnly DEF Passes
  <2>4. (Numbered(d)' <=> Numbered(d)) /\ (Dies(d)' <=> Dies(d))
    BY <1>k, SameNumbered, SameDies
  <2>5. Moved(op, x, y, d) = {} <=> Values!Holders(d) = {}
    <3>1. CASE se[x] = d
      <4>1. x \in Values!Holders(d)
        BY <3>1, FreeKnows, HoldersHas
      <4>2. ev'[d].refs # 0 /\ ev'[d].refs = Cardinality(Moved(op, x, y, d))
        BY <3>1
      <4>3. Moved(op, x, y, d) # {}
        BY <4>2, FS_EmptySet
      <4> QED
        BY <4>1, <4>3
    <3>2. CASE se[x] # d
      BY <3>2, MovedElsewhere
    <3> QED
      BY <3>1, <3>2
  <2> QED
    BY <2>1, <2>3, <2>4, <2>5, <1>k DEF Exact
<1> QED
  BY <1>1, <1>2, <1>3 DEF HandlesInv

(* Triggering *)

LEMMA Appended ==
  ASSUME NEW q \in Seq(Occ), NEW e \in Occ
  PROVE  /\ Append(q, e) \in Seq(Occ)
         /\ DOMAIN q = 1 .. Len(q) /\ Len(q) \in Nat /\ Len(q) + 1 \notin DOMAIN q
         /\ DOMAIN Append(q, e) = DOMAIN q \cup {Len(q) + 1}
         /\ \A i \in DOMAIN q : Append(q, e)[i] = q[i]
         /\ Append(q, e)[Len(q) + 1] = e
OBVIOUS

\* What the list of its rendezvous takes in, if that keeps one.
Keeper(r) == IF r # Nobody /\ Kind[r] # "gather" THEN {r} ELSE {}

\* An occurrence becomes empty, and ready if its rendezvous keeps a list.
Triggered(e, r) ==
  /\ ev[e].made /\ ev[e].on = r /\ r \in Scope \cup {Nobody}
  /\ readyList' = IF r # Nobody /\ Kind[r] # "gather"
                  THEN [readyList EXCEPT ![r] = Append(@, e)] ELSE readyList
  /\ \A d \in Occ : ev[d].made => ev'[d].made
  /\ \A d \in Occ : ev'[d].on = IF d = e THEN Nobody ELSE ev[d].on

LEMMA ActiveUnlisted ==
  ASSUME ReadyOnce, NEW e \in Occ, ev[e].on # Nobody
  PROVE  \A r \in Scope : ~Values!InList(r, e)
BY DEF ReadyOnce, Values!InList

LEMMA TriggerLists ==
  ASSUME Values!ResultAssumption, HandlesInv, NEW e \in Occ, NEW r, Triggered(e, r)
  PROVE  /\ ReadyOnce' /\ ActiveMade'
         /\ \A d \in Occ : d # e => Joins(d, {})
         /\ Joins(e, Keeper(r))
         /\ \A d \in Occ : Numbered(d)' <=> Numbered(d)
<1>0. ReadyOnce /\ ActiveMade /\ Nobody \notin Scope
  BY NoneIsNothing DEF HandlesInv
<1>m. /\ ev[e].made /\ ev[e].on = r /\ r \in Scope \cup {Nobody}
      /\ \A d \in Occ : ev[d].made => ev'[d].made
      /\ \A d \in Occ : ev'[d].on = IF d = e THEN Nobody ELSE ev[d].on
  BY DEF Triggered
<1>a. ActiveMade'
  BY <1>0, <1>m DEF ActiveMade
<1>1. CASE ~(r # Nobody /\ Kind[r] # "gather")
  <2>1. readyList' = readyList /\ Keeper(r) = {}
    BY <1>1 DEF Triggered, Keeper
  <2>2. \A d \in Occ : ev'[d].on = ev[d].on \/ ev'[d].on = Nobody
    BY <1>m
  <2>3. ReadyOnce'
    BY <1>m, <2>1, <2>2, SameLists
  <2>4. \A d \in Occ : Joins(d, {})
    BY <2>1 DEF Joins, Values!InList
  <2>5. ASSUME NEW d \in Occ PROVE Numbered(d)' <=> Numbered(d)
    <3>1. \A q \in Scope : Values!InList(q, d)' <=> Values!InList(q, d)
      BY <2>1 DEF Values!InList
    <3>2. \A q \in Scope : Kind[q] = "ids" => (ev'[d].on = q <=> ev[d].on = q)
      BY <1>0, <1>1, <1>m
    <3> QED
      BY <3>1, <3>2 DEF Numbered, Values!Listed
  <2> QED
    BY <1>a, <2>1, <2>3, <2>4, <2>5
<1>2. CASE r # Nobody /\ Kind[r] # "gather"
  <2> PICK q : q = readyList[r]
    OBVIOUS
  <2>0. r \in Scope /\ q \in Seq(Occ)
    BY <1>2, <1>m, <1>0 DEF ReadyOnce
  <2>1. /\ readyList' \in [Scope -> Seq(Occ)]
        /\ readyList'[r] = Append(q, e)
        /\ \A p \in Scope : p # r => readyList'[p] = readyList[p]
    BY <1>0, <1>2, <2>0, Appended DEF Triggered, ReadyOnce
  <2>2. \A p \in Scope : ~Values!InList(p, e)
    BY <1>0, <1>m, <1>2, ActiveUnlisted
  <2>3. \A i \in DOMAIN readyList'[r] :
          \/ i = Len(q) + 1 /\ readyList'[r][i] = e
          \/ i \in DOMAIN q /\ readyList'[r][i] = q[i] /\ q[i] # e
    BY <2>0, <2>1, <2>2, Appended DEF Values!InList
  <2>4. \A i \in DOMAIN q : i \in DOMAIN readyList'[r] /\ readyList'[r][i] = q[i]
    BY <2>0, <2>1, Appended
  <2>5. Len(q) + 1 \in DOMAIN readyList'[r] /\ readyList'[r][Len(q) + 1] = e
    BY <2>0, <2>1, Appended
  <2>6. ASSUME NEW d \in Occ, NEW p \in Scope
        PROVE  Values!InList(p, d)' <=> Values!InList(p, d) \/ (d = e /\ p = r)
    <3>1. CASE p # r
      BY <3>1, <2>1 DEF Values!InList
    <3>2. CASE p = r
      BY <3>2, <2>3, <2>4, <2>5 DEF Values!InList
    <3> QED
      BY <3>1, <3>2
  <2>7. ReadyOnce'
    <3>1. ASSUME NEW p \in Scope, NEW i \in DOMAIN readyList'[p]
          PROVE  /\ ev'[readyList'[p][i]].made /\ ev'[readyList'[p][i]].on = Nobody
                 /\ \/ i \in DOMAIN readyList[p] /\ readyList'[p][i] = readyList[p][i] /\ readyList[p][i] # e
                    \/ p = r /\ i = Len(q) + 1 /\ readyList'[p][i] = e
      <4>1. \/ i \in DOMAIN readyList[p] /\ readyList'[p][i] = readyList[p][i] /\ readyList[p][i] # e
            \/ p = r /\ i = Len(q) + 1 /\ readyList'[p][i] = e
        BY <2>1, <2>2, <2>3 DEF Values!InList
      <4>2. ASSUME i \in DOMAIN readyList[p]
            PROVE  readyList[p][i] \in Occ /\ ev[readyList[p][i]].made /\ ev[readyList[p][i]].on = Nobody
        BY <4>2, <1>0 DEF ReadyOnce
      <4> QED
        BY <4>1, <4>2, <1>m
    <3>2. ASSUME NEW p \in Scope, NEW s \in Scope, NEW i \in DOMAIN readyList'[p], NEW j \in DOMAIN readyList'[s],
                 readyList'[p][i] = readyList'[s][j]
          PROVE  p = s /\ i = j
      <4>1. \/ i \in DOMAIN readyList[p] /\ readyList'[p][i] = readyList[p][i] /\ readyList[p][i] # e
            \/ p = r /\ i = Len(q) + 1 /\ readyList'[p][i] = e
        BY <3>1
      <4>2. \/ j \in DOMAIN readyList[s] /\ readyList'[s][j] = readyList[s][j] /\ readyList[s][j] # e
            \/ s = r /\ j = Len(q) + 1 /\ readyList'[s][j] = e
        BY <3>1
      <4>3. i \in DOMAIN readyList[p] /\ j \in DOMAIN readyList[s] /\ readyList[p][i] = readyList[s][j] => p = s /\ i = j
        BY <1>0 DEF ReadyOnce
      <4> QED
        BY <3>2, <4>1, <4>2, <4>3
    <3> QED
      BY <2>1, <3>1, <3>2 DEF ReadyOnce
  <2>8. ASSUME NEW d \in Occ PROVE Numbered(d)' <=> Numbered(d)
    <3>1. CASE d = e
      <4>1. \A p \in Scope : Values!Listed(d, p)' <=> Values!Listed(d, p)
        BY <3>1, <1>0, <1>m, <2>2, <2>6 DEF Values!Listed
      <4> QED
        BY <4>1 DEF Numbered
    <3>2. CASE d # e
      <4>1. \A p \in Scope : Values!Listed(d, p)' <=> Values!Listed(d, p)
        BY <3>2, <1>m, <2>6 DEF Values!Listed
      <4> QED
        BY <4>1 DEF Numbered
    <3> QED
      BY <3>1, <3>2
  <2>9. Joins(e, Keeper(r)) /\ \A d \in Occ : d # e => Joins(d, {})
    BY <2>6, <1>2 DEF Joins, Keeper
  <2> QED
    BY <1>a, <2>7, <2>8, <2>9
<1> QED
  BY <1>1, <1>2

\* f has the references that will be left, apart from what a trigger does at e.
Repaid(f, op, x, y, e) ==
  /\ f \in [Occ -> Rec] /\ Kept(f)
  /\ \A d \in Occ : d # e => f[d].refs = Cardinality(Moved(op, x, y, d))
  /\ Cardinality(Moved(op, x, y, e)) = IF f[e].refs > 0 THEN f[e].refs - 1 ELSE 0

LEMMA UnlinkedFacts ==
  ASSUME NEW f \in [Occ -> Rec], NEW e \in Occ
  PROVE  /\ \A d \in Occ : d # e => Values!Unlinked(f, e)[d] = f[d]
         /\ Values!Unlinked(f, e)[e].on = Nobody /\ Values!Unlinked(f, e)[e].made = f[e].made
         /\ Values!Unlinked(f, e)[e].deleted = f[e].deleted /\ Values!Unlinked(f, e)[e].ids = f[e].ids
         /\ Values!Unlinked(f, e)[e].refs = (IF f[e].refs > 0 THEN f[e].refs - 1 ELSE 0)
              + (IF f[e].on # Nobody /\ Kind[f[e].on] # "gather" THEN 1 ELSE 0)
         /\ Values!Unlinked(f, e) \in [Occ -> Rec]
<1>1. /\ \A d \in Occ : d # e => Values!Unlinked(f, e)[d] = f[d]
      /\ Values!Unlinked(f, e)[e].on = Nobody /\ Values!Unlinked(f, e)[e].made = f[e].made
      /\ Values!Unlinked(f, e)[e].deleted = f[e].deleted /\ Values!Unlinked(f, e)[e].ids = f[e].ids
      /\ Values!Unlinked(f, e)[e].refs = (IF f[e].refs > 0 THEN f[e].refs - 1 ELSE 0)
              + (IF f[e].on # Nobody /\ Kind[f[e].on] # "gather" THEN 1 ELSE 0)
  BY DEF Values!Unlinked, Rec
<1>2. Values!Unlinked(f, e) \in [Occ -> Rec]
  BY QuietParts DEF Quiet
<1> QED
  BY <1>1, <1>2

LEMMA Deleted ==
  ASSUME NEW g \in [Occ -> Rec], NEW e \in Occ
  PROVE  /\ \A d \in Occ : d # e => Values!Reap(g, e)[d] = g[d]
         /\ Values!Reap(g, e)[e].on = g[e].on /\ Values!Reap(g, e)[e].made = g[e].made
         /\ Values!Reap(g, e)[e].refs = g[e].refs /\ Values!Reap(g, e)[e].ids = g[e].ids
         /\ Values!Reap(g, e)[e].deleted = IF g[e].refs = 0 THEN g[e].deleted + 1 ELSE g[e].deleted
<1>1. CASE g[e].refs = 0
  <2>1. Values!Reap(g, e) = [g EXCEPT ![e].deleted = @ + 1]
    BY <1>1 DEF Values!Reap
  <2> QED
    BY <1>1, <2>1 DEF Rec
<1>2. CASE g[e].refs # 0
  BY <1>2 DEF Values!Reap
<1> QED
  BY <1>1, <1>2

LEMMA OngoingTyped ==
  ASSUME CallsTyped
  PROVE  \A c \in Values!Ongoing : c \in Call /\ c.e \in Occ /\ c.x \in Values!Handle /\ c.y \in Values!Handle
<1> TAKE c \in Values!Ongoing
<1>1. PICK i \in DOMAIN calls : c = calls[i]
  BY DEF Values!Ongoing
<1>2. c \in Call
  BY <1>1 DEF CallsTyped
<1> QED
  BY <1>2 DEF Call

\* What a trigger at e leaves if it calls a hook, or does not; g is what it wrote.
Outcome(g, op, x, y, e, calling) ==
  /\ MovesTo(op, x, y) /\ CallsApart' /\ CallsOver'
  /\ \A d \in Occ : d # e => ev'[d] = g[d]
  /\ ev'[e].on = Nobody /\ ev'[e].made /\ ev'[e].refs = g[e].refs /\ ev'[e].ids = g[e].ids
  /\ ev'[e].deleted = IF g[e].refs = 0 /\ ~calling THEN 1 ELSE 0
  /\ \A d \in Occ : Dies(d)' <=> Dies(d) \/ (d = e /\ g[e].refs = 0 /\ calling)

LEMMA TriggerCounts ==
  ASSUME Values!ResultAssumption, ResultsInv, HandlesInv,
         NEW op \in {"assign", "drop", "trigger"}, NEW x \in Values!Handle, NEW y \in Values!Handle,
         ~Operand(x), ~Operand(y), NEW e \in Occ, se[x] = e,
         NEW f, Repaid(f, op, x, y, e), Values!SimpleTrigger(f, e, op, x, y)
  PROVE  HandlesInv'
<1> PICK r : r = ev[e].on
  OBVIOUS
<1> PICK g : g = Values!Unlinked(f, e)
  OBVIOUS
<1>t. ResultsTyped /\ CallsTyped /\ Nobody \notin Scope
  BY NoneIsNothing DEF ResultsInv, ResultsTyped
<1>0. /\ r \in Scope \cup {Nobody} /\ f[e].on = r /\ ev[e].made
      /\ f \in [Occ -> Rec] /\ g \in [Occ -> Rec]
  <2>1. f \in [Occ -> Rec] /\ g \in [Occ -> Rec] /\ f[e].on = r
    BY UnlinkedFacts DEF Repaid, Kept
  <2>2. ev[e] \in Rec
    BY <1>t DEF ResultsTyped
  <2>3. e # Nobody
    BY NoneIsNothing
  <2>4. ev[e].made
    BY <2>3 DEF ResultsInv, KnownMade
  <2> QED
    BY <2>1, <2>2, <2>4 DEF Rec
<1>1. x \in Values!Holders(e) /\ Values!Holders(e) # {} /\ ~Dies(e) /\ ev[e].deleted = 0
  <2>1. x \in Values!Holders(e)
    BY FreeKnows, HoldersHas
  <2>2. Exact(ev[e], Values!Holders(e), Dies(e), Numbered(e))
    BY DEF HandlesInv
  <2> QED
    BY <2>1, <2>2 DEF Exact
<1>g. /\ \A d \in Occ : d # e => g[d] = f[d]
      /\ g[e].on = Nobody /\ g[e].made /\ g[e].deleted = 0 /\ g[e].ids = ev[e].ids
      /\ g[e].refs = Cardinality(Moved(op, x, y, e)) + (IF r # Nobody /\ Kind[r] # "gather" THEN 1 ELSE 0)
  BY <1>0, <1>1, UnlinkedFacts DEF Repaid, Kept
<1>f. \A d \in Occ : d # e =>
        /\ g[d].on = ev[d].on /\ g[d].made = ev[d].made /\ g[d].deleted = ev[d].deleted
        /\ g[d].ids = ev[d].ids /\ g[d].refs = Cardinality(Moved(op, x, y, d))
  BY <1>g DEF Repaid, Kept
<1> PICK c : c = [op |-> op, x |-> x, y |-> y, e |-> e, dies |-> g[e].refs = 0]
  OBVIOUS
<1>c. /\ c \in Call /\ c.op = op /\ c.x = x /\ c.y = y /\ c.e = e
      /\ c.dies <=> g[e].refs = 0
  BY DEF Call
<1>2. ASSUME r # Nobody /\ f[e].hook PROVE Outcome(g, op, x, y, e, TRUE)
  <2>1. ev' = g /\ calls' = <<c>> \o calls /\ UNCHANGED se
    BY <1>0, <1>2 DEF Values!SimpleTrigger
  <2>2. \A b \in Values!Ongoing : c.e # b.e /\ {c.x, c.y} \cap {b.x, b.y} = {}
    BY <1>2, <1>c DEF HandlesInv, CallsOver, Operand
  <2>3. CallsApart' /\ \A b : b \in Values!Ongoing' <=> b \in Values!Ongoing \/ b = c
    BY <1>c, <1>t, <2>1, <2>2, OngoingPush DEF HandlesInv
  <2>4. MovesTo(op, x, y)
    BY <1>c, <2>1, <2>3, PushMoves
  <2>5. CallsOver'
    <3>1. ASSUME NEW b \in Values!Ongoing PROVE ev'[b.e].made /\ ev'[b.e].on = Nobody
      <4>1. b.e \in Occ /\ b.e # e
        BY <1>c, <1>t, <2>2, OngoingTyped
      <4>2. ev[b.e].made /\ ev[b.e].on = Nobody
        BY DEF HandlesInv, CallsOver
      <4> QED
        BY <4>1, <4>2, <1>f, <2>1
    <3>2. ev'[c.e].made /\ ev'[c.e].on = Nobody
      BY <1>c, <1>g, <2>1
    <3> QED
      BY <2>3, <3>1, <3>2 DEF CallsOver
  <2>6. \A d \in Occ : Dies(d)' <=> Dies(d) \/ (d = e /\ g[e].refs = 0)
    BY <1>c, <2>3 DEF Dies
  <2> QED
    <3>1. \A d \in Occ : Dies(d)' <=> Dies(d) \/ (d = e /\ g[e].refs = 0 /\ TRUE)
      BY <2>6
    <3>2. ev'[e].deleted = IF g[e].refs = 0 /\ ~TRUE THEN 1 ELSE 0
      BY <1>g, <2>1
    <3>3. /\ \A d \in Occ : d # e => ev'[d] = g[d]
          /\ ev'[e].on = Nobody /\ ev'[e].made /\ ev'[e].refs = g[e].refs /\ ev'[e].ids = g[e].ids
      BY <1>g, <2>1
    <3> QED
      BY <2>3, <2>4, <2>5, <3>1, <3>2, <3>3 DEF Outcome
<1>3. ASSUME ~(r # Nobody /\ f[e].hook) PROVE Outcome(g, op, x, y, e, FALSE)
  <2>1. ev' = Values!Reap(g, e) /\ Values!Finish(op, x, y) /\ calls' = calls
    BY <1>0, <1>3 DEF Values!SimpleTrigger
  <2>2. MovesTo(op, x, y)
    BY <1>t, <2>1, FinishMoves
  <2>3. /\ \A d \in Occ : d # e => ev'[d] = g[d]
        /\ ev'[e].on = Nobody /\ ev'[e].made /\ ev'[e].refs = g[e].refs /\ ev'[e].ids = g[e].ids
        /\ ev'[e].deleted = IF g[e].refs = 0 THEN 1 ELSE 0
    BY <1>0, <1>g, <2>1, Deleted
  <2>4. \A d \in Occ : (ev[d].made => ev'[d].made) /\ (ev'[d].on = ev[d].on \/ ev'[d].on = Nobody)
    BY <1>0, <1>f, <2>3
  <2>5. CallsApart' /\ CallsOver'
    BY <1>t, <2>1, <2>4, SameCalls
  <2>6. \A d \in Occ : Dies(d)' <=> Dies(d)
    BY <2>1, SameDies
  <2> QED
    <3>1. \A d \in Occ : Dies(d)' <=> Dies(d) \/ (d = e /\ g[e].refs = 0 /\ FALSE)
      BY <2>6
    <3>2. ev'[e].deleted = IF g[e].refs = 0 /\ ~FALSE THEN 1 ELSE 0
      BY <2>3
    <3> QED
      BY <2>2, <2>3, <2>5, <3>1, <3>2 DEF Outcome
<1>4. PICK calling \in BOOLEAN : Outcome(g, op, x, y, e, calling)
  BY <1>2, <1>3
<1>5. Triggered(e, r)
  <2>1. readyList' = IF r # Nobody /\ Kind[r] # "gather"
                  THEN [readyList EXCEPT ![r] = Append(@, e)] ELSE readyList
    BY <1>0 DEF Values!SimpleTrigger
  <2>2. \A d \in Occ : (ev[d].made => ev'[d].made) /\ ev'[d].on = IF d = e THEN Nobody ELSE ev[d].on
    BY <1>0, <1>f, <1>4 DEF Outcome
  <2> QED
    BY <1>0, <2>1, <2>2 DEF Triggered
<1>6. /\ ReadyOnce' /\ ActiveMade'
      /\ \A d \in Occ : d # e => Joins(d, {})
      /\ Joins(e, Keeper(r))
      /\ \A d \in Occ : Numbered(d)' <=> Numbered(d)
  BY <1>5, TriggerLists
<1>m. MovesTo(op, x, y) /\ CallsApart' /\ CallsOver'
  BY <1>4 DEF Outcome
<1>7. ASSUME NEW d \in Occ, d # e
      PROVE  Exact(ev'[d], Values!Holders(d)', Dies(d)', Numbered(d)')
  <2>1. Exact(ev[d], Values!Holders(d), Dies(d), Numbered(d))
    BY DEF HandlesInv
  <2>2. Values!Holders(d)' = Moved(op, x, y, d)
    <3>0. Joins(d, {})
      BY <1>6, <1>7
    <3> QED
      BY <1>m, <3>0, MovedOnly DEF Passes
  <2>3. Moved(op, x, y, d) = {} <=> Values!Holders(d) = {}
    BY <1>7, MovedElsewhere
  <2>4. Dies(d)' <=> Dies(d)
    BY <1>4, <1>7 DEF Outcome
  <2>5. ev'[d] = g[d]
    BY <1>4, <1>7 DEF Outcome
  <2> QED
    BY <2>1, <2>2, <2>3, <2>4, <2>5, <1>6, <1>7, <1>f DEF Exact
<1>8. Exact(ev'[e], Values!Holders(e)', Dies(e)', Numbered(e)')
  <2>1. Exact(ev[e], Values!Holders(e), Dies(e), Numbered(e))
    BY DEF HandlesInv
  <2>2. Keeper(r) \subseteq Scope
    BY <1>0 DEF Keeper
  <2>3. Values!Holders(e)' = Moved(op, x, y, e) \cup Keeper(r)
    BY <1>m, <1>6, <2>2, MovedHolders DEF Passes
  <2>4. IsFiniteSet(Moved(op, x, y, e))
    <3>1. IsFiniteSet(Values!Holders(e) \cup {x})
      BY HoldersHas, FS_AddElement
    <3>2. Moved(op, x, y, e) \subseteq Values!Holders(e) \cup {x}
      BY DEF Moved
    <3> QED
      BY <3>1, <3>2, FS_Subset
  <2>5. Cardinality(Values!Holders(e)') = g[e].refs /\ IsFiniteSet(Values!Holders(e)')
    <3>1. CASE r # Nobody /\ Kind[r] # "gather"
      <4>1. r \in Scope /\ Keeper(r) = {r}
        BY <3>1, <1>0 DEF Keeper
      <4>2. r \notin Values!Holders(e) /\ r # x
        BY <3>1, <4>1, ActiveUnlisted, HoldersHas DEF HandlesInv
      <4>3. r \notin Moved(op, x, y, e)
        BY <4>2 DEF Moved
      <4> QED
        BY <2>3, <2>4, <3>1, <4>1, <4>3, <1>g, Plus
    <3>2. CASE ~(r # Nobody /\ Kind[r] # "gather")
      <4>1. Values!Holders(e)' = Moved(op, x, y, e)
        BY <2>3, <3>2 DEF Keeper
      <4>2. Cardinality(Moved(op, x, y, e)) \in Nat
        BY <2>4, Zero
      <4> QED
        BY <2>4, <3>2, <4>1, <4>2, <1>g
    <3> QED
      BY <3>1, <3>2
  <2>6. g[e].refs = 0 <=> Values!Holders(e)' = {}
    BY <2>5, Zero
  <2>7. /\ ev'[e].refs = g[e].refs /\ ev'[e].made /\ ev'[e].ids = ev[e].ids
        /\ ev'[e].deleted = IF g[e].refs = 0 /\ ~calling THEN 1 ELSE 0
        /\ Dies(e)' <=> g[e].refs = 0 /\ calling
    BY <1>1, <1>4, <1>g DEF Outcome
  <2> QED
    BY <2>1, <2>5, <2>6, <2>7, <1>6 DEF Exact
<1> QED
  BY <1>6, <1>m, <1>7, <1>8 DEF HandlesInv

(* Giving a reference back *)

\* f still has the reference of x, and has those that will be there otherwise.
Lent(f, op, x, y) ==
  /\ f \in [Occ -> Rec] /\ Kept(f)
  /\ \A d \in Occ : f[d].refs = Cardinality(Moved(op, x, y, d)) + (IF d = se[x] THEN 1 ELSE 0)

LEMMA UnuseCounts ==
  ASSUME Values!ResultAssumption, ResultsInv, HandlesInv,
         NEW op \in {"assign", "drop", "trigger"}, NEW x \in Values!Handle, NEW y \in Values!Handle,
         ~Operand(x), ~Operand(y), NEW f, Lent(f, op, x, y), Values!Unuse(f, se[x], op, x, y)
  PROVE  HandlesInv'
<1> PICK e : e = se[x]
  OBVIOUS
<1>t. ResultsTyped /\ e \in Occ \cup {Nobody} /\ Nobody \notin Occ
  BY NoneIsNothing DEF ResultsInv, ResultsTyped
<1>f. /\ f \in [Occ -> Rec] /\ Kept(f)
      /\ \A d \in Occ : f[d].refs = Cardinality(Moved(op, x, y, d)) + (IF d = e THEN 1 ELSE 0)
  BY DEF Lent
<1>n. \A d \in Occ : Cardinality(Moved(op, x, y, d)) \in Nat
  <2> TAKE d \in Occ
  <2>1. IsFiniteSet(Values!Holders(d) \cup {x})
    BY HoldersHas, FS_AddElement
  <2>2. Moved(op, x, y, d) \subseteq Values!Holders(d) \cup {x}
    BY DEF Moved
  <2>3. IsFiniteSet(Moved(op, x, y, d))
    BY <2>1, <2>2, FS_Subset
  <2> QED
    BY <2>3, FS_CardinalityType
<1>1. CASE e = Nobody
  <2>1. ev' = f /\ Values!Finish(op, x, y) /\ UNCHANGED <<calls, readyList>>
    BY <1>1 DEF Values!Unuse
  <2>2. \A d \in Occ : ev'[d].refs = Cardinality(Moved(op, x, y, d))
    BY <1>1, <1>t, <1>f, <1>n, <2>1
  <2>3. Kept(ev')
    BY <1>f, <2>1
  <2> QED
    BY <1>1, <1>t, <2>1, <2>2, <2>3, FinishCounts
<1>2. CASE e \in Occ
  <2> PICK g : g = [f EXCEPT ![e].refs = @ - 1]
    OBVIOUS
  <2>1. /\ \A d \in Occ : d # e => g[d] = f[d]
        /\ g[e] = [f[e] EXCEPT !.refs = @ - 1]
    BY <1>2, <1>f
  <2>2. g \in [Occ -> Rec]
    BY <1>2, <1>f, QuietParts DEF Quiet
  <2>3. /\ g[e].on = f[e].on /\ g[e].made = f[e].made /\ g[e].hook = f[e].hook
        /\ g[e].deleted = f[e].deleted /\ g[e].ids = f[e].ids /\ g[e].refs = f[e].refs - 1
    BY <1>2, <1>f, <2>1 DEF Rec
  <2>4. Kept(g)
    BY <1>2, <1>f, <2>1, <2>3 DEF Kept
  <2>5. \A d \in Occ : g[d].refs = Cardinality(Moved(op, x, y, d))
    BY <1>2, <1>f, <1>n, <2>1, <2>3
  <2>6. CASE g[e].refs = 0
    <3>1. Values!SimpleTrigger(g, e, op, x, y)
      BY <1>1, <1>2, <1>t, <2>6 DEF Values!Unuse
    <3>2. Repaid(g, op, x, y, e)
      BY <1>2, <2>2, <2>4, <2>5, <2>6 DEF Repaid
    <3> QED
      BY <1>2, <3>1, <3>2, TriggerCounts
  <2>7. CASE g[e].refs # 0
    <3>1. ev' = g /\ Values!Finish(op, x, y) /\ UNCHANGED <<calls, readyList>>
      BY <1>2, <1>t, <2>7 DEF Values!Unuse
    <3>2. Kept(ev') /\ \A d \in Occ : ev'[d].refs = Cardinality(Moved(op, x, y, d))
      BY <2>4, <2>5, <3>1
    <3>3. ev'[se[x]].refs # 0
      BY <2>7, <3>1
    <3> QED
      BY <1>t, <3>1, <3>2, <3>3, FinishCounts
  <2> QED
    BY <2>6, <2>7
<1> QED
  BY <1>t, <1>1, <1>2

\* The reference that an assignment takes is that of x when it is over.
LEMMA Lending ==
  ASSUME Values!ResultAssumption, HandlesInv, NEW op, NEW x \in Values!Handle, NEW y \in Values!Handle,
         ~Operand(x), ~Operand(y), NEW f \in [Occ -> Rec], Kept(f),
         \A d \in Occ : f[d].refs = ev[d].refs + (IF op = "assign" /\ se[y] = d THEN 1 ELSE 0)
  PROVE  Lent(f, op, x, y)
<1> SUFFICES ASSUME NEW d \in Occ
             PROVE  f[d].refs = Cardinality(Moved(op, x, y, d)) + (IF d = se[x] THEN 1 ELSE 0)
  BY DEF Lent
<1>1. ev[d].refs = Cardinality(Values!Holders(d)) /\ IsFiniteSet(Values!Holders(d))
  BY HoldersHas DEF HandlesInv, Exact
<1>2. Cardinality(Values!Holders(d)) \in Nat
  BY <1>1, FS_CardinalityType
<1>3. x \in Values!Holders(d) <=> se[x] = d
  BY FreeKnows, HoldersHas
<1>4. CASE op = "assign" /\ se[y] = d
  <2>1. Moved(op, x, y, d) = Values!Holders(d) \cup {x}
    BY <1>4 DEF Moved
  <2>2. CASE se[x] = d
    <3>1. Moved(op, x, y, d) = Values!Holders(d)
      BY <1>3, <2>1, <2>2
    <3> QED
      BY <1>1, <1>4, <2>2, <3>1
  <2>3. CASE se[x] # d
    <3>1. Cardinality(Moved(op, x, y, d)) = Cardinality(Values!Holders(d)) + 1
      BY <1>1, <1>3, <2>1, <2>3, Plus
    <3> QED
      BY <1>1, <1>2, <1>4, <2>3, <3>1
  <2> QED
    BY <2>2, <2>3
<1>5. CASE ~(op = "assign" /\ se[y] = d)
  <2>1. Moved(op, x, y, d) = Values!Holders(d) \ {x}
    BY <1>5 DEF Moved
  <2>2. CASE se[x] = d
    <3>1. Cardinality(Moved(op, x, y, d)) = Cardinality(Values!Holders(d)) - 1
      BY <1>1, <1>3, <2>1, <2>2, Minus
    <3> QED
      BY <1>1, <1>2, <1>5, <2>2, <3>1
  <2>3. CASE se[x] # d
    <3>1. Moved(op, x, y, d) = Values!Holders(d)
      BY <1>3, <2>1, <2>3
    <3> QED
      BY <1>1, <1>2, <1>5, <2>3, <3>1
  <2> QED
    BY <2>2, <2>3
<1> QED
  BY <1>4, <1>5

LEMMA KeptSame == Kept(ev)
BY DEF Kept

LEMMA DropCounts ==
  ASSUME Values!ResultAssumption, "operands" \notin Misuse, ResultsInv, HandlesInv, NEW x \in Values!Handle, Values!Drop(x)
  PROVE  HandlesInv'
<1>1. ~Operand(x)
  BY Usables DEF Values!Drop
<1>2. \A d \in Occ : ev[d] \in Rec
  BY DEF ResultsInv, ResultsTyped
<1>3. \A d \in Occ : ev[d].refs = ev[d].refs + (IF "drop" = "assign" /\ se[x] = d THEN 1 ELSE 0)
  BY <1>2 DEF Rec
<1>4. ev \in [Occ -> Rec] /\ Kept(ev)
  BY KeptSame DEF ResultsInv, ResultsTyped
<1>5. Lent(ev, "drop", x, x)
  BY <1>1, <1>3, <1>4, Lending
<1>6. Values!Unuse(ev, se[x], "drop", x, x)
  BY DEF Values!Drop
<1> QED
  BY <1>1, <1>5, <1>6, UnuseCounts

LEMMA AssignCounts ==
  ASSUME Values!ResultAssumption, "operands" \notin Misuse, ResultsInv, HandlesInv,
         NEW x \in Values!Handle, NEW y \in Values!Handle, Values!Assign(x, y)
  PROVE  HandlesInv'
<1> PICK f : f = Values!Use(ev, se[y])
  OBVIOUS
<1>1. ~Operand(x) /\ ~Operand(y)
  BY Usables DEF Values!Assign, Values!Trusted
<1>2. ev \in [Occ -> Rec] /\ se[y] \in Occ /\ se[y] # Nobody
  BY DEF Values!Assign, ResultsInv, ResultsTyped
<1>3. f = [ev EXCEPT ![se[y]].refs = @ + 1]
  BY <1>2 DEF Values!Use
<1>4. f \in [Occ -> Rec]
  BY <1>2, QuietParts DEF Quiet
<1>5. Kept(f)
  BY <1>2, <1>3 DEF Kept, Rec
<1>6. \A d \in Occ : f[d].refs = ev[d].refs + (IF "assign" = "assign" /\ se[y] = d THEN 1 ELSE 0)
  BY <1>2, <1>3 DEF Rec
<1>7. Lent(f, "assign", x, y)
  BY <1>1, <1>4, <1>5, <1>6, Lending
<1>8. Values!Unuse(f, se[x], "assign", x, y)
  BY DEF Values!Assign
<1> QED
  BY <1>1, <1>7, <1>8, UnuseCounts

LEMMA TriggerOpCounts ==
  ASSUME Values!ResultAssumption, "operands" \notin Misuse, ResultsInv, HandlesInv,
         NEW x \in Values!Handle, Values!Unblock(x) \/ Values!TriggerWith(x)
  PROVE  HandlesInv'
<1> PICK e : e = se[x]
  OBVIOUS
<1>1. ~Operand(x)
  BY Usables DEF Values!Unblock, Values!TriggerWith, Values!Trusted
<1>2. ev \in [Occ -> Rec] /\ e \in Occ
  BY DEF Values!Unblock, Values!TriggerWith, Values!Active, ResultsInv, ResultsTyped
<1>3. Values!SimpleTrigger(ev, e, "trigger", x, x)
  BY DEF Values!Unblock, Values!TriggerWith
<1>4. \A d \in Occ : ev[d].refs = Cardinality(Values!Holders(d)) /\ IsFiniteSet(Values!Holders(d))
  BY HoldersHas DEF HandlesInv, Exact
<1>5. x \in Values!Holders(e)
  BY <1>1, <1>2, FreeKnows, HoldersHas
<1>6. \A d \in Occ : d # e => Moved("trigger", x, x, d) = Values!Holders(d)
  BY <1>1, MovedElsewhere
<1>7. Cardinality(Moved("trigger", x, x, e)) = IF ev[e].refs > 0 THEN ev[e].refs - 1 ELSE 0
  <2>1. Moved("trigger", x, x, e) = Values!Holders(e) \ {x}
    BY DEF Moved
  <2>2. Cardinality(Values!Holders(e) \ {x}) = Cardinality(Values!Holders(e)) - 1
        /\ Cardinality(Values!Holders(e)) \in Nat /\ Cardinality(Values!Holders(e)) # 0
    BY <1>2, <1>4, <1>5, Minus
  <2>3. ev[e].refs = Cardinality(Values!Holders(e))
    BY <1>2, <1>4
  <2>4. ev[e].refs > 0 /\ Cardinality(Values!Holders(e) \ {x}) = ev[e].refs - 1
    BY <2>2, <2>3
  <2> QED
    BY <2>1, <2>4
<1>8. Repaid(ev, "trigger", x, x, e)
  BY <1>2, <1>4, <1>6, <1>7, KeptSame DEF Repaid
<1> QED
  BY <1>1, <1>2, <1>3, <1>8, TriggerCounts

(* Operations that exchange or copy what handles know, or change nothing of it *)

LEMMA SameRefers ==
  ASSUME UNCHANGED <<se, calls>>, NEW z, NEW d
  PROVE  (Values!Refers(z, d)' <=> Values!Refers(z, d)) /\ (Dies(d)' <=> Dies(d))
BY DEF Values!Refers, Dies, Values!Ongoing

\* Who refers to d, if the handles in N know it then and no other of those in M does.
LEMMA HoldersAre ==
  ASSUME Values!ResultAssumption, NEW d \in Occ, NEW M \in SUBSET Values!Handle, NEW N \in SUBSET M,
         \A z \in Values!Handle : Values!Refers(z, d)' <=> IF z \in M THEN z \in N ELSE Values!Refers(z, d),
         \A r \in Scope : Values!InList(r, d)' <=> Values!InList(r, d)
  PROVE  Values!Holders(d)' = (Values!Holders(d) \ M) \cup N
<1>1. \A z \in Values!Handle : z \in Values!Holders(d)' <=> z \in (Values!Holders(d) \ M) \cup N
  BY HoldersHas, NextHoldersHas
<1>2. \A r \in Scope : r \in Values!Holders(d)' <=> r \in (Values!Holders(d) \ M) \cup N
  BY HoldersHas, NextHoldersHas
<1>3. Values!Holders(d)' \subseteq Values!Handle \cup Scope /\ (Values!Holders(d) \ M) \cup N \subseteq Values!Handle \cup Scope
  BY HoldersHas, NextHoldersHas
<1> QED
  BY <1>1, <1>2, <1>3

LEMMA SameCounts ==
  ASSUME Values!ResultAssumption, ResultsInv, HandlesInv, UNCHANGED <<se, calls, readyList>>,
         \A d \in Occ : /\ ev'[d].on = ev[d].on /\ ev'[d].made = ev[d].made /\ ev'[d].refs = ev[d].refs
                        /\ ev'[d].deleted = ev[d].deleted /\ ev'[d].ids = ev[d].ids
  PROVE  HandlesInv'
<1>1. ReadyOnce' /\ ActiveMade'
  BY SameLists
<1>2. CallsApart' /\ CallsOver'
  BY SameCalls DEF ResultsInv, ResultsTyped
<1>3. ASSUME NEW d \in Occ
      PROVE  Exact(ev'[d], Values!Holders(d)', Dies(d)', Numbered(d)')
  <2>1. Exact(ev[d], Values!Holders(d), Dies(d), Numbered(d))
    BY DEF HandlesInv
  <2>2. Values!Holders(d)' = Values!Holders(d)
    BY SameRefers DEF Values!Holders, Values!InList
  <2>3. (Numbered(d)' <=> Numbered(d)) /\ (Dies(d)' <=> Dies(d))
    BY SameNumbered, SameDies
  <2> QED
    BY <2>1, <2>2, <2>3 DEF Exact
<1> QED
  BY <1>1, <1>2, <1>3 DEF HandlesInv

\* Handles that are not operands take each other's occurrence, or one of them does.
Exchange(x, y) ==
  /\ x \in Values!Handle /\ y \in Values!Handle /\ x # y /\ ~Operand(x) /\ ~Operand(y)
  /\ \A z \in Values!Handle : z \notin {x, y} => se'[z] = se[z]
  /\ UNCHANGED <<calls, readyList>>

LEMMA Exchanged ==
  ASSUME Values!ResultAssumption, CallsTyped, NEW x, NEW y, Exchange(x, y), NEW d \in Occ
  PROVE  Values!Holders(d)' = (Values!Holders(d) \ {x, y}) \cup {z \in {x, y} : se'[z] = d}
<1>0. /\ x \in Values!Handle /\ y \in Values!Handle /\ ~Operand(x) /\ ~Operand(y)
      /\ \A z \in Values!Handle : z \notin {x, y} => se'[z] = se[z]
      /\ calls' = calls /\ readyList' = readyList
  BY DEF Exchange
<1>1. \A c : c \in Values!Ongoing' <=> c \in Values!Ongoing
  BY <1>0 DEF Values!Ongoing
<1>2. \A c \in Values!Ongoing : c.x \notin {x, y} /\ c.y \notin {x, y} /\ se'[c.y] = se[c.y]
  BY <1>0, OngoingTyped DEF Operand
<1>3. ASSUME NEW z \in Values!Handle
      PROVE  Values!Refers(z, d)' <=> IF z \in {x, y} THEN se'[z] = d ELSE Values!Refers(z, d)
  <2>1. CASE z \in {x, y}
    <3>1. \A c \in Values!Ongoing' : c.x # z
      BY <1>1, <1>2, <2>1
    <3> QED
      BY <2>1, <3>1 DEF Values!Refers
  <2>2. CASE z \notin {x, y}
    <3>1. se'[z] = se[z]
      BY <1>0, <2>2
    <3> QED
      BY <1>1, <1>2, <2>2, <3>1 DEF Values!Refers
  <2> QED
    BY <2>1, <2>2
<1>4. \A r \in Scope : Values!InList(r, d)' <=> Values!InList(r, d)
  BY <1>0 DEF Values!InList
<1> PICK M : M = {x, y}
  OBVIOUS
<1> PICK N : N = {z \in {x, y} : se'[z] = d}
  OBVIOUS
<1>5. M \in SUBSET Values!Handle /\ N \in SUBSET M
  BY <1>0
<1>6. \A z \in Values!Handle : Values!Refers(z, d)' <=> IF z \in M THEN z \in N ELSE Values!Refers(z, d)
  BY <1>3
<1>7. Values!Holders(d)' = (Values!Holders(d) \ M) \cup N
  BY <1>4, <1>5, <1>6, HoldersAre
<1> QED
  BY <1>7

LEMMA SwapCounts ==
  ASSUME Values!ResultAssumption, ResultsInv, HandlesInv, NEW x, NEW y, Exchange(x, y),
         se'[x] = se[y], se'[y] = se[x], UNCHANGED ev
  PROVE  HandlesInv'
<1>0. /\ x \in Values!Handle /\ y \in Values!Handle /\ x # y /\ ~Operand(x) /\ ~Operand(y)
      /\ UNCHANGED <<calls, readyList>>
  BY DEF Exchange
<1>t. CallsTyped
  BY DEF ResultsInv, ResultsTyped
<1>1. ReadyOnce' /\ ActiveMade'
  BY <1>0, SameLists
<1>2. CallsApart' /\ CallsOver'
  BY <1>0, <1>t, SameCalls
<1>3. ASSUME NEW d \in Occ
      PROVE  Exact(ev'[d], Values!Holders(d)', Dies(d)', Numbered(d)')
  <2>1. Exact(ev[d], Values!Holders(d), Dies(d), Numbered(d)) /\ IsFiniteSet(Values!Holders(d))
    BY HoldersHas DEF HandlesInv
  <2>2. (Numbered(d)' <=> Numbered(d)) /\ (Dies(d)' <=> Dies(d))
    BY <1>0, SameNumbered, SameDies
  <2>3. (x \in Values!Holders(d) <=> se[x] = d) /\ (y \in Values!Holders(d) <=> se[y] = d)
    BY <1>0, FreeKnows, HoldersHas
  <2>4. Values!Holders(d)' = (Values!Holders(d) \ {x, y}) \cup {z \in {x, y} : se'[z] = d}
    BY <1>t, Exchanged
  <2>5. Cardinality(Values!Holders(d)') = Cardinality(Values!Holders(d)) /\ (Values!Holders(d)' = {} <=> Values!Holders(d) = {})
    <3>1. CASE se[x] = d <=> se[y] = d
      <4>1. Values!Holders(d)' = Values!Holders(d)
        BY <2>3, <2>4, <3>1
      <4> QED
        BY <4>1
    <3>2. CASE se[x] = d /\ se[y] # d
      <4>1. Values!Holders(d)' = (Values!Holders(d) \ {x}) \cup {y} /\ x \in Values!Holders(d) /\ y \notin Values!Holders(d)
        BY <2>3, <2>4, <3>2, <1>0
      <4> QED
        BY <2>1, <4>1, Swap
    <3>3. CASE se[x] # d /\ se[y] = d
      <4>1. Values!Holders(d)' = (Values!Holders(d) \ {y}) \cup {x} /\ y \in Values!Holders(d) /\ x \notin Values!Holders(d)
        BY <2>3, <2>4, <3>3, <1>0
      <4> QED
        BY <2>1, <4>1, Swap
    <3> QED
      BY <3>1, <3>2, <3>3
  <2> QED
    BY <2>1, <2>2, <2>5 DEF Exact
<1> QED
  BY <1>1, <1>2, <1>3 DEF HandlesInv

LEMMA CopyCounts ==
  ASSUME Values!ResultAssumption, ResultsInv, HandlesInv, NEW x, NEW y, Exchange(x, y),
         se[x] = Nobody, se'[x] = se[y], se'[y] = se[y], se[y] # Nobody, ev' = Values!Use(ev, se[y])
  PROVE  HandlesInv'
<1>0. /\ x \in Values!Handle /\ y \in Values!Handle /\ x # y /\ ~Operand(x) /\ ~Operand(y)
      /\ UNCHANGED <<calls, readyList>>
  BY DEF Exchange
<1> PICK e : e = se[y]
  OBVIOUS
<1>t. CallsTyped /\ e \in Occ /\ ev \in [Occ -> Rec] /\ Nobody \notin Occ
  BY <1>0, NoneIsNothing DEF ResultsInv, ResultsTyped
<1>e. /\ ev' = [ev EXCEPT ![e].refs = @ + 1]
      /\ \A d \in Occ : /\ ev'[d].on = ev[d].on /\ ev'[d].made = ev[d].made
                        /\ ev'[d].deleted = ev[d].deleted /\ ev'[d].ids = ev[d].ids
                        /\ ev'[d].refs = IF d = e THEN ev[d].refs + 1 ELSE ev[d].refs
  BY <1>t DEF Values!Use, Rec
<1>1. ReadyOnce' /\ ActiveMade'
  BY <1>0, <1>e, SameLists
<1>2. CallsApart' /\ CallsOver'
  BY <1>0, <1>t, <1>e, SameCalls
<1>3. ASSUME NEW d \in Occ
      PROVE  Exact(ev'[d], Values!Holders(d)', Dies(d)', Numbered(d)')
  <2>1. Exact(ev[d], Values!Holders(d), Dies(d), Numbered(d)) /\ IsFiniteSet(Values!Holders(d))
    BY HoldersHas DEF HandlesInv
  <2>2. (Numbered(d)' <=> Numbered(d)) /\ (Dies(d)' <=> Dies(d))
    BY <1>0, <1>e, SameNumbered, SameDies
  <2>3. x \notin Values!Holders(d) /\ (y \in Values!Holders(d) <=> e = d)
    BY <1>0, <1>t, FreeKnows, HoldersHas
  <2>4. Values!Holders(d)' = (Values!Holders(d) \ {x, y}) \cup {z \in {x, y} : se'[z] = d}
    BY <1>t, Exchanged
  <2>5. CASE d = e
    <3>1. Values!Holders(d)' = Values!Holders(d) \cup {x} /\ Values!Holders(d) # {}
      BY <2>3, <2>4, <2>5
    <3>2. Cardinality(Values!Holders(d)') = Cardinality(Values!Holders(d)) + 1
      BY <2>1, <2>3, <3>1, Plus
    <3> QED
      BY <2>1, <2>2, <2>5, <3>1, <3>2, <1>e DEF Exact
  <2>6. CASE d # e
    <3>1. Values!Holders(d)' = Values!Holders(d)
      BY <2>3, <2>4, <2>6
    <3> QED
      BY <2>1, <2>2, <2>6, <3>1, <1>e DEF Exact
  <2> QED
    BY <2>5, <2>6
<1> QED
  BY <1>1, <1>2, <1>3 DEF HandlesInv

LEMMA MoveCounts ==
  ASSUME Values!ResultAssumption, "operands" \notin Misuse, ResultsInv, HandlesInv,
         NEW x \in Values!Handle, NEW y \in Values!Handle, Values!Move(x, y)
  PROVE  HandlesInv'
<1>1. ~Operand(x) /\ ~Operand(y) /\ x # y
  BY Usables DEF Values!Move, Values!Trusted
<1>2. /\ se'[x] = se[y] /\ se'[y] = se[x]
      /\ \A z \in Values!Handle : z \notin {x, y} => se'[z] = se[z]
  BY <1>1 DEF Values!Move, ResultsInv, ResultsTyped
<1>3. Exchange(x, y) /\ UNCHANGED ev
  BY <1>1, <1>2 DEF Exchange, Values!Move
<1> QED
  BY <1>2, <1>3, SwapCounts

LEMMA UnblockerCounts ==
  ASSUME Values!ResultAssumption, "operands" \notin Misuse, ResultsInv, HandlesInv,
         NEW u \in Values!Handle, NEW x \in Values!Handle, Values!Unblocker(u, x)
  PROVE  HandlesInv'
<1>1. ~Operand(u) /\ ~Operand(x) /\ u # x /\ se[u] = Nobody /\ se[x] # Nobody
  BY Usables DEF Values!Unblocker, Values!Fresh, Values!ResultAssumption
<1>2. /\ se'[u] = se[x] /\ se'[x] = se[x]
      /\ \A z \in Values!Handle : z \notin {u, x} => se'[z] = se[z]
  BY <1>1 DEF Values!Unblocker, ResultsInv, ResultsTyped
<1>3. Exchange(u, x) /\ ev' = Values!Use(ev, se[x])
  BY <1>1, <1>2 DEF Exchange, Values!Unblocker
<1> QED
  BY <1>1, <1>2, <1>3, CopyCounts

LEMMA RebindCounts ==
  ASSUME Values!ResultAssumption, "operands" \notin Misuse, ResultsInv, HandlesInv,
         NEW x \in Typed, NEW u \in Plain, NEW keep \in BOOLEAN, NEW S \in SUBSET Slot, Values!Rebind(x, u, keep, S)
  PROVE  HandlesInv'
<1>1. ~Operand(x) /\ ~Operand(u) /\ u # x /\ se[x] = Nobody /\ se[u] # Nobody /\ x \in Values!Handle /\ u \in Values!Handle
  BY Usables DEF Values!Rebind, Values!Fresh, Values!ResultAssumption, Values!Active, Values!Handle
<1>2. /\ se'[x] = se[u] /\ se'[u] = IF keep THEN se[u] ELSE Nobody
      /\ \A z \in Values!Handle : z \notin {x, u} => se'[z] = se[z]
  BY <1>1 DEF Values!Rebind, ResultsInv, ResultsTyped
<1>3. Exchange(x, u) /\ ev' = IF keep THEN Values!Use(ev, se[u]) ELSE ev
  BY <1>1, <1>2 DEF Exchange, Values!Rebind
<1>4. CASE keep
  BY <1>1, <1>2, <1>3, <1>4, CopyCounts
<1>5. CASE ~keep
  BY <1>1, <1>2, <1>3, <1>5, SwapCounts
<1> QED
  BY <1>4, <1>5

(* New occurrences *)

\* Nothing refers to an occurrence that has not been made.
LEMMA UnmadeUnknown ==
  ASSUME Values!ResultAssumption, ResultsInv, HandlesInv, NEW e \in Occ, ~ev[e].made
  PROVE  /\ \A z \in Values!Handle : se[z] # e
         /\ \A r \in Scope : ~Values!InList(r, e)
         /\ \A c \in Values!Ongoing : c.e # e
         /\ ~Dies(e)
<1>0. Nobody \notin Occ
  BY NoneIsNothing
<1>1. \A z \in Values!Handle : se[z] # e
  BY <1>0 DEF ResultsInv, KnownMade
<1>2. \A r \in Scope : ~Values!InList(r, e)
  BY DEF HandlesInv, ReadyOnce, Values!InList
<1>3. \A c \in Values!Ongoing : c.e # e
  BY DEF HandlesInv, CallsOver
<1> QED
  BY <1>1, <1>2, <1>3 DEF Dies

LEMMA InstantiateCounts ==
  ASSUME Values!ResultAssumption, "operands" \notin Misuse, ResultsInv, HandlesInv,
         NEW x \in Values!Handle, NEW r \in Scope, NEW S, Values!Fresh(x), Values!Instantiate(x, r, S)
  PROVE  HandlesInv'
<1>t. CallsTyped /\ ev \in [Occ -> Rec] /\ Nobody \notin Occ /\ Nobody \notin Scope
  BY NoneIsNothing DEF ResultsInv, ResultsTyped
<1>1. ~Operand(x) /\ se[x] = Nobody
  BY Usables DEF Values!Fresh
<1>2. PICK e \in Occ :
       /\ ~ev[e].made
       /\ ev' = [ev EXCEPT ![e] = [on |-> r, refs |-> 1, hook |-> FALSE, made |-> TRUE,
                                   deleted |-> 0, ids |-> IF Kind[r] = "ids" THEN 1 ELSE 0]]
       /\ se' = [se EXCEPT ![x] = e]
  BY DEF Values!Instantiate
<1>3. /\ \A z \in Values!Handle : se[z] # e
      /\ \A q \in Scope : ~Values!InList(q, e)
      /\ \A c \in Values!Ongoing : c.e # e
      /\ ~Dies(e)
  BY <1>2, UnmadeUnknown
<1>4. /\ \A d \in Occ : d # e => ev'[d] = ev[d]
      /\ ev'[e].on = r /\ ev'[e].refs = 1 /\ ev'[e].made /\ ev'[e].deleted = 0
      /\ ev'[e].ids = IF Kind[r] = "ids" THEN 1 ELSE 0
  BY <1>2, <1>t
<1>5. se'[x] = e /\ (\A z \in Values!Handle : z # x => se'[z] = se[z]) /\ UNCHANGED <<calls, readyList>>
  BY <1>2 DEF Values!Instantiate, ResultsInv, ResultsTyped
<1>6. ReadyOnce' /\ ActiveMade'
  <2>1. ReadyOnce /\ ActiveMade
    BY DEF HandlesInv
  <2>2. ActiveMade'
    BY <1>4, <2>1 DEF ActiveMade
  <2>3. \A q \in Scope : \A i \in DOMAIN readyList[q] : readyList[q][i] \in Occ /\ readyList[q][i] # e
    BY <1>3, <2>1 DEF ReadyOnce, Values!InList
  <2>4. \A q \in Scope : \A i \in DOMAIN readyList[q] :
          ev'[readyList[q][i]].made /\ ev'[readyList[q][i]].on = Nobody
    BY <1>4, <2>1, <2>3 DEF ReadyOnce
  <2> QED
    BY <1>5, <2>1, <2>2, <2>4 DEF ReadyOnce
<1>7. CallsApart' /\ CallsOver'
  <2>1. CallsApart'
    BY <1>5 DEF HandlesInv, CallsApart
  <2>2. \A c \in Values!Ongoing : ev'[c.e].made /\ ev'[c.e].on = Nobody
    BY <1>t, <1>3, <1>4, OngoingTyped DEF HandlesInv, CallsOver
  <2> QED
    BY <1>5, <2>1, <2>2 DEF CallsOver, Values!Ongoing
<1>8. \A c : c \in Values!Ongoing' <=> c \in Values!Ongoing
  BY <1>5 DEF Values!Ongoing
<1>9. ASSUME NEW d \in Occ
      PROVE  Values!Holders(d)' = IF d = e THEN Values!Holders(d) \cup {x} ELSE Values!Holders(d)
  <2>1. ASSUME NEW z \in Values!Handle PROVE Values!Refers(z, d)' <=> IF z \in {x} THEN d = e ELSE Values!Refers(z, d)
    <3>1. \A c \in Values!Ongoing : c.x # x /\ c.y # x /\ c.y \in Values!Handle /\ se'[c.y] = se[c.y]
      BY <1>1, <1>t, <1>5, OngoingTyped DEF Operand
    <3>2. CASE z = x
      BY <1>5, <1>8, <3>1, <3>2 DEF Values!Refers
    <3>3. CASE z # x
      <4>1. se'[z] = se[z]
        BY <1>5, <3>3
      <4> QED
        BY <1>8, <3>1, <3>3, <4>1 DEF Values!Refers
    <3> QED
      BY <3>2, <3>3
  <2>2. \A q \in Scope : Values!InList(q, d)' <=> Values!InList(q, d)
    BY <1>5 DEF Values!InList
  <2> PICK N : N = {z \in {x} : d = e}
    OBVIOUS
  <2> PICK M : M = {x}
    OBVIOUS
  <2>3. \A z \in Values!Handle : Values!Refers(z, d)' <=> IF z \in M THEN z \in N ELSE Values!Refers(z, d)
    BY <2>1
  <2>4. M \in SUBSET Values!Handle /\ N \in SUBSET M
    OBVIOUS
  <2>5. Values!Holders(d)' = (Values!Holders(d) \ M) \cup N
    BY <2>2, <2>3, <2>4, HoldersAre
  <2>6. x \notin Values!Holders(d)
    BY <1>1, <1>t, FreeKnows, HoldersHas
  <2> QED
    BY <2>5, <2>6
<1>10. Values!Holders(e) = {}
  <2>1. ASSUME NEW z \in Values!Handle PROVE ~Values!Refers(z, e)
    BY <1>3, <1>t, OngoingTyped DEF Values!Refers
  <2> QED
    BY <1>3, <2>1, HoldersHas
<1>11. ASSUME NEW d \in Occ
       PROVE  Exact(ev'[d], Values!Holders(d)', Dies(d)', Numbered(d)')
  <2>1. Dies(d)' <=> Dies(d)
    BY <1>5, SameDies
  <2>2. CASE d = e
    <3>1. Values!Holders(d)' = {x} /\ Cardinality({x}) = 1
      BY <1>9, <1>10, <2>2, FS_Singleton
    <3>2. \A q \in Scope : Values!Listed(d, q)' <=> q = r
      BY <1>3, <1>4, <1>5, <2>2 DEF Values!Listed, Values!InList
    <3>3. Numbered(d)' <=> Kind[r] = "ids"
      BY <3>2 DEF Numbered
    <3> QED
      BY <1>3, <1>4, <2>1, <2>2, <3>1, <3>3 DEF Exact
  <2>3. CASE d # e
    <3>1. ev'[d] = ev[d] /\ Values!Holders(d)' = Values!Holders(d)
      BY <1>4, <1>9, <2>3
    <3>2. Numbered(d)' <=> Numbered(d)
      BY <1>5, <3>1, SameNumbered
    <3> QED
      BY <2>1, <3>1, <3>2 DEF Exact, HandlesInv
  <2> QED
    BY <2>2, <2>3
<1> QED
  BY <1>6, <1>7, <1>11 DEF HandlesInv

(* The end of an operation *)

LEMMA ReturnCounts ==
  ASSUME Values!ResultAssumption, ResultsInv, HandlesInv, Values!Return
  PROVE  HandlesInv'
<1> PICK c : c = Head(calls)
  OBVIOUS
<1>t. CallsTyped /\ CallsApart /\ CallsOver /\ ev \in [Occ -> Rec] /\ Nobody \notin Occ /\ Nobody \notin Scope
  BY NoneIsNothing DEF ResultsInv, ResultsTyped, HandlesInv
<1>1. /\ calls # <<>> /\ calls' = Tail(calls) /\ readyList' = readyList
      /\ ev' = IF c.dies THEN [ev EXCEPT ![c.e].deleted = @ + 1] ELSE ev
      /\ Values!Finish(c.op, c.x, c.y)
  BY DEF Values!Return
<1>2. /\ CallsApart' /\ c \in Values!Ongoing
      /\ \A b : b \in Values!Ongoing' <=> b \in Values!Ongoing /\ b # c
  BY <1>1, <1>t, OngoingPop
<1>3. c.e \in Occ /\ c.x \in Values!Handle /\ c.y \in Values!Handle
  BY <1>2, <1>t, OngoingTyped
<1>4. \A b \in Values!Ongoing : b # c => b.e # c.e /\ b.x # c.x /\ b.x # c.y /\ b.y # c.x /\ b.y # c.y
  BY <1>2, <1>t, OngoingApart
<1>5. /\ se'[c.x] = IF c.op = "assign" THEN se[c.y] ELSE Nobody
      /\ \A z \in Values!Handle : z # c.x => se'[z] = se[z]
  BY <1>1, <1>3 DEF Values!Finish, ResultsInv, ResultsTyped
<1>6. /\ \A d \in Occ : /\ ev'[d].on = ev[d].on /\ ev'[d].made = ev[d].made
                        /\ ev'[d].refs = ev[d].refs /\ ev'[d].ids = ev[d].ids
      /\ \A d \in Occ : ev'[d].deleted = IF d = c.e /\ c.dies THEN ev[d].deleted + 1 ELSE ev[d].deleted
  BY <1>1, <1>3, <1>t DEF Rec
<1>7. ReadyOnce' /\ ActiveMade'
  BY <1>1, <1>6, SameLists
<1>8. CallsOver'
  <2>1. \A b \in Values!Ongoing : ev'[b.e].made /\ ev'[b.e].on = Nobody
    BY <1>t, <1>6, OngoingTyped DEF CallsOver
  <2> QED
    BY <1>2, <2>1 DEF CallsOver
<1>9. ASSUME NEW d \in Occ PROVE Values!Holders(d)' = Values!Holders(d)
  <2>1. ASSUME NEW z \in Values!Handle PROVE Values!Refers(z, d)' <=> Values!Refers(z, d)
    <3>1. CASE z = c.x
      <4>1. \A b \in Values!Ongoing : b.x = z <=> b = c
        BY <1>4, <3>1
      <4>2. Values!Refers(z, d) <=> c.op = "assign" /\ se[c.y] = d
        BY <1>2, <3>1, <4>1 DEF Values!Refers
      <4>3. Values!Refers(z, d)' <=> se'[z] = d
        BY <1>2, <4>1 DEF Values!Refers
      <4> QED
        BY <1>5, <1>t, <3>1, <4>2, <4>3
    <3>2. CASE z # c.x
      <4>1. se'[z] = se[z]
        BY <1>5, <3>2
      <4>2. \A b \in Values!Ongoing' : se'[b.y] = se[b.y]
        BY <1>2, <1>4, <1>5, <1>t, OngoingTyped
      <4>3. \A b : b \in Values!Ongoing' /\ b.x = z <=> b \in Values!Ongoing /\ b.x = z
        BY <1>2, <3>2
      <4> QED
        BY <4>1, <4>2, <4>3 DEF Values!Refers
    <3> QED
      BY <3>1, <3>2
  <2>2. \A q \in Scope : Values!InList(q, d)' <=> Values!InList(q, d)
    BY <1>1 DEF Values!InList
  <2>3. {} \in SUBSET Values!Handle /\ {} \in SUBSET {}
    OBVIOUS
  <2>4. \A z \in Values!Handle : Values!Refers(z, d)' <=> IF z \in {} THEN z \in {} ELSE Values!Refers(z, d)
    BY <2>1
  <2>5. Values!Holders(d)' = (Values!Holders(d) \ {}) \cup {}
    BY <2>2, <2>3, <2>4, HoldersAre
  <2> QED
    BY <2>5
<1>10. ASSUME NEW d \in Occ
       PROVE  Exact(ev'[d], Values!Holders(d)', Dies(d)', Numbered(d)')
  <2>1. Exact(ev[d], Values!Holders(d), Dies(d), Numbered(d))
    BY DEF HandlesInv
  <2>2. Numbered(d)' <=> Numbered(d)
    BY <1>1, <1>6, SameNumbered
  <2>3. Values!Holders(d)' = Values!Holders(d)
    BY <1>9
  <2>4. CASE d # c.e
    <3>1. Dies(d)' <=> Dies(d)
      BY <1>2, <2>4 DEF Dies
    <3> QED
      BY <1>6, <2>1, <2>2, <2>3, <2>4, <3>1 DEF Exact
  <2>5. CASE d = c.e
    <3>1. ~Dies(d)' /\ (Dies(d) <=> c.dies)
      BY <1>2, <1>4, <2>5 DEF Dies
    <3>2. ev[d].made
      BY <1>2, <1>t, <2>5 DEF CallsOver
    <3> QED
      BY <1>6, <2>1, <2>2, <2>3, <2>5, <3>1, <3>2 DEF Exact
  <2> QED
    BY <2>4, <2>5
<1> QED
  BY <1>2, <1>7, <1>8, <1>10 DEF HandlesInv

(* What a rendezvous takes off its lists *)

\* The occurrence d goes off the list of r, or waits there no longer; v and w are what
\* it was and becomes.
Struck(v, w, r, d) ==
  /\ r \in Scope /\ d \in Occ
  /\ w.made = v.made /\ w.on = Nobody
  /\ v.on = r \/ v.on = Nobody
  /\ Values!InList(r, d) \/ v.on = r
  /\ w.refs = IF v.on = r THEN v.refs ELSE v.refs - 1
  /\ w.ids = IF Kind[r] = "ids" THEN v.ids - 1 ELSE v.ids
  /\ w.deleted = IF v.on # r /\ v.refs = 1 THEN v.deleted + 1 ELSE v.deleted
  /\ ~Values!InList(r, d)' /\ UNCHANGED <<se, calls>>
  /\ \A q \in Scope : q # r => (Values!InList(q, d)' <=> Values!InList(q, d))

LEMMA StruckCounts ==
  ASSUME Values!ResultAssumption, ResultsInv, HandlesInv, NEW d, NEW r, Struck(ev[d], ev'[d], r, d)
  PROVE  Exact(ev'[d], Values!Holders(d)', Dies(d)', Numbered(d)')
<1>0. /\ r \in Scope /\ d \in Occ /\ Nobody \notin Scope
      /\ ev'[d].made = ev[d].made /\ ev'[d].on = Nobody
      /\ (ev[d].on = r \/ ev[d].on = Nobody) /\ (Values!InList(r, d) \/ ev[d].on = r)
      /\ ev'[d].refs = IF ev[d].on = r THEN ev[d].refs ELSE ev[d].refs - 1
      /\ ev'[d].ids = IF Kind[r] = "ids" THEN ev[d].ids - 1 ELSE ev[d].ids
      /\ ev'[d].deleted = IF ev[d].on # r /\ ev[d].refs = 1 THEN ev[d].deleted + 1 ELSE ev[d].deleted
      /\ ~Values!InList(r, d)' /\ UNCHANGED <<se, calls>>
      /\ \A q \in Scope : q # r => (Values!InList(q, d)' <=> Values!InList(q, d))
  BY NoneIsNothing DEF Struck
<1>1. Exact(ev[d], Values!Holders(d), Dies(d), Numbered(d)) /\ IsFiniteSet(Values!Holders(d))
  BY <1>0, HoldersHas DEF HandlesInv
<1>2. ReadyOnce
  BY DEF HandlesInv
<1>3. \A q \in Scope : q # r => ~Values!InList(q, d)
  <2>1. CASE ev[d].on = r
    BY <1>0, <1>2, <2>1, ActiveUnlisted
  <2>2. CASE Values!InList(r, d)
    <3> PICK i \in DOMAIN readyList[r] : readyList[r][i] = d
      BY <2>2 DEF Values!InList
    <3> SUFFICES ASSUME NEW q \in Scope, Values!InList(q, d) PROVE q = r
      OBVIOUS
    <3> PICK j \in DOMAIN readyList[q] : readyList[q][j] = d
      BY DEF Values!InList
    <3> QED
      BY <1>0, <1>2 DEF ReadyOnce
  <2> QED
    BY <1>0, <2>1, <2>2
<1>4. ev[d].on = r => ~Values!InList(r, d)
  BY <1>0, <1>2, ActiveUnlisted
<1>5. (Numbered(d) <=> Kind[r] = "ids") /\ ~Numbered(d)'
  <2>1. \A q \in Scope : Values!Listed(d, q) <=> q = r
    BY <1>0, <1>3 DEF Values!Listed
  <2>2. \A q \in Scope : ~Values!Listed(d, q)'
    BY <1>0, <1>3 DEF Values!Listed
  <2> QED
    BY <1>0, <2>1, <2>2 DEF Numbered
<1>6. Dies(d)' <=> Dies(d)
  BY <1>0, SameDies
<1>7. Values!Holders(d)' = Values!Holders(d) \ {r} /\ (r \in Values!Holders(d) <=> ev[d].on # r)
  <2>1. \A z \in Values!Handle : z \in Values!Holders(d)' <=> z \in Values!Holders(d)
    BY <1>0, SameRefers, HoldersHas, NextHoldersHas
  <2>2. \A q \in Scope : q \in Values!Holders(d)' <=> q \in Values!Holders(d) /\ q # r
    BY <1>0, HoldersHas, NextHoldersHas
  <2>3. r \in Values!Holders(d) <=> ev[d].on # r
    BY <1>0, <1>4, HoldersHas
  <2>4. r \notin Values!Handle
    BY <1>0 DEF Values!ResultAssumption
  <2>5. Values!Holders(d)' \subseteq Values!Handle \cup Scope /\ Values!Holders(d) \subseteq Values!Handle \cup Scope
    BY HoldersHas, NextHoldersHas
  <2> QED
    BY <2>1, <2>2, <2>3, <2>4, <2>5
<1>8. CASE ev[d].on = r
  <2>1. Values!Holders(d)' = Values!Holders(d)
    BY <1>7, <1>8
  <2> QED
    BY <1>0, <1>1, <1>5, <1>6, <1>8, <2>1 DEF Exact
<1>9. CASE ev[d].on # r
  <2>1. r \in Values!Holders(d)
    BY <1>7, <1>9
  <2>2. Cardinality(Values!Holders(d)') = Cardinality(Values!Holders(d)) - 1 /\ Cardinality(Values!Holders(d)) \in Nat
    BY <1>1, <1>7, <2>1, Minus
  <2>3. Values!Holders(d)' = {} <=> Cardinality(Values!Holders(d)) = 1
    <3>1. IsFiniteSet(Values!Holders(d)')
      BY <1>1, <1>7, FS_Subset
    <3>2. Cardinality(Values!Holders(d)') = 0 <=> Values!Holders(d)' = {}
      BY <3>1, Zero
    <3> QED
      BY <2>2, <3>2
  <2>4. ev[d].refs = Cardinality(Values!Holders(d)) /\ ~Dies(d) /\ ev[d].deleted = 0
    BY <1>1, <2>1 DEF Exact
  <2>5. ActiveMade /\ ev[d].made
    BY <1>0, <1>2, <1>9 DEF HandlesInv, ReadyOnce, Values!InList
  <2>6. ev'[d].deleted = IF Values!Holders(d)' = {} THEN 1 ELSE 0
    BY <1>0, <1>9, <2>3, <2>4
  <2>7. ev[d].ids = IF Kind[r] = "ids" THEN 1 ELSE 0
    BY <1>1, <1>5 DEF Exact
  <2>8. ev'[d].refs = Cardinality(Values!Holders(d)') /\ ev'[d].ids = 0
    BY <1>0, <1>9, <2>2, <2>4, <2>7
  <2> QED
    BY <1>0, <1>5, <1>6, <2>4, <2>5, <2>6, <2>8 DEF Exact
<1> QED
  BY <1>8, <1>9

\* What neither waited nor was ready at a rendezvous is not concerned.
LEMMA OtherCounts ==
  ASSUME Values!ResultAssumption, HandlesInv, NEW d \in Occ, ev'[d] = ev[d], UNCHANGED <<se, calls>>,
         \A q \in Scope : Values!InList(q, d)' <=> Values!InList(q, d)
  PROVE  Exact(ev'[d], Values!Holders(d)', Dies(d)', Numbered(d)')
<1>1. Exact(ev[d], Values!Holders(d), Dies(d), Numbered(d))
  BY DEF HandlesInv
<1>2. Dies(d)' <=> Dies(d)
  BY SameDies
<1>3. Numbered(d)' <=> Numbered(d)
  BY DEF Numbered, Values!Listed
<1>4. Values!Holders(d)' = Values!Holders(d)
  <2>1. {} \in SUBSET Values!Handle /\ {} \in SUBSET {}
    OBVIOUS
  <2>2. \A z \in Values!Handle : Values!Refers(z, d)' <=> IF z \in {} THEN z \in {} ELSE Values!Refers(z, d)
    BY SameRefers
  <2>3. Values!Holders(d)' = (Values!Holders(d) \ {}) \cup {}
    BY <2>1, <2>2, HoldersAre
  <2> QED
    BY <2>3
<1> QED
  BY <1>1, <1>2, <1>3, <1>4 DEF Exact

LEMMA Tailed ==
  ASSUME NEW q \in Seq(Occ), q # <<>>
  PROVE  /\ Tail(q) \in Seq(Occ) /\ Head(q) = q[1] /\ 1 \in DOMAIN q
         /\ \A i \in DOMAIN Tail(q) : i + 1 \in DOMAIN q /\ Tail(q)[i] = q[i + 1] /\ i + 1 # 1 /\ i \in Int
         /\ \A i \in DOMAIN q : i # 1 => i - 1 \in DOMAIN Tail(q) /\ Tail(q)[i - 1] = q[i]
<1>1. Len(q) \in Nat \ {0} /\ DOMAIN q = 1 .. Len(q)
  OBVIOUS
<1> QED
  BY <1>1

LEMMA JoinCounts ==
  ASSUME Values!ResultAssumption, ResultsInv, HandlesInv, NEW r \in Scope, Values!Join(r)
  PROVE  HandlesInv'
<1> PICK q : q = readyList[r]
  OBVIOUS
<1> PICK e : e = Head(q)
  OBVIOUS
<1>t. CallsTyped /\ ReadyOnce /\ ActiveMade /\ ev \in [Occ -> Rec] /\ Nobody \notin Occ /\ Nobody \notin Scope
  BY NoneIsNothing DEF ResultsInv, ResultsTyped, HandlesInv
<1> PICK f : f = [ev EXCEPT ![e].refs = @ - 1, ![e].ids = IF Kind[r] = "ids" THEN @ - 1 ELSE @]
  OBVIOUS
<1>1. /\ q # <<>> /\ q \in Seq(Occ) /\ readyList' = [readyList EXCEPT ![r] = Tail(q)]
      /\ ev' = Values!Reap(f, e) /\ UNCHANGED <<se, calls>>
  BY <1>t DEF Values!Join, ReadyOnce
<1>2. /\ readyList'[r] = Tail(q) /\ Tail(q) \in Seq(Occ)
      /\ \A p \in Scope : p # r => readyList'[p] = readyList[p]
      /\ readyList' \in [Scope -> Seq(Occ)]
  BY <1>1, <1>t, Tailed DEF ReadyOnce
<1>3. e \in Occ /\ e = q[1] /\ 1 \in DOMAIN q /\ Values!InList(r, e)
  BY <1>1, Tailed DEF Values!InList
<1>4. ev[e].made /\ ev[e].on = Nobody
  BY <1>3, <1>t DEF ReadyOnce
<1>5. /\ \A d \in Occ : d # e => f[d] = ev[d]
      /\ f[e].on = ev[e].on /\ f[e].made = ev[e].made /\ f[e].deleted = ev[e].deleted
      /\ f[e].refs = ev[e].refs - 1
      /\ f[e].ids = IF Kind[r] = "ids" THEN ev[e].ids - 1 ELSE ev[e].ids
  BY <1>3, <1>t DEF Rec
<1>6. f \in [Occ -> Rec]
  <2>1. ev[e].refs - 1 \in Int /\ (IF Kind[r] = "ids" THEN ev[e].ids - 1 ELSE ev[e].ids) \in Int
    BY <1>3, <1>t DEF Rec
  <2> QED
    BY <2>1, <1>3, <1>t DEF Rec
<1>7. /\ \A d \in Occ : d # e => ev'[d] = ev[d]
      /\ ev'[e].on = ev[e].on /\ ev'[e].made = ev[e].made
      /\ ev'[e].refs = ev[e].refs - 1
      /\ ev'[e].ids = IF Kind[r] = "ids" THEN ev[e].ids - 1 ELSE ev[e].ids
      /\ ev'[e].deleted = IF ev[e].refs - 1 = 0 THEN ev[e].deleted + 1 ELSE ev[e].deleted
  <2> PICK g : g = Values!Reap(f, e)
    OBVIOUS
  <2>1. /\ \A d \in Occ : d # e => g[d] = f[d]
        /\ g[e].on = f[e].on /\ g[e].made = f[e].made /\ g[e].refs = f[e].refs /\ g[e].ids = f[e].ids
        /\ g[e].deleted = IF f[e].refs = 0 THEN f[e].deleted + 1 ELSE f[e].deleted
    BY <1>3, <1>6, Deleted
  <2>2. ev' = g
    BY <1>1
  <2>3. \A d \in Occ : d # e => g[d] = ev[d]
    BY <2>1, <1>5
  <2>4. g[e].deleted = IF ev[e].refs - 1 = 0 THEN ev[e].deleted + 1 ELSE ev[e].deleted
    <3>1. ev[e].refs \in Int
      BY <1>3, <1>t DEF Rec
    <3>2. f[e].refs = 0 <=> ev[e].refs - 1 = 0
      BY <1>5, <3>1
    <3>3. f[e].deleted = ev[e].deleted
      BY <1>5
    <3>4. g[e].deleted = IF f[e].refs = 0 THEN f[e].deleted + 1 ELSE f[e].deleted
      BY <2>1
    <3> QED
      BY <3>2, <3>3, <3>4
  <2>5. /\ g[e].on = ev[e].on /\ g[e].made = ev[e].made /\ g[e].refs = ev[e].refs - 1
        /\ g[e].ids = IF Kind[r] = "ids" THEN ev[e].ids - 1 ELSE ev[e].ids
    BY <2>1, <1>5
  <2> QED
    BY <2>2, <2>3, <2>4, <2>5
<1>8. ev[e].refs \in Int
  BY <1>3, <1>t DEF Rec
<1>9. \A i \in DOMAIN Tail(q) : i + 1 \in DOMAIN q /\ Tail(q)[i] = q[i + 1] /\ q[i + 1] # e /\ i \in Int
  BY <1>1, <1>3, <1>t, Tailed DEF ReadyOnce
<1>10. ReadyOnce'
  <2>1. ASSUME NEW p \in Scope, NEW i \in DOMAIN readyList'[p]
        PROVE  ev'[readyList'[p][i]].made /\ ev'[readyList'[p][i]].on = Nobody
    <3>1. CASE p = r
      <4>1. i + 1 \in DOMAIN readyList[r] /\ readyList'[p][i] = readyList[r][i + 1] /\ readyList[r][i + 1] # e
        BY <1>2, <1>9, <2>1, <3>1
      <4>2. readyList[r][i + 1] \in Occ
        BY <4>1, <1>t DEF ReadyOnce
      <4> QED
        BY <4>1, <4>2, <1>7, <1>t DEF ReadyOnce
    <3>2. CASE p # r
      <4>1. i \in DOMAIN readyList[p] /\ readyList'[p][i] = readyList[p][i]
        BY <1>2, <2>1, <3>2
      <4>2. readyList[p][i] \in Occ
        BY <4>1, <1>t DEF ReadyOnce
      <4> QED
        <5>1. ev[readyList[p][i]].made /\ ev[readyList[p][i]].on = Nobody
          BY <4>1, <1>t DEF ReadyOnce
        <5>2. \A d \in Occ : ev[d].made /\ ev[d].on = Nobody => ev'[d].made /\ ev'[d].on = Nobody
          BY <1>7
        <5> QED
          BY <4>1, <4>2, <5>1, <5>2
    <3> QED
      BY <3>1, <3>2
  <2>2. ASSUME NEW p \in Scope, NEW s \in Scope, NEW i \in DOMAIN readyList'[p], NEW j \in DOMAIN readyList'[s],
               readyList'[p][i] = readyList'[s][j]
        PROVE  p = s /\ i = j
    <3> PICK k : k = IF p = r THEN i + 1 ELSE i
      OBVIOUS
    <3> PICK l : l = IF s = r THEN j + 1 ELSE j
      OBVIOUS
    <3>1. k \in DOMAIN readyList[p] /\ readyList'[p][i] = readyList[p][k]
      BY <1>2, <1>9, <2>2
    <3>2. l \in DOMAIN readyList[s] /\ readyList'[s][j] = readyList[s][l]
      BY <1>2, <1>9, <2>2
    <3>3. p = s /\ k = l
      <4>1. readyList[p][k] = readyList[s][l]
        BY <2>2, <3>1, <3>2
      <4> QED
        BY <3>1, <3>2, <4>1, <1>t DEF ReadyOnce
    <3> QED
      BY <3>3, <1>2, <1>9, <2>2
  <2> QED
    BY <1>2, <2>1, <2>2 DEF ReadyOnce
<1>11. ActiveMade'
  BY <1>4, <1>7, <1>t DEF ActiveMade
<1>12. CallsApart' /\ CallsOver'
  <2>1. \A d \in Occ : (ev[d].made => ev'[d].made) /\ (ev'[d].on = ev[d].on \/ ev'[d].on = Nobody)
    BY <1>7
  <2> QED
    BY <1>1, <1>t, <2>1, SameCalls
<1>13. ~Values!InList(r, e)'
  BY <1>2, <1>9 DEF Values!InList
<1>14. \A p \in Scope, d \in Occ : p # r \/ d # e => (Values!InList(p, d)' <=> Values!InList(p, d))
  <2> TAKE p \in Scope, d \in Occ
  <2> HAVE p # r \/ d # e
  <2>1. CASE p # r
    BY <1>2, <2>1 DEF Values!InList
  <2>2. CASE p = r /\ d # e
    <3>1. \A i \in DOMAIN q : i # 1 => i - 1 \in DOMAIN Tail(q) /\ Tail(q)[i - 1] = q[i]
      BY <1>1, Tailed
    <3>2. ASSUME Values!InList(r, d) PROVE Values!InList(r, d)'
      <4> PICK i \in DOMAIN q : q[i] = d
        BY <3>2 DEF Values!InList
      <4>1. i # 1
        BY <1>3, <2>2
      <4>2. i - 1 \in DOMAIN Tail(q) /\ Tail(q)[i - 1] = d
        BY <3>1, <4>1
      <4> QED
        BY <1>2, <4>2 DEF Values!InList
    <3>3. ASSUME Values!InList(r, d)' PROVE Values!InList(r, d)
      <4> PICK i \in DOMAIN Tail(q) : Tail(q)[i] = d
        BY <1>2, <3>3 DEF Values!InList
      <4>1. i + 1 \in DOMAIN q /\ q[i + 1] = d
        BY <1>9
      <4> QED
        BY <4>1 DEF Values!InList
    <3> QED
      BY <2>2, <3>2, <3>3
  <2> QED
    BY <2>1, <2>2
<1>15. ASSUME NEW d \in Occ
       PROVE  Exact(ev'[d], Values!Holders(d)', Dies(d)', Numbered(d)')
  <2>1. CASE d = e
    <3>1. Struck(ev[e], ev'[e], r, e)
      <4>1. ev[e].on # r /\ (ev[e].refs - 1 = 0 <=> ev[e].refs = 1)
        BY <1>4, <1>8, <1>t
      <4>2. \A p \in Scope : p # r => (Values!InList(p, e)' <=> Values!InList(p, e))
        BY <1>3, <1>14
      <4> QED
        BY <1>1, <1>3, <1>4, <1>7, <1>13, <4>1, <4>2 DEF Struck
    <3> QED
      BY <2>1, <3>1, StruckCounts
  <2>2. CASE d # e
    <3>1. ev'[d] = ev[d] /\ \A p \in Scope : Values!InList(p, d)' <=> Values!InList(p, d)
      BY <2>2, <1>7, <1>14
    <3> QED
      BY <1>1, <3>1, OtherCounts
  <2> QED
    BY <2>1, <2>2
<1> QED
  BY <1>10, <1>11, <1>12, <1>15 DEF HandlesInv

LEMMA ClearedCounts ==
  ASSUME Values!ResultAssumption, ResultsInv, HandlesInv, NEW r \in Scope, Values!Cleared(r), UNCHANGED <<se, calls>>
  PROVE  HandlesInv'
<1> DEFINE listed == {readyList[r][i] : i \in DOMAIN readyList[r]}
           freed(e) == IF Kind[r] = "ids" THEN ev[e].ids - 1 ELSE ev[e].ids
<1>t. CallsTyped /\ ReadyOnce /\ ActiveMade /\ ev \in [Occ -> Rec] /\ Nobody \notin Scope
  BY NoneIsNothing DEF ResultsInv, ResultsTyped, HandlesInv
<1>1. ev' = [e \in Occ |->
           IF e \in Values!Waiting(r) THEN [ev[e] EXCEPT !.on = Nobody, !.ids = freed(e)]
           ELSE IF e \in listed
             THEN [ev[e] EXCEPT !.refs = @ - 1, !.ids = freed(e),
                                !.deleted = IF ev[e].refs = 1 THEN @ + 1 ELSE @]
             ELSE ev[e]]
  BY DEF Values!Cleared
<1>2. \A d \in Occ : d \in listed <=> Values!InList(r, d)
  BY DEF Values!InList
<1>3. \A d \in Occ : d \in Values!Waiting(r) <=> ev[d].on = r
  BY DEF Values!Waiting
<1>4. /\ readyList' \in [Scope -> Seq(Occ)] /\ readyList'[r] = <<>>
      /\ \A q \in Scope : q # r => readyList'[q] = readyList[q]
  <2>1. readyList' = [readyList EXCEPT ![r] = <<>>]
    BY DEF Values!Cleared
  <2>2. <<>> \in Seq(Occ) /\ readyList \in [Scope -> Seq(Occ)]
    BY <1>t DEF ReadyOnce
  <2> QED
    BY <2>1, <2>2
<1>5. \A d \in Occ : freed(d) = IF Kind[r] = "ids" THEN ev[d].ids - 1 ELSE ev[d].ids
  OBVIOUS
<1> HIDE DEF listed, freed
<1>6. \A d \in Occ : ~Values!InList(r, d)' /\ \A q \in Scope : q # r => (Values!InList(q, d)' <=> Values!InList(q, d))
  BY <1>4 DEF Values!InList
<1>7. ASSUME NEW d \in Occ, ev[d].on = r
      PROVE  /\ ev'[d].on = Nobody /\ ev'[d].made = ev[d].made /\ ev'[d].refs = ev[d].refs
             /\ ev'[d].deleted = ev[d].deleted
             /\ ev'[d].ids = IF Kind[r] = "ids" THEN ev[d].ids - 1 ELSE ev[d].ids
  <2>1. ev'[d] = [ev[d] EXCEPT !.on = Nobody, !.ids = freed(d)]
    BY <1>1, <1>3, <1>7
  <2>2. ev[d] \in Rec
    BY <1>t
  <2> QED
    BY <1>5, <2>1, <2>2 DEF Rec
<1>8. ASSUME NEW d \in Occ, ev[d].on # r, Values!InList(r, d)
      PROVE  /\ ev'[d].on = ev[d].on /\ ev'[d].made = ev[d].made /\ ev'[d].refs = ev[d].refs - 1
             /\ ev'[d].deleted = IF ev[d].refs = 1 THEN ev[d].deleted + 1 ELSE ev[d].deleted
             /\ ev'[d].ids = IF Kind[r] = "ids" THEN ev[d].ids - 1 ELSE ev[d].ids
  <2>1. ev'[d] = [ev[d] EXCEPT !.refs = @ - 1, !.ids = freed(d),
                                !.deleted = IF ev[d].refs = 1 THEN @ + 1 ELSE @]
    BY <1>1, <1>2, <1>3, <1>8
  <2>2. ev[d] \in Rec
    BY <1>t
  <2> QED
    BY <1>5, <2>1, <2>2 DEF Rec
<1>9. ASSUME NEW d \in Occ, ev[d].on # r, ~Values!InList(r, d) PROVE ev'[d] = ev[d]
  BY <1>1, <1>2, <1>3, <1>9
<1>10. \A d \in Occ : ev'[d].made = ev[d].made /\ ev'[d].on = IF ev[d].on = r THEN Nobody ELSE ev[d].on
  BY <1>7, <1>8, <1>9
<1>11. CallsApart' /\ CallsOver'
  <2>1. \A d \in Occ : (ev[d].made => ev'[d].made) /\ (ev'[d].on = ev[d].on \/ ev'[d].on = Nobody)
    BY <1>10
  <2> QED
    BY <1>t, <2>1, SameCalls
<1>12. ActiveMade'
  BY <1>10, <1>t DEF ActiveMade
<1>13. ReadyOnce'
  <2>1. \A q \in Scope : \A i \in DOMAIN readyList'[q] :
          q # r /\ i \in DOMAIN readyList[q] /\ readyList'[q][i] = readyList[q][i]
    BY <1>4
  <2>2. ASSUME NEW q \in Scope, NEW i \in DOMAIN readyList'[q]
        PROVE  ev'[readyList'[q][i]].made /\ ev'[readyList'[q][i]].on = Nobody
    <3>1. i \in DOMAIN readyList[q] /\ readyList'[q][i] = readyList[q][i]
      BY <2>1
    <3>2. readyList[q][i] \in Occ /\ ev[readyList[q][i]].made /\ ev[readyList[q][i]].on = Nobody
      BY <3>1, <1>t DEF ReadyOnce
    <3> QED
      BY <3>1, <3>2, <1>10
  <2>3. ASSUME NEW p \in Scope, NEW q \in Scope, NEW i \in DOMAIN readyList'[p], NEW j \in DOMAIN readyList'[q],
               readyList'[p][i] = readyList'[q][j]
        PROVE  p = q /\ i = j
    <3>1. i \in DOMAIN readyList[p] /\ j \in DOMAIN readyList[q] /\ readyList[p][i] = readyList[q][j]
      BY <2>1, <2>3
    <3> QED
      BY <3>1, <1>t DEF ReadyOnce
  <2> QED
    BY <1>4, <2>2, <2>3 DEF ReadyOnce
<1>14. ASSUME NEW d \in Occ
       PROVE  Exact(ev'[d], Values!Holders(d)', Dies(d)', Numbered(d)')
  <2>1. CASE ev[d].on = r
    <3>1. Struck(ev[d], ev'[d], r, d)
      BY <1>6, <1>7, <2>1 DEF Struck
    <3> QED
      BY <3>1, StruckCounts
  <2>2. CASE ev[d].on # r /\ Values!InList(r, d)
    <3>1. ev[d].on = Nobody
      BY <1>t, <2>2 DEF ReadyOnce, Values!InList
    <3>2. Struck(ev[d], ev'[d], r, d)
      BY <1>6, <1>8, <2>2, <3>1 DEF Struck
    <3> QED
      BY <3>2, StruckCounts
  <2>3. CASE ev[d].on # r /\ ~Values!InList(r, d)
    <3>1. ev'[d] = ev[d]
      BY <1>9, <2>3
    <3>2. \A q \in Scope : Values!InList(q, d)' <=> Values!InList(q, d)
      BY <1>6, <2>3
    <3> QED
      BY <3>1, <3>2, OtherCounts
  <2> QED
    BY <2>1, <2>2, <2>3
<1> QED
  BY <1>11, <1>12, <1>13, <1>14 DEF HandlesInv

(* The whole *)

LEMMA HandlesInitially == ASSUME Values!ResultAssumption, Values!Init PROVE HandlesInv
<1>1. /\ ev = [e \in Occ |-> Values!Unmade] /\ readyList = [r \in Scope |-> <<>>]
      /\ se = [x \in Values!Handle |-> Nobody] /\ calls = <<>>
  BY DEF Values!Init
<1>n. Nobody \notin Occ /\ Nobody \notin Scope
  BY NoneIsNothing
<1>2. Values!Ongoing = {}
  BY <1>1 DEF Values!Ongoing
<1>3. \A r \in Scope, d \in Occ : ~Values!InList(r, d)
  BY <1>1 DEF Values!InList
<1>4. ASSUME NEW e \in Occ PROVE Exact(ev[e], Values!Holders(e), Dies(e), Numbered(e))
  <2>1. Values!Holders(e) = {}
    BY <1>1, <1>2, <1>3, <1>n DEF Values!Holders, Values!Refers
  <2>2. ~Dies(e)
    BY <1>2 DEF Dies
  <2>3. ev[e].on = Nobody /\ ev[e].refs = 0 /\ ~ev[e].made /\ ev[e].deleted = 0 /\ ev[e].ids = 0
    BY <1>1 DEF Values!Unmade
  <2>4. ~Numbered(e)
    BY <1>3, <1>n, <2>3 DEF Numbered, Values!Listed
  <2>5. Cardinality(Values!Holders(e)) = 0
    BY <2>1, FS_EmptySet
  <2> QED
    BY <2>1, <2>2, <2>3, <2>4, <2>5 DEF Exact
<1>5. CallsApart /\ CallsOver
  BY <1>1, <1>2 DEF CallsApart, CallsOver
<1>6. ReadyOnce
  BY <1>1 DEF ReadyOnce
<1>7. ActiveMade
  BY <1>1 DEF ActiveMade, Values!Unmade
<1> QED
  BY <1>4, <1>5, <1>6, <1>7 DEF HandlesInv

\* A second look at a handle, or at what is not a handle, does not count.
LEMMA LookCounts ==
  ASSUME Values!ResultAssumption, ResultsInv, HandlesInv,
         \/ \E x \in Values!Handle : Values!SetResult(x) \/ Values!SetHook(x)
         \/ \E p \in Pre, r \in Scope : \E S \in SUBSET Values!Free(r) : Values!MakePre(p, r, S)
         \/ \E p, q \in Pre : Values!PreOps(p, q)
         \/ \E r \in Scope : Values!Leave(r)
         \/ UNCHANGED Values!vars
  PROVE  HandlesInv'
<1>1. UNCHANGED <<se, calls, readyList>>
  BY DEF Values!SetResult, Values!SetHook, Values!MakePre, Values!PreOps, Values!PreTrigger, Values!PreUnblock, Values!PreMove, Values!Leave, Values!vars
<1>2. \/ UNCHANGED ev
      \/ \E e \in Occ : ev' = [ev EXCEPT ![e].hook = TRUE]
  <2>1. ASSUME NEW x \in Values!Handle, Values!SetHook(x) PROVE \E e \in Occ : ev' = [ev EXCEPT ![e].hook = TRUE]
    <3>1. se[x] \in Occ /\ ev' = [ev EXCEPT ![se[x]].hook = TRUE]
      BY <2>1 DEF Values!SetHook, Values!Active, ResultsInv, ResultsTyped
    <3> QED
      BY <3>1
  <2> QED
    BY <2>1 DEF Values!SetResult, Values!MakePre, Values!PreOps, Values!PreTrigger, Values!PreUnblock, Values!PreMove, Values!Leave, Values!vars
<1>3. ev \in [Occ -> Rec]
  BY DEF ResultsInv, ResultsTyped
<1>4. \A d \in Occ : /\ ev'[d].on = ev[d].on /\ ev'[d].made = ev[d].made /\ ev'[d].refs = ev[d].refs
                     /\ ev'[d].deleted = ev[d].deleted /\ ev'[d].ids = ev[d].ids
  <2>1. CASE UNCHANGED ev
    BY <2>1
  <2>2. ASSUME NEW e \in Occ, ev' = [ev EXCEPT ![e].hook = TRUE]
        PROVE  \A d \in Occ : /\ ev'[d].on = ev[d].on /\ ev'[d].made = ev[d].made /\ ev'[d].refs = ev[d].refs
                              /\ ev'[d].deleted = ev[d].deleted /\ ev'[d].ids = ev[d].ids
    BY <2>2, <1>3 DEF Rec
  <2> QED
    BY <1>2, <2>1, <2>2
<1> QED
  BY <1>1, <1>4, SameCounts

LEMMA HandlesKept ==
  ASSUME Values!ResultAssumption, "operands" \notin Misuse, ResultsInv, HandlesInv, [Values!Next]_(Values!vars)
  PROVE  HandlesInv'
<1>1. CASE UNCHANGED Values!vars
  BY <1>1, LookCounts
<1>2. CASE Values!Return
  BY <1>2, ReturnCounts
<1>3. ASSUME NEW x \in Values!Handle, NEW r \in Scope, NEW S \in Values!Results(x, r),
             Values!MakeEvent(x, r, S) \/ Values!MakeWithId(x, r, S) \/ Values!MakeInTwait(x, r, S)
      PROVE  HandlesInv'
  BY <1>3, InstantiateCounts DEF Values!MakeEvent, Values!MakeWithId, Values!MakeInTwait
<1>4. ASSUME NEW x \in Values!Handle, Values!Triggers(x) \/ Values!PlainOps(x) PROVE HandlesInv'
  <2>1. CASE Values!TriggerWith(x) \/ Values!Unblock(x)
    BY <2>1, TriggerOpCounts
  <2>2. CASE Values!SetResult(x) \/ Values!SetHook(x)
    BY <2>2, LookCounts
  <2>3. CASE Values!Drop(x)
    BY <2>3, DropCounts
  <2> QED
    BY <1>4, <2>1, <2>2, <2>3 DEF Values!Triggers, Values!PlainOps
<1>5. ASSUME NEW x \in Values!Handle, NEW y \in Values!Handle, Values!EventOps(x, y) \/ Values!Unblocker(x, y) PROVE HandlesInv'
  BY <1>5, AssignCounts, MoveCounts, UnblockerCounts DEF Values!EventOps
<1>6. ASSUME NEW x \in Typed, NEW u \in Plain, NEW keep \in BOOLEAN, NEW S \in SUBSET Slot,
             Values!Rebind(x, u, keep, S)
      PROVE  HandlesInv'
  BY <1>6, RebindCounts
<1>7. ASSUME NEW p \in Pre, NEW r \in Scope, NEW S \in SUBSET Values!Free(r), Values!MakePre(p, r, S) PROVE HandlesInv'
  BY <1>7, LookCounts
<1>8. ASSUME NEW p \in Pre, NEW q \in Pre, Values!PreOps(p, q) PROVE HandlesInv'
  BY <1>8, LookCounts
<1>9. ASSUME NEW x \in Values!Handle, NEW p \in Pre, Values!PreToEvent(x, p) PROVE HandlesInv'
  <2>1. pre[p].r \in Scope
    BY <1>9 DEF Values!PreToEvent, ResultsInv, ResultsTyped
  <2> QED
    BY <1>9, <2>1, InstantiateCounts DEF Values!PreToEvent
<1>10. ASSUME NEW r \in Scope, Values!Join(r) PROVE HandlesInv'
  BY <1>10, JoinCounts
<1>11. ASSUME NEW r \in Scope, Values!Clear(r) \/ Values!Destroy(r) PROVE HandlesInv'
  <2>1. Values!Cleared(r) /\ UNCHANGED <<se, calls>>
    BY <1>11 DEF Values!Clear, Values!Destroy
  <2> QED
    BY <2>1, ClearedCounts
<1>12. ASSUME NEW r \in Scope, Values!Leave(r) PROVE HandlesInv'
  BY <1>12, LookCounts
<1> QED
  BY <1>1, <1>2, <1>3, <1>4, <1>5, <1>6, <1>7, <1>8, <1>9, <1>10, <1>11, <1>12 DEF Values!Next

LEMMA HandlesInvExact == ASSUME HandlesInv PROVE HandlesExact
<1> SUFFICES ASSUME NEW e \in Occ
             PROVE  /\ ev[e].refs = Values!Cardinality(Values!Holders(e))
                    /\ ev[e].deleted = IF /\ ev[e].made /\ Values!Holders(e) = {}
                                          /\ \A c \in Values!Ongoing : ~(c.e = e /\ c.dies)
                                       THEN 1 ELSE 0
                    /\ ev[e].ids = IF \E r \in Scope : Kind[r] = "ids" /\ Values!Listed(e, r) THEN 1 ELSE 0
  BY DEF HandlesExact, Values!HandlesExact
<1>1. Exact(ev[e], Values!Holders(e), Dies(e), Numbered(e))
  BY DEF HandlesInv
<1>2. Values!Cardinality(Values!Holders(e)) = Cardinality(Values!Holders(e))
  BY ValuesCounting
<1>3. ~Dies(e) <=> \A c \in Values!Ongoing : ~(c.e = e /\ c.dies)
  BY DEF Dies
<1>4. Numbered(e) <=> \E r \in Scope : Kind[r] = "ids" /\ Values!Listed(e, r)
  BY DEF Numbered
<1> QED
  BY <1>1, <1>2, <1>3, <1>4 DEF Exact

\* The reference count of an occurrence is the number of handles and ready lists that
\* refer to it, at every moment at which a hook can look at it; it is deleted once,
\* after the last of them and after its trigger; the copy of its identifier is freed
\* once, when the event was joined or cleared.  The program leaves the operands of an
\* operation alone while that calls a hook, and keeps the rules for moved handles and
\* preevents.
THEOREM HandlesAreExact ==
  ASSUME Values!ResultAssumption, Misuse = {}
  PROVE  Values!Spec => []HandlesExact
<1>m. Misuse \subseteq {"operands"} /\ "operands" \notin Misuse
  OBVIOUS
<1>1. Values!Init => ResultsInv /\ HandlesInv
  BY ResultsInitially, HandlesInitially
<1>2. ResultsInv /\ HandlesInv /\ [Values!Next]_(Values!vars) => ResultsInv' /\ HandlesInv'
  BY <1>m, ResultsKept, HandlesKept
<1>3. HandlesInv => HandlesExact
  BY HandlesInvExact
<1> QED
  BY <1>1, <1>2, <1>3, PTL DEF Values!Spec
===============================================================================
