--------------------------- MODULE RendezvousMemory ---------------------------
(***************************************************************************)
(* The memory of events: reference counts are exact, an event lives as     *)
(* long as somebody refers to it, and the lists of the rendezvous agree    *)
(* with the events, through any nesting of triggers, hooks and clear().    *)
(* The invariant has two layers.  ListInv says where an event can be       *)
(* found; it needs no counting.  CountInv counts who refers to it.         *)
(***************************************************************************)
EXTENDS RendezvousProofs

\* Calls in progress on stack s: a trigger of e that has called its hook, and
\* a clear() of r that has begun.
Finishes(s, e)  == \E i \in 1 .. Len(s) : s[i].op = "finish" /\ s[i].ev = e
Finishing(s, e) == \E i \in 1 .. Len(s) : s[i] = [op |-> "finish", ev |-> e, reduce |-> FALSE]
Sweeping(s, r)  == \E i \in 1 .. Len(s) : s[i].op \in {"visit", "next"} /\ s[i].r = r

\* Events that have triggered and that the runtime itself still uses.
Joining(e) == \E r \in Explicit : \E i \in 1 .. Len(ready[r]) : ready[r][i] = e
Spent(e) == Joining(e) \/ Finishes(stack, e)

\* The list of r and the events that name r.
Listed(r) ==
  /\ \A e \in Event : rdv[e] = r => \E i \in 1 .. Len(waiting[r]) : waiting[r][i] = e
  /\ \A i, j \in 1 .. Len(waiting[r]) : waiting[r][i] = waiting[r][j] => i = j
  /\ \A i \in 1 .. Len(waiting[r]) :
       /\ life[waiting[r][i]] # "unborn"
       /\ rdv[waiting[r][i]] = r \/ Sweeping(stack, r)
  /\ Sweeping(stack, r) => \A e \in Event : rdv[e] # r

ListInv ==
  /\ \A e \in Event : life[e] = "unborn" => rdv[e] = None
  /\ \A e \in Event : Spent(e) => rdv[e] = None /\ life[e] # "unborn"
  /\ \A r \in Explicit : \A i, j \in 1 .. Len(ready[r]) : ready[r][i] = ready[r][j] => i = j
  /\ \A r \in Rdv : Listed(r)

CountInv ==
  \A e \in Event :
    /\ IsFiniteSet(HooksTo(e)) /\ IsFiniteSet(ReadyOn(e))
    /\ refs[e] = References(e)
    /\ life[e] # "live" => refs[e] = 0 /\ rdv[e] = None
    /\ life[e] = "live" /\ refs[e] = 0 => Finishing(stack, e)

(***************************************************************************)
(* The call stack, frame by frame.                                         *)
(***************************************************************************)

LEMMA OnPush ==
  ASSUME NEW s \in Seq(Frame), NEW f \in Frame, NEW t, t = <<f>> \o s
  PROVE  /\ \A e : Finishes(t, e) <=> (f.op = "finish" /\ f.ev = e) \/ Finishes(s, e)
         /\ \A e : Finishing(t, e) <=>
              f = [op |-> "finish", ev |-> e, reduce |-> FALSE] \/ Finishing(s, e)
         /\ \A r : Sweeping(t, r) <=>
              (f.op \in {"visit", "next"} /\ f.r = r) \/ Sweeping(s, r)
<1>1. /\ Len(t) = Len(s) + 1 /\ Len(s) \in Nat /\ t[1] = f
      /\ \A j \in 1 .. Len(s) : t[j + 1] = s[j] /\ j + 1 \in 1 .. Len(t)
  OBVIOUS
<1>2. /\ 1 \in 1 .. Len(t)
      /\ \A i \in 1 .. Len(t) : i # 1 => i - 1 \in 1 .. Len(s) /\ t[i] = s[i - 1]
  BY <1>1
<1>3. \A e : Finishes(t, e) <=> (f.op = "finish" /\ f.ev = e) \/ Finishes(s, e)
  <2> TAKE e
  <2>1. ASSUME NEW i \in 1 .. Len(t), t[i].op = "finish" /\ t[i].ev = e
        PROVE  (f.op = "finish" /\ f.ev = e) \/ Finishes(s, e)
    BY <1>1, <1>2, <2>1 DEF Finishes
  <2>2. ASSUME NEW i \in 1 .. Len(s), s[i].op = "finish" /\ s[i].ev = e
        PROVE  Finishes(t, e)
    BY <1>1, <2>2 DEF Finishes
  <2>3. f.op = "finish" /\ f.ev = e => Finishes(t, e)
    BY <1>1, <1>2 DEF Finishes
  <2>4. QED
    BY <2>1, <2>2, <2>3, Zenon DEF Finishes
<1>4. \A e : Finishing(t, e) <=>
        f = [op |-> "finish", ev |-> e, reduce |-> FALSE] \/ Finishing(s, e)
  <2> TAKE e
  <2>1. PICK g : g = [op |-> "finish", ev |-> e, reduce |-> FALSE]
    OBVIOUS
  <2>2. (\E i \in 1 .. Len(t) : t[i] = g) <=> f = g \/ \E i \in 1 .. Len(s) : s[i] = g
    BY <1>1, <1>2
  <2>3. QED
    BY <2>1, <2>2, Zenon DEF Finishing
<1>5. \A r : Sweeping(t, r) <=> (f.op \in {"visit", "next"} /\ f.r = r) \/ Sweeping(s, r)
  BY <1>1, <1>2 DEF Sweeping
<1>6. QED
  BY <1>3, <1>4, <1>5

LEMMA OnTop ==
  ASSUME NEW s \in Seq(Frame), s # <<>>
  PROVE  /\ Head(s) \in Frame /\ Tail(s) \in Seq(Frame) /\ s = <<Head(s)>> \o Tail(s)
         /\ \A e : Finishes(s, e) <=>
              (Head(s).op = "finish" /\ Head(s).ev = e) \/ Finishes(Tail(s), e)
         /\ \A e : Finishing(s, e) <=>
              \/ Head(s) = [op |-> "finish", ev |-> e, reduce |-> FALSE]
              \/ Finishing(Tail(s), e)
         /\ \A r : Sweeping(s, r) <=>
              (Head(s).op \in {"visit", "next"} /\ Head(s).r = r) \/ Sweeping(Tail(s), r)
<1>1. Head(s) \in Frame /\ Tail(s) \in Seq(Frame) /\ s = <<Head(s)>> \o Tail(s)
  OBVIOUS
<1>2. QED
  BY <1>1, OnPush, Zenon

(***************************************************************************)
(* Lists.                                                                  *)
(***************************************************************************)

\* Unlinking takes the event, and only the event, out of the list.
LEMMA UnlinkExact ==
  ASSUME TypeOK, ListInv, NEW e \in Event, rdv[e] \in Rdv
  PROVE  /\ \A x \in Event :
              (\E i \in 1 .. Len(Unlink(e)) : Unlink(e)[i] = x) <=>
              x # e /\ \E i \in 1 .. Len(waiting[rdv[e]]) : waiting[rdv[e]][i] = x
         /\ \A i, j \in 1 .. Len(Unlink(e)) : Unlink(e)[i] = Unlink(e)[j] => i = j
         /\ \A i \in 1 .. Len(Unlink(e)) : Unlink(e)[i] \in Event
<1>1. PICK r \in Rdv : r = rdv[e]
  OBVIOUS
<1>2. PICK list \in Seq(Event) : list = waiting[r]
  BY DEF TypeOK
<1>3. /\ \A i, j \in 1 .. Len(list) : list[i] = list[j] => i = j
      /\ \E i \in 1 .. Len(list) : list[i] = e
  BY <1>1, <1>2 DEF ListInv, Listed
<1>4. PICK at \in 1 .. Len(list) : at = CHOOSE i \in DOMAIN list : list[i] = e
  BY <1>3
<1>5. list[at] = e
  BY <1>3, <1>4
<1>6. PICK n \in Nat : n = Len(list)
  BY <1>2
<1>7. PICK u : u = SubSeq(list, 1, at - 1) \o SubSeq(list, at + 1, n)
  OBVIOUS
<1>8. Unlink(e) = u
  <2>1. DOMAIN list = 1 .. Len(list)
    BY <1>2
  <2>2. \E i \in DOMAIN waiting[rdv[e]] : waiting[rdv[e]][i] = e
    BY <1>1, <1>2, <1>3, <2>1
  <2>3. QED
    BY <1>1, <1>2, <1>4, <1>6, <1>7, <2>2, Zenon DEF Unlink
<1>9. at \in 1 .. n /\ \A i \in 1 .. n : list[i] \in Event
  BY <1>2, <1>4, <1>6
<1>10. /\ Len(u) = n - 1
       /\ \A i \in 1 .. n - 1 : u[i] = IF i < at THEN list[i] ELSE list[i + 1]
  <2>1. PICK p : p = SubSeq(list, 1, at - 1)
    OBVIOUS
  <2>2. PICK q : q = SubSeq(list, at + 1, n)
    OBVIOUS
  <2>3. /\ p \in Seq(Event) /\ Len(p) = at - 1
        /\ \A i \in 1 .. at - 1 : p[i] = list[i]
    BY <1>9, <2>1, SubSeqProperties
  <2>4. /\ q \in Seq(Event) /\ Len(q) = n - at
        /\ \A i \in 1 .. n - at : q[i] = list[at + i]
    BY <1>9, <2>2, SubSeqProperties
  <2>5. u = p \o q
    BY <1>7, <2>1, <2>2
  <2>6. Len(u) = n - 1
    BY <1>9, <2>3, <2>4, <2>5
  <2>7. \A i \in 1 .. n - 1 : i < at => u[i] = list[i]
    BY <1>9, <2>3, <2>4, <2>5
  <2>8. \A i \in 1 .. n - 1 : i >= at => u[i] = q[i - (at - 1)] /\ i - (at - 1) \in 1 .. n - at
    BY <1>9, <2>3, <2>4, <2>5
  <2>9. \A i \in 1 .. n - 1 : i >= at => u[i] = list[i + 1]
    BY <1>9, <2>4, <2>8
  <2>10. QED
    BY <1>9, <2>6, <2>7, <2>9
<1>11. \A x : (\E i \in 1 .. n - 1 : u[i] = x) <=> x # e /\ \E i \in 1 .. n : list[i] = x
  <2>1. \A i \in 1 .. n - 1 : i \in 1 .. n /\ i + 1 \in 1 .. n
    OBVIOUS
  <2>2. \A i \in 1 .. n - 1 : u[i] # e /\ \E j \in 1 .. n : list[j] = u[i]
    <3> TAKE i \in 1 .. n - 1
    <3>1. CASE i < at
      <4>1. u[i] = list[i] /\ i \in 1 .. n /\ i # at
        BY <1>9, <1>10, <2>1, <3>1
      <4>2. QED
        BY <1>3, <1>5, <1>6, <4>1
    <3>2. CASE ~(i < at)
      <4>1. u[i] = list[i + 1] /\ i + 1 \in 1 .. n /\ i + 1 # at
        BY <1>9, <1>10, <2>1, <3>2
      <4>2. QED
        BY <1>3, <1>5, <1>6, <4>1
    <3>3. QED
      BY <3>1, <3>2
  <2>3. \A j \in 1 .. n : list[j] # e => \E i \in 1 .. n - 1 : u[i] = list[j]
    <3> TAKE j \in 1 .. n
    <3>1. CASE j < at
      BY <1>9, <1>10, <3>1
    <3>2. CASE j > at
      <4>1. j - 1 \in 1 .. n - 1 /\ ~(j - 1 < at) /\ j - 1 + 1 = j
        BY <1>9, <3>2
      <4>2. QED
        BY <1>10, <4>1
    <3>3. QED
      BY <1>5, <1>9, <3>1, <3>2
  <2>4. QED
    BY <2>2, <2>3
<1>12. \A i, j \in 1 .. n - 1 : u[i] = u[j] => i = j
  <2> SUFFICES ASSUME NEW i \in 1 .. n - 1, NEW j \in 1 .. n - 1, u[i] = u[j]
               PROVE  i = j
    OBVIOUS
  <2>1. i \in 1 .. n /\ j \in 1 .. n /\ i + 1 \in 1 .. n /\ j + 1 \in 1 .. n
    OBVIOUS
  <2>2. QED
    BY <1>3, <1>6, <1>9, <1>10, <2>1
<1>13. \A i \in 1 .. n - 1 : u[i] \in Event
  BY <1>9, <1>10
<1>14. Len(Unlink(e)) = n - 1 /\ waiting[rdv[e]] = list
  BY <1>1, <1>2, <1>8, <1>10
<1>15. \A x \in Event : (\E i \in 1 .. Len(u) : u[i] = x) <=>
                        x # e /\ \E i \in 1 .. Len(list) : list[i] = x
  BY <1>6, <1>10, <1>11
<1>16. \A i, j \in 1 .. Len(u) : u[i] = u[j] => i = j
  BY <1>10, <1>12
<1>17. \A i \in 1 .. Len(u) : u[i] \in Event
  BY <1>10, <1>13
<1>18. QED
  BY <1>8, <1>14, <1>15, <1>16, <1>17, Zenon

(***************************************************************************)
(* ListInv is inductive.                                                   *)
(***************************************************************************)

\* A step that moves no event from or to a list of waiting events.
LEMMA QuietLists ==
  ASSUME TypeOK, ListInv, waiting' = waiting, rdv' = rdv,
         \A x \in Event : life'[x] = life[x] \/ life'[x] = "deleted",
         \A r \in Explicit : \/ ready'[r] \in {ready[r], <<>>}
                             \/ ready[r] # <<>> /\ ready'[r] = Tail(ready[r]),
         \A x \in Event : Finishes(stack', x) => Finishes(stack, x),
         \A r \in Rdv : Sweeping(stack', r) <=> Sweeping(stack, r)
  PROVE  ListInv'
<1>1. \A r \in Explicit :
        /\ \A i \in 1 .. Len(ready'[r]) : \E k \in 1 .. Len(ready[r]) : ready'[r][i] = ready[r][k]
        /\ \A i, j \in 1 .. Len(ready'[r]) : ready'[r][i] = ready'[r][j] => i = j
  <2> TAKE r \in Explicit
  <2>1. PICK list \in Seq(Event) : list = ready[r]
    BY DEF TypeOK
  <2>2. \A i, j \in 1 .. Len(list) : list[i] = list[j] => i = j
    BY <2>1 DEF ListInv
  <2>3. CASE ready'[r] = ready[r]
    BY <2>1, <2>2, <2>3
  <2>4. CASE ready'[r] = <<>>
    BY <2>4
  <2>5. CASE list # <<>> /\ ready'[r] = Tail(list)
    <3>1. /\ Len(Tail(list)) = Len(list) - 1
          /\ \A i \in 1 .. Len(Tail(list)) : Tail(list)[i] = list[i + 1] /\ i + 1 \in 1 .. Len(list)
      BY <2>5
    <3>2. \A i, j \in 1 .. Len(Tail(list)) : Tail(list)[i] = Tail(list)[j] => i = j
      BY <2>2, <3>1
    <3>3. QED
      BY <2>1, <2>5, <3>1, <3>2
  <2>6. QED
    BY <2>1, <2>3, <2>4, <2>5
<1>2. \A x \in Event : Joining(x)' => Joining(x)
  BY <1>1 DEF Joining
<1>3. \A x \in Event : Spent(x)' => Spent(x)
  BY <1>2 DEF Spent
<1>4. \A x \in Event : life'[x] = "unborn" => life[x] = "unborn"
  OBVIOUS
<1>5. \A r \in Rdv : Listed(r)'
  <2> TAKE r \in Rdv
  <2>1. \A i \in 1 .. Len(waiting[r]) : waiting[r][i] \in Event
    BY DEF TypeOK
  <2>2. Listed(r)
    BY DEF ListInv
  <2>3. QED
    BY <1>4, <2>1, <2>2 DEF Listed
<1>6. QED
  BY <1>1, <1>3, <1>4, <1>5 DEF ListInv

\* The lists while an event leaves that of its rendezvous.
LEMMA UnlinkLists ==
  ASSUME TypeOK, ListInv, NEW e \in Event, rdv[e] \in Rdv,
         rdv' = [rdv EXCEPT ![e] = None],
         waiting' = [waiting EXCEPT ![rdv[e]] = Unlink(e)],
         \A x \in Event : life'[x] = life[x] \/ life'[x] = "deleted",
         \A r \in Rdv : Sweeping(stack', r) <=> Sweeping(stack, r)
  PROVE  /\ \A r \in Rdv : Listed(r)'
         /\ \A x \in Event : life'[x] = "unborn" => rdv'[x] = None
<1>1. PICK q \in Rdv : q = rdv[e]
  OBVIOUS
<1>2. /\ q # None
      /\ \A x \in Event : rdv'[x] = IF x = e THEN None ELSE rdv[x]
      /\ \A r \in Rdv : waiting'[r] = IF r = q THEN Unlink(e) ELSE waiting[r]
  BY <1>1, ConstantsAssumption DEF TypeOK, Rdv, Blocking
<1>3. \A r \in Rdv : r # None
  BY ConstantsAssumption DEF Rdv, Blocking
<1>4. \A r \in Rdv : Listed(r)'
  <2> TAKE r \in Rdv
  <2>1. Listed(r) /\ \A i \in 1 .. Len(waiting[r]) : waiting[r][i] \in Event
    BY DEF ListInv, TypeOK
  <2>2. ~Sweeping(stack, q)
    BY <1>1 DEF ListInv, Listed
  <2>3. CASE r # q
    <3>1. waiting'[r] = waiting[r]
      BY <1>2, <2>3
    <3>2. \A i \in 1 .. Len(waiting[r]) : waiting[r][i] # e \/ Sweeping(stack, r)
      BY <1>1, <2>1, <2>3 DEF Listed
    <3>3. \A x \in Event : rdv'[x] = r => rdv[x] = r
      BY <1>2, <1>3
    <3>4. QED
      BY <1>2, <2>1, <3>1, <3>2, <3>3 DEF Listed
  <2>4. CASE r = q
    <3>1. PICK u : u = Unlink(e)
      OBVIOUS
    <3>2. waiting'[r] = u
      BY <1>2, <2>4, <3>1
    <3>3. /\ \A x \in Event :
               (\E i \in 1 .. Len(u) : u[i] = x) <=>
               x # e /\ \E i \in 1 .. Len(waiting[r]) : waiting[r][i] = x
          /\ \A i, j \in 1 .. Len(u) : u[i] = u[j] => i = j
          /\ \A i \in 1 .. Len(u) : u[i] \in Event
      BY <1>1, <2>4, <3>1, UnlinkExact
    <3>4. \A x \in Event : rdv'[x] = r => x # e /\ rdv[x] = r
      BY <1>2, <1>3
    <3>5. \A i \in 1 .. Len(u) : u[i] # e /\ rdv[u[i]] = r /\ life[u[i]] # "unborn"
      BY <2>1, <2>2, <2>4, <3>3 DEF Listed
    <3>6. \A i \in 1 .. Len(u) : rdv'[u[i]] = r /\ life'[u[i]] # "unborn"
      BY <1>2, <3>3, <3>5
    <3>7. \A x \in Event : rdv'[x] = r => \E i \in 1 .. Len(u) : u[i] = x
      BY <2>1, <3>3, <3>4 DEF Listed
    <3>8. QED
      BY <2>2, <2>4, <3>2, <3>3, <3>6, <3>7 DEF Listed
  <2>5. QED
    BY <2>3, <2>4
<1>5. \A x \in Event : life'[x] = "unborn" => rdv'[x] = None
  BY <1>2 DEF ListInv
<1>6. QED
  BY <1>4, <1>5

\* A hook that is called only puts a trigger on the stack.
LEMMA HookFrames ==
  ASSUME TypeOK, NEW e \in Event, NEW rest \in Seq(Frame), CallHook(e, rest)
  PROVE  /\ \A x : Finishes(stack', x) <=> Finishes(rest, x)
         /\ \A x : Finishing(stack', x) <=> Finishing(rest, x)
         /\ \A r : Sweeping(stack', r) <=> Sweeping(rest, r)
<1>1. CASE hook[e] = None
  BY <1>1 DEF CallHook
<1>2. CASE hook[e] # None
  <2>1. PICK f \in Frame : f = [op |-> "trigger", ev |-> hook[e]]
    BY <1>2 DEF TypeOK, Frame
  <2>2. stack' = <<f>> \o rest /\ f.op = "trigger"
    BY <1>2, <2>1 DEF CallHook
  <2>3. \A x : f # [op |-> "finish", ev |-> x, reduce |-> FALSE]
    BY <2>2
  <2>4. QED
    BY <2>2, <2>3, OnPush
<1>3. QED
  BY <1>1, <1>2

\* What a call of user code on top of a trigger puts there.
LEMMA UserFrames ==
  ASSUME TypeOK, NEW e \in Event, NEW b \in BOOLEAN, NEW rest \in Seq(Frame),
         stack' = <<[op |-> "user"], [op |-> "finish", ev |-> e, reduce |-> b]>> \o rest
  PROVE  /\ \A x : Finishes(stack', x) <=> x = e \/ Finishes(rest, x)
         /\ \A x : Finishing(stack', x) <=> (x = e /\ ~b) \/ Finishing(rest, x)
         /\ \A r : Sweeping(stack', r) <=> Sweeping(rest, r)
<1>1. PICK usr \in Frame, fin \in Frame :
        usr = [op |-> "user"] /\ fin = [op |-> "finish", ev |-> e, reduce |-> b]
  BY DEF Frame
<1>2. PICK t \in Seq(Frame) : t = <<fin>> \o rest
  BY ConsFrame
<1>3. stack' = <<usr>> \o t
  BY <1>1, <1>2
<1>4. /\ usr.op = "user" /\ fin.op = "finish" /\ fin.ev = e
      /\ \A x : usr # [op |-> "finish", ev |-> x, reduce |-> FALSE]
      /\ \A x : fin = [op |-> "finish", ev |-> x, reduce |-> FALSE] <=> x = e /\ ~b
  BY <1>1
<1>5. /\ \A x : Finishes(t, x) <=> x = e \/ Finishes(rest, x)
      /\ \A x : Finishing(t, x) <=> (x = e /\ ~b) \/ Finishing(rest, x)
      /\ \A r : Sweeping(t, r) <=> Sweeping(rest, r)
  BY <1>2, <1>4, OnPush
<1>6. QED
  BY <1>3, <1>4, <1>5, OnPush

\* Triggering keeps the lists, wherever it is called from.
LEMMA TriggerLists ==
  ASSUME TypeOK, ListInv, NEW e \in Event, NEW count \in [Event -> Int],
         NEW rest \in Seq(Frame), SimpleTrigger(e, count, rest),
         \A x : Finishes(rest, x) <=> Finishes(stack, x),
         \A r : Sweeping(rest, r) <=> Sweeping(stack, r)
  PROVE  ListInv'
<1>0. \A D, n : DeleteUnused(D, n) => \A x \in Event : life'[x] = life[x] \/ life'[x] = "deleted"
  BY DEF DeleteUnused
<1>1. CASE TriggerEmpty(e, count, rest)
  BY <1>0, <1>1, QuietLists DEF TriggerEmpty
<1>2. CASE TriggerGather(e, count, rest)
  <2>1. /\ rdv[e] \in Rdv /\ ready' = ready
        /\ rdv' = [rdv EXCEPT ![e] = None]
        /\ waiting' = [waiting EXCEPT ![rdv[e]] = Unlink(e)]
    BY <1>2 DEF TriggerGather, Rdv, Blocking
  <2>2. /\ \A x : Finishes(stack', x) <=> Finishes(stack, x)
        /\ \A r : Sweeping(stack', r) <=> Sweeping(stack, r)
    BY <1>2, HookFrames DEF TriggerGather
  <2>3. \A x \in Event : life'[x] = life[x] \/ life'[x] = "deleted"
    BY <1>0, <1>2 DEF TriggerGather
  <2>4. /\ \A r \in Rdv : Listed(r)'
        /\ \A x \in Event : life'[x] = "unborn" => rdv'[x] = None
    BY <2>1, <2>2, <2>3, UnlinkLists
  <2>5. \A x \in Event : Spent(x)' => rdv'[x] = None /\ life'[x] # "unborn"
    <3>1. \A x \in Event : Spent(x)' => Spent(x)
      BY <2>1, <2>2 DEF Spent, Joining
    <3>2. QED
      BY <2>1, <2>3, <3>1 DEF ListInv, TypeOK
  <2>6. QED
    BY <2>1, <2>4, <2>5 DEF ListInv
<1>3. CASE TriggerExplicit(e, count, rest)
  <2>1. /\ rdv[e] \in Rdv /\ rdv[e] # None
        /\ rdv' = [rdv EXCEPT ![e] = None]
        /\ waiting' = [waiting EXCEPT ![rdv[e]] = Unlink(e)]
    BY <1>3, ConstantsAssumption DEF TriggerExplicit, Rdv, Blocking
  <2>2. /\ \A x : Finishes(stack', x) <=> Finishes(stack, x)
        /\ \A r : Sweeping(stack', r) <=> Sweeping(stack, r)
    BY <1>3, HookFrames DEF TriggerExplicit
  <2>3. \A x \in Event : life'[x] = life[x] \/ life'[x] = "deleted"
    BY <1>0, <1>3 DEF TriggerExplicit
  <2>4. /\ \A r \in Rdv : Listed(r)'
        /\ \A x \in Event : life'[x] = "unborn" => rdv'[x] = None
    BY <2>1, <2>2, <2>3, UnlinkLists
  <2>5. \A r \in Explicit : \A i \in 1 .. Len(ready[r]) : ready[r][i] # e
    BY <2>1 DEF ListInv, Spent, Joining
  <2>6. \A r \in Explicit :
          /\ \A i \in 1 .. Len(ready'[r]) :
               ready'[r][i] = e \/ \E k \in 1 .. Len(ready[r]) : ready'[r][i] = ready[r][k]
          /\ \A i, j \in 1 .. Len(ready'[r]) : ready'[r][i] = ready'[r][j] => i = j
    <3> TAKE r \in Explicit
    <3>1. PICK list \in Seq(Event) : list = ready[r]
      BY DEF TypeOK
    <3>2. \A i, j \in 1 .. Len(list) : list[i] = list[j] => i = j
      BY <3>1 DEF ListInv
    <3>3. CASE r # rdv[e]
      <4>1. ready'[r] = list
        BY <1>3, <3>1, <3>3 DEF TriggerExplicit, TypeOK
      <4>2. QED
        BY <3>1, <3>2, <4>1
    <3>4. CASE r = rdv[e]
      <4>1. ready'[r] = Append(list, e)
        BY <1>3, <3>1, <3>4 DEF TriggerExplicit, TypeOK
      <4>2. PICK n \in Nat : n = Len(list)
        OBVIOUS
      <4>3. PICK a : a = Append(list, e)
        OBVIOUS
      <4>4. Len(a) = n + 1 /\ a[n + 1] = e /\ \A i \in 1 .. n : a[i] = list[i]
        BY <4>2, <4>3
      <4>5. \A i \in 1 .. n + 1 : i \in 1 .. n \/ i = n + 1
        OBVIOUS
      <4>6. \A i \in 1 .. n : a[i] # e
        BY <2>5, <3>1, <4>2, <4>4
      <4>7. \A i, j \in 1 .. n + 1 : a[i] = a[j] => i = j
        BY <3>2, <4>2, <4>4, <4>5, <4>6
      <4>8. \A i \in 1 .. n + 1 : a[i] = e \/ \E k \in 1 .. n : a[i] = list[k]
        BY <4>4, <4>5
      <4>9. QED
        BY <3>1, <4>1, <4>2, <4>3, <4>4, <4>7, <4>8
    <3>5. QED
      BY <3>3, <3>4
  <2>7. \A x \in Event : Spent(x)' => x = e \/ Spent(x)
    <3>1. \A x \in Event : Joining(x)' => x = e \/ Joining(x)
      BY <2>6 DEF Joining
    <3>2. QED
      BY <2>2, <3>1 DEF Spent
  <2>8. \A x \in Event : Spent(x)' => rdv'[x] = None /\ life'[x] # "unborn"
    <3>1. life[e] # "unborn"
      BY <2>1 DEF ListInv
    <3>2. QED
      BY <2>1, <2>3, <2>7, <3>1 DEF ListInv, TypeOK
  <2>9. QED
    BY <2>4, <2>6, <2>8 DEF ListInv
<1>4. CASE TriggerFunctional(e, count, rest)
  <2>1. /\ rdv[e] \in Rdv /\ rdv[e] # None /\ ready' = ready /\ life' = life
        /\ rdv' = [rdv EXCEPT ![e] = None]
        /\ waiting' = [waiting EXCEPT ![rdv[e]] = Unlink(e)]
    BY <1>4, ConstantsAssumption DEF TriggerFunctional, Rdv
  <2>2. /\ \A x : Finishes(stack', x) <=> x = e \/ Finishes(stack, x)
        /\ \A r : Sweeping(stack', r) <=> Sweeping(stack, r)
    <3>1. (count[e] > 0) \in BOOLEAN
      OBVIOUS
    <3>2. stack' = <<[op |-> "user"],
                     [op |-> "finish", ev |-> e, reduce |-> count[e] > 0]>> \o rest
      BY <1>4 DEF TriggerFunctional
    <3>3. QED
      BY <3>1, <3>2, UserFrames
  <2>3. /\ \A r \in Rdv : Listed(r)'
        /\ \A x \in Event : life'[x] = "unborn" => rdv'[x] = None
    BY <2>1, <2>2, UnlinkLists
  <2>4. \A x \in Event : Spent(x)' => x = e \/ Spent(x)
    BY <2>1, <2>2 DEF Spent, Joining
  <2>5. \A x \in Event : Spent(x)' => rdv'[x] = None /\ life'[x] # "unborn"
    <3>1. life[e] # "unborn"
      BY <2>1 DEF ListInv
    <3>2. QED
      BY <2>1, <2>4, <3>1 DEF ListInv, TypeOK
  <2>6. QED
    BY <2>1, <2>3, <2>5 DEF ListInv
<1>5. QED
  BY <1>1, <1>2, <1>3, <1>4 DEF SimpleTrigger

\* An event that is made on a rendezvous never joins a list that is being swept:
\* the owner of the rendezvous, innermost on the stack, is not clearing it.
LEMMA MakerSweepsNot ==
  ASSUME WakeInv, NEW e \in Event, NEW r \in Rdv, MakeEvent(e, r)
  PROVE  ~Sweeping(stack, r)
<1> SUFFICES ASSUME NEW i \in 1 .. Len(stack),
                    stack[i].op \in {"visit", "next"}, stack[i].r = r
             PROVE  FALSE
  BY DEF Sweeping
<1>1. stack \in Seq(Frame) /\ StackOK(stack, status) /\ stack[i] \in Frame
  BY DEF WakeInv, TypeOK
<1>2. r \in Blocking
  BY <1>1 DEF Frame
<1>3. PICK c \in Closure : c = OwnerOf(r)
  BY <1>2, OwnedApart
<1>4. stack # <<>> /\ stack[1] = [op |-> "run", c |-> c]
  BY <1>1, <1>2, <1>3 DEF MakeEvent, TopIs
<1>5. 1 \in 1 .. Len(stack) /\ Fits(stack[1], 1 + 1, stack, status)
  BY <1>1, <1>4 DEF StackOK
<1>6. /\ status[c] = "running"
      /\ \A j \in 1 + 1 .. Len(stack) : stack[j].op \in {"run", "twait"} => stack[j].c # c
  BY <1>4, <1>5 DEF Fits
<1>7. Fits(stack[i], i + 1, stack, status)
  BY <1>1 DEF StackOK
<1>8. PICK j \in i + 1 .. Len(stack) : stack[j].op = "run" /\ stack[j].c = c
  BY <1>3, <1>6, <1>7 DEF Fits, ClearOps
<1>9. j \in 1 + 1 .. Len(stack)
  OBVIOUS
<1>10. QED
  BY <1>6, <1>8, <1>9

\* What the frames of the innermost calls have to do with the lists.
Plain(f) == f.op \notin {"finish", "visit", "next"}

LEMMA PlainFrames ==
  ASSUME TypeOK, NEW f \in Frame, Plain(f)
  PROVE  /\ stack' = <<f>> \o stack =>
              /\ \A x : Finishes(stack', x) <=> Finishes(stack, x)
              /\ \A r : Sweeping(stack', r) <=> Sweeping(stack, r)
         /\ stack # <<>> /\ Head(stack).op \notin {"visit", "next"} =>
              /\ stack' = Tail(stack) =>
                   /\ \A x : Finishes(stack', x) => Finishes(stack, x)
                   /\ \A r : Sweeping(stack', r) <=> Sweeping(stack, r)
              /\ stack' = <<f>> \o Tail(stack) =>
                   /\ \A x : Finishes(stack', x) => Finishes(stack, x)
                   /\ \A r : Sweeping(stack', r) <=> Sweeping(stack, r)
<1>0. stack \in Seq(Frame)
  BY DEF TypeOK
<1>1. ASSUME stack' = <<f>> \o stack
      PROVE  /\ \A x : Finishes(stack', x) <=> Finishes(stack, x)
             /\ \A r : Sweeping(stack', r) <=> Sweeping(stack, r)
  BY <1>0, <1>1, OnPush DEF Plain
<1>2. ASSUME stack # <<>>, Head(stack).op \notin {"visit", "next"}, stack' = Tail(stack)
      PROVE  /\ \A x : Finishes(stack', x) => Finishes(stack, x)
             /\ \A r : Sweeping(stack', r) <=> Sweeping(stack, r)
  BY <1>0, <1>2, OnTop
<1>3. ASSUME stack # <<>>, Head(stack).op \notin {"visit", "next"},
             stack' = <<f>> \o Tail(stack)
      PROVE  /\ \A x : Finishes(stack', x) => Finishes(stack, x)
             /\ \A r : Sweeping(stack', r) <=> Sweeping(stack, r)
  <2>1. /\ Tail(stack) \in Seq(Frame)
        /\ \A x : Finishes(Tail(stack), x) => Finishes(stack, x)
        /\ \A r : Sweeping(Tail(stack), r) <=> Sweeping(stack, r)
    BY <1>0, <1>3, OnTop
  <2>2. PICK t \in Seq(Frame) : t = Tail(stack)
    BY <2>1
  <2>3. /\ \A x : Finishes(stack', x) <=> Finishes(t, x)
        /\ \A r : Sweeping(stack', r) <=> Sweeping(t, r)
    BY <1>3, <2>2, OnPush DEF Plain
  <2>4. QED
    BY <2>1, <2>2, <2>3
<1>4. QED
  BY <1>1, <1>2, <1>3

LEMMA RuntimeLists ==
  ASSUME WakeInv, ListInv, Runtime
  PROVE  ListInv'
<1>0. TypeOK /\ stack \in Seq(Frame)
  BY DEF WakeInv, TypeOK
<1>0a. stack # <<>>
  BY DEF Runtime, TriggerNext, FinishTrigger, ClearBegin, ClearVisit, ClearNext,
         ClearEnd, FreeRendezvous, FreeClosure, TwaitJoins, TwaitBlocks, TopOp
<1> DEFINE h == Head(stack)
           t == Tail(stack)
<1>0b. /\ h \in Frame /\ t \in Seq(Frame)
       /\ \A x : Finishes(stack, x) <=> (h.op = "finish" /\ h.ev = x) \/ Finishes(t, x)
       /\ \A r : Sweeping(stack, r) <=> (h.op \in {"visit", "next"} /\ h.r = r) \/ Sweeping(t, r)
  BY <1>0, <1>0a, OnTop
<1>0c. \A f \in Frame : stack' = <<f>> \o t =>
         /\ \A x : Finishes(stack', x) <=> (f.op = "finish" /\ f.ev = x) \/ Finishes(t, x)
         /\ \A r : Sweeping(stack', r) <=> (f.op \in {"visit", "next"} /\ f.r = r) \/ Sweeping(t, r)
  BY <1>0b, OnPush
<1>0d. \A D, n : DeleteUnused(D, n) => \A x \in Event : life'[x] = life[x] \/ life'[x] = "deleted"
  BY DEF DeleteUnused
<1>1. CASE TriggerNext
  <2>1. /\ h.op = "trigger" /\ h.ev \in Event
        /\ SimpleTrigger(h.ev, refs, t)
    BY <1>0, <1>0a, <1>1, FrameFields DEF TriggerNext, TopOp
  <2>2. /\ \A x : Finishes(t, x) <=> Finishes(stack, x)
        /\ \A r : Sweeping(t, r) <=> Sweeping(stack, r)
    BY <1>0b, <2>1
  <2>3. PICK e \in Event, n \in [Event -> Int], rest \in Seq(Frame) :
          e = h.ev /\ n = refs /\ rest = t
    BY <1>0, <1>0b, <2>1 DEF TypeOK
  <2>4. /\ SimpleTrigger(e, n, rest)
        /\ \A x : Finishes(rest, x) <=> Finishes(stack, x)
        /\ \A r : Sweeping(rest, r) <=> Sweeping(stack, r)
    BY <2>1, <2>2, <2>3
  <2>5. QED
    BY <1>0, <2>4, TriggerLists
<1>2. CASE FinishTrigger
  <2>1. PICK e \in Event, rest \in Seq(Frame) : e = h.ev /\ rest = t /\ h.op = "finish"
    BY <1>0, <1>0a, <1>0b, <1>2, FrameFields DEF FinishTrigger, TopOp
  <2>2. CallHook(e, rest)
    BY <1>2, <2>1 DEF FinishTrigger
  <2>3. /\ \A x : Finishes(stack', x) <=> Finishes(t, x)
        /\ \A r : Sweeping(stack', r) <=> Sweeping(t, r)
    BY <1>0, <2>1, <2>2, HookFrames
  <2>4. /\ \A x : Finishes(stack', x) => Finishes(stack, x)
        /\ \A r : Sweeping(stack', r) <=> Sweeping(stack, r)
    BY <1>0b, <2>1, <2>3
  <2>5. QED
    BY <1>0, <1>0d, <1>2, <2>4, QuietLists DEF FinishTrigger
<1>3. CASE ClearBegin
  <2>1. PICK q \in Blocking : q = h.r /\ h.op = "clear"
    BY <1>0, <1>0a, <1>3, FrameFields DEF ClearBegin, TopOp
  <2>2. PICK f \in Frame : f = [op |-> "visit", r |-> q, list |-> waiting[q]]
    BY <1>0, <2>1, OwnedApart DEF Frame, TypeOK
  <2>3. /\ stack' = <<f>> \o t
        /\ UNCHANGED <<life, waiting, ready>>
        /\ \A x \in Event : rdv'[x] = IF rdv[x] = q THEN None ELSE rdv[x]
    BY <1>3, <2>1, <2>2 DEF ClearBegin, Replace
  <2>4. /\ \A x : Finishes(stack', x) <=> Finishes(stack, x)
        /\ \A r : Sweeping(stack', r) <=> r = q \/ Sweeping(stack, r)
    BY <1>0b, <1>0c, <2>1, <2>2, <2>3
  <2>5. \A r \in Rdv : Listed(r)'
    <3> TAKE r \in Rdv
    <3>1. r # None /\ Listed(r) /\ \A i \in 1 .. Len(waiting[r]) : waiting[r][i] \in Event
      BY <1>0, ConstantsAssumption DEF ListInv, TypeOK, Rdv, Blocking
    <3>2. CASE r = q
      BY <2>3, <2>4, <3>1, <3>2 DEF Listed
    <3>3. CASE r # q
      <4>1. \A x \in Event : rdv'[x] = r <=> rdv[x] = r
        BY <2>3, <3>1, <3>3
      <4>2. QED
        BY <2>3, <2>4, <3>1, <3>3, <4>1 DEF Listed
    <3>4. QED
      BY <3>2, <3>3
  <2>6. \A x \in Event : Spent(x)' <=> Spent(x)
    BY <2>3, <2>4 DEF Spent, Joining
  <2>7. QED
    BY <2>3, <2>5, <2>6 DEF ListInv
<1>4. CASE ClearVisit
  <2>1. h.op = "visit" /\ h.list \in Seq(Event) /\ h.list # <<>>
    BY <1>0, <1>0a, <1>4, FrameFields DEF ClearVisit, TopOp
  <2>2. PICK f \in Frame : f = [h EXCEPT !.op = "next"]
    BY <1>0b, <2>1 DEF Frame
  <2>3. f.op = "next" /\ f.r = h.r
    BY <1>0b, <2>1, <2>2 DEF Frame
  <2>4. PICK e \in Event, rest \in Seq(Frame) : e = Head(h.list) /\ rest = <<f>> \o t
    <3>1. Head(h.list) \in Event
      BY <2>1
    <3>2. <<f>> \o t \in Seq(Frame)
      BY <1>0b, ConsFrame
    <3>3. QED
      BY <3>1, <3>2, Zenon
  <2>5. CallHook(e, rest)
    BY <1>4, <2>2, <2>4 DEF ClearVisit, Replace
  <2>6. /\ \A x : Finishes(stack', x) <=> Finishes(rest, x)
        /\ \A r : Sweeping(stack', r) <=> Sweeping(rest, r)
    BY <1>0, <2>5, HookFrames
  <2>7. /\ \A x : Finishes(rest, x) <=> Finishes(t, x)
        /\ \A r : Sweeping(rest, r) <=> r = h.r \/ Sweeping(t, r)
    BY <1>0b, <2>3, <2>4, OnPush
  <2>8. /\ \A x : Finishes(stack', x) => Finishes(stack, x)
        /\ \A r : Sweeping(stack', r) <=> Sweeping(stack, r)
    BY <1>0b, <2>1, <2>6, <2>7
  <2>9. QED
    BY <1>0, <1>4, <2>8, QuietLists DEF ClearVisit
<1>5. CASE ClearNext
  <2>1. h.op = "next" /\ h.r \in Blocking /\ h.list \in Seq(Event) /\ h.list # <<>>
    BY <1>0, <1>0a, <1>5, FrameFields DEF ClearNext, TopOp
  <2>2. PICK f \in Frame : f = [op |-> "visit", r |-> h.r, list |-> Tail(h.list)]
    <3>1. Tail(h.list) \in Seq(Event)
      BY <2>1
    <3>2. QED
      BY <2>1, <3>1 DEF Frame
  <2>3. stack' = <<f>> \o t /\ f.op = "visit" /\ f.r = h.r
    BY <1>5, <2>2 DEF ClearNext, Replace
  <2>4. /\ \A x : Finishes(stack', x) => Finishes(stack, x)
        /\ \A r : Sweeping(stack', r) <=> Sweeping(stack, r)
    BY <1>0b, <1>0c, <2>1, <2>3
  <2>5. QED
    BY <1>0, <1>5, <2>4, QuietLists DEF ClearNext, eventVars
<1>6. CASE ClearEnd
  <2>1. PICK q \in Blocking : q = h.r /\ h.op = "visit"
    BY <1>0, <1>0a, <1>6, FrameFields DEF ClearEnd, TopOp
  <2>2. /\ stack' = t /\ rdv' = rdv
        /\ \A r \in Rdv : waiting'[r] = IF r = q THEN <<>> ELSE waiting[r]
        /\ \A r \in Explicit : ready'[r] \in {ready[r], <<>>}
        /\ \A x \in Event : life'[x] = life[x] \/ life'[x] = "deleted"
    BY <1>0, <1>0d, <1>6, <2>1 DEF ClearEnd, TypeOK
  <2>3. /\ \A x : Finishes(stack', x) => Finishes(stack, x)
        /\ \A r : r # q => (Sweeping(stack', r) <=> Sweeping(stack, r))
        /\ Sweeping(stack, q)
    BY <1>0b, <2>1, <2>2
  <2>4. \A r \in Rdv : Listed(r)'
    <3> TAKE r \in Rdv
    <3>1. Listed(r) /\ \A i \in 1 .. Len(waiting[r]) : waiting[r][i] \in Event
      BY <1>0 DEF ListInv, TypeOK
    <3>2. CASE r = q
      <4>1. \A x \in Event : rdv'[x] # r
        BY <2>2, <2>3, <3>1, <3>2 DEF Listed
      <4>2. waiting'[r] = <<>>
        BY <2>2, <3>2
      <4>3. QED
        BY <4>1, <4>2 DEF Listed
    <3>3. CASE r # q
      <4>1. waiting'[r] = waiting[r]
        BY <2>2, <3>3
      <4>2. QED
        BY <2>2, <2>3, <3>1, <3>3, <4>1 DEF Listed
    <3>4. QED
      BY <3>2, <3>3
  <2>5. /\ \A x \in Event : Spent(x)' => Spent(x)
        /\ \A r \in Explicit : \A i, j \in 1 .. Len(ready'[r]) : ready'[r][i] = ready'[r][j] => i = j
    <3>1. \A r \in Explicit :
            /\ \A i \in 1 .. Len(ready'[r]) : ready'[r] = ready[r]
            /\ \A i, j \in 1 .. Len(ready'[r]) : ready'[r][i] = ready'[r][j] => i = j
      BY <2>2 DEF ListInv
    <3>2. QED
      BY <2>3, <3>1 DEF Spent, Joining
  <2>6. \A x \in Event : /\ life'[x] = "unborn" => rdv'[x] = None
                         /\ Spent(x)' => rdv'[x] = None /\ life'[x] # "unborn"
    BY <2>2, <2>5 DEF ListInv
  <2>7. QED
    BY <2>4, <2>5, <2>6 DEF ListInv
<1>7. CASE FreeRendezvous
  <2>1. h.op = "free" /\ h.left \in SUBSET Blocking
    BY <1>0, <1>0a, <1>7, FrameFields DEF FreeRendezvous, TopOp
  <2>2. PICK q \in h.left :
          stack' = <<[op |-> "clear", r |-> q]>> \o Replace([h EXCEPT !.left = @ \ {q}])
    BY <1>7 DEF FreeRendezvous
  <2>3. PICK f \in Frame, k \in Frame :
          f = [h EXCEPT !.left = @ \ {q}] /\ k = [op |-> "clear", r |-> q]
    BY <1>0b, <2>1 DEF Frame
  <2>4. f.op = "free" /\ k.op = "clear"
    BY <1>0b, <2>1, <2>3 DEF Frame
  <2>5. PICK s \in Seq(Frame) : s = <<f>> \o t
    BY <1>0b, <2>3, ConsFrame
  <2>6. stack' = <<k>> \o s
    BY <2>2, <2>3, <2>5 DEF Replace
  <2>7. /\ \A x : Finishes(s, x) <=> Finishes(t, x)
        /\ \A r : Sweeping(s, r) <=> Sweeping(t, r)
    BY <1>0b, <2>4, <2>5, OnPush
  <2>8. /\ \A x : Finishes(stack', x) <=> Finishes(s, x)
        /\ \A r : Sweeping(stack', r) <=> Sweeping(s, r)
    BY <2>4, <2>6, OnPush
  <2>9. /\ \A x : Finishes(stack', x) => Finishes(stack, x)
        /\ \A r : Sweeping(stack', r) <=> Sweeping(stack, r)
    BY <1>0b, <2>1, <2>7, <2>8
  <2>10. QED
    BY <1>0, <1>7, <2>9, QuietLists DEF FreeRendezvous, eventVars
<1>8. CASE FreeClosure
  <2>1. h.op = "free" /\ stack' = t
    BY <1>0, <1>0a, <1>8, FrameFields DEF FreeClosure, TopOp
  <2>2. /\ \A x : Finishes(stack', x) => Finishes(stack, x)
        /\ \A r : Sweeping(stack', r) <=> Sweeping(stack, r)
    BY <1>0b, <2>1
  <2>3. QED
    BY <1>0, <1>8, <2>2, QuietLists DEF FreeClosure, eventVars
<1>9. CASE TwaitJoins
  <2>1. PICK c \in Closure, q \in Blocking : c = h.c /\ q = h.r /\ h.op = "twait"
    BY <1>0, <1>0a, <1>9, FrameFields DEF TwaitJoins, TopOp
  <2>2. PICK f \in Frame : f = [op |-> "run", c |-> c]
    BY DEF Frame
  <2>3. stack' = <<f>> \o t
    BY <1>9, <2>1, <2>2 DEF TwaitJoins, Replace
  <2>4. /\ \A x : Finishes(stack', x) => Finishes(stack, x)
        /\ \A r : Sweeping(stack', r) <=> Sweeping(stack, r)
    BY <1>0b, <1>0c, <2>1, <2>2, <2>3
  <2>5. \A r \in Explicit : \/ ready'[r] \in {ready[r], <<>>}
                            \/ ready[r] # <<>> /\ ready'[r] = Tail(ready[r])
    BY <1>0, <1>9, <2>1 DEF TwaitJoins, TypeOK
  <2>6. QED
    BY <1>0, <1>0d, <1>9, <2>4, <2>5, QuietLists DEF TwaitJoins
<1>10. CASE TwaitBlocks
  <2>1. h.op = "twait" /\ stack' = t
    BY <1>0, <1>0a, <1>10, FrameFields DEF TwaitBlocks, TopOp
  <2>2. /\ \A x : Finishes(stack', x) => Finishes(stack, x)
        /\ \A r : Sweeping(stack', r) <=> Sweeping(stack, r)
    BY <1>0b, <2>1
  <2>3. QED
    BY <1>0, <1>10, <2>2, QuietLists DEF TwaitBlocks, eventVars
<1>11. QED
  BY <1>1, <1>2, <1>3, <1>4, <1>5, <1>6, <1>7, <1>8, <1>9, <1>10 DEF Runtime

LEMMA UserLists ==
  ASSUME WakeInv, ListInv, RunUnblocked \/ User
  PROVE  ListInv'
<1>0. TypeOK /\ stack \in Seq(Frame)
  BY DEF WakeInv, TypeOK
<1>0d. \A D, n : DeleteUnused(D, n) => \A x \in Event : life'[x] = life[x] \/ life'[x] = "deleted"
  BY DEF DeleteUnused
\* A call of user code that triggers an event.
<1>t. ASSUME NEW e \in Event, NEW n \in [Event -> Int], SimpleTrigger(e, n, stack)
      PROVE  ListInv'
  <2>1. PICK rest \in Seq(Frame) : rest = stack
    BY <1>0
  <2>2. SimpleTrigger(e, n, rest)
    BY <1>t, <2>1
  <2>3. QED
    BY <1>0, <2>1, <2>2, TriggerLists
\* Calls and returns.
<1>c. ASSUME NEW f \in Frame, Plain(f),
             \/ stack' = stack
             \/ stack' = <<f>> \o stack
             \/ stack # <<>> /\ Plain(Head(stack)) /\ stack' = <<f>> \o Tail(stack)
             \/ stack # <<>> /\ Plain(Head(stack)) /\ stack' = Tail(stack)
      PROVE  /\ \A x : Finishes(stack', x) => Finishes(stack, x)
             /\ \A r : Sweeping(stack', r) <=> Sweeping(stack, r)
  <2>1. stack # <<>> /\ Plain(Head(stack)) => Head(stack).op \notin {"visit", "next"}
    BY DEF Plain
  <2>2. QED
    BY <1>0, <1>c, <2>1, PlainFrames
<1>e. PICK any \in Frame : any = [op |-> "user"] /\ Plain(any)
  <2>1. [op |-> "user"] \in Frame
    BY DEF Frame
  <2>2. Plain([op |-> "user"])
    BY DEF Plain
  <2>3. QED
    BY <2>1, <2>2, Zenon
<1>1. CASE RunUnblocked
  <2>1. PICK c \in Closure : c = Head(runq) /\ Awaits(c) /\ status[c] = "queued"
    BY <1>1 DEF RunUnblocked, WakeInv, InQueue, TypeOK
  <2>2. \E f \in Frame : Plain(f) /\ stack' = <<f>> \o stack
    <3>1. CASE position[c] = "exit"
      <4>1. [op |-> "free", c |-> c, left |-> Owned(c)] \in Frame
        BY DEF Frame, Owned
      <4>2. QED
        BY <1>1, <2>1, <3>1, <4>1 DEF RunUnblocked, Push, Plain
    <3>2. CASE position[c] # "exit"
      <4>1. position[c] \in Blocking
        BY <2>1, <3>2 DEF Awaits, Owned
      <4>2. [op |-> "twait", c |-> c, r |-> position[c]] \in Frame
        BY <4>1 DEF Frame
      <4>3. QED
        BY <1>1, <2>1, <3>2, <4>2 DEF RunUnblocked, Push, Plain
    <3>3. QED
      BY <3>1, <3>2
  <2>3. /\ \A x : Finishes(stack', x) => Finishes(stack, x)
        /\ \A r : Sweeping(stack', r) <=> Sweeping(stack, r)
    BY <1>c, <2>2
  <2>4. QED
    BY <1>0, <1>1, <2>3, QuietLists DEF RunUnblocked, eventVars
<1>2. ASSUME NEW c \in Closure, NEW method \in BOOLEAN, Start(c, method)
      PROVE  ListInv'
  <2>1. PICK f \in Frame : f = [op |-> "run", c |-> c]
    BY DEF Frame
  <2>2. stack' = <<f>> \o stack /\ Plain(f)
    BY <1>2, <2>1 DEF Start, Push, Plain
  <2>3. /\ \A x : Finishes(stack', x) => Finishes(stack, x)
        /\ \A r : Sweeping(stack', r) <=> Sweeping(stack, r)
    BY <1>c, <2>2
  <2>4. QED
    BY <1>0, <1>2, <2>3, QuietLists DEF Start, eventVars
<1>3. ASSUME NEW e \in Event, NEW r \in Rdv, MakeEvent(e, r)
      PROVE  ListInv'
  <2>1. /\ life[e] = "unborn" /\ rdv[e] = None /\ ~Spent(e) /\ ~Sweeping(stack, r)
        /\ UNCHANGED <<ready, stack>>
        /\ \A x \in Event : life'[x] = IF x = e THEN "live" ELSE life[x]
        /\ \A x \in Event : rdv'[x] = IF x = e THEN r ELSE rdv[x]
        /\ \A q \in Rdv : waiting'[q] = IF q = r THEN <<e>> \o waiting[q] ELSE waiting[q]
    BY <1>0, <1>3, MakerSweepsNot DEF MakeEvent, ListInv, TypeOK
  <2>2. \A x \in Event : Spent(x)' <=> Spent(x)
    BY <2>1 DEF Spent, Joining
  <2>3. \A q \in Rdv : Listed(q)'
    <3> TAKE q \in Rdv
    <3>1. PICK w \in Seq(Event) : w = waiting[q]
      BY <1>0 DEF TypeOK
    <3>2. /\ Listed(q) /\ \A i \in 1 .. Len(w) : w[i] \in Event
          /\ \A i \in 1 .. Len(w) : w[i] # e
      BY <2>1, <3>1 DEF ListInv, Listed
    <3>3. CASE q # r
      <4>1. waiting'[q] = w /\ waiting[q] = w
        BY <2>1, <3>1, <3>3
      <4>2. \A x \in Event : rdv'[x] = q => rdv[x] = q
        BY <2>1, <3>3
      <4>3. \A i \in 1 .. Len(w) : life'[w[i]] = life[w[i]] /\ rdv'[w[i]] = rdv[w[i]]
        BY <2>1, <3>2
      <4>4. Sweeping(stack', q) => \A x \in Event : rdv'[x] # q
        BY <2>1, <3>2, <4>2 DEF Listed
      <4>5. QED
        BY <2>1, <3>2, <4>1, <4>2, <4>3, <4>4 DEF Listed
    <3>4. CASE q = r
      <4>1. PICK l : l = <<e>> \o w
        OBVIOUS
      <4>2. /\ Len(l) = Len(w) + 1 /\ Len(w) \in Nat /\ l[1] = e /\ 1 \in 1 .. Len(l)
            /\ \A i \in 1 .. Len(w) : l[i + 1] = w[i] /\ i + 1 \in 1 .. Len(l)
        BY <4>1
      <4>3. \A i \in 1 .. Len(l) : i # 1 => i - 1 \in 1 .. Len(w) /\ l[i] = w[i - 1]
        BY <4>2
      <4>4. waiting'[q] = l /\ waiting[q] = w
        BY <2>1, <3>1, <3>4, <4>1
      <4>5. \A i, j \in 1 .. Len(l) : l[i] = l[j] => i = j
        <5> SUFFICES ASSUME NEW i \in 1 .. Len(l), NEW j \in 1 .. Len(l), l[i] = l[j]
                     PROVE  i = j
          OBVIOUS
        <5>1. i = 1 <=> j = 1
          BY <3>2, <4>2, <4>3
        <5>2. CASE i # 1 /\ j # 1
          <6>1. i - 1 \in 1 .. Len(w) /\ j - 1 \in 1 .. Len(w) /\ w[i - 1] = w[j - 1]
            BY <4>3, <5>2
          <6>2. i - 1 = j - 1
            BY <3>1, <3>2, <6>1 DEF Listed
          <6>3. QED
            BY <4>2, <6>2
        <5>3. QED
          BY <5>1, <5>2
      <4>6. \A x \in Event : rdv'[x] = q => \E i \in 1 .. Len(l) : l[i] = x
        <5> SUFFICES ASSUME NEW x \in Event, rdv'[x] = q PROVE \E i \in 1 .. Len(l) : l[i] = x
          OBVIOUS
        <5>1. CASE x = e
          BY <4>2, <5>1
        <5>2. CASE x # e
          <6>1. PICK i \in 1 .. Len(w) : w[i] = x
            BY <2>1, <3>1, <3>2, <5>2 DEF Listed
          <6>2. QED
            BY <4>2, <6>1
        <5>3. QED
          BY <5>1, <5>2
      <4>7. \A i \in 1 .. Len(l) : life'[l[i]] # "unborn" /\ rdv'[l[i]] = q
        <5> TAKE i \in 1 .. Len(l)
        <5>1. CASE i = 1
          BY <2>1, <3>4, <4>2, <5>1
        <5>2. CASE i # 1
          <6>1. PICK k \in 1 .. Len(w) : l[i] = w[k]
            BY <4>3, <5>2
          <6>2. life[w[k]] # "unborn" /\ rdv[w[k]] = q
            BY <2>1, <3>1, <3>2, <3>4 DEF Listed
          <6>3. QED
            BY <2>1, <3>2, <6>1, <6>2
        <5>3. QED
          BY <5>1, <5>2
      <4>8. ~Sweeping(stack', q)
        BY <2>1, <3>4
      <4>9. QED
        BY <4>4, <4>5, <4>6, <4>7, <4>8 DEF Listed
    <3>5. QED
      BY <3>3, <3>4
  <2>4. \A x \in Event : life'[x] = "unborn" => rdv'[x] = None
    BY <2>1 DEF ListInv
  <2>5. \A x \in Event : Spent(x)' => rdv'[x] = None /\ life'[x] # "unborn"
    BY <2>1, <2>2 DEF ListInv
  <2>6. QED
    BY <2>1, <2>3, <2>4, <2>5 DEF ListInv
<1>4. ASSUME NEW e \in Event, Copy(e)
      PROVE  ListInv'
  BY <1>0, <1>4, QuietLists DEF Copy
<1>5. ASSUME NEW e \in Event, Drop(e)
      PROVE  ListInv'
  <2> DEFINE count == [refs EXCEPT ![e] = @ - 1]
  <2>1. count \in [Event -> Int]
    BY <1>0 DEF TypeOK
  <2>2. CASE count[e] = 0 /\ rdv[e] # None
    <3>1. SimpleTrigger(e, count, stack)
      BY <1>5, <2>2 DEF Drop
    <3>2. PICK n \in [Event -> Int] : n = count
      BY <2>1
    <3>3. QED
      BY <1>t, <3>1, <3>2
  <2>3. CASE ~(count[e] = 0 /\ rdv[e] # None)
    BY <1>0, <1>0d, <1>5, <2>3, QuietLists DEF Drop
  <2>4. QED
    BY <2>2, <2>3
<1>6. ASSUME NEW e \in Event, Trigger(e)
      PROVE  ListInv'
  <2>1. SimpleTrigger(e, refs, stack) /\ refs \in [Event -> Int]
    BY <1>0, <1>6 DEF Trigger, TypeOK
  <2>2. QED
    BY <1>t, <2>1
<1>7. ASSUME NEW e \in Event, NEW d \in Event, AtTrigger(e, d)
      PROVE  ListInv'
  <2>1. CASE rdv[e] # None
    BY <1>0, <1>7, <2>1, QuietLists DEF AtTrigger
  <2>2. CASE rdv[e] = None
    <3>1. SimpleTrigger(d, refs, stack) /\ refs \in [Event -> Int]
      BY <1>0, <1>7, <2>2 DEF AtTrigger, TypeOK
    <3>2. QED
      BY <1>t, <3>1
  <2>3. QED
    BY <2>1, <2>2
<1>8. ASSUME NEW c \in Closure, NEW r \in Blocking, Twait(c, r)
      PROVE  ListInv'
  <2>1. PICK f \in Frame : f = [op |-> "twait", c |-> c, r |-> r]
    BY DEF Frame
  <2>2. /\ stack' = <<f>> \o Tail(stack) /\ Plain(f)
        /\ stack # <<>> /\ Plain(Head(stack))
    BY <1>8, <2>1 DEF Twait, Replace, TopIs, Plain
  <2>3. /\ \A x : Finishes(stack', x) => Finishes(stack, x)
        /\ \A q : Sweeping(stack', q) <=> Sweeping(stack, q)
    BY <1>c, <2>2
  <2>4. QED
    BY <1>0, <1>8, <2>3, QuietLists DEF Twait, eventVars
<1>9. ASSUME NEW c \in Closure, NEW r \in Blocking, Clear(c, r)
      PROVE  ListInv'
  <2>1. PICK f \in Frame : f = [op |-> "clear", r |-> r]
    BY DEF Frame
  <2>2. stack' = <<f>> \o stack /\ Plain(f)
    BY <1>9, <2>1 DEF Clear, Push, Plain
  <2>3. /\ \A x : Finishes(stack', x) => Finishes(stack, x)
        /\ \A q : Sweeping(stack', q) <=> Sweeping(stack, q)
    BY <1>c, <2>2
  <2>4. QED
    BY <1>0, <1>9, <2>3, QuietLists DEF Clear, eventVars
<1>10. ASSUME NEW c \in Closure, Exit(c)
       PROVE  ListInv'
  <2>1. PICK f \in Frame : f = [op |-> "free", c |-> c, left |-> Owned(c)]
    BY DEF Frame, Owned
  <2>2. /\ stack' = <<f>> \o Tail(stack) /\ Plain(f)
        /\ stack # <<>> /\ Plain(Head(stack))
    BY <1>10, <2>1 DEF Exit, Replace, TopIs, Plain
  <2>3. /\ \A x : Finishes(stack', x) => Finishes(stack, x)
        /\ \A q : Sweeping(stack', q) <=> Sweeping(stack, q)
    BY <1>c, <2>2
  <2>4. QED
    BY <1>0, <1>10, <2>3, QuietLists DEF Exit, eventVars
<1>11. ASSUME NEW c \in Closure, DestroyObject(c)
       PROVE  ListInv'
  BY <1>0, <1>11, QuietLists DEF DestroyObject, eventVars
<1>12. CASE HookReturns
  <2>1. stack # <<>> /\ Plain(Head(stack)) /\ stack' = Tail(stack)
    BY <1>12 DEF HookReturns, TopOp, Plain
  <2>2. /\ \A x : Finishes(stack', x) => Finishes(stack, x)
        /\ \A q : Sweeping(stack', q) <=> Sweeping(stack, q)
    BY <1>c, <1>e, <2>1
  <2>3. QED
    BY <1>0, <1>12, <2>2, QuietLists DEF HookReturns, eventVars
<1>13. QED
  BY <1>1, <1>2, <1>3, <1>4, <1>5, <1>6, <1>7, <1>8, <1>9, <1>10, <1>11, <1>12 DEF User

(***************************************************************************)
(* Counting references.                                                    *)
(***************************************************************************)

\* The calls on a stack that hold e are finitely many; a frame pushed on the
\* stack adds one when it holds e.
LEMMA CallsFinite ==
  ASSUME NEW s \in Seq(Frame), NEW e
  PROVE  IsFiniteSet(CallsOn(s, e)) /\ Cardinality(CallsOn(s, e)) \in Nat
<1>1. DOMAIN s = 1 .. Len(s) /\ Len(s) \in Nat
  OBVIOUS
<1>2. IsFiniteSet(1 .. Len(s))
  BY <1>1, FS_Interval
<1>3. CallsOn(s, e) \in SUBSET (1 .. Len(s))
  BY <1>1 DEF CallsOn
<1>4. IsFiniteSet(CallsOn(s, e))
  BY <1>2, <1>3, FS_Subset
<1>5. QED
  BY <1>4, FS_CardinalityType

LEMMA CallsPush ==
  ASSUME NEW s \in Seq(Frame), NEW f \in Frame, NEW e
  PROVE  /\ Holds(f, e) =>
              Cardinality(CallsOn(<<f>> \o s, e)) = Cardinality(CallsOn(s, e)) + 1
         /\ ~Holds(f, e) =>
              Cardinality(CallsOn(<<f>> \o s, e)) = Cardinality(CallsOn(s, e))
<1>t. PICK t : t = <<f>> \o s
  OBVIOUS
<1> DEFINE S == CallsOn(s, e)
           T == {i \in 2 .. Len(s) + 1 : i - 1 \in S}
           shift == [i \in S |-> i + 1]
<1>1. /\ DOMAIN t = 1 .. Len(s) + 1 /\ DOMAIN s = 1 .. Len(s) /\ Len(s) \in Nat /\ t[1] = f
      /\ \A j \in 1 .. Len(s) : t[j + 1] = s[j]
  BY <1>t
<1>2. \A i \in 2 .. Len(s) + 1 : t[i] = s[i - 1] /\ i - 1 \in 1 .. Len(s)
  BY <1>1
<1>3. S \subseteq 1 .. Len(s) /\ \A i \in 1 .. Len(s) : i \in S <=> Holds(s[i], e)
  BY <1>1 DEF CallsOn
<1>4. IsFiniteSet(S)
  BY CallsFinite
<1>5. shift \in Bijection(S, T)
  <2>1. shift \in [S -> T]
    BY <1>1, <1>3
  <2>2. \A i, j \in S : shift[i] = shift[j] => i = j
    BY <1>3
  <2>3. \A k \in T : \E i \in S : shift[i] = k
    BY <1>1, <1>3
  <2>4. QED
    <3> HIDE DEF S, T, shift
    <3> QED BY <2>1, <2>2, <2>3 DEF Bijection, Injection, Surjection, IsInjective
<1>6. IsFiniteSet(T) /\ Cardinality(T) = Cardinality(S)
  BY <1>4, <1>5, FS_Bijection DEF ExistsBijection
<1>7. \A i \in 2 .. Len(s) + 1 : i \in T <=> Holds(t[i], e)
  BY <1>2, <1>3
<1>8. 1 \notin T
  OBVIOUS
<1>9. CASE Holds(f, e)
  <2>1. CallsOn(t, e) = T \cup {1}
    <3>1. \A i \in 1 .. Len(s) + 1 : Holds(t[i], e) <=> i \in T \cup {1}
      BY <1>1, <1>7, <1>9
    <3>2. T \cup {1} \subseteq 1 .. Len(s) + 1
      BY <1>1
    <3>3. QED
      BY <1>1, <3>1, <3>2 DEF CallsOn
  <2>2. Cardinality(CallsOn(t, e)) = Cardinality(S) + 1
    BY <1>6, <1>8, <2>1, FS_AddElement
  <2>3. QED
    BY <1>t, <1>9, <2>2
<1>10. CASE ~Holds(f, e)
  <2>1. CallsOn(t, e) = T
    <3>1. \A i \in 1 .. Len(s) + 1 : Holds(t[i], e) <=> i \in T
      BY <1>1, <1>7, <1>8, <1>10
    <3>2. T \subseteq 1 .. Len(s) + 1
      BY <1>1
    <3>3. QED
      BY <1>1, <3>1, <3>2 DEF CallsOn
  <2>2. Cardinality(CallsOn(t, e)) = Cardinality(S)
    BY <1>6, <2>1
  <2>3. QED
    BY <1>t, <1>10, <2>2
<1>11. QED
  BY <1>t, <1>9, <1>10

\* Which frames hold an event.
LEMMA Holders ==
  ASSUME NEW f, NEW x
  PROVE  /\ f.op \notin {"trigger", "finish"} => ~Holds(f, x)
         /\ \A e : f = [op |-> "trigger", ev |-> e] => (Holds(f, x) <=> x = e)
         /\ \A e, b : f = [op |-> "finish", ev |-> e, reduce |-> b] =>
              (Holds(f, x) <=> x = e /\ b = TRUE)
BY DEF Holds

\* Calling the hook of e moves its reference from the hook to the call.
LEMMA HookCount ==
  ASSUME TypeOK, NEW e \in Event, NEW rest \in Seq(Frame), CallHook(e, rest),
         NEW x \in Event, IsFiniteSet(HooksTo(x))
  PROVE  /\ IsFiniteSet(HooksTo(x)')
         /\ Cardinality(HooksTo(x)') + Cardinality(CallsOn(stack', x)) =
              Cardinality(HooksTo(x)) + Cardinality(CallsOn(rest, x))
<1>1. hook \in [Event -> Event \cup {None}] /\ None \notin Event
  BY ConstantsAssumption DEF TypeOK
<1>2. HooksTo(x)' = HooksTo(x) \ {e}
  BY <1>1 DEF HooksTo, CallHook
<1>3. e \in HooksTo(x) <=> hook[e] = x
  BY DEF HooksTo
<1>4. /\ IsFiniteSet(HooksTo(x)')
      /\ Cardinality(HooksTo(x)') = IF e \in HooksTo(x) THEN Cardinality(HooksTo(x)) - 1
                                    ELSE Cardinality(HooksTo(x))
  BY <1>2, FS_RemoveElement
<1>5. /\ Cardinality(CallsOn(rest, x)) \in Nat /\ Cardinality(HooksTo(x)) \in Nat
      /\ Cardinality(HooksTo(x)') \in Nat
  BY <1>4, CallsFinite, FS_CardinalityType
<1>6. CASE hook[e] = None
  <2>1. stack' = rest /\ e \notin HooksTo(x)
    BY <1>1, <1>3, <1>6 DEF CallHook
  <2>2. QED
    BY <1>4, <1>5, <2>1
<1>7. CASE hook[e] # None
  <2>1. PICK f \in Frame : f = [op |-> "trigger", ev |-> hook[e]]
    BY <1>1, <1>7 DEF Frame
  <2>2. stack' = <<f>> \o rest
    BY <1>7, <2>1 DEF CallHook
  <2>3. Holds(f, x) <=> hook[e] = x
    BY <2>1, Holders
  <2>4. /\ Holds(f, x) => Cardinality(CallsOn(stack', x)) = Cardinality(CallsOn(rest, x)) + 1
        /\ ~Holds(f, x) => Cardinality(CallsOn(stack', x)) = Cardinality(CallsOn(rest, x))
    BY <2>2, CallsPush
  <2>5. CASE hook[e] = x
    <3>1. /\ Cardinality(CallsOn(stack', x)) = Cardinality(CallsOn(rest, x)) + 1
          /\ Cardinality(HooksTo(x)') = Cardinality(HooksTo(x)) - 1
      BY <1>3, <1>4, <2>3, <2>4, <2>5
    <3>2. QED
      BY <1>4, <1>5, <3>1
  <2>6. CASE hook[e] # x
    <3>1. /\ Cardinality(CallsOn(stack', x)) = Cardinality(CallsOn(rest, x))
          /\ Cardinality(HooksTo(x)') = Cardinality(HooksTo(x))
      BY <1>3, <1>4, <2>3, <2>4, <2>6
    <3>2. QED
      BY <1>4, <3>1
  <2>7. QED
    BY <2>5, <2>6
<1>8. QED
  BY <1>6, <1>7

\* An event that joins the ready list of its rendezvous.
LEMMA ReadyCount ==
  ASSUME TypeOK, NEW e \in Event, NEW q \in Explicit, ~Joining(e),
         ready' = [ready EXCEPT ![q] = Append(@, e)],
         NEW x \in Event, IsFiniteSet(ReadyOn(x))
  PROVE  /\ IsFiniteSet(ReadyOn(x)')
         /\ x = e => Cardinality(ReadyOn(x)') = Cardinality(ReadyOn(x)) + 1
         /\ x # e => Cardinality(ReadyOn(x)') = Cardinality(ReadyOn(x))
<1>1. \A r \in Explicit : /\ ready[r] \in Seq(Event)
                          /\ DOMAIN ready[r] = 1 .. Len(ready[r])
                          /\ ready'[r] = IF r = q THEN Append(ready[r], e) ELSE ready[r]
  BY DEF TypeOK
<1>2. \A r \in Explicit : (\E i \in DOMAIN ready'[r] : ready'[r][i] = x) <=>
        (r = q /\ x = e) \/ \E i \in DOMAIN ready[r] : ready[r][i] = x
  <2> TAKE r \in Explicit
  <2>1. CASE r # q
    BY <1>1, <2>1
  <2>2. CASE r = q
    <3>1. PICK l \in Seq(Event), n \in Nat : l = ready[r] /\ n = Len(l)
      BY <1>1
    <3>2. PICK a : a = Append(l, e)
      OBVIOUS
    <3>3. /\ DOMAIN a = 1 .. n + 1 /\ DOMAIN l = 1 .. n
          /\ a[n + 1] = e /\ \A i \in 1 .. n : a[i] = l[i]
      BY <3>1, <3>2
    <3>4. (\E i \in DOMAIN a : a[i] = x) <=> x = e \/ \E i \in DOMAIN l : l[i] = x
      <4>1. \A i \in 1 .. n + 1 : i \in 1 .. n \/ i = n + 1
        OBVIOUS
      <4>2. n + 1 \in 1 .. n + 1 /\ \A i \in 1 .. n : i \in 1 .. n + 1
        OBVIOUS
      <4>3. QED
        BY <3>3, <4>1, <4>2
    <3>5. ready'[r] = a /\ ready[r] = l
      BY <1>1, <2>2, <3>1, <3>2
    <3>6. QED
      BY <2>2, <3>4, <3>5
  <2>3. QED
    BY <2>1, <2>2
<1>3. ReadyOn(x)' = IF x = e THEN ReadyOn(x) \cup {q} ELSE ReadyOn(x)
  BY <1>2 DEF ReadyOn
<1>4. x = e => q \notin ReadyOn(x)
  BY <1>1 DEF ReadyOn, Joining
<1>5. QED
  BY <1>3, <1>4, FS_AddElement


\* The references to x that the runtime keeps, for a stack s.
Kept(s, x) == Cardinality(HooksTo(x)) + Cardinality(ReadyOn(x)) + Cardinality(CallsOn(s, x))

LEMMA KeptNat ==
  ASSUME NEW s \in Seq(Frame), NEW x, IsFiniteSet(HooksTo(x)), IsFiniteSet(ReadyOn(x))
  PROVE  Kept(s, x) \in Nat
<1>1. /\ Cardinality(HooksTo(x)) \in Nat /\ Cardinality(ReadyOn(x)) \in Nat
      /\ Cardinality(CallsOn(s, x)) \in Nat
  BY CallsFinite, FS_CardinalityType
<1>2. QED
  BY <1>1 DEF Kept

LEMMA KeptNatNext ==
  ASSUME stack' \in Seq(Frame), NEW x, IsFiniteSet(HooksTo(x)'), IsFiniteSet(ReadyOn(x)')
  PROVE  Kept(stack, x)' \in Nat
<1>1. /\ Cardinality(HooksTo(x)') \in Nat /\ Cardinality(ReadyOn(x)') \in Nat
      /\ Cardinality(CallsOn(stack', x)) \in Nat
  BY CallsFinite, FS_CardinalityType
<1>2. QED
  BY <1>1 DEF Kept

\* A hook is called and the ready lists stay, or e joins one of them.
LEMMA KeptHook ==
  ASSUME TypeOK, NEW e \in Event, NEW rest \in Seq(Frame), CallHook(e, rest),
         NEW x \in Event, IsFiniteSet(HooksTo(x)), IsFiniteSet(ReadyOn(x))
  PROVE  /\ IsFiniteSet(HooksTo(x)')
         /\ ready' = ready => Kept(stack, x)' = Kept(rest, x)
         /\ \A q \in Explicit :
              ~Joining(e) /\ ready' = [ready EXCEPT ![q] = Append(@, e)] =>
                /\ IsFiniteSet(ReadyOn(x)')
                /\ x = e => Kept(stack, x)' = Kept(rest, x) + 1
                /\ x # e => Kept(stack, x)' = Kept(rest, x)
<1> DEFINE h == Cardinality(HooksTo(x))   hn == Cardinality(HooksTo(x)')
           r == Cardinality(ReadyOn(x))   rn == Cardinality(ReadyOn(x)')
           c == Cardinality(CallsOn(rest, x))
           cn == Cardinality(CallsOn(stack', x))
<1>1. IsFiniteSet(HooksTo(x)') /\ hn + cn = h + c
  BY HookCount
<1>2. stack' \in Seq(Frame)
  BY CallHookType
<1>3. h \in Nat /\ hn \in Nat /\ r \in Nat /\ c \in Nat /\ cn \in Nat
  BY <1>1, <1>2, CallsFinite, FS_CardinalityType
<1>4. Kept(rest, x) = h + r + c /\ Kept(stack, x)' = hn + rn + cn
  BY DEF Kept
<1>5. ready' = ready => rn = r
  BY DEF ReadyOn
<1>6. ASSUME NEW q \in Explicit, ~Joining(e), ready' = [ready EXCEPT ![q] = Append(@, e)]
      PROVE  IsFiniteSet(ReadyOn(x)') /\ (x = e => rn = r + 1) /\ (x # e => rn = r)
  BY <1>6, ReadyCount
<1> HIDE DEF h, hn, r, rn, c, cn
<1>7. ready' = ready => Kept(stack, x)' = Kept(rest, x)
  BY <1>1, <1>3, <1>4, <1>5
<1>8. /\ rn = r => Kept(stack, x)' = Kept(rest, x)
      /\ rn = r + 1 => Kept(stack, x)' = Kept(rest, x) + 1
  BY <1>1, <1>3, <1>4
<1>9. QED
  BY <1>1, <1>6, <1>7, <1>8

\* The call of a hook of a functional rendezvous holds e when the trigger owns
\* a reference.
LEMMA UserCalls ==
  ASSUME NEW rest \in Seq(Frame), NEW e \in Event, NEW own \in {0, 1},
         NEW b \in BOOLEAN, b <=> own = 1, NEW x
  PROVE  LET u == <<[op |-> "user"], [op |-> "finish", ev |-> e, reduce |-> b]>> \o rest
         IN  /\ x # e => Cardinality(CallsOn(u, x)) = Cardinality(CallsOn(rest, x))
             /\ x = e => Cardinality(CallsOn(u, x)) = Cardinality(CallsOn(rest, x)) + own
<1> DEFINE u == <<[op |-> "user"], [op |-> "finish", ev |-> e, reduce |-> b]>> \o rest
<1>1. PICK usr \in Frame : usr = [op |-> "user"]
  BY DEF Frame
<1>2. PICK fin \in Frame : fin = [op |-> "finish", ev |-> e, reduce |-> b]
  BY DEF Frame
<1>3. PICK t \in Seq(Frame) : t = <<fin>> \o rest
  BY ConsFrame
<1>4. u = <<usr>> \o t
  BY <1>1, <1>2, <1>3
<1> HIDE DEF u
<1>5. ~Holds(usr, x)
  BY <1>1 DEF Holds
<1>6. Holds(fin, x) <=> x = e /\ b
  BY <1>2 DEF Holds
<1>7. Cardinality(CallsOn(u, x)) = Cardinality(CallsOn(t, x))
  <2>1. Cardinality(CallsOn(<<usr>> \o t, x)) = Cardinality(CallsOn(t, x))
    BY <1>5, CallsPush
  <2>2. QED
    BY <1>4, <2>1
<1>8. /\ Holds(fin, x) => Cardinality(CallsOn(t, x)) = Cardinality(CallsOn(rest, x)) + 1
      /\ ~Holds(fin, x) => Cardinality(CallsOn(t, x)) = Cardinality(CallsOn(rest, x))
  BY <1>3, CallsPush
<1>9. Cardinality(CallsOn(rest, x)) \in Nat
  BY CallsFinite
<1>10. /\ x # e => Cardinality(CallsOn(u, x)) = Cardinality(CallsOn(rest, x))
       /\ x = e => Cardinality(CallsOn(u, x)) = Cardinality(CallsOn(rest, x)) + own
  <2>1. CASE b
    BY <1>6, <1>7, <1>8, <2>1
  <2>2. CASE ~b
    BY <1>6, <1>7, <1>8, <1>9, <2>2
  <2>3. QED
    BY <2>1, <2>2
<1>11. QED
  BY <1>10 DEF u

\* Who refers to an event when count has been taken down for the event<> that the
\* caller gave up and rest is the stack to return to: e is to lose own more.
Owing(e, count, rest, own) ==
  /\ handles' \in [Event -> Nat]
  /\ \A x \in Event : IsFiniteSet(HooksTo(x)) /\ IsFiniteSet(ReadyOn(x))
  /\ \A x \in Event : x # e => count[x] = handles'[x] + Kept(rest, x)
  /\ count[e] = handles'[e] + Kept(rest, e) + own
  /\ \A x \in Event : life[x] # "live" => count[x] = 0 /\ rdv[x] = None
  /\ \A x \in Event : x # e /\ life[x] = "live" /\ count[x] = 0 => Finishing(rest, x)

\* What the step makes of it: e loses own references, and gets more new ones.
Paying(e, count, rest, own, more) ==
  /\ \A x \in Event :
       /\ IsFiniteSet(HooksTo(x)') /\ IsFiniteSet(ReadyOn(x)')
       /\ x # e => Kept(stack, x)' = Kept(rest, x)
       /\ x = e => Kept(stack, x)' = Kept(rest, x) + more
       /\ x # e => refs'[x] = count[x]
       /\ x = e => refs'[x] = count[x] + more - own
       /\ Finishing(rest, x) => Finishing(stack', x)
       /\ x # e => rdv'[x] = rdv[x]
  /\ rdv'[e] = None /\ DeleteUnused({e}, refs') /\ stack' \in Seq(Frame)

LEMMA Settled ==
  ASSUME TypeOK, NEW e \in Event, NEW count \in [Event -> Int], NEW rest \in Seq(Frame),
         NEW own \in {0, 1}, NEW more \in {0, 1}, more = 0 \/ life[e] = "live",
         Owing(e, count, rest, own), Paying(e, count, rest, own, more)
  PROVE  CountInv'
<1> USE DEF Owing, Paying
<1>0. \A x \in Event : Kept(rest, x) \in Nat /\ handles'[x] \in Nat /\ count[x] \in Int
  BY KeptNat
<1> SUFFICES ASSUME NEW x \in Event
             PROVE  /\ IsFiniteSet(HooksTo(x)') /\ IsFiniteSet(ReadyOn(x)')
                    /\ refs'[x] = References(x)'
                    /\ life'[x] # "live" => refs'[x] = 0 /\ rdv'[x] = None
                    /\ life'[x] = "live" /\ refs'[x] = 0 => Finishing(stack', x)
  BY DEF CountInv
<1>1. References(x)' = handles'[x] + Kept(stack, x)'
  <2>1. /\ handles'[x] \in Nat /\ Cardinality(HooksTo(x)') \in Nat
        /\ Cardinality(ReadyOn(x)') \in Nat /\ Cardinality(CallsOn(stack', x)) \in Nat
    BY CallsFinite, FS_CardinalityType
  <2>2. QED
    BY <2>1 DEF References, Kept
<1>2. refs'[x] = References(x)' /\ (x = e /\ count[e] = 0 => refs'[e] \in {0, more})
  <2> DEFINE k == Kept(rest, x)   kn == Kept(stack, x)'
  <2>1. /\ k \in Nat /\ handles'[x] \in Nat /\ count[x] \in Int
        /\ x # e => count[x] = handles'[x] + k
        /\ x = e => count[x] = handles'[x] + k + own
    BY <1>0
  <2>2. /\ x # e => kn = k /\ refs'[x] = count[x]
        /\ x = e => kn = k + more /\ refs'[x] = count[x] + more - own
    OBVIOUS
  <2>3. References(x)' = handles'[x] + kn
    BY <1>1
  <2> HIDE DEF k, kn
  <2>4. QED
    BY <2>1, <2>2, <2>3
<1>3. life'[x] = IF x = e /\ refs'[x] = 0 THEN "deleted" ELSE life[x]
  BY DEF DeleteUnused
<1>4. QED
  BY <1>2, <1>3

\* A trigger keeps the counts, when count is what is left after the caller has
\* given up its event<>: own is 1 for a trigger that owns a reference to e and 0
\* for the one that the destructor of the last event<> makes.
LEMMA TriggerCount ==
  ASSUME TypeOK, ListInv, NEW e \in Event, NEW count \in [Event -> Int],
         NEW rest \in Seq(Frame), NEW own \in {0, 1}, SimpleTrigger(e, count, rest),
         Owing(e, count, rest, own), stack' \in Seq(Frame), life[e] = "live",
         own = 0 => count[e] = 0 /\ rdv[e] # None
  PROVE  CountInv'
<1>0. \A x \in Event : Kept(rest, x) \in Nat /\ handles'[x] \in Nat /\ count[x] \in Int
  BY KeptNat DEF Owing
<1>1. count[e] \in Nat /\ (own = 1 <=> count[e] > 0)
  <2>1. count[e] = handles'[e] + Kept(rest, e) + own
    BY DEF Owing
  <2>2. QED
    BY <1>0, <2>1
<1>2. ASSUME NEW n \in [Event -> Int], NEW x \in Event
      PROVE  /\ x # e => Released(n, e, count[e] > 0)[x] = n[x]
             /\ x = e => Released(n, e, count[e] > 0)[x] = n[x] - own
  BY <1>1 DEF Released
<1>s. ASSUME NEW more \in {0, 1}, Paying(e, count, rest, own, more)
      PROVE  CountInv'
  BY <1>s, Settled
<1> USE DEF Owing, Paying
<1>3. CASE TriggerEmpty(e, count, rest)
  <2>1. own = 1
    BY <1>3 DEF TriggerEmpty
  <2>2. \A x \in Event : HooksTo(x)' = HooksTo(x) /\ ReadyOn(x)' = ReadyOn(x)
    BY <1>3 DEF TriggerEmpty, HooksTo, ReadyOn
  <2>3. /\ stack' = rest /\ rdv' = rdv /\ rdv[e] = None /\ DeleteUnused({e}, refs')
        /\ refs' = Released(count, e, count[e] > 0)
    BY <1>3 DEF TriggerEmpty
  <2>4. \A x \in Event : Kept(stack, x)' = Kept(rest, x)
    BY <2>2, <2>3 DEF Kept
  <2>5. \A x \in Event : /\ x # e => refs'[x] = count[x]
                         /\ x = e => refs'[x] = count[x] + 0 - own
    <3> SUFFICES ASSUME NEW x \in Event
                 PROVE  /\ x # e => refs'[x] = count[x]
                        /\ x = e => refs'[x] = count[x] + 0 - own
      OBVIOUS
    <3>1. /\ x # e => refs'[x] = count[x]
          /\ x = e => refs'[x] = count[x] - own
      BY <1>2, <2>3
    <3>2. count[x] \in Int /\ own \in Int
      BY <1>0
    <3>3. QED
      BY <3>1, <3>2
  <2>6. \A x \in Event : /\ x # e => Kept(stack, x)' = Kept(rest, x)
                         /\ x = e => Kept(stack, x)' = Kept(rest, x) + 0
    BY <1>0, <2>4
  <2>7. \A x \in Event : /\ IsFiniteSet(HooksTo(x)') /\ IsFiniteSet(ReadyOn(x)')
                         /\ Finishing(rest, x) => Finishing(stack', x)
                         /\ x # e => rdv'[x] = rdv[x]
    BY <2>2, <2>3
  <2>8. rdv'[e] = None /\ DeleteUnused({e}, refs')
    BY <2>3
  <2>9. QED
    BY <1>s, <2>5, <2>6, <2>7, <2>8
<1>4. CASE TriggerGather(e, count, rest)
  <2>1. /\ refs' = Released(count, e, count[e] > 0) /\ DeleteUnused({e}, refs')
        /\ CallHook(e, rest) /\ ready' = ready /\ rdv' = [rdv EXCEPT ![e] = None]
    BY <1>4 DEF TriggerGather
  <2>2. \A x \in Event : /\ IsFiniteSet(HooksTo(x)') /\ ReadyOn(x)' = ReadyOn(x)
                         /\ Kept(stack, x)' = Kept(rest, x)
                         /\ Finishing(rest, x) => Finishing(stack', x)
    BY <2>1, KeptHook, HookFrames DEF ReadyOn
  <2>3. rdv'[e] = None /\ \A x \in Event : x # e => rdv'[x] = rdv[x]
    BY <2>1 DEF TypeOK
  <2>4. \A x \in Event : /\ x # e => refs'[x] = count[x]
                         /\ x = e => refs'[x] = count[x] + 0 - own
    <3> SUFFICES ASSUME NEW x \in Event
                 PROVE  /\ x # e => refs'[x] = count[x]
                        /\ x = e => refs'[x] = count[x] + 0 - own
      OBVIOUS
    <3>1. /\ x # e => refs'[x] = count[x]
          /\ x = e => refs'[x] = count[x] - own
      BY <1>2, <2>1
    <3>2. count[x] \in Int /\ own \in Int
      BY <1>0
    <3>3. QED
      BY <3>1, <3>2
  <2>5. \A x \in Event : x = e => Kept(stack, x)' = Kept(rest, x) + 0
    BY <1>0, <2>2
  <2>6. QED
    BY <1>s, <2>1, <2>2, <2>3, <2>4, <2>5
<1>5. CASE TriggerExplicit(e, count, rest)
  <2> DEFINE n == [count EXCEPT ![e] = @ + 1]
  <2>1. /\ refs' = Released(n, e, count[e] > 0) /\ DeleteUnused({e}, refs')
        /\ CallHook(e, rest) /\ rdv[e] \in Explicit /\ rdv' = [rdv EXCEPT ![e] = None]
        /\ ready' = [ready EXCEPT ![rdv[e]] = Append(@, e)]
    BY <1>5 DEF TriggerExplicit
  <2>2. n \in [Event -> Int] /\ n[e] = count[e] + 1 /\ \A x \in Event : x # e => n[x] = count[x]
    OBVIOUS
  <2>3. ~Joining(e)
    BY <2>1, ConstantsAssumption DEF ListInv, Spent
  <2>4. \A x \in Event : /\ IsFiniteSet(HooksTo(x)') /\ IsFiniteSet(ReadyOn(x)')
                         /\ x = e => Kept(stack, x)' = Kept(rest, x) + 1
                         /\ x # e => Kept(stack, x)' = Kept(rest, x)
                         /\ Finishing(rest, x) => Finishing(stack', x)
    BY <2>1, <2>3, KeptHook, HookFrames
  <2>5. rdv'[e] = None /\ \A x \in Event : x # e => rdv'[x] = rdv[x]
    BY <2>1 DEF TypeOK
  <2>6. \A x \in Event : /\ x # e => refs'[x] = count[x]
                         /\ x = e => refs'[x] = count[x] + 1 - own
    <3> SUFFICES ASSUME NEW x \in Event
                 PROVE  /\ x # e => refs'[x] = count[x]
                        /\ x = e => refs'[x] = count[x] + 1 - own
      OBVIOUS
    <3> HIDE DEF n
    <3>1. /\ x # e => refs'[x] = n[x]
          /\ x = e => refs'[x] = n[x] - own
      BY <1>2, <2>1, <2>2
    <3>2. count[x] \in Int /\ own \in Int
      BY <1>0
    <3>3. QED
      BY <2>2, <3>1, <3>2
  <2>7. QED
    <3> HIDE DEF n
    <3> QED BY <1>s, <2>1, <2>4, <2>5, <2>6
<1>6. CASE TriggerFunctional(e, count, rest)
  <2>1. /\ refs' = count /\ life' = life /\ hook' = hook /\ ready' = ready
        /\ rdv' = [rdv EXCEPT ![e] = None]
        /\ stack' = <<[op |-> "user"],
                      [op |-> "finish", ev |-> e, reduce |-> count[e] > 0]>> \o rest
    BY <1>6 DEF TriggerFunctional
  <2>2. (count[e] > 0) \in BOOLEAN /\ ((count[e] > 0) <=> own = 1)
    BY <1>1
  <2>7. ASSUME NEW x \in Event
        PROVE  /\ x # e => Cardinality(CallsOn(stack', x)) = Cardinality(CallsOn(rest, x))
               /\ x = e => Cardinality(CallsOn(stack', x)) = Cardinality(CallsOn(rest, x)) + own
    <3>1. PICK b \in BOOLEAN : b = (count[e] > 0)
      BY <2>2
    <3>2. stack' = <<[op |-> "user"], [op |-> "finish", ev |-> e, reduce |-> b]>> \o rest
      BY <2>1, <3>1
    <3>3. b <=> own = 1
      BY <2>2, <3>1
    <3>4. QED
      BY <3>2, <3>3, UserCalls
  <2>8. SUFFICES ASSUME NEW x \in Event
               PROVE  /\ IsFiniteSet(HooksTo(x)') /\ IsFiniteSet(ReadyOn(x)')
                      /\ refs'[x] = References(x)'
                      /\ life'[x] # "live" => refs'[x] = 0 /\ rdv'[x] = None
                      /\ life'[x] = "live" /\ refs'[x] = 0 => Finishing(stack', x)
    BY DEF CountInv
  <2>9. HooksTo(x)' = HooksTo(x) /\ ReadyOn(x)' = ReadyOn(x)
    BY <2>1 DEF HooksTo, ReadyOn
  <2>10. refs'[x] = References(x)'
    <3> DEFINE h == Cardinality(HooksTo(x))   r == Cardinality(ReadyOn(x))
               c == Cardinality(CallsOn(rest, x))
               cn == Cardinality(CallsOn(stack', x))
    <3>1. h \in Nat /\ r \in Nat /\ c \in Nat /\ cn \in Nat
      BY CallsFinite, FS_CardinalityType
    <3>2. (x # e => cn = c) /\ (x = e => cn = c + own)
      BY <2>7
    <3>3. References(x)' = handles'[x] + h + r + cn
      BY <2>9 DEF References
    <3>4. (x # e => count[x] = handles'[x] + (h + r + c))
          /\ (x = e => count[x] = handles'[x] + (h + r + c) + own)
      BY DEF Kept
    <3>5. handles'[x] \in Nat /\ own \in Nat /\ refs'[x] = count[x]
      BY <1>0, <2>1
    <3> HIDE DEF h, r, c, cn
    <3>6. CASE x = e
      BY <3>1, <3>2, <3>3, <3>4, <3>5, <3>6
    <3>7. CASE x # e
      BY <3>1, <3>2, <3>3, <3>4, <3>5, <3>7
    <3>8. QED
      BY <3>6, <3>7
  <2>11. life'[x] = "live" /\ refs'[x] = 0 => Finishing(stack', x)
    <3>1. Finishing(stack', x) <=> (x = e /\ ~(count[e] > 0)) \/ Finishing(rest, x)
      BY <2>1, <2>2, UserFrames
    <3>2. refs'[x] = count[x] /\ life'[x] = life[x]
      BY <2>1
    <3>3. CASE x = e
      BY <1>1, <3>1, <3>2, <3>3
    <3>4. CASE x # e
      BY <3>1, <3>2, <3>4
    <3>5. QED
      BY <3>3, <3>4
  <2>12. QED
    BY <2>1, <2>9, <2>10, <2>11 DEF TypeOK
<1>9. QED
  BY <1>3, <1>4, <1>5, <1>6 DEF SimpleTrigger

\* The calls on a stack are those below its top, and the top.
LEMMA CallsTop ==
  ASSUME NEW s \in Seq(Frame), s # <<>>, NEW x
  PROVE  /\ Holds(Head(s), x) =>
              Cardinality(CallsOn(s, x)) = Cardinality(CallsOn(Tail(s), x)) + 1
         /\ ~Holds(Head(s), x) =>
              Cardinality(CallsOn(s, x)) = Cardinality(CallsOn(Tail(s), x))
<1> DEFINE f == Head(s)   t == Tail(s)
<1>1. f \in Frame /\ t \in Seq(Frame) /\ s = <<f>> \o t
  OBVIOUS
<1> HIDE DEF f, t
<1>2. /\ Holds(f, x) => Cardinality(CallsOn(<<f>> \o t, x)) = Cardinality(CallsOn(t, x)) + 1
      /\ ~Holds(f, x) => Cardinality(CallsOn(<<f>> \o t, x)) = Cardinality(CallsOn(t, x))
  <2>1. f \in Frame /\ t \in Seq(Frame)
    BY <1>1
  <2>2. QED
    BY <2>1, CallsPush
<1>3. QED
  BY <1>1, <1>2 DEF f, t

\* Frames of calls that hold no event.
Idle(f) == f.op \notin {"trigger", "finish"}

\* Such a frame is pushed on s, or replaces one like it at the top of s, or is popped.
LEMMA IdleFrames ==
  ASSUME NEW s \in Seq(Frame), NEW x
  PROVE  /\ \A f \in Frame : Idle(f) =>
              /\ Cardinality(CallsOn(<<f>> \o s, x)) = Cardinality(CallsOn(s, x))
              /\ Finishing(s, x) => Finishing(<<f>> \o s, x)
         /\ s # <<>> /\ Idle(Head(s)) =>
              /\ Cardinality(CallsOn(Tail(s), x)) = Cardinality(CallsOn(s, x))
              /\ Finishing(s, x) => Finishing(Tail(s), x)
<1>1. ASSUME NEW f \in Frame, Idle(f)
      PROVE  /\ Cardinality(CallsOn(<<f>> \o s, x)) = Cardinality(CallsOn(s, x))
             /\ Finishing(s, x) => Finishing(<<f>> \o s, x)
  <2>1. ~Holds(f, x)
    BY <1>1 DEF Idle, Holds
  <2>2. PICK t : t = <<f>> \o s
    OBVIOUS
  <2>3. Finishing(s, x) => Finishing(t, x)
    BY <2>2, OnPush, Zenon
  <2>4. QED
    BY <2>1, <2>2, <2>3, CallsPush
<1>2. ASSUME s # <<>>, Idle(Head(s))
      PROVE  /\ Cardinality(CallsOn(Tail(s), x)) = Cardinality(CallsOn(s, x))
             /\ Finishing(s, x) => Finishing(Tail(s), x)
  <2>1. ~Holds(Head(s), x)
    BY <1>2 DEF Idle, Holds
  <2>2. Finishing(s, x) => Finishing(Tail(s), x)
    <3>1. Head(s) # [op |-> "finish", ev |-> x, reduce |-> FALSE]
      BY <1>2 DEF Idle
    <3>2. QED
      BY <1>2, <3>1, OnTop, Zenon
  <2>3. QED
    BY <1>2, <2>1, <2>2, CallsTop
<1>3. QED
  BY <1>1, <1>2

\* A step that takes events of D, which have triggered, off the ready list of q.
LEMMA LeaveCount ==
  ASSUME TypeOK, CountInv, NEW D, NEW q, stack' \in Seq(Frame),
         hook' = hook, handles' = handles, DeleteUnused(D, refs'),
         \A x \in Event :
           /\ Cardinality(CallsOn(stack', x)) = Cardinality(CallsOn(stack, x))
           /\ Finishing(stack, x) => Finishing(stack', x)
           /\ rdv'[x] \in {rdv[x], None}
           /\ x \in D => /\ rdv[x] = None /\ q \in ReadyOn(x)
                         /\ ReadyOn(x)' = ReadyOn(x) \ {q} /\ refs'[x] = refs[x] - 1
           /\ x \notin D => ReadyOn(x)' = ReadyOn(x) /\ refs'[x] = refs[x]
  PROVE  CountInv'
<1> SUFFICES ASSUME NEW x \in Event
             PROVE  /\ IsFiniteSet(HooksTo(x)') /\ IsFiniteSet(ReadyOn(x)')
                    /\ refs'[x] = References(x)'
                    /\ life'[x] # "live" => refs'[x] = 0 /\ rdv'[x] = None
                    /\ life'[x] = "live" /\ refs'[x] = 0 => Finishing(stack', x)
  BY DEF CountInv
<1> DEFINE h == Cardinality(HooksTo(x))
           r == Cardinality(ReadyOn(x))   rn == Cardinality(ReadyOn(x)')
           c == Cardinality(CallsOn(stack, x))
<1>1. /\ IsFiniteSet(HooksTo(x)) /\ IsFiniteSet(ReadyOn(x)) /\ refs[x] = References(x)
      /\ life[x] # "live" => refs[x] = 0 /\ rdv[x] = None
      /\ life[x] = "live" /\ refs[x] = 0 => Finishing(stack, x)
  BY DEF CountInv
<1>2. HooksTo(x)' = HooksTo(x)
  BY DEF HooksTo
<1>3. /\ IsFiniteSet(ReadyOn(x)')
      /\ x \in D => rn = r - 1
      /\ x \notin D => rn = r
  BY <1>1, FS_RemoveElement
<1>4. stack \in Seq(Frame) /\ handles[x] \in Nat
  BY DEF TypeOK
<1>5. h \in Nat /\ r \in Nat /\ rn \in Nat /\ c \in Nat
  BY <1>1, <1>3, <1>4, CallsFinite, FS_CardinalityType
<1>6. References(x) = handles[x] + h + r + c /\ References(x)' = handles[x] + h + rn + c
  BY <1>2 DEF References
<1>7. life'[x] = IF x \in D /\ refs'[x] = 0 THEN "deleted" ELSE life[x]
  BY DEF DeleteUnused
<1>8. refs'[x] = References(x)' /\ refs'[x] >= 0
  <2> HIDE DEF h, r, rn, c
  <2>1. CASE x \in D
    BY <1>1, <1>3, <1>4, <1>5, <1>6, <2>1
  <2>2. CASE x \notin D
    BY <1>1, <1>3, <1>4, <1>5, <1>6, <2>2
  <2>3. QED
    BY <2>1, <2>2
<1>9. CASE x \in D
  <2>1. refs[x] \in Int /\ refs'[x] = refs[x] - 1 /\ rdv[x] = None
    BY <1>9 DEF TypeOK
  <2>2. life[x] = "live"
    BY <1>1, <1>8, <2>1
  <2>3. QED
    BY <1>1, <1>2, <1>3, <1>7, <1>8, <1>9, <2>1, <2>2
<1>10. CASE x \notin D
  BY <1>1, <1>2, <1>3, <1>7, <1>8, <1>10
<1>11. QED
  BY <1>9, <1>10

\* A step that changes neither events nor ready lists.
LEMMA QuietCount ==
  ASSUME TypeOK, CountInv, stack' \in Seq(Frame),
         hook' = hook, handles' = handles, refs' = refs, life' = life, ready' = ready,
         \A x \in Event :
           /\ Cardinality(CallsOn(stack', x)) = Cardinality(CallsOn(stack, x))
           /\ Finishing(stack, x) => Finishing(stack', x)
           /\ rdv'[x] \in {rdv[x], None}
  PROVE  CountInv'
<1>1. \A x \in Event : ReadyOn(x)' = ReadyOn(x)
  BY DEF ReadyOn
<1>2. DeleteUnused({}, refs')
  BY DEF DeleteUnused, TypeOK
<1>3. QED
  BY <1>1, <1>2, LeaveCount

\* What CountInv says of one event.
LEMMA CountFacts ==
  ASSUME TypeOK, CountInv, NEW x \in Event
  PROVE  /\ IsFiniteSet(HooksTo(x)) /\ IsFiniteSet(ReadyOn(x))
         /\ refs[x] \in Int /\ handles[x] \in Nat /\ Kept(stack, x) \in Nat
         /\ refs[x] = handles[x] + Kept(stack, x)
         /\ life[x] # "live" => refs[x] = 0 /\ rdv[x] = None
         /\ life[x] = "live" /\ refs[x] = 0 => Finishing(stack, x)
<1>1. /\ IsFiniteSet(HooksTo(x)) /\ IsFiniteSet(ReadyOn(x)) /\ refs[x] = References(x)
      /\ life[x] # "live" => refs[x] = 0 /\ rdv[x] = None
      /\ life[x] = "live" /\ refs[x] = 0 => Finishing(stack, x)
  BY DEF CountInv
<1>2. stack \in Seq(Frame) /\ handles[x] \in Nat /\ refs[x] \in Int
  BY DEF TypeOK
<1>3. /\ Cardinality(HooksTo(x)) \in Nat /\ Cardinality(ReadyOn(x)) \in Nat
      /\ Cardinality(CallsOn(stack, x)) \in Nat
  BY <1>1, <1>2, CallsFinite, FS_CardinalityType
<1>4. References(x) = handles[x] + Kept(stack, x) /\ Kept(stack, x) \in Nat
  BY <1>2, <1>3 DEF References, Kept
<1>5. QED
  BY <1>1, <1>2, <1>4

\* The runtime keeps one reference less when a call that holds the event returns.
LEMMA KeptTop ==
  ASSUME NEW s \in Seq(Frame), s # <<>>, NEW x,
         IsFiniteSet(HooksTo(x)), IsFiniteSet(ReadyOn(x))
  PROVE  /\ Holds(Head(s), x) => Kept(s, x) = Kept(Tail(s), x) + 1
         /\ ~Holds(Head(s), x) => Kept(s, x) = Kept(Tail(s), x)
<1> DEFINE h == Cardinality(HooksTo(x))   r == Cardinality(ReadyOn(x))
           c == Cardinality(CallsOn(Tail(s), x))
<1>1. Tail(s) \in Seq(Frame)
  OBVIOUS
<1>2. h \in Nat /\ r \in Nat /\ c \in Nat
  BY <1>1, CallsFinite, FS_CardinalityType
<1>3. Kept(Tail(s), x) = h + r + c
  BY DEF Kept
<1>4. /\ Holds(Head(s), x) => Kept(s, x) = h + r + (c + 1)
      /\ ~Holds(Head(s), x) => Kept(s, x) = h + r + c
  BY CallsTop DEF Kept
<1> HIDE DEF h, r, c
<1>5. QED
  BY <1>2, <1>3, <1>4

LEMMA RuntimeCount ==
  ASSUME WakeInv, ListInv, CountInv, Runtime, stack' \in Seq(Frame)
  PROVE  CountInv'
<1>0. TypeOK /\ stack \in Seq(Frame)
  BY DEF WakeInv, TypeOK
<1>0a. stack # <<>>
  BY DEF Runtime, TriggerNext, FinishTrigger, ClearBegin, ClearVisit, ClearNext,
         ClearEnd, FreeRendezvous, FreeClosure, TwaitJoins, TwaitBlocks, TopOp
<1> DEFINE h == Head(stack)
           t == Tail(stack)
<1>0b. /\ h \in Frame /\ t \in Seq(Frame)
       /\ \A x : Finishing(stack, x) <=>
            h = [op |-> "finish", ev |-> x, reduce |-> FALSE] \/ Finishing(t, x)
  BY <1>0, <1>0a, OnTop
<1>0c. ASSUME Idle(h), NEW f \in Frame, Idle(f), NEW x
       PROVE  /\ Cardinality(CallsOn(<<f>> \o t, x)) = Cardinality(CallsOn(stack, x))
              /\ Finishing(stack, x) => Finishing(<<f>> \o t, x)
  <2>1. /\ Cardinality(CallsOn(t, x)) = Cardinality(CallsOn(stack, x))
        /\ Finishing(stack, x) => Finishing(t, x)
    BY <1>0, <1>0a, <1>0c, IdleFrames
  <2>2. /\ Cardinality(CallsOn(<<f>> \o t, x)) = Cardinality(CallsOn(t, x))
        /\ Finishing(t, x) => Finishing(<<f>> \o t, x)
    BY <1>0b, <1>0c, IdleFrames
  <2>3. QED
    BY <2>1, <2>2
<1>0d. ASSUME Idle(h), NEW x
       PROVE  /\ Cardinality(CallsOn(t, x)) = Cardinality(CallsOn(stack, x))
              /\ Finishing(stack, x) => Finishing(t, x)
  BY <1>0, <1>0a, <1>0d, IdleFrames
\* Steps that leave the frames that hold events, and the events, alone.
<1>q. ASSUME Idle(h), stack' = t \/ \E f \in Frame : Idle(f) /\ stack' = <<f>> \o t,
             hook' = hook, handles' = handles, refs' = refs, life' = life, ready' = ready,
             \A x \in Event : rdv'[x] \in {rdv[x], None}
      PROVE  CountInv'
  <2>1. \A x \in Event : /\ Cardinality(CallsOn(stack', x)) = Cardinality(CallsOn(stack, x))
                         /\ Finishing(stack, x) => Finishing(stack', x)
    BY <1>0c, <1>0d, <1>q
  <2>2. QED
    BY <1>0, <1>q, <2>1, QuietCount
<1>1. CASE TriggerNext
  <2>1. PICK e \in Event : /\ h = [op |-> "trigger", ev |-> e]
                           /\ SimpleTrigger(e, refs, t) /\ handles' = handles
    BY <1>0b, <1>1 DEF TriggerNext, TopOp, Frame
  <2>2. /\ \A x : Holds(h, x) <=> x = e
        /\ \A x : Finishing(stack, x) => Finishing(t, x)
    BY <1>0b, <2>1 DEF Holds
  <2>3. refs \in [Event -> Int] /\ handles' \in [Event -> Nat]
    BY <1>0, <2>1 DEF TypeOK
  <2>4. \A x \in Event : /\ Kept(t, x) \in Nat
                         /\ x = e => Kept(stack, x) = Kept(t, x) + 1
                         /\ x # e => Kept(stack, x) = Kept(t, x)
    BY <1>0, <1>0a, <1>0b, <2>2, CountFacts, KeptNat, KeptTop
  <2>5. Owing(e, refs, t, 1) /\ refs[e] # 0
    <3>1. refs[e] = handles[e] + Kept(stack, e) /\ handles[e] \in Nat
      BY <1>0, CountFacts
    <3>a. Kept(stack, e) = Kept(t, e) + 1 /\ Kept(t, e) \in Nat /\ handles'[e] = handles[e]
      BY <2>1, <2>4
    <3>2. refs[e] = handles'[e] + Kept(t, e) + 1 /\ refs[e] # 0
      BY <3>1, <3>a
    <3>3. \A x \in Event : x # e => refs[x] = handles'[x] + Kept(t, x)
      BY <1>0, <2>1, <2>4, CountFacts
    <3>4. \A x \in Event : /\ IsFiniteSet(HooksTo(x)) /\ IsFiniteSet(ReadyOn(x))
                           /\ life[x] # "live" => refs[x] = 0 /\ rdv[x] = None
                           /\ life[x] = "live" /\ refs[x] = 0 => Finishing(t, x)
      BY <1>0, <2>2, CountFacts
    <3>5. QED
      BY <2>3, <3>2, <3>3, <3>4 DEF Owing
  <2>6. life[e] = "live"
    BY <1>0, <2>5, CountFacts
  <2>7. PICK own \in {0, 1} : own = 1
    OBVIOUS
  <2>8. Owing(e, refs, t, own) /\ (own = 0 => refs[e] = 0 /\ rdv[e] # None)
    BY <2>5, <2>7
  <2>9. QED
    BY <1>0, <1>0b, <2>1, <2>3, <2>6, <2>8, TriggerCount
<1>2. CASE FinishTrigger
  <2>1. PICK e \in Event, b \in BOOLEAN : h = [op |-> "finish", ev |-> e, reduce |-> b]
    BY <1>0b, <1>2 DEF FinishTrigger, TopOp, Frame
  <2>2. /\ refs' = Released(refs, e, b) /\ DeleteUnused({e}, refs') /\ CallHook(e, t)
        /\ handles' = handles /\ ready' = ready /\ rdv' = rdv
    <3>1. h.ev = e /\ h.reduce = b
      BY <2>1
    <3>2. /\ refs' = Released(refs, h.ev, h.reduce)
          /\ DeleteUnused({h.ev}, refs') /\ CallHook(h.ev, t)
          /\ handles' = handles /\ ready' = ready /\ rdv' = rdv
      BY <1>2 DEF FinishTrigger
    <3>3. QED
      BY <3>1, <3>2
  <2>3. PICK own \in {0, 1} : own = 1 <=> b
    OBVIOUS
  <2>4. /\ \A x : Holds(h, x) <=> x = e /\ b
        /\ \A x : x # e /\ Finishing(stack, x) => Finishing(t, x)
    BY <1>0b, <2>1 DEF Holds
  <2>5. \A x \in Event : /\ Kept(t, x) \in Nat
                         /\ x = e => Kept(stack, x) = Kept(t, x) + own
                         /\ x # e => Kept(stack, x) = Kept(t, x)
    <3> SUFFICES ASSUME NEW x \in Event
                 PROVE  /\ Kept(t, x) \in Nat
                        /\ x = e => Kept(stack, x) = Kept(t, x) + own
                        /\ x # e => Kept(stack, x) = Kept(t, x)
      OBVIOUS
    <3>1. /\ Kept(t, x) \in Nat
          /\ Holds(h, x) => Kept(stack, x) = Kept(t, x) + 1
          /\ ~Holds(h, x) => Kept(stack, x) = Kept(t, x)
      BY <1>0, <1>0a, <1>0b, CountFacts, KeptNat, KeptTop
    <3>2. QED
      BY <2>3, <2>4, <3>1
  <2>6. Owing(e, refs, t, own)
    <3>1. \A x \in Event : /\ x = e => refs[x] = handles'[x] + Kept(t, x) + own
                           /\ x # e => refs[x] = handles'[x] + Kept(t, x)
      <4> SUFFICES ASSUME NEW x \in Event
                   PROVE  /\ x = e => refs[x] = handles'[x] + Kept(t, x) + own
                          /\ x # e => refs[x] = handles'[x] + Kept(t, x)
        OBVIOUS
      <4>1. /\ refs[x] = handles[x] + Kept(stack, x)
            /\ handles[x] \in Nat /\ handles'[x] = handles[x]
        BY <1>0, <2>2, CountFacts
      <4>2. /\ Kept(t, x) \in Nat
            /\ x = e => Kept(stack, x) = Kept(t, x) + own
            /\ x # e => Kept(stack, x) = Kept(t, x)
        BY <2>5
      <4>3. QED
        BY <4>1, <4>2
    <3>2. \A x \in Event : /\ IsFiniteSet(HooksTo(x)) /\ IsFiniteSet(ReadyOn(x))
                           /\ life[x] # "live" => refs[x] = 0 /\ rdv[x] = None
                           /\ x # e /\ life[x] = "live" /\ refs[x] = 0 => Finishing(t, x)
      BY <1>0, <2>4, CountFacts
    <3>3. handles' \in [Event -> Nat]
      BY <1>0, <2>2 DEF TypeOK
    <3>4. QED
      BY <3>1, <3>2, <3>3 DEF Owing
  <2>7. rdv[e] = None
    <3>1. h.op = "finish" /\ h.ev = e
      BY <2>1
    <3>2. Finishes(stack, e)
      BY <1>0, <1>0a, <3>1, OnTop
    <3>3. QED
      BY <3>2 DEF ListInv, Spent
  <2>8. Paying(e, refs, t, own, 0)
    <3> SUFFICES ASSUME NEW x \in Event
                 PROVE  /\ IsFiniteSet(HooksTo(x)') /\ IsFiniteSet(ReadyOn(x)')
                        /\ Kept(stack, x)' = Kept(t, x)
                        /\ Kept(stack, x)' = Kept(t, x) + 0
                        /\ x # e => refs'[x] = refs[x]
                        /\ x = e => refs'[x] = refs[x] + 0 - own
                        /\ Finishing(t, x) => Finishing(stack', x)
      BY <2>2, <2>7 DEF Paying
    <3>1. /\ IsFiniteSet(HooksTo(x)') /\ ReadyOn(x)' = ReadyOn(x) /\ IsFiniteSet(ReadyOn(x))
          /\ Kept(stack, x)' = Kept(t, x) /\ (Finishing(t, x) => Finishing(stack', x))
      BY <1>0, <1>0b, <2>2, CountFacts, KeptHook, HookFrames DEF ReadyOn
    <3>2. refs[x] \in Int /\ refs \in [Event -> Int] /\ Kept(t, x) \in Nat
      BY <1>0, <2>5 DEF TypeOK
    <3>3. CASE b
      BY <2>2, <2>3, <3>1, <3>2, <3>3 DEF Released
    <3>4. CASE ~b
      BY <2>2, <2>3, <3>1, <3>2, <3>4 DEF Released
    <3>5. QED
      BY <3>3, <3>4
  <2>9. refs \in [Event -> Int]
    BY <1>0 DEF TypeOK
  <2>10. QED
    BY <1>0, <1>0b, <2>6, <2>8, <2>9, Settled
<1>3. CASE ClearBegin
  <2>1. PICK q \in Blocking : q = h.r /\ h.op = "clear"
    BY <1>0, <1>0a, <1>3, FrameFields DEF ClearBegin, TopOp
  <2>2. PICK f \in Frame : f = [op |-> "visit", r |-> q, list |-> waiting[q]]
    BY <1>0, <2>1, OwnedApart DEF Frame, TypeOK
  <2>3. Idle(h) /\ Idle(f) /\ stack' = <<f>> \o t
    BY <1>3, <2>1, <2>2 DEF ClearBegin, Replace, Idle
  <2>4. QED
    BY <1>q, <1>3, <2>3 DEF ClearBegin
<1>4. CASE ClearVisit
  <2>1. h.op = "visit" /\ h.list \in Seq(Event) /\ h.list # <<>>
    BY <1>0, <1>0a, <1>4, FrameFields DEF ClearVisit, TopOp
  <2>2. PICK f \in Frame : f = [h EXCEPT !.op = "next"]
    BY <1>0b, <2>1 DEF Frame
  <2>3. Idle(f) /\ Idle(h)
    BY <1>0b, <2>1, <2>2 DEF Frame, Idle
  <2>4. PICK e \in Event, rest \in Seq(Frame) : e = Head(h.list) /\ rest = <<f>> \o t
    <3>1. Head(h.list) \in Event
      BY <2>1
    <3>2. <<f>> \o t \in Seq(Frame)
      BY <1>0b, ConsFrame
    <3>3. QED
      BY <3>1, <3>2, Zenon
  <2>5. CallHook(e, rest) /\ UNCHANGED <<life, rdv, refs, handles, ready>>
    BY <1>4, <2>2, <2>4 DEF ClearVisit, Replace
  <2>6. \A x : /\ Cardinality(CallsOn(rest, x)) = Cardinality(CallsOn(stack, x))
               /\ Finishing(stack, x) => Finishing(rest, x)
    BY <1>0c, <2>3, <2>4
  <2>7. ASSUME NEW x \in Event
        PROVE  /\ IsFiniteSet(HooksTo(x)') /\ IsFiniteSet(ReadyOn(x)')
               /\ refs'[x] = References(x)'
               /\ life'[x] # "live" => refs'[x] = 0 /\ rdv'[x] = None
               /\ life'[x] = "live" /\ refs'[x] = 0 => Finishing(stack', x)
    <3>1. /\ IsFiniteSet(HooksTo(x)') /\ ReadyOn(x)' = ReadyOn(x) /\ IsFiniteSet(ReadyOn(x))
          /\ Kept(stack, x)' = Kept(rest, x) /\ (Finishing(rest, x) => Finishing(stack', x))
      BY <1>0, <2>5, CountFacts, KeptHook, HookFrames DEF ReadyOn
    <3>2. Kept(rest, x) = Kept(stack, x)
      BY <2>6 DEF Kept
    <3>3. References(x)' = handles[x] + Kept(stack, x)'
      <4>1. /\ handles[x] \in Nat /\ Cardinality(HooksTo(x)') \in Nat
            /\ Cardinality(ReadyOn(x)') \in Nat /\ Cardinality(CallsOn(stack', x)) \in Nat
        BY <1>0, <3>1, CountFacts, CallsFinite, FS_CardinalityType
      <4>2. QED
        BY <2>5, <4>1 DEF References, Kept
    <3>4. QED
      BY <1>0, <2>5, <2>6, <3>1, <3>2, <3>3, CountFacts
  <2>8. QED
    BY <2>7 DEF CountInv
<1>5. CASE ClearNext
  <2>1. h.op = "next" /\ h.r \in Blocking /\ h.list \in Seq(Event) /\ h.list # <<>>
    BY <1>0, <1>0a, <1>5, FrameFields DEF ClearNext, TopOp
  <2>2. PICK f \in Frame : f = [op |-> "visit", r |-> h.r, list |-> Tail(h.list)]
    <3>1. Tail(h.list) \in Seq(Event)
      BY <2>1
    <3>2. QED
      BY <2>1, <3>1 DEF Frame
  <2>3. Idle(h) /\ Idle(f) /\ stack' = <<f>> \o t
    BY <1>5, <2>1, <2>2 DEF ClearNext, Replace, Idle
  <2>4. QED
    BY <1>q, <1>5, <2>3 DEF ClearNext, eventVars
<1>7. CASE FreeRendezvous
  <2>1. h.op = "free" /\ h.left \in SUBSET Blocking
    BY <1>0, <1>0a, <1>7, FrameFields DEF FreeRendezvous, TopOp
  <2>2. PICK q \in h.left :
          stack' = <<[op |-> "clear", r |-> q]>> \o Replace([h EXCEPT !.left = @ \ {q}])
    BY <1>7 DEF FreeRendezvous
  <2>3. PICK f \in Frame, k \in Frame :
          f = [h EXCEPT !.left = @ \ {q}] /\ k = [op |-> "clear", r |-> q]
    BY <1>0b, <2>1 DEF Frame
  <2>4. Idle(h) /\ Idle(f) /\ Idle(k)
    BY <1>0b, <2>1, <2>3 DEF Frame, Idle
  <2>5. PICK s \in Seq(Frame) : s = <<f>> \o t
    BY <1>0b, <2>3, ConsFrame
  <2>6. stack' = <<k>> \o s
    BY <2>2, <2>3, <2>5 DEF Replace
  <2>7. \A x : /\ Cardinality(CallsOn(s, x)) = Cardinality(CallsOn(stack, x))
               /\ Finishing(stack, x) => Finishing(s, x)
    BY <1>0c, <2>4, <2>5
  <2>8. \A x : /\ Cardinality(CallsOn(<<k>> \o s, x)) = Cardinality(CallsOn(s, x))
               /\ Finishing(s, x) => Finishing(<<k>> \o s, x)
    BY <2>4, IdleFrames
  <2>9. QED
    BY <1>0, <1>7, <2>6, <2>7, <2>8, QuietCount DEF FreeRendezvous, eventVars
<1>8. CASE FreeClosure
  <2>1. Idle(h) /\ stack' = t
    BY <1>8 DEF FreeClosure, TopOp, Idle
  <2>2. QED
    BY <1>q, <1>8, <2>1 DEF FreeClosure, eventVars
<1>10. CASE TwaitBlocks
  <2>1. Idle(h) /\ stack' = t
    BY <1>10 DEF TwaitBlocks, TopOp, Idle
  <2>2. QED
    BY <1>q, <1>10, <2>1 DEF TwaitBlocks, eventVars
<1>6. CASE ClearEnd
  <2>1. PICK q \in Blocking : q = h.r /\ h.op = "visit"
    BY <1>0, <1>0a, <1>6, FrameFields DEF ClearEnd, TopOp
  <2>2. Idle(h) /\ stack' = t
    BY <1>6, <2>1 DEF ClearEnd, Idle
  <2>3. CASE q \notin Explicit
    BY <1>q, <1>6, <2>1, <2>2, <2>3 DEF ClearEnd
  <2>4. CASE q \in Explicit
    <3>1. PICK list \in Seq(Event) : list = ready[q]
      BY <1>0, <2>4 DEF TypeOK
    <3>2. \A i, j \in 1 .. Len(list) : list[i] = list[j] => i = j
      BY <2>4, <3>1 DEF ListInv
    <3>3. DOMAIN list = 1 .. Len(list)
      BY <3>1
    <3> DEFINE D == {list[i] : i \in 1 .. Len(list)}
    <3>4. /\ ready' = [ready EXCEPT ![q] = <<>>] /\ DeleteUnused(D, refs')
          /\ refs' = [e \in Event |-> refs[e] - Cardinality({i \in 1 .. Len(list) : list[i] = e})]
          /\ hook' = hook /\ handles' = handles /\ rdv' = rdv
      BY <1>6, <2>1, <2>4, <3>1, <3>3 DEF ClearEnd
    <3>5. \A x \in Event : x \in D <=> q \in ReadyOn(x)
      BY <2>4, <3>1, <3>3 DEF ReadyOn
    <3>6. \A x \in Event : ReadyOn(x)' = ReadyOn(x) \ {q}
      <4>1. /\ DOMAIN ready'[q] = {}
            /\ \A r \in Explicit : r # q => ready'[r] = ready[r]
        BY <1>0, <2>4, <3>4 DEF TypeOK
      <4>2. QED
        BY <4>1 DEF ReadyOn
    <3>7. ASSUME NEW x \in Event
          PROVE  /\ x \in D => refs'[x] = refs[x] - 1
                 /\ x \notin D => refs'[x] = refs[x]
      <4> DEFINE I == {i \in 1 .. Len(list) : list[i] = x}
      <4>1. refs'[x] = refs[x] - Cardinality(I) /\ refs[x] \in Int
        BY <1>0, <3>4 DEF TypeOK
      <4>2. ASSUME x \in D PROVE Cardinality(I) = 1
        <5>1. PICK i \in 1 .. Len(list) : list[i] = x
          BY <4>2
        <5>2. I = {i}
          BY <3>2, <5>1
        <5>3. QED
          BY <5>2, FS_Singleton
      <4>3. ASSUME x \notin D PROVE Cardinality(I) = 0
        <5>1. I = {}
          BY <4>3
        <5>2. QED
          BY <5>1, FS_EmptySet
      <4> HIDE DEF I, D
      <4>4. QED
        BY <4>1, <4>2, <4>3
    <3>8. \A x \in Event : x \in D => rdv[x] = None
      BY <2>4, <3>1 DEF ListInv, Spent, Joining
    <3>9. \A x \in Event : /\ Cardinality(CallsOn(stack', x)) = Cardinality(CallsOn(stack, x))
                           /\ Finishing(stack, x) => Finishing(stack', x)
      BY <1>0d, <2>2
    <3> HIDE DEF D
    <3>10. \A x \in Event : x \notin D => ReadyOn(x)' = ReadyOn(x)
      BY <3>5, <3>6
    <3>11. QED
      BY <1>0, <3>4, <3>5, <3>6, <3>7, <3>8, <3>9, <3>10, LeaveCount
  <2>5. QED
    BY <2>3, <2>4
<1>9. CASE TwaitJoins
  <2>1. PICK c \in Closure, q \in Blocking : c = h.c /\ q = h.r /\ h.op = "twait"
    BY <1>0, <1>0a, <1>9, FrameFields DEF TwaitJoins, TopOp
  <2>2. PICK f \in Frame : f = [op |-> "run", c |-> c]
    BY DEF Frame
  <2>3. Idle(h) /\ Idle(f) /\ stack' = <<f>> \o t
    BY <1>9, <2>1, <2>2 DEF TwaitJoins, Replace, Idle
  <2>4. CASE q \notin Explicit
    BY <1>q, <1>9, <2>1, <2>3, <2>4 DEF TwaitJoins
  <2>5. CASE q \in Explicit
    <3>1. PICK list \in Seq(Event) : list = ready[q]
      BY <1>0, <2>5 DEF TypeOK
    <3>2. \A i, j \in 1 .. Len(list) : list[i] = list[j] => i = j
      BY <2>5, <3>1 DEF ListInv
    <3>3. list # <<>>
      BY <1>9, <2>1, <2>5, <3>1 DEF TwaitJoins
    <3>4. PICK e \in Event : e = Head(list)
      BY <3>3
    <3>5. /\ ready' = [ready EXCEPT ![q] = Tail(list)] /\ DeleteUnused({e}, refs')
          /\ refs' = [refs EXCEPT ![e] = @ - 1]
          /\ hook' = hook /\ handles' = handles /\ rdv' = rdv
      BY <1>9, <2>1, <2>5, <3>1, <3>4 DEF TwaitJoins
    <3>6. /\ DOMAIN list = 1 .. Len(list) /\ 1 \in 1 .. Len(list) /\ list[1] = e
          /\ DOMAIN Tail(list) = 1 .. Len(list) - 1
          /\ \A i \in 1 .. Len(list) - 1 : Tail(list)[i] = list[i + 1] /\ i + 1 \in 1 .. Len(list)
          /\ \A i \in 1 .. Len(list) : i # 1 => i - 1 \in 1 .. Len(list) - 1 /\ list[i] = Tail(list)[i - 1]
      BY <3>3, <3>4
    <3> DEFINE tl == Tail(list)   n == Len(list) - 1
    <3>6a. /\ DOMAIN tl = 1 .. n /\ \A i \in 1 .. n : tl[i] = list[i + 1] /\ i + 1 \in DOMAIN list
           /\ \A i \in DOMAIN list : i # 1 => i - 1 \in 1 .. n /\ list[i] = tl[i - 1]
           /\ 1 \in DOMAIN list /\ list[1] = e
           /\ \A i, j \in DOMAIN list : list[i] = list[j] => i = j
           /\ \A i \in 1 .. n : i + 1 # 1
      BY <3>2, <3>6
    <3> HIDE DEF tl, n
    <3>7. \A x : (\E i \in DOMAIN tl : tl[i] = x) <=>
                   x # e /\ \E i \in DOMAIN list : list[i] = x
      <4>1. \A i \in DOMAIN tl : tl[i] # e
        BY <3>6a
      <4>2. \A i \in DOMAIN tl : \E j \in DOMAIN list : list[j] = tl[i]
        BY <3>6a
      <4>3. \A j \in DOMAIN list : list[j] # e => \E i \in DOMAIN tl : tl[i] = list[j]
        BY <3>6a
      <4>4. QED
        BY <4>1, <4>2, <4>3, Zenon
    <3>8. /\ ready'[q] = tl
          /\ \A r \in Explicit : r # q => ready'[r] = ready[r]
      BY <1>0, <2>5, <3>5 DEF TypeOK, tl
    <3>9. \A x : /\ x = e => ReadyOn(x)' = ReadyOn(x) \ {q} /\ q \in ReadyOn(x)
                 /\ x # e => ReadyOn(x)' = ReadyOn(x)
      <4> TAKE x
      <4>1. \A r \in Explicit : (\E i \in DOMAIN ready'[r] : ready'[r][i] = x) <=>
              (\E i \in DOMAIN ready[r] : ready[r][i] = x) /\ ~(r = q /\ x = e)
        <5> TAKE r \in Explicit
        <5>1. CASE r = q
          BY <3>1, <3>7, <3>8, <5>1
        <5>2. CASE r # q
          BY <3>8, <5>2
        <5>3. QED
          BY <5>1, <5>2
      <4>2. q \in ReadyOn(e)
        BY <2>5, <3>1, <3>6 DEF ReadyOn
      <4>3. QED
        BY <4>1, <4>2 DEF ReadyOn
    <3>10. rdv[e] = None
      BY <2>5, <3>1, <3>6 DEF ListInv, Spent, Joining
    <3>11. \A x \in Event : /\ x = e => refs'[x] = refs[x] - 1
                            /\ x # e => refs'[x] = refs[x]
      BY <1>0, <3>5 DEF TypeOK
    <3>12. \A x \in Event : /\ Cardinality(CallsOn(stack', x)) = Cardinality(CallsOn(stack, x))
                            /\ Finishing(stack, x) => Finishing(stack', x)
      BY <1>0c, <2>3
    <3> DEFINE D == {e}
    <3>13. /\ \A x \in Event : x \in D <=> x = e
           /\ DeleteUnused(D, refs')
      BY <3>5
    <3> HIDE DEF D
    <3>14. QED
      BY <1>0, <3>5, <3>9, <3>10, <3>11, <3>12, <3>13, LeaveCount
  <2>6. QED
    BY <2>4, <2>5
<1>11. QED
  BY <1>1, <1>2, <1>3, <1>4, <1>5, <1>6, <1>7, <1>8, <1>9, <1>10 DEF Runtime

LEMMA UserCount ==
  ASSUME WakeInv, ListInv, CountInv, RunUnblocked \/ User, stack' \in Seq(Frame)
  PROVE  CountInv'
<1>0. TypeOK /\ stack \in Seq(Frame)
  BY DEF WakeInv, TypeOK
\* Steps that leave the frames that hold events, and the events, alone.
<1>p. ASSUME stack' = stack \/ \E f \in Frame : Idle(f) /\ stack' = <<f>> \o stack,
             UNCHANGED <<life, rdv, refs, hook, handles, ready>>
      PROVE  CountInv'
  <2>1. \A x \in Event : /\ Cardinality(CallsOn(stack', x)) = Cardinality(CallsOn(stack, x))
                         /\ Finishing(stack, x) => Finishing(stack', x)
    <3> TAKE x \in Event
    <3>1. \A f \in Frame : Idle(f) =>
            /\ Cardinality(CallsOn(<<f>> \o stack, x)) = Cardinality(CallsOn(stack, x))
            /\ Finishing(stack, x) => Finishing(<<f>> \o stack, x)
      BY <1>0, IdleFrames
    <3>2. CASE stack' = stack
      BY <3>2
    <3>3. CASE \E f \in Frame : Idle(f) /\ stack' = <<f>> \o stack
      BY <3>1, <3>3
    <3>4. QED
      BY <1>p, <3>2, <3>3
  <2>2. QED
    BY <1>0, <1>p, <2>1, QuietCount
<1>r. ASSUME stack # <<>>, Idle(Head(stack)),
             \/ stack' = Tail(stack)
             \/ \E f \in Frame : Idle(f) /\ stack' = <<f>> \o Tail(stack),
             UNCHANGED <<life, rdv, refs, hook, handles, ready>>
      PROVE  CountInv'
  <2>1. \A x \in Event : /\ Cardinality(CallsOn(stack', x)) = Cardinality(CallsOn(stack, x))
                         /\ Finishing(stack, x) => Finishing(stack', x)
    <3> TAKE x \in Event
    <3>1. /\ Tail(stack) \in Seq(Frame)
          /\ Cardinality(CallsOn(Tail(stack), x)) = Cardinality(CallsOn(stack, x))
          /\ Finishing(stack, x) => Finishing(Tail(stack), x)
      BY <1>0, <1>r, IdleFrames
    <3>2. \A f \in Frame : Idle(f) =>
            /\ Cardinality(CallsOn(<<f>> \o Tail(stack), x)) = Cardinality(CallsOn(Tail(stack), x))
            /\ Finishing(Tail(stack), x) => Finishing(<<f>> \o Tail(stack), x)
      BY <3>1, IdleFrames
    <3>3. QED
      BY <1>r, <3>1, <3>2
  <2>2. QED
    BY <1>0, <1>r, <2>1, QuietCount
\* Steps that only move event<> objects.
<1>h. ASSUME stack' = stack, hook' = hook, ready' = ready, handles' \in [Event -> Nat],
             \A x \in Event : /\ refs'[x] = handles'[x] + Kept(stack, x)
                              /\ life'[x] # "live" => refs'[x] = 0 /\ rdv'[x] = None
                              /\ life'[x] = "live" /\ refs'[x] = 0 => Finishing(stack, x)
      PROVE  CountInv'
  <2> SUFFICES ASSUME NEW x \in Event
               PROVE  /\ IsFiniteSet(HooksTo(x)') /\ IsFiniteSet(ReadyOn(x)')
                      /\ refs'[x] = References(x)'
                      /\ life'[x] # "live" => refs'[x] = 0 /\ rdv'[x] = None
                      /\ life'[x] = "live" /\ refs'[x] = 0 => Finishing(stack', x)
    BY DEF CountInv
  <2>1. HooksTo(x)' = HooksTo(x) /\ ReadyOn(x)' = ReadyOn(x)
    BY <1>h DEF HooksTo, ReadyOn
  <2>2. /\ IsFiniteSet(HooksTo(x)) /\ IsFiniteSet(ReadyOn(x)) /\ handles'[x] \in Nat
    BY <1>0, <1>h, CountFacts
  <2>3. /\ Cardinality(HooksTo(x)) \in Nat /\ Cardinality(ReadyOn(x)) \in Nat
        /\ Cardinality(CallsOn(stack, x)) \in Nat
    BY <1>0, <2>2, CallsFinite, FS_CardinalityType
  <2>4. References(x)' = handles'[x] + Kept(stack, x)
    BY <1>h, <2>1, <2>2, <2>3 DEF References, Kept
  <2>5. QED
    BY <1>h, <2>1, <2>2, <2>4
\* An event<> of an event is given up: what the trigger then starts from.
<1>g. ASSUME NEW e \in Event, handles[e] > 0, handles' = [handles EXCEPT ![e] = @ - 1]
      PROVE  /\ life[e] = "live" /\ refs[e] \in Nat \ {0}
             /\ Owing(e, refs, stack, 1)
             /\ Owing(e, [refs EXCEPT ![e] = @ - 1], stack, 0)
  <2>1. handles' \in [Event -> Nat] /\ handles'[e] = handles[e] - 1
        /\ \A x \in Event : x # e => handles'[x] = handles[x]
    BY <1>0, <1>g DEF TypeOK
  <2>2. \A x \in Event :
          /\ IsFiniteSet(HooksTo(x)) /\ IsFiniteSet(ReadyOn(x))
          /\ refs[x] \in Int /\ handles[x] \in Nat /\ Kept(stack, x) \in Nat
          /\ refs[x] = handles[x] + Kept(stack, x)
          /\ life[x] # "live" => refs[x] = 0 /\ rdv[x] = None
          /\ life[x] = "live" /\ refs[x] = 0 => Finishing(stack, x)
    BY <1>0, CountFacts
  <2>3. refs[e] \in Nat /\ refs[e] > 0
    BY <1>g, <2>2
  <2>4. life[e] = "live"
    BY <2>2, <2>3
  <2>5. /\ refs[e] = handles'[e] + Kept(stack, e) + 1
        /\ refs[e] - 1 = handles'[e] + Kept(stack, e) + 0
    BY <2>1, <2>2
  <2>6. Owing(e, refs, stack, 1)
    BY <2>1, <2>2, <2>5 DEF Owing
  <2> DEFINE count == [refs EXCEPT ![e] = @ - 1]
  <2>7. count[e] = refs[e] - 1 /\ \A x \in Event : x # e => count[x] = refs[x]
    BY <1>0 DEF TypeOK
  <2> HIDE DEF count
  <2>8. Owing(e, count, stack, 0)
    BY <2>1, <2>2, <2>4, <2>5, <2>7 DEF Owing
  <2>9. QED
    BY <2>3, <2>4, <2>6, <2>8 DEF count
<1>t. ASSUME NEW e \in Event, handles[e] > 0, handles' = [handles EXCEPT ![e] = @ - 1],
             SimpleTrigger(e, refs, stack)
      PROVE  CountInv'
  <2>1. life[e] = "live" /\ refs \in [Event -> Int]
    BY <1>0, <1>g, <1>t DEF TypeOK
  <2>2. PICK own \in {0, 1} : own = 1
    OBVIOUS
  <2>3. Owing(e, refs, stack, own) /\ (own = 0 => refs[e] = 0 /\ rdv[e] # None)
    <3>1. Owing(e, refs, stack, 1)
      BY <1>g, <1>t
    <3>2. QED
      BY <2>2, <3>1
  <2>4. QED
    BY <1>0, <1>t, <2>1, <2>3, TriggerCount
<1>1. CASE RunUnblocked
  <2>1. PICK c \in Closure : c = Head(runq)
    BY <1>0, <1>1 DEF RunUnblocked, TypeOK
  <2>2. \E f \in Frame : Idle(f) /\ stack' = <<f>> \o stack
    <3>1. CASE position[c] = "exit"
      <4>1. PICK f \in Frame : f = [op |-> "free", c |-> c, left |-> Owned(c)]
        BY DEF Frame, Owned
      <4>2. QED
        BY <1>1, <2>1, <3>1, <4>1 DEF RunUnblocked, Push, Idle
    <3>2. CASE position[c] # "exit"
      <4>1. position[c] \in Blocking
        <5>1. runq \in Seq(Closure) /\ runq # <<>>
          BY <1>0, <1>1 DEF RunUnblocked, TypeOK
        <5>2. c = runq[1] /\ 1 \in 1 .. Len(runq)
          BY <2>1, <5>1
        <5>3. status[c] = "queued"
          BY <5>2 DEF WakeInv, InQueue
        <5>4. QED
          BY <3>2, <5>3 DEF WakeInv, Awaits, Owned
      <4>2. PICK f \in Frame : f = [op |-> "twait", c |-> c, r |-> position[c]]
        BY <4>1 DEF Frame
      <4>3. QED
        BY <1>1, <2>1, <3>2, <4>2 DEF RunUnblocked, Push, Idle
    <3>3. QED
      BY <3>1, <3>2
  <2>3. QED
    BY <1>1, <1>p, <2>2 DEF RunUnblocked, eventVars
<1>2. ASSUME NEW c \in Closure, NEW method \in BOOLEAN, Start(c, method)
      PROVE  CountInv'
  <2>1. PICK f \in Frame : f = [op |-> "run", c |-> c]
    BY DEF Frame
  <2>2. Idle(f) /\ stack' = <<f>> \o stack
    BY <1>2, <2>1 DEF Start, Push, Idle
  <2>3. QED
    BY <1>2, <1>p, <2>2 DEF Start, eventVars
<1>3. ASSUME NEW e \in Event, NEW r \in Rdv, MakeEvent(e, r)
      PROVE  CountInv'
  <2>1. life[e] = "unborn" /\ refs[e] = 0
    BY <1>0, <1>3, CountFacts DEF MakeEvent
  <2>2. handles[e] = 0 /\ Kept(stack, e) = 0
    <3>1. refs[e] = handles[e] + Kept(stack, e) /\ handles[e] \in Nat /\ Kept(stack, e) \in Nat
      BY <1>0, CountFacts
    <3>2. QED
      BY <2>1, <3>1
  <2>3. /\ stack' = stack /\ hook' = hook /\ ready' = ready /\ handles' \in [Event -> Nat]
        /\ \A x \in Event : /\ x = e => life'[x] = "live" /\ refs'[x] = 1 /\ handles'[x] = 1
                            /\ x # e => /\ life'[x] = life[x] /\ refs'[x] = refs[x]
                                        /\ handles'[x] = handles[x] /\ rdv'[x] = rdv[x]
    BY <1>0, <1>3 DEF MakeEvent, TypeOK
  <2>4. \A x \in Event : /\ refs'[x] = handles'[x] + Kept(stack, x)
                         /\ life'[x] # "live" => refs'[x] = 0 /\ rdv'[x] = None
                         /\ life'[x] = "live" /\ refs'[x] = 0 => Finishing(stack, x)
    <3> TAKE x \in Event
    <3>1. CASE x = e
      BY <2>2, <2>3, <3>1
    <3>2. CASE x # e
      <4>1. refs[x] = handles[x] + Kept(stack, x)
            /\ (life[x] # "live" => refs[x] = 0 /\ rdv[x] = None)
            /\ (life[x] = "live" /\ refs[x] = 0 => Finishing(stack, x))
        BY <1>0, CountFacts
      <4>2. QED
        BY <2>3, <3>2, <4>1
    <3>3. QED
      BY <3>1, <3>2
  <2>5. QED
    BY <1>h, <2>3, <2>4
<1>4. ASSUME NEW e \in Event, Copy(e)
      PROVE  CountInv'
  <2>1. /\ stack' = stack /\ hook' = hook /\ ready' = ready /\ handles' \in [Event -> Nat]
        /\ handles[e] > 0 /\ life' = life /\ rdv' = rdv
        /\ \A x \in Event : /\ x = e => refs'[x] = refs[x] + 1 /\ handles'[x] = handles[x] + 1
                            /\ x # e => refs'[x] = refs[x] /\ handles'[x] = handles[x]
    BY <1>0, <1>4, ConstantsAssumption DEF Copy, TypeOK
  <2>2. ASSUME NEW x \in Event
        PROVE  /\ refs'[x] = handles'[x] + Kept(stack, x)
               /\ life'[x] # "live" => refs'[x] = 0 /\ rdv'[x] = None
               /\ life'[x] = "live" /\ refs'[x] = 0 => Finishing(stack, x)
    <3>1. /\ refs[x] \in Int /\ handles[x] \in Nat /\ Kept(stack, x) \in Nat
          /\ refs[x] = handles[x] + Kept(stack, x)
          /\ life[x] # "live" => refs[x] = 0 /\ rdv[x] = None
          /\ life[x] = "live" /\ refs[x] = 0 => Finishing(stack, x)
      BY <1>0, CountFacts
    <3>2. CASE x = e
      <4>1. handles[x] > 0 /\ refs'[x] = refs[x] + 1 /\ handles'[x] = handles[x] + 1
            /\ life'[x] = life[x]
        BY <2>1, <3>2
      <4>2. PICK k \in Nat : k = Kept(stack, x)
        BY <3>1
      <4>3. refs'[x] = handles'[x] + k /\ refs'[x] # 0 /\ refs[x] # 0
        BY <3>1, <4>1, <4>2
      <4>4. QED
        BY <3>1, <4>1, <4>2, <4>3
    <3>3. CASE x # e
      BY <2>1, <3>1, <3>3
    <3>4. QED
      BY <3>2, <3>3
  <2>3. QED
    BY <1>h, <2>1, <2>2
<1>5. ASSUME NEW e \in Event, Drop(e)
      PROVE  CountInv'
  <2> DEFINE count == [refs EXCEPT ![e] = @ - 1]
  <2>1. handles[e] > 0 /\ handles' = [handles EXCEPT ![e] = @ - 1]
    BY <1>5 DEF Drop
  <2>2. count \in [Event -> Int] /\ Owing(e, count, stack, 0) /\ life[e] = "live"
    <3>1. count \in [Event -> Int]
      BY <1>0 DEF TypeOK
    <3>2. Owing(e, count, stack, 0) /\ life[e] = "live"
      BY <1>g, <2>1
    <3>3. QED
      BY <3>1, <3>2
  <2>3. CASE count[e] = 0 /\ rdv[e] # None
    <3>1. SimpleTrigger(e, count, stack)
      BY <1>5, <2>3 DEF Drop
    <3> HIDE DEF count
    <3>2. PICK own \in {0, 1} : own = 0
      OBVIOUS
    <3>3. QED
      BY <1>0, <2>2, <2>3, <3>1, <3>2, TriggerCount
  <2>4. CASE ~(count[e] = 0 /\ rdv[e] # None)
    <3>1. /\ refs' = count /\ DeleteUnused({e}, count)
          /\ stack' = stack /\ hook' = hook /\ ready' = ready /\ rdv' = rdv
      BY <1>5, <2>4 DEF Drop
    <3> HIDE DEF count
    <3>2. ASSUME NEW x \in Event
          PROVE  /\ refs'[x] = handles'[x] + Kept(stack, x)
                 /\ life'[x] # "live" => refs'[x] = 0 /\ rdv'[x] = None
                 /\ life'[x] = "live" /\ refs'[x] = 0 => Finishing(stack, x)
      <4>1. life'[x] = IF x = e /\ count[x] = 0 THEN "deleted" ELSE life[x]
        BY <3>1 DEF DeleteUnused
      <4>2. Kept(stack, x) \in Nat /\ handles'[x] \in Nat
        BY <1>0, <2>2, CountFacts DEF Owing
      <4>3. count[x] = handles'[x] + Kept(stack, x)
        BY <2>2, <4>2 DEF Owing
      <4>4. QED
        BY <2>2, <2>4, <3>1, <4>1, <4>3 DEF Owing
    <3>3. handles' \in [Event -> Nat]
      BY <2>2 DEF Owing
    <3>4. QED
      BY <1>h, <3>1, <3>2, <3>3
  <2>5. QED
    BY <2>3, <2>4
<1>6. ASSUME NEW e \in Event, Trigger(e)
      PROVE  CountInv'
  BY <1>6, <1>t DEF Trigger
<1>7. ASSUME NEW e \in Event, NEW d \in Event, AtTrigger(e, d)
      PROVE  CountInv'
  <2>1. handles[d] > 0 /\ handles' = [handles EXCEPT ![d] = @ - 1]
    BY <1>0, <1>7 DEF AtTrigger, TypeOK
  <2>2. CASE rdv[e] = None
    BY <1>7, <1>t, <2>1, <2>2 DEF AtTrigger
  <2>3. CASE rdv[e] # None
    <3>1. /\ hook[e] = None /\ hook' = [hook EXCEPT ![e] = d]
          /\ UNCHANGED <<life, rdv, refs, ready, stack>>
      BY <1>7, <2>3 DEF AtTrigger
    <3>2. /\ e \notin HooksTo(d)
          /\ HooksTo(d)' = HooksTo(d) \cup {e}
          /\ \A x \in Event : x # d => HooksTo(x)' = HooksTo(x)
          /\ \A x : ReadyOn(x)' = ReadyOn(x)
      BY <1>0, <3>1, ConstantsAssumption DEF HooksTo, ReadyOn, TypeOK
    <3>3. ASSUME NEW x \in Event
          PROVE  /\ IsFiniteSet(HooksTo(x)') /\ IsFiniteSet(ReadyOn(x)')
                 /\ refs'[x] = References(x)'
      <4> DEFINE hc == Cardinality(HooksTo(x))   hn == Cardinality(HooksTo(x)')
                 r == Cardinality(ReadyOn(x))   c == Cardinality(CallsOn(stack, x))
      <4>1. IsFiniteSet(HooksTo(x)) /\ IsFiniteSet(ReadyOn(x))
            /\ handles[x] \in Nat /\ refs[x] = References(x)
        BY <1>0, CountFacts DEF CountInv
      <4>2. IsFiniteSet(HooksTo(x)') /\ (x = d => hn = hc + 1) /\ (x # d => hn = hc)
        BY <3>2, <4>1, FS_AddElement
      <4>3. hc \in Nat /\ hn \in Nat /\ r \in Nat /\ c \in Nat
        BY <1>0, <4>1, <4>2, CallsFinite, FS_CardinalityType
      <4>4. References(x) = handles[x] + hc + r + c /\ References(x)' = handles'[x] + hn + r + c
        BY <3>1, <3>2 DEF References
      <4>5. (x = d => handles'[x] = handles[x] - 1) /\ (x # d => handles'[x] = handles[x])
        BY <1>0, <2>1 DEF TypeOK
      <4> HIDE DEF hc, hn, r, c
      <4>6. References(x)' = References(x)
        <5>1. CASE x = d
          BY <4>1, <4>2, <4>3, <4>4, <4>5, <5>1
        <5>2. CASE x # d
          BY <4>2, <4>4, <4>5, <5>2
        <5>3. QED
          BY <5>1, <5>2
      <4>7. QED
        BY <3>1, <3>2, <4>1, <4>2, <4>6
    <3>4. \A x \in Event : /\ life'[x] # "live" => refs'[x] = 0 /\ rdv'[x] = None
                           /\ life'[x] = "live" /\ refs'[x] = 0 => Finishing(stack', x)
      BY <1>0, <3>1, CountFacts
    <3>5. QED
      BY <3>3, <3>4 DEF CountInv
  <2>4. QED
    BY <2>2, <2>3
<1>8. ASSUME NEW c \in Closure, NEW r \in Blocking, Twait(c, r)
      PROVE  CountInv'
  <2>1. PICK f \in Frame : f = [op |-> "twait", c |-> c, r |-> r]
    BY DEF Frame
  <2>2. /\ stack' = <<f>> \o Tail(stack) /\ Idle(f)
        /\ stack # <<>> /\ Idle(Head(stack))
    BY <1>8, <2>1 DEF Twait, Replace, TopIs, Idle
  <2>3. QED
    BY <1>8, <1>r, <2>2 DEF Twait, eventVars
<1>9. ASSUME NEW c \in Closure, NEW r \in Blocking, Clear(c, r)
      PROVE  CountInv'
  <2>1. PICK f \in Frame : f = [op |-> "clear", r |-> r]
    BY DEF Frame
  <2>2. stack' = <<f>> \o stack /\ Idle(f)
    BY <1>9, <2>1 DEF Clear, Push, Idle
  <2>3. QED
    BY <1>9, <1>p, <2>2 DEF Clear, eventVars
<1>10. ASSUME NEW c \in Closure, Exit(c)
       PROVE  CountInv'
  <2>1. PICK f \in Frame : f = [op |-> "free", c |-> c, left |-> Owned(c)]
    BY DEF Frame, Owned
  <2>2. /\ stack' = <<f>> \o Tail(stack) /\ Idle(f)
        /\ stack # <<>> /\ Idle(Head(stack))
    BY <1>10, <2>1 DEF Exit, Replace, TopIs, Idle
  <2>3. QED
    BY <1>10, <1>r, <2>2 DEF Exit, eventVars
<1>11. ASSUME NEW c \in Closure, DestroyObject(c)
       PROVE  CountInv'
  BY <1>11, <1>p DEF DestroyObject, eventVars
<1>12. CASE HookReturns
  BY <1>12, <1>r DEF HookReturns, TopOp, Idle, eventVars
<1>13. QED
  BY <1>1, <1>2, <1>3, <1>4, <1>5, <1>6, <1>7, <1>8, <1>9, <1>10, <1>11, <1>12 DEF User

\* Together with WakeInv, the inductive invariant of the memory of events.
MemoryInv == ListInv /\ CountInv

THEOREM MemoryInductive == Spec => []MemoryInv
<1>1. Init => MemoryInv
  <2> SUFFICES ASSUME Init PROVE ListInv /\ CountInv
    BY DEF MemoryInv
  <2>1. stack = <<>> /\ Len(stack) = 0 /\ DOMAIN stack = {}
    BY DEF Init
  <2>2. \A r \in Rdv : waiting[r] = <<>> /\ r # None
    BY ConstantsAssumption DEF Init, Rdv, Blocking
  <2>3. ListInv
    BY <2>1, <2>2 DEF Init, ListInv, Listed, Spent, Joining, Finishes, Sweeping
  <2>4. ASSUME NEW e \in Event
        PROVE  HooksTo(e) = {} /\ ReadyOn(e) = {} /\ CallsOn(stack, e) = {}
    BY <2>1, ConstantsAssumption DEF Init, HooksTo, ReadyOn, CallsOn
  <2>5. CountInv
    <3> SUFFICES ASSUME NEW e \in Event
                 PROVE  /\ IsFiniteSet(HooksTo(e)) /\ IsFiniteSet(ReadyOn(e))
                        /\ refs[e] = References(e)
                        /\ life[e] # "live" => refs[e] = 0 /\ rdv[e] = None
                        /\ life[e] = "live" /\ refs[e] = 0 => Finishing(stack, e)
      BY DEF CountInv
    <3>1. refs[e] = 0 /\ handles[e] = 0 /\ rdv[e] = None /\ life[e] = "unborn"
      BY DEF Init
    <3>2. References(e) = 0
      BY <2>4, <3>1, FS_EmptySet DEF References
    <3>3. QED
      BY <2>4, <3>1, <3>2, FS_EmptySet
  <2>6. QED
    BY <2>3, <2>5
<1>2. MemoryInv /\ WakeInv /\ WakeInv' /\ [Next]_vars => MemoryInv'
  <2> SUFFICES ASSUME MemoryInv, WakeInv, WakeInv', [Next]_vars PROVE MemoryInv'
    OBVIOUS
  <2>2. stack' \in Seq(Frame)
    BY DEF WakeInv, TypeOK
  <2>3. CASE Runtime
    BY <2>2, <2>3, RuntimeLists, RuntimeCount DEF MemoryInv
  <2>4. CASE RunUnblocked \/ User
    BY <2>2, <2>4, UserLists, UserCount DEF MemoryInv
  <2>5. CASE UNCHANGED vars
    <3>1. TypeOK /\ ListInv /\ CountInv
      BY DEF MemoryInv, WakeInv
    <3>2. ListInv'
      BY <2>5, <3>1, QuietLists DEF vars
    <3>3. CountInv'
      BY <2>2, <2>5, <3>1, QuietCount DEF vars
    <3>4. QED
      BY <3>2, <3>3 DEF MemoryInv
  <2>6. QED
    BY <2>3, <2>4, <2>5 DEF Next
<1>3. QED
  BY <1>1, <1>2, Inductive, PTL DEF Spec

\* No event is leaked, deleted in use or deleted twice, however deeply triggers,
\* hooks and clear() nest (EventMemoryExact).
THEOREM MemoryExact == Spec => []EventMemoryExact
<1>1. MemoryInv /\ WakeInv => EventMemoryExact
  <2> SUFFICES ASSUME MemoryInv, WakeInv PROVE EventMemoryExact
    OBVIOUS
  <2>1. TypeOK /\ ListInv /\ CountInv
    BY DEF MemoryInv, WakeInv
  <2>2. stack \in Seq(Frame) /\ DOMAIN stack = 1 .. Len(stack)
    BY <2>1 DEF TypeOK
  <2>3. RefcountExact
    BY <2>1 DEF CountInv, RefcountExact
  <2>4. EventMemory
    <3> SUFFICES ASSUME NEW e \in Event
                 PROVE  /\ life[e] # "live" => References(e) = 0 /\ rdv[e] = None
                        /\ life[e] = "live" /\ References(e) = 0 =>
                             [op |-> "finish", ev |-> e, reduce |-> FALSE]
                               \in {stack[i] : i \in DOMAIN stack}
      BY DEF EventMemory
    <3>1. /\ refs[e] = References(e)
          /\ life[e] # "live" => refs[e] = 0 /\ rdv[e] = None
          /\ life[e] = "live" /\ refs[e] = 0 => Finishing(stack, e)
      BY <2>1 DEF CountInv
    <3>2. Finishing(stack, e) => [op |-> "finish", ev |-> e, reduce |-> FALSE]
                                   \in {stack[i] : i \in DOMAIN stack}
      BY <2>2 DEF Finishing
    <3>3. QED
      BY <3>1, <3>2
  <2>5. ListCoherence
    <3> SUFFICES ASSUME NEW r \in Rdv
                 PROVE  /\ \A e \in Event : rdv[e] = r =>
                             \E i \in DOMAIN waiting[r] : waiting[r][i] = e
                        /\ \A i, j \in DOMAIN waiting[r] : waiting[r][i] = waiting[r][j] => i = j
                        /\ \/ \A i \in DOMAIN waiting[r] : rdv[waiting[r][i]] = r
                           \/ \E i \in DOMAIN stack :
                                stack[i].op \in {"visit", "next"} /\ stack[i].r = r
      BY DEF ListCoherence
    <3>1. Listed(r) /\ DOMAIN waiting[r] = 1 .. Len(waiting[r])
      BY <2>1 DEF ListInv, TypeOK
    <3>2. QED
      BY <2>2, <3>1 DEF Listed, Sweeping
  <2>6. QED
    BY <2>1, <2>3, <2>4, <2>5 DEF EventMemoryExact
<1>2. QED
  BY <1>1, Inductive, MemoryInductive, PTL

===============================================================================
