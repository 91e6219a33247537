---------------------------- MODULE ResolverProofs ----------------------------
(***************************************************************************)
(* The resolver: its table of questions and its window are exact, and each *)
(* of its servers is listened to or probed, for any finite number of       *)
(* requests, any servers and any limits.                                   *)
(***************************************************************************)
EXTENDS Library, FiniteSetTheorems, SequenceTheorems, TLAPS

Places == {"idle", "window", "woken", "pick", "send", "sent", "replied", "end", "done"}
Going == {"pick", "send", "sent", "replied", "end"}

\* Whoever is in the queue l stands at the twait of the window, and is there once.
Queued ==
  /\ window \in Seq(Query)
  /\ \A i \in 1 .. Len(window) : pc[window[i]] = "window"
  /\ \A i, j \in 1 .. Len(window) : window[i] = window[j] => i = j

\* The inductive invariant.
TableInv ==
  /\ pc \in [Query -> Places]
  /\ id \in [Query -> Nat]
  /\ Queued
  /\ RequestsExact

(***************************************************************************)
(* What one request's step does to the sets that are counted.              *)
(***************************************************************************)

\* When one request goes from one place to another, it enters or leaves the set of
\* those in flight and the set of those just admitted.
LEMMA OneMoves ==
  ASSUME pc \in [Query -> Places], NEW q \in Query, NEW p \in Places,
         pc' = [pc EXCEPT ![q] = p]
  PROVE  /\ pc' \in [Query -> Places]
         /\ InFlight' = IF p \in Going THEN InFlight \cup {q} ELSE InFlight \ {q}
         /\ Woken' = IF p = "woken" THEN Woken \cup {q} ELSE Woken \ {q}
         /\ pc'[q] = p /\ \A r \in Query \ {q} : pc'[r] = pc[r]
BY DEF InFlight, Woken, Going, Places

\* The sets are finite, so that they can be counted.
LEMMA FiniteParts ==
  /\ IsFiniteSet(InFlight) /\ Cardinality(InFlight) \in Nat
  /\ IsFiniteSet(Woken) /\ Cardinality(Woken) \in Nat
<1>1. InFlight \in SUBSET Query /\ Woken \in SUBSET Query
  BY DEF InFlight, Woken
<1>2. IsFiniteSet(InFlight) /\ IsFiniteSet(Woken)
  BY <1>1, ResolverAssumption, FS_Subset DEF ResolverAssumption
<1>3. QED
  BY <1>2, FS_CardinalityType

\* A request that goes on, in flight or not as before, leaves the window as it is.
LEMMA GoesOn ==
  ASSUME TableInv, NEW q \in Query, NEW p \in Places \ {"window", "woken"},
         pc[q] \notin {"window", "woken"}, pc[q] \in Going <=> p \in Going,
         pc' = [pc EXCEPT ![q] = p], UNCHANGED windowVars
  PROVE  pc' \in [Query -> Places] /\ Queued' /\ WindowExact'
<1> USE DEF TableInv
<1>1. InFlight' = InFlight /\ Woken' = Woken
  BY OneMoves DEF InFlight, Woken, Going
<1>2. pc' \in [Query -> Places] /\ \A r \in Query \ {q} : pc'[r] = pc[r]
  BY OneMoves
<1>3. WindowExact'
  BY <1>1 DEF RequestsExact, WindowExact, windowVars
<1>4. Queued'
  BY <1>2 DEF Queued, windowVars
<1>5. QED
  BY <1>2, <1>3, <1>4

\* A request that enters is counted.
LEMMA Enters ==
  ASSUME TableInv, NEW q \in Query, pc[q] \in {"idle", "woken"},
         pc' = [pc EXCEPT ![q] = "pick"], inflight' = inflight + 1, UNCHANGED window
  PROVE  pc' \in [Query -> Places] /\ Queued' /\ WindowExact'
<1> USE DEF TableInv
<1>1. /\ pc' \in [Query -> Places] /\ \A r \in Query \ {q} : pc'[r] = pc[r]
      /\ InFlight' = InFlight \cup {q} /\ Woken' = Woken \ {q}
  BY OneMoves DEF Places, Going
<1>2. q \notin InFlight
  BY DEF InFlight
<1>3. Cardinality(InFlight') = Cardinality(InFlight) + 1
  BY <1>1, <1>2, FiniteParts, FS_AddElement
<1>4. Cardinality(Woken') \in Nat /\ Cardinality(Woken') >= Cardinality(Woken) - 1
  <2>1. /\ IsFiniteSet(Woken \ {q})
        /\ Cardinality(Woken \ {q}) = IF q \in Woken THEN Cardinality(Woken) - 1
                                      ELSE Cardinality(Woken)
    BY FiniteParts, FS_RemoveElement
  <2>2. Cardinality(Woken \ {q}) \in Nat
    BY <2>1, FS_CardinalityType
  <2>3. QED
    BY <1>1, <2>1, <2>2, FiniteParts
<1>5. WindowExact'
  <2>1. inflight' = Cardinality(InFlight')
    BY <1>3 DEF RequestsExact, WindowExact
  <2>2. window' # <<>> => inflight' + Cardinality(Woken') > MaxInflight
    BY <1>4, FiniteParts, ResolverAssumption DEF ResolverAssumption, RequestsExact, WindowExact
  <2>3. QED
    BY <2>1, <2>2 DEF WindowExact
<1>6. Queued'
  BY <1>1 DEF Queued
<1>7. QED
  BY <1>1, <1>5, <1>6

\* The questions waited for are the same when a request moves between two places at
\* which it waits for no reply, whatever becomes of its number.
LEMMA SameWaiting ==
  ASSUME pc \in [Query -> Places], NEW q \in Query, NEW p \in Places \ {"sent"},
         pc[q] # "sent", pc' = [pc EXCEPT ![q] = p],
         \A r \in Query \ {q} : id'[r] = id[r]
  PROVE  Waiting' = Waiting
BY DEF Waiting


(***************************************************************************)
(* One lemma for each action of resolve().                                 *)
(***************************************************************************)

\* A new name is asked for under a new number.
LEMMA NextNameNumber ==
  ASSUME NEW q \in Query, id \in [Query -> Nat], NextName(q) \/ Reissue(q)
  PROVE  id' \in [Query -> Nat] /\ \A r \in Query \ {q} : id'[r] = id[r]
BY DEF NextName, Reissue

LEMMA ResolveStep ==
  ASSUME TableInv, NEW q \in Query, Resolve(q)
  PROVE  TableInv'
<1> USE DEF TableInv
<1>1. pc[q] = "idle" /\ UNCHANGED tableVars
  BY DEF Resolve
<1>2. CASE servers = {}
  <2>1. pc' = [pc EXCEPT ![q] = "done"] /\ UNCHANGED <<id, windowVars>>
    BY <1>2 DEF Resolve, Goto
  <2>2. pc' \in [Query -> Places] /\ Queued' /\ WindowExact'
    BY <1>1, <2>1, GoesOn DEF Places, Going
  <2>3. Waiting' = Waiting
    BY <1>1, <2>1, SameWaiting DEF Places
  <2>4. QED
    BY <1>1, <2>1, <2>2, <2>3 DEF RequestsExact, TableExact, tableVars
<1>3. CASE servers # {} /\ inflight > MaxInflight
  <2>1. /\ pc' = [pc EXCEPT ![q] = "window"] /\ window' = Append(window, q)
        /\ UNCHANGED <<id, inflight>>
    BY <1>3 DEF Resolve, Goto
  <2>2. /\ pc' \in [Query -> Places] /\ pc'[q] = "window"
        /\ \A r \in Query \ {q} : pc'[r] = pc[r]
        /\ InFlight' = InFlight /\ Woken' = Woken
    BY <1>1, <2>1, OneMoves DEF Places, Going, InFlight, Woken
  <2>3. WindowExact'
    BY <1>3, <2>1, <2>2, FiniteParts, ResolverAssumption
       DEF RequestsExact, WindowExact, ResolverAssumption
  <2>4. Queued'
    <3>1. /\ window' \in Seq(Query) /\ Len(window') = Len(window) + 1
          /\ window'[Len(window) + 1] = q
          /\ \A i \in 1 .. Len(window) : window'[i] = window[i] /\ window[i] \in Query
      BY <2>1 DEF Queued
    <3>2. \A i \in 1 .. Len(window) : window[i] # q
      BY <1>1 DEF Queued
    <3>3. \A i \in 1 .. Len(window') : i \in 1 .. Len(window) \/ i = Len(window) + 1
      BY <3>1 DEF Queued
    <3>4. \A i \in 1 .. Len(window') : pc'[window'[i]] = "window"
      BY <2>2, <3>1, <3>2, <3>3 DEF Queued
    <3>5. ASSUME NEW i \in 1 .. Len(window'), NEW j \in 1 .. Len(window'),
                 window'[i] = window'[j]
          PROVE  i = j
      <4>1. CASE i \in 1 .. Len(window) /\ j \in 1 .. Len(window)
        <5>1. window[i] = window[j]
          BY <3>1, <3>5, <4>1
        <5>2. QED
          BY <4>1, <5>1 DEF Queued
      <4>2. CASE i = Len(window) + 1 /\ j = Len(window) + 1
        BY <4>2
      <4>3. CASE i \in 1 .. Len(window) /\ j = Len(window) + 1
        BY <3>1, <3>2, <3>5, <4>3
      <4>4. CASE i = Len(window) + 1 /\ j \in 1 .. Len(window)
        BY <3>1, <3>2, <3>5, <4>4
      <4>5. QED
        BY <3>3, <4>1, <4>2, <4>3, <4>4
    <3>6. QED
      BY <3>1, <3>4, <3>5 DEF Queued
  <2>5. Waiting' = Waiting
    BY <1>1, <2>1, SameWaiting DEF Places
  <2>6. QED
    BY <1>1, <2>1, <2>2, <2>3, <2>4, <2>5 DEF RequestsExact, TableExact, tableVars
<1>4. CASE servers # {} /\ ~(inflight > MaxInflight)
  <2>1. /\ pc' = [pc EXCEPT ![q] = "pick"] /\ inflight' = inflight + 1
        /\ UNCHANGED window /\ NextName(q)
    BY <1>4 DEF Resolve, Goto
  <2>2. pc' \in [Query -> Places] /\ Queued' /\ WindowExact'
    BY <1>1, <2>1, Enters
  <2>3. id' \in [Query -> Nat] /\ Waiting' = Waiting
    BY <1>1, <2>1, NextNameNumber, SameWaiting DEF Places
  <2>4. QED
    BY <1>1, <2>2, <2>3 DEF RequestsExact, TableExact, tableVars
<1>5. QED
  BY <1>2, <1>3, <1>4

LEMMA AdmittedStep ==
  ASSUME TableInv, NEW q \in Query, Admitted(q)
  PROVE  TableInv'
<1> USE DEF TableInv
<1>1. /\ pc[q] = "woken" /\ pc' = [pc EXCEPT ![q] = "pick"] /\ inflight' = inflight + 1
      /\ UNCHANGED <<window, tableVars>> /\ NextName(q)
  BY DEF Admitted, Goto
<1>2. pc' \in [Query -> Places] /\ Queued' /\ WindowExact'
  BY <1>1, Enters
<1>3. id' \in [Query -> Nat] /\ Waiting' = Waiting
  BY <1>1, NextNameNumber, SameWaiting DEF Places
<1>4. QED
  BY <1>1, <1>2, <1>3 DEF RequestsExact, TableExact, tableVars

LEMMA NextNameserverStep ==
  ASSUME TableInv, NEW q \in Query, NextNameserver(q)
  PROVE  TableInv'
<1> USE DEF TableInv
<1>1. pc[q] = "pick" /\ UNCHANGED <<id, tableVars, windowVars>>
  BY DEF NextNameserver
<1>2. CASE UNCHANGED pc
  BY <1>1, <1>2 DEF RequestsExact, TableExact, WindowExact, Waiting, InFlight, Woken, Queued,
                    tableVars, windowVars
<1>3. CASE Goto(q, "send")
  <2>1. pc' = [pc EXCEPT ![q] = "send"]
    BY <1>3 DEF Goto
  <2>2. pc' \in [Query -> Places] /\ Queued' /\ WindowExact'
    BY <1>1, <2>1, GoesOn DEF Places, Going
  <2>3. Waiting' = Waiting
    BY <1>1, <2>1, SameWaiting DEF Places
  <2>4. QED
    BY <1>1, <2>2, <2>3 DEF RequestsExact, TableExact, tableVars
<1>4. QED
  BY <1>2, <1>3 DEF NextNameserver

\* The question enters the table as its request begins to wait.
LEMMA SendStep ==
  ASSUME TableInv, NEW q \in Query, Send(q)
  PROVE  TableInv'
<1> USE DEF TableInv
<1>1. pc[q] = "send" /\ UNCHANGED <<id, windowVars>>
  BY DEF Send
<1>2. CASE q \in active \ bad
  <2>1. /\ pc' = [pc EXCEPT ![q] = "sent"]
        /\ requests' = requests \cup {<<q, id[q]>>} /\ armed' = armed \cup {<<q, id[q]>>}
    BY <1>2 DEF Send, Goto
  <2>2. pc' \in [Query -> Places] /\ Queued' /\ WindowExact'
    BY <1>1, <2>1, GoesOn DEF Places, Going
  <2>3. Waiting' = Waiting \cup {<<q, id[q]>>}
    BY <1>1, <2>1 DEF Waiting
  <2>4. QED
    BY <1>1, <2>1, <2>2, <2>3 DEF RequestsExact, TableExact
<1>3. CASE q \notin active \ bad
  <2>1. pc' = [pc EXCEPT ![q] = "end"] /\ UNCHANGED tableVars
    BY <1>3 DEF Send, Goto
  <2>2. pc' \in [Query -> Places] /\ Queued' /\ WindowExact'
    BY <1>1, <2>1, GoesOn DEF Places, Going
  <2>3. Waiting' = Waiting
    BY <1>1, <2>1, SameWaiting DEF Places
  <2>4. QED
    BY <1>1, <2>1, <2>2, <2>3 DEF RequestsExact, TableExact, tableVars
<1>4. QED
  BY <1>2, <1>3

\* The place of a request whose reply is there, whichever it is.
LEMMA RepliedStep ==
  ASSUME TableInv, NEW q \in Query, Replied(q)
  PROVE  TableInv'
<1> USE DEF TableInv
<1>1. pc[q] = "replied" /\ UNCHANGED <<tableVars, windowVars>>
  BY DEF Replied
<1>m. CASE UNCHANGED <<pc, id>>
  BY <1>1, <1>m DEF RequestsExact, TableExact, WindowExact, Waiting, InFlight, Woken, Queued,
                    tableVars, windowVars
<1> SUFFICES ASSUME ~UNCHANGED <<pc, id>>
             PROVE  TableInv'
  BY <1>m
<1>2. PICK p \in {"pick", "send"} : pc' = [pc EXCEPT ![q] = p]
  BY DEF Replied, Goto
<1>3. id' \in [Query -> Nat] /\ \A r \in Query \ {q} : id'[r] = id[r]
  <2>1. CASE NextName(q) \/ Reissue(q)
    BY <2>1, NextNameNumber
  <2>2. CASE UNCHANGED id
    BY <2>2
  <2>3. QED
    BY <2>1, <2>2 DEF Replied
<1>4. pc' \in [Query -> Places] /\ Queued' /\ WindowExact'
  BY <1>1, <1>2, GoesOn DEF Places, Going
<1>5. Waiting' = Waiting
  BY <1>1, <1>2, <1>3, SameWaiting DEF Places
<1>6. QED
  BY <1>1, <1>3, <1>4, <1>5 DEF RequestsExact, TableExact, tableVars

\* The question leaves the table before its request takes another number.
LEMMA TimeOutStep ==
  ASSUME TableInv, NEW q \in Query, TimeOut(q)
  PROVE  TableInv'
<1> USE DEF TableInv
<1>1. /\ pc[q] = "sent" /\ UNCHANGED windowVars
      /\ requests' = requests \ {<<q, id[q]>>} /\ armed' = armed \ {<<q, id[q]>>}
  BY DEF TimeOut, Forget
<1>2. PICK p \in {"pick", "end"} : pc' = [pc EXCEPT ![q] = p]
  BY DEF TimeOut, Goto
<1>3. id' \in [Query -> Nat] /\ \A r \in Query \ {q} : id'[r] = id[r]
  <2>1. CASE Reissue(q)
    BY <2>1, NextNameNumber
  <2>2. CASE UNCHANGED id
    BY <2>2
  <2>3. QED
    BY <2>1, <2>2 DEF TimeOut
<1>4. pc' \in [Query -> Places] /\ Queued' /\ WindowExact'
  BY <1>1, <1>2, GoesOn DEF Places, Going
<1>5. Waiting' = Waiting \ {<<q, id[q]>>}
  BY <1>1, <1>2, <1>3 DEF Waiting
<1>6. QED
  BY <1>1, <1>3, <1>4, <1>5 DEF RequestsExact, TableExact

\* One leaves, and one of those that wait may be admitted instead.
LEMMA EndResolveStep ==
  ASSUME TableInv, NEW q \in Query, EndResolve(q)
  PROVE  TableInv'
<1> USE DEF TableInv
<1>1. /\ pc[q] = "end" /\ UNCHANGED tableVars /\ inflight' = inflight - 1
      /\ id' = [id EXCEPT ![q] = 0]
  BY DEF EndResolve, Forgotten
<1>2. q \in InFlight
  BY <1>1 DEF InFlight
<1>3. Cardinality(InFlight \ {q}) = Cardinality(InFlight) - 1
  BY <1>2, FiniteParts, FS_RemoveElement
<1>4. CASE window = <<>>
  <2>1. pc' = [pc EXCEPT ![q] = "done"] /\ UNCHANGED window
    BY <1>4 DEF EndResolve, Goto
  <2>2. /\ pc' \in [Query -> Places] /\ InFlight' = InFlight \ {q}
    BY <2>1, OneMoves DEF Places, Going
  <2>3. WindowExact' /\ Queued'
    BY <1>1, <1>3, <1>4, <2>1, <2>2 DEF RequestsExact, WindowExact, Queued
  <2>4. Waiting' = Waiting
    BY <1>1, <2>1, SameWaiting DEF Places
  <2>5. QED
    BY <1>1, <2>2, <2>3, <2>4 DEF RequestsExact, TableExact, tableVars
<1>5. CASE window # <<>>
  <2> DEFINE h == Head(window)
  <2>1. /\ pc' = [pc EXCEPT ![q] = "done", ![h] = "woken"] /\ window' = Tail(window)
    BY <1>5 DEF EndResolve
  <2>2. /\ h = window[1] /\ h \in Query /\ Len(window) >= 1 /\ pc[h] = "window"
        /\ window' \in Seq(Query) /\ Len(window') = Len(window) - 1
        /\ \A i \in 1 .. Len(window') : window'[i] = window[i + 1]
        /\ \A i \in 1 .. Len(window) : window[i] \in Query
    BY <1>5, <2>1 DEF Queued
  <2> HIDE DEF h
  <2>3. /\ pc' \in [Query -> Places] /\ pc'[q] = "done" /\ pc'[h] = "woken"
        /\ \A r \in Query \ {q, h} : pc'[r] = pc[r]
    BY <1>1, <2>1, <2>2 DEF Places
  <2>4. InFlight' = InFlight \ {q} /\ Woken' = Woken \cup {h} /\ h \notin Woken
    BY <1>1, <2>2, <2>3 DEF InFlight, Woken
  <2>5. Cardinality(Woken') = Cardinality(Woken) + 1
    BY <2>4, FiniteParts, FS_AddElement
  <2>6. WindowExact'
    BY <1>1, <1>3, <1>5, <2>4, <2>5, FiniteParts, ResolverAssumption
       DEF RequestsExact, WindowExact, ResolverAssumption
  <2>7. Queued'
    <3>1. ASSUME NEW i \in 1 .. Len(window') PROVE pc'[window'[i]] = "window"
      <4>1. /\ 1 \in 1 .. Len(window) /\ i + 1 \in 1 .. Len(window) /\ i + 1 # 1
            /\ window'[i] = window[i + 1]
        BY <2>2
      <4>2. pc[window[i + 1]] = "window" /\ window[i + 1] # window[1]
        BY <4>1 DEF Queued
      <4>3. window[i + 1] \in Query \ {q, h}
        BY <1>1, <2>2, <4>1, <4>2
      <4>4. QED
        BY <2>3, <4>1, <4>2, <4>3
    <3>2. ASSUME NEW i \in 1 .. Len(window'), NEW j \in 1 .. Len(window'),
                 window'[i] = window'[j]
          PROVE  i = j
      <4>0. Len(window) \in Nat /\ Len(window') = Len(window) - 1
        BY <2>2 DEF Queued
      <4>1. /\ i + 1 \in 1 .. Len(window) /\ j + 1 \in 1 .. Len(window)
            /\ window[i + 1] = window[j + 1]
        <5>1. window'[i] = window[i + 1] /\ window'[j] = window[j + 1]
          BY <2>2
        <5>2. i + 1 \in 1 .. Len(window) /\ j + 1 \in 1 .. Len(window)
          BY <4>0
        <5>3. QED
          BY <3>2, <5>1, <5>2
      <4>2. i + 1 = j + 1
        BY <4>1 DEF Queued
      <4>3. QED
        BY <4>2
    <3>3. QED
      BY <2>2, <3>1, <3>2 DEF Queued
  <2>8. Waiting' = Waiting
    BY <1>1, <2>2, <2>3 DEF Waiting
  <2>9. QED
    BY <1>1, <2>3, <2>6, <2>7, <2>8 DEF RequestsExact, TableExact, tableVars
<1>6. QED
  BY <1>4, <1>5

(***************************************************************************)
(* The servers.                                                            *)
(***************************************************************************)

\* Each reply that is found takes its question out of the table and resumes the
\* request that waits for it.
LEMMA HandleStep ==
  ASSUME TableInv, NEW s \in Server, HandleNameserver(s)
  PROVE  TableInv'
<1> USE DEF TableInv
<1> DEFINE found == received[s] \cap requests
           Q == {m[1] : m \in found \cap armed}
<1>1. /\ requests' = requests \ found /\ armed' = armed \ found
      /\ pc' = [r \in Query |-> IF r \in Q THEN "replied" ELSE pc[r]]
      /\ UNCHANGED <<id, windowVars>>
  BY DEF HandleNameserver
<1>2. requests = Waiting /\ armed = Waiting
  BY DEF RequestsExact, TableExact
<1>3. \A r \in Query : r \in Q <=> pc[r] = "sent" /\ <<r, id[r]>> \in found
  <2>1. SUFFICES ASSUME NEW r \in Query
                 PROVE  r \in Q <=> pc[r] = "sent" /\ <<r, id[r]>> \in found
    OBVIOUS
  <2>2. ASSUME r \in Q PROVE pc[r] = "sent" /\ <<r, id[r]>> \in found
    <3>1. PICK m \in found \cap armed : r = m[1]
      BY <2>2
    <3>2. PICK x \in Query : pc[x] = "sent" /\ m = <<x, id[x]>>
      BY <1>2, <3>1 DEF Waiting
    <3>3. QED
      BY <3>1, <3>2
  <2>3. ASSUME pc[r] = "sent", <<r, id[r]>> \in found PROVE r \in Q
    <3>1. <<r, id[r]>> \in found \cap armed
      BY <1>2, <2>3
    <3>2. QED
      BY <3>1
  <2>4. QED
    BY <2>2, <2>3
<1> HIDE DEF found, Q
<1>4. /\ pc' \in [Query -> Places]
      /\ \A r \in Query : pc'[r] = pc[r] \/ (pc[r] = "sent" /\ pc'[r] = "replied")
  BY <1>1, <1>3 DEF Places
<1>5. InFlight' = InFlight /\ Woken' = Woken
  BY <1>4 DEF InFlight, Woken
<1>6. WindowExact' /\ Queued'
  <2>1. \A i \in 1 .. Len(window) : window[i] \in Query
    BY DEF Queued
  <2>2. QED
    BY <1>1, <1>4, <1>5, <2>1 DEF RequestsExact, WindowExact, Queued, windowVars
<1>7. Waiting' = Waiting \ found
  BY <1>1, <1>3 DEF Waiting, Places
<1>8. QED
  BY <1>1, <1>2, <1>4, <1>6, <1>7 DEF RequestsExact, TableExact

\* What the invariant is about.
tableView == <<pc, id, requests, armed, windowVars>>

LEMMA UnchangedStep ==
  ASSUME TableInv, UNCHANGED tableView
  PROVE  TableInv'
BY DEF TableInv, tableView, windowVars, RequestsExact, TableExact, WindowExact, Waiting,
       InFlight, Woken, Queued

\* The other actions do not touch it.
LEMMA OtherSteps ==
  ASSUME \/ \E q \in Query : Cancel(q)
         \/ \E s \in Server : Receive(s) \/ Probe(s) \/ ProbeTimesOut(s) \/ Recover(s)
         \/ \E nss \in Later : AddNameservers(nss)
         \/ UNCHANGED vars
  PROVE  UNCHANGED tableView
BY DEF Cancel, Receive, Probe, ProbeTimesOut, Recover, AddNameservers, vars, callVars,
       tableVars, windowVars, tableView

(***************************************************************************)
(* The theorem.                                                            *)
(***************************************************************************)

LEMMA InitTable == Init => TableInv
<1> SUFFICES ASSUME Init PROVE TableInv
  OBVIOUS
<1>1. InFlight = {} /\ Woken = {} /\ Waiting = {}
  BY DEF Init, InFlight, Woken, Waiting
<1>2. WindowExact
  BY <1>1, FS_EmptySet DEF Init, WindowExact
<1>3. QED
  BY <1>1, <1>2 DEF Init, TableInv, Places, Queued, RequestsExact, TableExact

LEMMA NextTable == TableInv /\ [Next]_vars => TableInv'
<1> SUFFICES ASSUME TableInv, [Next]_vars PROVE TableInv'
  OBVIOUS
<1>1. CASE \E q \in Query : Resolve(q)
  BY <1>1, ResolveStep
<1>2. CASE \E q \in Query : Closures(q)
  BY <1>2, AdmittedStep, NextNameserverStep, SendStep, EndResolveStep, RepliedStep
     DEF Closures
<1>3. CASE \E q \in Query : TimeOut(q)
  BY <1>3, TimeOutStep
<1>4. CASE \E s \in Server : HandleNameserver(s)
  BY <1>4, HandleStep
<1>5. CASE \/ \E q \in Query : Cancel(q)
           \/ \E s \in Server : Receive(s) \/ Probe(s) \/ ProbeTimesOut(s) \/ Recover(s)
           \/ \E nss \in Later : AddNameservers(nss)
           \/ UNCHANGED vars
  BY <1>5, OtherSteps, UnchangedStep
<1>6. QED
  BY <1>1, <1>2, <1>3, <1>4, <1>5 DEF Next, Moves

\* The table of questions and the window of the resolver are exact in every state:
\* a late or repeated reply finds no request that has gone on, and no request waits
\* for the window without another that will wake it.
THEOREM ResolverExact == Spec => []RequestsExact
<1>1. TableInv => RequestsExact
  BY DEF TableInv
<1>2. QED
  BY InitTable, NextTable, <1>1, PTL DEF Spec

(***************************************************************************)
(* The servers, which are in service, out of service, or gone.             *)
(***************************************************************************)

ServerInv ==
  /\ servers \subseteq Server /\ failed \subseteq Server
  /\ ready \in [Server -> {"none", "handler", "replies", "probe", "answered"}]
  /\ probe \in [Server -> {"none", "delay", "query"}]
  /\ timeouts \in [Server -> Nat]
  /\ ServersHandled

LEMMA InitServers == Init => ServerInv
BY ResolverAssumption DEF ResolverAssumption, Init, ServerInv, ServersHandled

\* A server whose question went unanswered may fail, and is then probed.
LEMMA TimeOutServers ==
  ASSUME ServerInv, NEW q \in Query, TimeOut(q)
  PROVE  ServerInv'
<1> DEFINE s == ns[q]
<1>1. FailedNameserver(s)
  BY DEF TimeOut
<1> HIDE DEF s
<1>2. CASE s \notin servers
  BY <1>1, <1>2 DEF FailedNameserver, Fails, ServerInv, ServersHandled
<1>3. CASE s \in servers /\ ~Fails(s)
  <2>1. /\ timeouts' = [timeouts EXCEPT ![s] = @ + 1]
        /\ UNCHANGED <<servers, failed, ready, probe>>
    BY <1>1, <1>3 DEF FailedNameserver
  <2>2. timeouts[s] \in Nat /\ timeouts[s] + 1 < MaxTimeouts
    BY <1>3, ResolverAssumption DEF ResolverAssumption, Fails, ServerInv
  <2>3. /\ timeouts' \in [Server -> Nat]
        /\ \A t \in servers : timeouts'[t] < MaxTimeouts
    BY <1>3, <2>1, <2>2 DEF ServerInv, ServersHandled
  <2>4. QED
    BY <2>1, <2>3 DEF ServerInv, ServersHandled
<1>4. CASE Fails(s)
  BY <1>1, <1>4 DEF FailedNameserver, Fails, ServerInv, ServersHandled
<1>5. QED
  BY <1>2, <1>3, <1>4

LEMMA HandledServers ==
  ASSUME ServerInv, NEW s \in Server, Receive(s) \/ HandleNameserver(s)
  PROVE  ServerInv'
<1>1. CASE Receive(s)
  BY <1>1 DEF Receive, ServerInv, ServersHandled
<1>2. CASE HandleNameserver(s)
  BY <1>2 DEF HandleNameserver, ServerInv, ServersHandled
<1>3. QED
  BY <1>1, <1>2

\* A probe asks again, or brings its server back.
LEMMA ProbedServers ==
  ASSUME ServerInv, NEW s \in Server, Probe(s) \/ ProbeTimesOut(s) \/ Recover(s)
  PROVE  ServerInv'
<1>1. CASE Probe(s)
  BY <1>1 DEF Probe, ServerInv, ServersHandled
<1>2. CASE ProbeTimesOut(s)
  BY <1>2 DEF ProbeTimesOut, ServerInv, ServersHandled
<1>3. CASE Recover(s)
  BY <1>3, ResolverAssumption DEF ResolverAssumption, Recover, ServerInv, ServersHandled
<1>4. QED
  BY <1>1, <1>2, <1>3

\* A change of resolv.conf keeps what is in both, in service or not.
LEMMA ChangedServers ==
  ASSUME ServerInv, NEW nss \in Later, AddNameservers(nss)
  PROVE  ServerInv'
<1> DEFINE new == nss \ (servers \cup failed)
           killed == {s \in (servers \cup failed) \ nss : ready[s] \in {"handler", "probe"}}
<1>1. PICK up \in SUBSET new :
        /\ servers' = (nss \cap servers) \cup up
        /\ failed' = nss \cap failed
        /\ ready' = [s \in Server |-> IF s \in up THEN "handler"
                                      ELSE IF s \in killed THEN "none" ELSE ready[s]]
        /\ probe' = [s \in Server |-> IF s \in killed \cup up THEN "none" ELSE probe[s]]
        /\ timeouts' = [s \in Server |-> IF s \in up THEN 0 ELSE timeouts[s]]
  BY DEF AddNameservers
<1>2. /\ nss \subseteq Server /\ MaxTimeouts \in Nat \ {0}
      /\ killed \cap nss = {} /\ up \subseteq nss
  BY ResolverAssumption DEF ResolverAssumption
<1>3. up \cap (servers \cup failed) = {}
  OBVIOUS
<1> HIDE DEF new, killed
<1>4. /\ servers' \subseteq Server /\ failed' \subseteq Server
      /\ ready' \in [Server -> {"none", "handler", "replies", "probe", "answered"}]
      /\ probe' \in [Server -> {"none", "delay", "query"}]
      /\ timeouts' \in [Server -> Nat]
  BY <1>1, <1>2 DEF ServerInv
<1>5. servers' \cap failed' = {}
  BY <1>1, <1>2, <1>3 DEF ServerInv, ServersHandled
<1>6. ASSUME NEW s \in servers'
      PROVE  /\ ready'[s] \in {"handler", "replies"}
             /\ probe'[s] = "none" /\ timeouts'[s] < MaxTimeouts
  <2>1. CASE s \in up
    BY <1>1, <1>2, <2>1
  <2>2. CASE s \in nss \cap servers /\ s \notin up
    BY <1>1, <1>2, <2>2 DEF ServerInv, ServersHandled
  <2>3. QED
    BY <1>1, <1>6, <2>1, <2>2
<1>7. ASSUME NEW s \in failed'
      PROVE  ready'[s] \in {"probe", "answered"} /\ probe'[s] # "none"
  BY <1>1, <1>2, <1>3, <1>7 DEF ServerInv, ServersHandled
<1>8. QED
  BY <1>4, <1>5, <1>6, <1>7 DEF ServerInv, ServersHandled

LEMMA NextServers == ServerInv /\ [Next]_vars => ServerInv'
<1> SUFFICES ASSUME ServerInv, [Next]_vars PROVE ServerInv'
  OBVIOUS
<1>1. CASE \E q \in Query : TimeOut(q)
  BY <1>1, TimeOutServers
<1>2. CASE \E s \in Server : Receive(s) \/ HandleNameserver(s)
  BY <1>2, HandledServers
<1>3. CASE \E s \in Server : Probe(s) \/ ProbeTimesOut(s) \/ Recover(s)
  BY <1>3, ProbedServers
<1>4. CASE \E nss \in Later : AddNameservers(nss)
  BY <1>4, ChangedServers
<1>5. CASE UNCHANGED <<servers, failed, ready, probe, timeouts>>
  BY <1>5 DEF ServerInv, ServersHandled
<1>6. ASSUME NEW q \in Query, Resolve(q) \/ Closures(q) \/ Cancel(q)
      PROVE  UNCHANGED <<servers, failed, ready, probe, timeouts>>
  BY <1>6 DEF Resolve, Closures, Admitted, NextNameserver, Send, EndResolve, Replied, Cancel,
              serverVars
<1>7. QED
  BY <1>1, <1>2, <1>3, <1>4, <1>5, <1>6 DEF Next, Moves, vars, serverVars

\* In every state a server that may be asked has a handler for its replies, and one
\* that has failed has a probe, so that neither is forgotten.
THEOREM ServersCovered == Spec => []ServersHandled
<1>1. ServerInv => ServersHandled
  BY DEF ServerInv
<1>2. QED
  BY InitServers, NextServers, <1>1, PTL DEF Spec

(***************************************************************************)
(* The adapters.  What is on the C++ stack is told by six sets of events.  *)
(***************************************************************************)

AEvent == {Root} \cup Wrap

HookFrame(w, v) == [op |-> "hook", w |-> w, values |-> v]
DeleteFrame(w)  == [op |-> "delete", w |-> w]
FinishFrame(e, r) == [op |-> "finish", ev |-> e, reduce |-> r]
ListFrame(e, l) == [op |-> "hooks", ev |-> e, list |-> l]
UserFrame == [op |-> "user"]

AFrame ==
  {HookFrame(w, v) : w \in Wrap, v \in BOOLEAN} \cup {DeleteFrame(w) : w \in Wrap}
    \cup {FinishFrame(e, r) : e \in AEvent, r \in BOOLEAN}
    \cup {ListFrame(e, l) : e \in AEvent, l \in Seq(Wrap)} \cup {UserFrame}

Members(l) == {l[i] : i \in DOMAIN l}
Distinct(l) == \A i, j \in DOMAIN l : l[i] = l[j] => i = j

\* What one frame stands for.
HookOf(f)   == IF f.op = "hook" THEN {f.w} ELSE {}
DeleteOf(f) == IF f.op = "delete" THEN {f.w} ELSE {}
FinishOf(f) == IF f.op = "finish" THEN {f.ev} ELSE {}
OwedOf(f)   == IF f.op = "finish" /\ f.reduce THEN {f.ev} ELSE {}
ListOf(f)   == IF f.op = "hooks" THEN Members(f.list) ELSE {}
EndOf(f)    == IF f.op \in {"finish", "hooks"} THEN {f.ev} ELSE {}

Gather(F, s) == UNION {F[s[i]] : i \in DOMAIN s}

\* The events whose hook, deletion or second half of a trigger is on the stack, those
\* whose reference a trigger will give up, those that will be triggered, and those
\* whose trigger is going on.
Hooking(s)   == Gather([f \in AFrame |-> HookOf(f)], s)
Deleting(s)  == Gather([f \in AFrame |-> DeleteOf(f)], s)
Finishing(s) == Gather([f \in AFrame |-> FinishOf(f)], s)
Owing(s)     == Gather([f \in AFrame |-> OwedOf(f)], s)
Listing(s)   == Gather([f \in AFrame |-> ListOf(f)], s)
Ending(s)    == Gather([f \in AFrame |-> EndOf(f)], s)

Apart(f, g) ==
  /\ (HookOf(f) \cup DeleteOf(f)) \cap (HookOf(g) \cup DeleteOf(g)) = {}
  /\ FinishOf(f) \cap FinishOf(g) = {}
  /\ ListOf(f) \cap ListOf(g) = {}

\* Nothing is on the stack twice.
Stacked(s) ==
  /\ s \in Seq(AFrame)
  /\ \A i, j \in DOMAIN s : i # j => Apart(s[i], s[j])
  /\ \A i \in DOMAIN s : s[i].op = "hooks" => Distinct(s[i].list)

\* A frame on top of s.
Top(f, s) == <<f>> \o s

OnTop(S, t, f, s) ==
  /\ t \in Seq(S) /\ t # <<>> /\ Head(t) = f /\ Tail(t) = s
  /\ 1 \in DOMAIN t /\ t[1] = f
  /\ \A i \in DOMAIN s : i + 1 \in DOMAIN t /\ t[i + 1] = s[i]
  /\ \A i \in DOMAIN t : i = 1 \/ (i - 1 \in DOMAIN s /\ t[i] = s[i - 1])

\* What pushing a frame does to the places of a stack.
LEMMA TopIs ==
  ASSUME NEW S, NEW s \in Seq(S), NEW f \in S, NEW t, t = Top(f, s)
  PROVE  OnTop(S, t, f, s)
<1>s. Len(s) \in Nat /\ DOMAIN s = 1 .. Len(s)
  OBVIOUS
<1>t. t = <<f>> \o s
  BY DEF Top
<1>1. /\ t \in Seq(S) /\ Len(t) = Len(s) + 1 /\ DOMAIN t = 1 .. Len(s) + 1
      /\ t[1] = f /\ \A i \in 1 .. Len(s) : t[i + 1] = s[i]
  BY <1>s, <1>t
<1>2. \A i \in DOMAIN t : i = 1 \/ (i - 1 \in DOMAIN s /\ t[i] = s[i - 1])
  <2> TAKE i \in DOMAIN t
  <2>1. i = 1 \/ (i - 1 \in 1 .. Len(s) /\ (i - 1) + 1 = i)
    BY <1>1, <1>s
  <2> QED
    BY <2>1, <1>1, <1>s
<1>3. t # <<>> /\ Head(t) = f /\ Tail(t) = s
  BY <1>s, <1>t
<1>4. \A i \in DOMAIN s : i + 1 \in DOMAIN t
  BY <1>1, <1>s
<1>5. 1 \in DOMAIN t
  BY <1>1, <1>s
<1> QED
  BY <1>1, <1>2, <1>3, <1>4, <1>5, <1>s DEF OnTop

\* A stack is its top frame over the rest.
LEMMA TopOf ==
  ASSUME NEW S, NEW s \in Seq(S), s # <<>>
  PROVE  Head(s) \in S /\ Tail(s) \in Seq(S) /\ s = Top(Head(s), Tail(s))
<1>1. Len(s) \in Nat /\ Len(s) # 0 /\ DOMAIN s = 1 .. Len(s)
  OBVIOUS
<1>2. Head(s) \in S /\ Head(s) = s[1]
  BY <1>1
<1>3. PICK r : r = Tail(s)
  OBVIOUS
<1>4. /\ r \in Seq(S) /\ Len(r) = Len(s) - 1
      /\ \A i \in 1 .. Len(s) - 1 : r[i] = s[i + 1]
  BY <1>1, <1>3
<1>f. PICK f \in S : f = Head(s)
  BY <1>2
<1>5. PICK t : t = Top(f, r)
  OBVIOUS
<1>t. t = <<f>> \o r
  BY <1>5 DEF Top
<1>6. /\ t \in Seq(S) /\ Len(t) = Len(r) + 1 /\ t[1] = f
      /\ \A i \in 1 .. Len(r) : t[i + 1] = r[i]
  BY <1>4, <1>t
<1>7. ASSUME NEW i \in 1 .. Len(s) PROVE t[i] = s[i]
  <2>1. i = 1 \/ (i - 1 \in 1 .. Len(s) - 1 /\ (i - 1) + 1 = i)
    BY <1>1
  <2>2. QED
    BY <1>2, <1>f, <1>4, <1>6, <2>1
<1>8. t = s
  <2>1. Len(t) = Len(s)
    BY <1>1, <1>4, <1>6
  <2>2. QED
    BY <1>6, <1>7, <2>1, SeqEqual
<1>9. QED
  BY <1>2, <1>3, <1>4, <1>f, <1>5, <1>8

\* What a stack gathers, its top frame and the rest gather.
LEMMA GatherTop ==
  ASSUME NEW S, NEW s \in Seq(S), NEW f \in S, NEW F
  PROVE  Gather(F, Top(f, s)) = F[f] \cup Gather(F, s)
<1>1. PICK t : t = Top(f, s)
  OBVIOUS
<1>2. /\ 1 \in DOMAIN t /\ t[1] = f
      /\ \A i \in DOMAIN s : i + 1 \in DOMAIN t /\ t[i + 1] = s[i]
      /\ \A i \in DOMAIN t : i = 1 \/ (i - 1 \in DOMAIN s /\ t[i] = s[i - 1])
  <2>1. OnTop(S, t, f, s)
    BY <1>1, TopIs
  <2>2. QED
    BY <2>1 DEF OnTop
<1>3. ASSUME NEW x \in Gather(F, t) PROVE x \in F[f] \cup Gather(F, s)
  <2>1. PICK i \in DOMAIN t : x \in F[t[i]]
    BY DEF Gather
  <2>2. CASE i = 1
    BY <1>2, <2>1, <2>2
  <2>3. CASE i - 1 \in DOMAIN s /\ t[i] = s[i - 1]
    BY <2>1, <2>3 DEF Gather
  <2>4. QED
    BY <1>2, <2>2, <2>3
<1>4. ASSUME NEW x \in F[f] PROVE x \in Gather(F, t)
  BY <1>2 DEF Gather
<1>5. ASSUME NEW x \in Gather(F, s) PROVE x \in Gather(F, t)
  <2>1. PICK i \in DOMAIN s : x \in F[s[i]]
    BY DEF Gather
  <2>2. i + 1 \in DOMAIN t /\ x \in F[t[i + 1]]
    BY <1>2, <2>1
  <2>3. QED
    BY <2>2 DEF Gather
<1>6. QED
  BY <1>1, <1>3, <1>4, <1>5

\* A frame may come on top of a stack that has nothing of it.
Fits(f, s) ==
  /\ (HookOf(f) \cup DeleteOf(f)) \cap (Hooking(s) \cup Deleting(s)) = {}
  /\ FinishOf(f) \cap Finishing(s) = {}
  /\ ListOf(f) \cap Listing(s) = {}
  /\ f.op = "hooks" => Distinct(f.list)

\* What one frame more or less changes.
LEMMA Turns ==
  ASSUME NEW s \in Seq(AFrame), NEW f \in AFrame
  PROVE  /\ Hooking(Top(f, s)) = HookOf(f) \cup Hooking(s)
         /\ Deleting(Top(f, s)) = DeleteOf(f) \cup Deleting(s)
         /\ Finishing(Top(f, s)) = FinishOf(f) \cup Finishing(s)
         /\ Owing(Top(f, s)) = OwedOf(f) \cup Owing(s)
         /\ Listing(Top(f, s)) = ListOf(f) \cup Listing(s)
         /\ Ending(Top(f, s)) = EndOf(f) \cup Ending(s)
         /\ Stacked(Top(f, s)) <=> Stacked(s) /\ Fits(f, s)
<1>1. PICK t : t = Top(f, s)
  OBVIOUS
<1>2. /\ t \in Seq(AFrame) /\ 1 \in DOMAIN t /\ t[1] = f
      /\ \A i \in DOMAIN s : i + 1 \in DOMAIN t /\ t[i + 1] = s[i]
      /\ \A i \in DOMAIN t : i = 1 \/ (i - 1 \in DOMAIN s /\ t[i] = s[i - 1])
  <2>1. OnTop(AFrame, t, f, s)
    BY <1>1, TopIs
  <2>2. QED
    BY <2>1 DEF OnTop
<1>3. /\ Hooking(t) = HookOf(f) \cup Hooking(s)
      /\ Deleting(t) = DeleteOf(f) \cup Deleting(s)
      /\ Finishing(t) = FinishOf(f) \cup Finishing(s)
      /\ Owing(t) = OwedOf(f) \cup Owing(s)
      /\ Listing(t) = ListOf(f) \cup Listing(s)
      /\ Ending(t) = EndOf(f) \cup Ending(s)
  <2>1. Hooking(t) = HookOf(f) \cup Hooking(s)
    BY <1>1, GatherTop DEF Hooking
  <2>2. Deleting(t) = DeleteOf(f) \cup Deleting(s)
    BY <1>1, GatherTop DEF Deleting
  <2>3. Finishing(t) = FinishOf(f) \cup Finishing(s)
    BY <1>1, GatherTop DEF Finishing
  <2>4. Owing(t) = OwedOf(f) \cup Owing(s)
    BY <1>1, GatherTop DEF Owing
  <2>5. Listing(t) = ListOf(f) \cup Listing(s)
    BY <1>1, GatherTop DEF Listing
  <2>6. Ending(t) = EndOf(f) \cup Ending(s)
    BY <1>1, GatherTop DEF Ending
  <2>7. QED
    BY <2>1, <2>2, <2>3, <2>4, <2>5, <2>6
<1>4. \A i \in DOMAIN s : i \in Nat /\ i >= 1 /\ s[i] \in AFrame
  <2>1. DOMAIN s = 1 .. Len(s) /\ Len(s) \in Nat
    OBVIOUS
  <2>2. QED
    BY <2>1
<1>5. Fits(f, s) <=> (\A i \in DOMAIN s : Apart(f, s[i])) /\ (f.op = "hooks" => Distinct(f.list))
  <2>1. \A x : x \in Hooking(s) <=> \E i \in DOMAIN s : x \in HookOf(s[i])
    BY <1>4 DEF Hooking, Gather
  <2>2. \A x : x \in Deleting(s) <=> \E i \in DOMAIN s : x \in DeleteOf(s[i])
    BY <1>4 DEF Deleting, Gather
  <2>3. \A x : x \in Finishing(s) <=> \E i \in DOMAIN s : x \in FinishOf(s[i])
    BY <1>4 DEF Finishing, Gather
  <2>4. \A x : x \in Listing(s) <=> \E i \in DOMAIN s : x \in ListOf(s[i])
    BY <1>4 DEF Listing, Gather
  <2>5. QED
    BY <2>1, <2>2, <2>3, <2>4 DEF Fits, Apart
<1>6. \A g, h : Apart(g, h) => Apart(h, g)
  BY DEF Apart
<1>7. Stacked(t) <=> Stacked(s) /\ Fits(f, s)
  <2>1. ASSUME Stacked(t) PROVE Stacked(s) /\ Fits(f, s)
    <3>1. ASSUME NEW i \in DOMAIN s, NEW j \in DOMAIN s, i # j PROVE Apart(s[i], s[j])
      <4>1. i + 1 # j + 1 /\ i + 1 \in DOMAIN t /\ j + 1 \in DOMAIN t
        BY <1>2, <1>4, <3>1
      <4>2. QED
        BY <1>2, <2>1, <4>1 DEF Stacked
    <3>2. \A i \in DOMAIN s : i + 1 # 1
      BY <1>4
    <3>3. \A i \in DOMAIN s : Apart(f, s[i])
      BY <1>2, <2>1, <3>2 DEF Stacked
    <3>4. f.op = "hooks" => Distinct(f.list)
      BY <1>2, <2>1 DEF Stacked
    <3>5. \A i \in DOMAIN s : s[i].op = "hooks" => Distinct(s[i].list)
      BY <1>2, <2>1 DEF Stacked
    <3>6. QED
      BY <1>5, <3>1, <3>3, <3>4, <3>5 DEF Stacked
  <2>2. ASSUME Stacked(s), Fits(f, s) PROVE Stacked(t)
    <3>1. ASSUME NEW i \in DOMAIN t, NEW j \in DOMAIN t, i # j PROVE Apart(t[i], t[j])
      <4>1. CASE i = 1
        BY <1>2, <1>5, <2>2, <3>1, <4>1
      <4>2. CASE j = 1
        BY <1>2, <1>5, <1>6, <2>2, <3>1, <4>2
      <4>3. CASE i # 1 /\ j # 1
        <5>1. i - 1 # j - 1 /\ i - 1 \in DOMAIN s /\ j - 1 \in DOMAIN s
          <6>1. i \in Int /\ j \in Int
            <7>1. DOMAIN t = 1 .. Len(t)
              BY <1>2
            <7>2. QED
              BY <7>1
          <6>2. QED
            BY <1>2, <3>1, <4>3, <6>1
        <5>2. QED
          BY <1>2, <2>2, <4>3, <5>1 DEF Stacked
      <4>4. QED
        BY <4>1, <4>2, <4>3
    <3>2. \A i \in DOMAIN t : t[i].op = "hooks" => Distinct(t[i].list)
      BY <1>2, <2>2 DEF Stacked, Fits
    <3>3. QED
      BY <1>2, <3>1, <3>2 DEF Stacked
  <2>3. QED
    BY <2>1, <2>2
<1>8. QED
  BY <1>1, <1>3, <1>7

\* What each frame stands for.
LEMMA HookFrameIs ==
  ASSUME NEW w \in Wrap, NEW v \in BOOLEAN, NEW f, f = HookFrame(w, v)
  PROVE  /\ f \in AFrame /\ f.op = "hook" /\ f.w = w /\ f.values = v
         /\ HookOf(f) = {w} /\ DeleteOf(f) = {} /\ FinishOf(f) = {}
         /\ OwedOf(f) = {} /\ ListOf(f) = {} /\ EndOf(f) = {}
<1>1. f.op = "hook" /\ f.w = w /\ f.values = v
  BY DEF HookFrame
<1>2. f \in {HookFrame(z, u) : z \in Wrap, u \in BOOLEAN}
  OBVIOUS
<1>3. f \in AFrame
  BY <1>2 DEF AFrame
<1>4. QED
  BY <1>1, <1>3 DEF HookOf, DeleteOf, FinishOf, OwedOf, ListOf, EndOf

LEMMA DeleteFrameIs ==
  ASSUME NEW w \in Wrap, NEW f, f = DeleteFrame(w)
  PROVE  /\ f \in AFrame /\ f.op = "delete" /\ f.w = w
         /\ HookOf(f) = {} /\ DeleteOf(f) = {w} /\ FinishOf(f) = {}
         /\ OwedOf(f) = {} /\ ListOf(f) = {} /\ EndOf(f) = {}
<1>1. f.op = "delete" /\ f.w = w
  BY DEF DeleteFrame
<1>2. f \in {DeleteFrame(z) : z \in Wrap}
  OBVIOUS
<1>3. f \in AFrame
  BY <1>2 DEF AFrame
<1>4. QED
  BY <1>1, <1>3 DEF HookOf, DeleteOf, FinishOf, OwedOf, ListOf, EndOf

LEMMA FinishFrameIs ==
  ASSUME NEW e \in AEvent, NEW r \in BOOLEAN, NEW f, f = FinishFrame(e, r)
  PROVE  /\ f \in AFrame /\ f.op = "finish" /\ f.ev = e /\ f.reduce = r
         /\ HookOf(f) = {} /\ DeleteOf(f) = {} /\ FinishOf(f) = {e}
         /\ OwedOf(f) = (IF r THEN {e} ELSE {}) /\ ListOf(f) = {} /\ EndOf(f) = {e}
<1>1. f.op = "finish" /\ f.ev = e /\ f.reduce = r
  BY DEF FinishFrame
<1>2. f \in {FinishFrame(z, u) : z \in AEvent, u \in BOOLEAN}
  OBVIOUS
<1>3. f \in AFrame
  BY <1>2 DEF AFrame
<1>4. QED
  BY <1>1, <1>3 DEF HookOf, DeleteOf, FinishOf, OwedOf, ListOf, EndOf

LEMMA ListFrameIs ==
  ASSUME NEW e \in AEvent, NEW l \in Seq(Wrap), NEW f, f = ListFrame(e, l)
  PROVE  /\ f \in AFrame /\ f.op = "hooks" /\ f.ev = e /\ f.list = l
         /\ HookOf(f) = {} /\ DeleteOf(f) = {} /\ FinishOf(f) = {}
         /\ OwedOf(f) = {} /\ ListOf(f) = Members(l) /\ EndOf(f) = {e}
<1>1. f.op = "hooks" /\ f.ev = e /\ f.list = l
  BY DEF ListFrame
<1>2. f \in {ListFrame(z, u) : z \in AEvent, u \in Seq(Wrap)}
  OBVIOUS
<1>3. f \in AFrame
  BY <1>2 DEF AFrame
<1>4. QED
  BY <1>1, <1>3 DEF HookOf, DeleteOf, FinishOf, OwedOf, ListOf, EndOf

LEMMA UserFrameIs ==
  ASSUME NEW f, f = UserFrame
  PROVE  /\ f \in AFrame /\ f.op = "user"
         /\ HookOf(f) = {} /\ DeleteOf(f) = {} /\ FinishOf(f) = {}
         /\ OwedOf(f) = {} /\ ListOf(f) = {} /\ EndOf(f) = {}
<1>1. f.op = "user"
  BY DEF UserFrame
<1>2. f \in AFrame
  BY DEF AFrame
<1>3. QED
  BY <1>1, <1>2 DEF HookOf, DeleteOf, FinishOf, OwedOf, ListOf, EndOf

\* A frame is told by its op.
LEMMA FrameIs ==
  ASSUME NEW f \in AFrame
  PROVE  /\ f.op \in {"hook", "delete", "finish", "hooks", "user"}
         /\ f.op = "hook" => f.w \in Wrap /\ f.values \in BOOLEAN /\ f = HookFrame(f.w, f.values)
         /\ f.op = "delete" => f.w \in Wrap /\ f = DeleteFrame(f.w)
         /\ f.op = "finish" =>
              f.ev \in AEvent /\ f.reduce \in BOOLEAN /\ f = FinishFrame(f.ev, f.reduce)
         /\ f.op = "hooks" =>
              f.ev \in AEvent /\ f.list \in Seq(Wrap) /\ f = ListFrame(f.ev, f.list)
         /\ f.op = "user" => f = UserFrame
<1>1. CASE \E w \in Wrap, v \in BOOLEAN : f = HookFrame(w, v)
  <2>1. PICK w \in Wrap, v \in BOOLEAN : f = HookFrame(w, v)
    BY <1>1
  <2>2. f.op = "hook" /\ f.w = w /\ f.values = v
    BY <2>1, HookFrameIs
  <2>3. QED
    BY <2>1, <2>2
<1>2. CASE \E w \in Wrap : f = DeleteFrame(w)
  <2>1. PICK w \in Wrap : f = DeleteFrame(w)
    BY <1>2
  <2>2. f.op = "delete" /\ f.w = w
    BY <2>1, DeleteFrameIs
  <2>3. QED
    BY <2>1, <2>2
<1>3. CASE \E e \in AEvent, r \in BOOLEAN : f = FinishFrame(e, r)
  <2>1. PICK e \in AEvent, r \in BOOLEAN : f = FinishFrame(e, r)
    BY <1>3
  <2>2. f.op = "finish" /\ f.ev = e /\ f.reduce = r
    BY <2>1, FinishFrameIs
  <2>3. QED
    BY <2>1, <2>2
<1>4. CASE \E e \in AEvent, l \in Seq(Wrap) : f = ListFrame(e, l)
  <2>1. PICK e \in AEvent, l \in Seq(Wrap) : f = ListFrame(e, l)
    BY <1>4
  <2>2. f.op = "hooks" /\ f.ev = e /\ f.list = l
    BY <2>1, ListFrameIs
  <2>3. QED
    BY <2>1, <2>2
<1>5. CASE f = UserFrame
  <2>1. f.op = "user"
    BY <1>5, UserFrameIs
  <2>2. QED
    BY <1>5, <2>1
<1>6. QED
  BY <1>1, <1>2, <1>3, <1>4, <1>5 DEF AFrame

AKinds == {"none", "bind", "helper", "map", "fun"}
Ties(k) == k \in {"bind", "helper", "map"}
Grips(k) == k \in {"bind", "map"}
One(b) == IF b THEN 1 ELSE 0

WrapTypes(act, kd, tg, Q) ==
  /\ act \in [AEvent -> BOOLEAN] /\ kd \in [Wrap -> AKinds]
  /\ tg \in [Wrap -> AEvent] /\ Q \in [AEvent -> SUBSET Wrap]

SetsAre(H, D, F, O, L, E) ==
  /\ H \subseteq Wrap /\ D \subseteq Wrap /\ H \cap D = {}
  /\ L \subseteq Wrap /\ O \subseteq F /\ F \subseteq E /\ E \subseteq AEvent

\* Who will still be called: H and D are the adapters whose hook or deletion is on the
\* stack, F the events in the first half of a trigger, E those in either half, L the
\* adapters that a trigger is about to call, and Q[e] those that e will call.  Of the
\* event x a trigger is about to begin.
Calls(act, kd, tg, Q, H, D, F, L, E, x) ==
  /\ \A w \in H \cup D : ~act[w] /\ kd[w] # "none"
  /\ \A e \in E : ~act[e] /\ (e \in Wrap => kd[e] # "none")
  /\ \A e \in AEvent : Q[e] \cap L = {}
  /\ \A d, e \in AEvent : d # e => Q[d] \cap Q[e] = {}
  /\ \A w \in Wrap : kd[w] = "none" => ~act[w] /\ w \notin L /\ \A e \in AEvent : w \notin Q[e]
  /\ \A w \in Wrap : Ties(kd[w]) /\ tg[w] \in Wrap => kd[tg[w]] # "none"
  /\ \A w \in Wrap : Ties(kd[w]) /\ act[w] /\ w # x =>
       w \in L \/ (w \in Q[tg[w]] /\ (act[tg[w]] \/ tg[w] \in F))
  /\ \A w \in Wrap : Ties(kd[w]) /\ ~act[w] /\ act[tg[w]] /\ tg[w] # x => w \in H

\* The value v of an event is that of y, who emptied it.
Rightly(kd, y, v) ==
  /\ y \in {"natural", "hook"} => v \in {"unset", "natural"}
  /\ y \in Wrap =>
       /\ kd[y] # "none"
       /\ v = IF kd[y] = "helper" THEN "unset"
              ELSE IF kd[y] = "bind" \/ v # "unset" THEN y ELSE "unset"

Values(act, kd, why, slot, x) ==
  /\ why \in [AEvent -> {"active", "natural", "hook"} \cup Wrap]
  /\ slot \in [AEvent -> {"unset", "natural"} \cup Wrap]
  /\ \A e \in AEvent : act[e] => why[e] = "active"
  /\ \A e \in AEvent : why[e] = "active" /\ ~(e = x /\ act[e]) => slot[e] = "unset"
  /\ \A e \in AEvent : Rightly(kd, why[e], slot[e])
  /\ \A w \in Wrap : kd[w] = "none" => why[w] = "active"

\* Of the event x a trigger by the adapter y is about to begin.
Outcomes(act, kd, tg, why, res, H, x, y) ==
  /\ res \in [Wrap -> {"unset", "zero"} \cup Wrap]
  /\ \A w \in Wrap : kd[w] = "helper" /\ (act[w] \/ w \in H) => why[tg[w]] # w
  /\ \A w \in Wrap : kd[w] = "helper" /\ ~act[w] /\ w \notin H =>
       res[Tracker[w]] = IF (w = y /\ tg[w] = x /\ act[x]) \/ why[tg[w]] = w THEN w ELSE "zero"

\* C[e] adapters hold e and the events of U will be called; a trigger is about to begin
\* of x, and gives up a reference to g.
Counts(act, C, U, handles, refs, life, O, E, g, x) ==
  /\ C \in [AEvent -> Nat] /\ handles \in [AEvent -> Nat] /\ refs \in [AEvent -> Nat]
  /\ life \in [AEvent -> {"unborn", "live", "deleted"}]
  /\ \A e \in AEvent :
       refs[e] = handles[e] + C[e] + One(e \in U) + One(e \in O) + One(e = g)
  /\ \A e \in AEvent : act[e] => life[e] = "live"
  /\ \A e \in AEvent : life[e] = "live" /\ refs[e] = 0 /\ e # x => e \in E

Nodes(act, kd, holds, handles, node, H, D) ==
  /\ holds \in [Wrap -> BOOLEAN] /\ node \in [Wrap -> {"unborn", "live", "deleted"}]
  /\ \A w \in Wrap : kd[w] # "none" => (node[w] = "live" <=> act[w] \/ w \in H \cup D)
  /\ \A w \in Wrap : kd[w] = "none" => handles[w] = 0
  /\ \A w \in Wrap : holds[w] => Grips(kd[w])
  /\ \A w \in Wrap : Grips(kd[w]) /\ (act[w] \/ w \in H) => holds[w]

Settled(life, refs, D) ==
  [e \in AEvent |-> IF e \in D /\ refs[e] = 0 THEN "deleted" ELSE life[e]]

Shape3 ==
  /\ Root \notin Wrap
  /\ {"active", "natural", "hook", "unset", "zero"} \cap AEvent = {}

(***************************************************************************)
(* A trigger of x.                                                         *)
(***************************************************************************)

\* Emptying x makes its hook one that will run; nobody else's call is lost.
LEMMA CallsFire ==
  ASSUME NEW act, NEW kd, NEW tg, NEW Q, NEW H, NEW D, NEW F, NEW O, NEW L, NEW E,
         NEW x \in AEvent, NEW z, z \notin AEvent, Root \notin Wrap,
         WrapTypes(act, kd, tg, Q), SetsAre(H, D, F, O, L, E),
         Calls(act, kd, tg, Q, H, D, F, L, E, x), act[x],
         NEW b, b = [act EXCEPT ![x] = FALSE],
         NEW J, J = H \cup ({x} \ {Root})
  PROVE  /\ WrapTypes(b, kd, tg, Q)
         /\ Calls(b, kd, tg, Q, J, D, F \cup {x}, L, E \cup {x}, z)
<1>1. /\ act \in [AEvent -> BOOLEAN] /\ kd \in [Wrap -> AKinds]
      /\ tg \in [Wrap -> AEvent] /\ Q \in [AEvent -> SUBSET Wrap]
  BY DEF WrapTypes
<1>2. b \in [AEvent -> BOOLEAN] /\ ~b[x] /\ \A e \in AEvent : e # x => b[e] = act[e]
  BY <1>1
<1>3. /\ H \subseteq Wrap /\ D \subseteq Wrap /\ H \cap D = {}
      /\ L \subseteq Wrap /\ O \subseteq F /\ F \subseteq E /\ E \subseteq AEvent
  BY DEF SetsAre
<1>4. \A w \in Wrap : w \in AEvent
  BY DEF AEvent
<1>5. x \in Wrap => kd[x] # "none"
  BY DEF Calls
<1>6. \A w : w \in J <=> w \in H \/ (w = x /\ x # Root)
  OBVIOUS
<1>7. x # Root => x \in Wrap
  BY DEF AEvent
<1>8. \A w \in J \cup D : ~b[w] /\ kd[w] # "none"
  BY <1>2, <1>3, <1>4, <1>5, <1>6, <1>7 DEF Calls
<1>9. \A e \in E \cup {x} : ~b[e] /\ (e \in Wrap => kd[e] # "none")
  BY <1>2, <1>3, <1>5 DEF Calls
<1>10. /\ \A e \in AEvent : Q[e] \cap L = {}
       /\ \A d, e \in AEvent : d # e => Q[d] \cap Q[e] = {}
       /\ \A w \in Wrap : Ties(kd[w]) /\ tg[w] \in Wrap => kd[tg[w]] # "none"
  BY DEF Calls
<1>11. \A w \in Wrap : kd[w] = "none" => ~b[w] /\ w \notin L /\ \A e \in AEvent : w \notin Q[e]
  BY <1>2, <1>4 DEF Calls
<1>12. ASSUME NEW w \in Wrap, Ties(kd[w]), b[w]
       PROVE  w \in L \/ (w \in Q[tg[w]] /\ (b[tg[w]] \/ tg[w] \in F \cup {x}))
  <2>1. act[w] /\ w # x /\ tg[w] \in AEvent
    BY <1>1, <1>2, <1>4, <1>12
  <2>2. w \in L \/ (w \in Q[tg[w]] /\ (act[tg[w]] \/ tg[w] \in F))
    BY <1>12, <2>1 DEF Calls
  <2>3. QED
    BY <1>2, <2>1, <2>2
<1>13. ASSUME NEW w \in Wrap, Ties(kd[w]), ~b[w], b[tg[w]] PROVE w \in J
  <2>1. tg[w] \in AEvent /\ tg[w] # x /\ act[tg[w]]
    BY <1>1, <1>2, <1>13
  <2>2. CASE w = x
    <3>1. x # Root
      BY <2>2
    <3>2. QED
      BY <1>6, <2>2, <3>1
  <2>3. CASE w # x
    <3>1. ~act[w]
      BY <1>2, <1>4, <1>13, <2>3
    <3>2. w \in H
      BY <1>13, <2>1, <3>1 DEF Calls
    <3>3. QED
      BY <1>6, <3>2
  <2>4. QED
    BY <2>2, <2>3
<1>14. QED
  BY <1>1, <1>2, <1>8, <1>9, <1>10, <1>11, <1>12, <1>13 DEF Calls, WrapTypes

\* A trigger of an empty event changes nobody's call.
LEMMA CallsIdle ==
  ASSUME NEW act, NEW kd, NEW tg, NEW Q, NEW H, NEW D, NEW F, NEW L, NEW E,
         NEW x, NEW z, WrapTypes(act, kd, tg, Q),
         Calls(act, kd, tg, Q, H, D, F, L, E, x), ~act[x]
  PROVE  Calls(act, kd, tg, Q, H, D, F, L, E, z)
<1>1. \A w \in Wrap : Ties(kd[w]) /\ act[w] =>
        w \in L \/ (w \in Q[tg[w]] /\ (act[tg[w]] \/ tg[w] \in F))
  BY DEF Calls
<1>2. \A w \in Wrap : Ties(kd[w]) /\ ~act[w] /\ act[tg[w]] => w \in H
  BY DEF Calls
<1>3. QED
  BY <1>1, <1>2 DEF Calls

\* Whoever empties x has set its value.
LEMMA ValuesFire ==
  ASSUME NEW act, NEW kd, NEW why, NEW slot, NEW x \in AEvent, NEW z, NEW by,
         act \in [AEvent -> BOOLEAN], act[x], z \notin AEvent, "active" \notin AEvent,
         Values(act, kd, why, slot, x), by \in {"natural", "hook"} \cup Wrap,
         Rightly(kd, by, slot[x]), x \in Wrap => kd[x] # "none",
         NEW b, b = [act EXCEPT ![x] = FALSE], NEW y, y = [why EXCEPT ![x] = by]
  PROVE  Values(b, kd, y, slot, z)
<1>1. b \in [AEvent -> BOOLEAN] /\ ~b[x] /\ \A e \in AEvent : e # x => b[e] = act[e]
  OBVIOUS
<1>2. /\ why \in [AEvent -> {"active", "natural", "hook"} \cup Wrap]
      /\ slot \in [AEvent -> {"unset", "natural"} \cup Wrap]
  BY DEF Values
<1>3. /\ y \in [AEvent -> {"active", "natural", "hook"} \cup Wrap]
      /\ y[x] = by /\ \A e \in AEvent : e # x => y[e] = why[e]
  BY <1>2
<1>4. by # "active" /\ \A w \in Wrap : w \in AEvent
  BY DEF AEvent
<1>5. \A e \in AEvent : b[e] => y[e] = "active"
  BY <1>1, <1>3 DEF Values
<1>6. \A e \in AEvent : y[e] = "active" /\ ~(e = z /\ b[e]) => slot[e] = "unset"
  BY <1>3, <1>4 DEF Values
<1>7. \A e \in AEvent : Rightly(kd, y[e], slot[e])
  BY <1>3 DEF Values
<1>8. \A w \in Wrap : kd[w] = "none" => y[w] = "active"
  BY <1>3, <1>4 DEF Values
<1>9. QED
  BY <1>2, <1>3, <1>5, <1>6, <1>7, <1>8 DEF Values

\* A trigger of an empty event sets no value.
LEMMA ValuesIdle ==
  ASSUME NEW act, NEW kd, NEW why, NEW slot, NEW x, NEW z,
         Values(act, kd, why, slot, x), ~act[x]
  PROVE  Values(act, kd, why, slot, z)
BY DEF Values

\* Who may trigger x.
May(act, kd, tg, slot, H, x, by) ==
  /\ by \in {"natural", "hook"} \cup Wrap
  /\ by \in Wrap => ~act[by] /\ by \notin H /\ tg[by] = x
  /\ \A w \in Wrap : Ties(kd[w]) /\ ~act[w] /\ w \notin H /\ tg[w] = x => w = by
  /\ Rightly(kd, by, slot[x])

\* x has been emptied by `by`.
Emptied(act, why, H, x, by, b, y, J) ==
  /\ b = [act EXCEPT ![x] = FALSE]
  /\ y = [why EXCEPT ![x] = by]
  /\ J = H \cup ({x} \ {Root})

\* The result variables tell who empties x.
LEMMA OutcomesFire ==
  ASSUME NEW act, NEW kd, NEW tg, NEW why, NEW slot, NEW res, NEW Q, NEW H,
         NEW x \in AEvent, NEW z, NEW z2, NEW by, Shape3, z \notin AEvent,
         WrapTypes(act, kd, tg, Q), act[x], Values(act, kd, why, slot, x),
         Outcomes(act, kd, tg, why, res, H, x, by), May(act, kd, tg, slot, H, x, by),
         NEW b, NEW y, NEW J, Emptied(act, why, H, x, by, b, y, J)
  PROVE  Outcomes(b, kd, tg, y, res, J, z, z2)
<1>0. "active" \notin AEvent /\ {"natural", "hook"} \cap AEvent = {} /\ Root \notin Wrap
  BY DEF Shape3
<1>1. /\ act \in [AEvent -> BOOLEAN] /\ kd \in [Wrap -> AKinds] /\ tg \in [Wrap -> AEvent]
  BY DEF WrapTypes
<1>e. /\ b = [act EXCEPT ![x] = FALSE] /\ y = [why EXCEPT ![x] = by]
      /\ J = H \cup ({x} \ {Root})
  BY DEF Emptied
<1>2. b \in [AEvent -> BOOLEAN] /\ ~b[x] /\ \A e \in AEvent : e # x => b[e] = act[e]
  BY <1>1, <1>e
<1>3. /\ why \in [AEvent -> {"active", "natural", "hook"} \cup Wrap] /\ why[x] = "active"
  BY DEF Values
<1>4. y[x] = by /\ \A e \in AEvent : e # x => y[e] = why[e]
  BY <1>3, <1>e
<1>5. \A w \in Wrap : w \in AEvent /\ w # Root
  BY <1>0 DEF AEvent
<1>6. x # Root => x \in Wrap
  BY DEF AEvent
<1>m. /\ by \in {"natural", "hook"} \cup Wrap
      /\ by \in Wrap => ~act[by] /\ by \notin H /\ tg[by] = x
      /\ \A w \in Wrap : Ties(kd[w]) /\ ~act[w] /\ w \notin H /\ tg[w] = x => w = by
  BY DEF May
<1>7. ASSUME NEW w \in Wrap, kd[w] = "helper", b[w] \/ w \in J PROVE y[tg[w]] # w
  <2>1. tg[w] \in AEvent
    BY <1>1
  <2>2. act[w] \/ w \in H
    BY <1>2, <1>5, <1>7, <1>e
  <2>3. why[tg[w]] # w
    BY <1>7, <2>2 DEF Outcomes
  <2>4. by # w
    BY <1>0, <1>5, <1>m, <2>2
  <2>5. QED
    BY <1>4, <2>1, <2>3, <2>4
<1>8. ASSUME NEW w \in Wrap, kd[w] = "helper", ~b[w], w \notin J
      PROVE  res[Tracker[w]] = IF y[tg[w]] = w THEN w ELSE "zero"
  <2>1. tg[w] \in AEvent /\ w \in AEvent /\ w \notin H
    BY <1>1, <1>5, <1>8, <1>e
  <2>2. w # x
    <3>1. ASSUME w = x PROVE FALSE
      <4>1. x = Root
        BY <1>8, <1>e, <3>1
      <4>2. QED
        BY <1>5, <3>1, <4>1
    <3>2. QED
      BY <3>1
  <2>3. ~act[w]
    BY <1>2, <1>8, <2>1, <2>2
  <2>4. res[Tracker[w]] = IF (w = by /\ tg[w] = x /\ act[x]) \/ why[tg[w]] = w THEN w ELSE "zero"
    BY <1>8, <2>1, <2>3 DEF Outcomes
  <2>5. CASE tg[w] = x
    <3>1. w = by
      BY <1>8, <1>m, <2>1, <2>3, <2>5 DEF Ties
    <3>2. QED
      BY <1>4, <2>4, <2>5, <3>1
  <2>6. CASE tg[w] # x
    BY <1>4, <2>1, <2>4, <2>6
  <2>7. QED
    BY <2>5, <2>6
<1>9. res \in [Wrap -> {"unset", "zero"} \cup Wrap]
  BY DEF Outcomes
<1>10. \A w \in Wrap : ~(tg[w] = z)
  BY <1>1
<1>11. QED
  BY <1>7, <1>8, <1>9, <1>10 DEF Outcomes

\* A trigger of an empty event ends nothing.
LEMMA OutcomesIdle ==
  ASSUME NEW act, NEW kd, NEW tg, NEW why, NEW res, NEW H, NEW x, NEW z, NEW by, NEW y,
         tg \in [Wrap -> AEvent], z \notin AEvent, Outcomes(act, kd, tg, why, res, H, x, by), ~act[x]
  PROVE  Outcomes(act, kd, tg, why, res, H, z, y)
<1>1. \A w \in Wrap : ~(tg[w] = z)
  OBVIOUS
<1>2. QED
  BY <1>1 DEF Outcomes

\* The number of a condition.
LEMMA Ones == \A b : One(b) \in {0, 1} /\ (b => One(b) = 1) /\ (~b => One(b) = 0)
BY DEF One

\* The rendezvous of an emptied adapter stays for its hook.
LEMMA NodesFire ==
  ASSUME NEW act, NEW kd, NEW holds, NEW handles, NEW node, NEW H, NEW D,
         NEW x \in AEvent, act \in [AEvent -> BOOLEAN], act[x], Root \notin Wrap,
         Nodes(act, kd, holds, handles, node, H, D),
         NEW b, b = [act EXCEPT ![x] = FALSE], NEW J, J = H \cup ({x} \ {Root})
  PROVE  Nodes(b, kd, holds, handles, node, J, D)
<1>1. b \in [AEvent -> BOOLEAN] /\ ~b[x] /\ \A e \in AEvent : e # x => b[e] = act[e]
  OBVIOUS
<1>2. \A w \in Wrap : w \in AEvent /\ w # Root
  BY DEF AEvent
<1>3. \A w \in Wrap : b[w] \/ w \in J <=> act[w] \/ w \in H
  BY <1>1, <1>2
<1>4. \A w \in Wrap : kd[w] # "none" => (node[w] = "live" <=> b[w] \/ w \in J \cup D)
  BY <1>3 DEF Nodes
<1>5. \A w \in Wrap : Grips(kd[w]) /\ (b[w] \/ w \in J) => holds[w]
  BY <1>3 DEF Nodes
<1>6. QED
  BY <1>4, <1>5 DEF Nodes

\* The reference that a trigger gives up is still on the stack.
LEMMA CountsFire ==
  ASSUME NEW act, NEW C, NEW U, NEW handles, NEW refs, NEW life, NEW O, NEW E,
         NEW x \in AEvent, NEW z, NEW g, act \in [AEvent -> BOOLEAN], act[x],
         x \notin E, O \subseteq E, z \notin AEvent, NEW r \in BOOLEAN,
         g = (IF r THEN x ELSE z),
         Counts(act, C, U, handles, refs, life, O, E, g, x),
         NEW b, b = [act EXCEPT ![x] = FALSE], NEW P, P = O \cup (IF r THEN {x} ELSE {})
  PROVE  Counts(b, C, U, handles, refs, life, P, E \cup {x}, z, z)
<1>1. b \in [AEvent -> BOOLEAN] /\ ~b[x] /\ \A e \in AEvent : e # x => b[e] = act[e]
  OBVIOUS
<1>2. /\ C \in [AEvent -> Nat] /\ handles \in [AEvent -> Nat] /\ refs \in [AEvent -> Nat]
      /\ life \in [AEvent -> {"unborn", "live", "deleted"}]
  BY DEF Counts
<1>3. ASSUME NEW e \in AEvent
      PROVE  refs[e] = handles[e] + C[e] + One(e \in U) + One(e \in P) + One(e = z)
  <2>1. refs[e] = handles[e] + C[e] + One(e \in U) + One(e \in O) + One(e = g)
    BY DEF Counts
  <2>2. One(e = z) = 0
    BY Ones
  <2>3. One(e \in O) + One(e = g) = One(e \in P)
    <3>1. CASE e = x /\ r
      <4>1. e \notin O /\ e = g /\ e \in P
        BY <3>1
      <4>2. One(e \in O) = 0 /\ One(e = g) = 1 /\ One(e \in P) = 1
        BY <4>1, Ones
      <4>3. QED
        BY <4>2
    <3>2. CASE ~(e = x /\ r)
      <4>1. e # g /\ (e \in P <=> e \in O)
        BY <3>2
      <4>2. One(e = g) = 0
        BY <4>1, Ones
      <4>3. One(e \in P) = One(e \in O) /\ One(e \in O) \in {0, 1}
        BY <4>1, Ones
      <4>4. QED
        BY <4>2, <4>3
    <3>3. QED
      BY <3>1, <3>2
  <2>4. /\ One(e \in U) \in {0, 1} /\ One(e \in O) \in {0, 1} /\ One(e = g) \in {0, 1}
        /\ refs[e] \in Nat /\ handles[e] \in Nat /\ C[e] \in Nat
    BY <1>2, Ones
  <2>5. QED
    BY <2>1, <2>2, <2>3, <2>4
<1>4. \A e \in AEvent : b[e] => life[e] = "live"
  BY <1>1 DEF Counts
<1>5. \A e \in AEvent : life[e] = "live" /\ refs[e] = 0 /\ e # z => e \in E \cup {x}
  BY DEF Counts
<1>6. QED
  BY <1>2, <1>3, <1>4, <1>5 DEF Counts

\* The reference to x is given up.
LEMMA CountsGive ==
  ASSUME NEW act, NEW C, NEW U, NEW handles, NEW refs, NEW life, NEW O, NEW E,
         NEW x \in AEvent, NEW z, z \notin AEvent,
         Counts(act, C, U, handles, refs, life, O, E, x, x),
         NEW less, less = [refs EXCEPT ![x] = @ - 1]
  PROVE  refs[x] > 0 /\ Counts(act, C, U, handles, less, life, O, E, z, x)
<1>2. /\ C \in [AEvent -> Nat] /\ handles \in [AEvent -> Nat] /\ refs \in [AEvent -> Nat]
      /\ life \in [AEvent -> {"unborn", "live", "deleted"}]
  BY DEF Counts
<1>3. \A e \in AEvent :
        refs[e] = handles[e] + C[e] + One(e \in U) + One(e \in O) + One(e = x)
  BY DEF Counts
<1>4. \A e \in AEvent :
        One(e \in U) \in {0, 1} /\ One(e \in O) \in {0, 1} /\ One(e = z) = 0
        /\ One(e = x) = IF e = x THEN 1 ELSE 0
  BY Ones
<1>5. refs[x] > 0
  <2>1. handles[x] \in Nat /\ C[x] \in Nat /\ One(x \in U) \in {0, 1} /\ One(x \in O) \in {0, 1}
        /\ One(x = x) = 1 /\ refs[x] \in Nat
    BY <1>2, <1>4
  <2>2. QED
    BY <2>1, <1>3
<1>6. less \in [AEvent -> Nat] /\ less[x] = refs[x] - 1 /\ \A e \in AEvent : e # x => less[e] = refs[e]
  <2>1. refs[x] - 1 \in Nat
    BY <1>2, <1>5
  <2>2. QED
    BY <1>2, <2>1
<1>7. ASSUME NEW e \in AEvent
      PROVE  less[e] = handles[e] + C[e] + One(e \in U) + One(e \in O) + One(e = z)
  <2>1. /\ handles[e] \in Nat /\ C[e] \in Nat /\ One(e \in U) \in {0, 1} /\ One(e \in O) \in {0, 1}
        /\ One(e = z) = 0 /\ refs[e] \in Nat /\ One(e = x) = IF e = x THEN 1 ELSE 0
    BY <1>2, <1>4
  <2>2. less[e] = refs[e] - One(e = x)
    BY <1>6, <2>1
  <2>3. QED
    BY <1>3, <2>1, <2>2
<1>8. \A e \in AEvent : life[e] = "live" /\ less[e] = 0 /\ e # x => e \in E
  BY <1>6 DEF Counts
<1>9. QED
  BY <1>2, <1>5, <1>6, <1>7, <1>8 DEF Counts

\* An empty event without references is deleted.
LEMMA CountsSettle ==
  ASSUME NEW act, NEW C, NEW U, NEW handles, NEW refs, NEW life, NEW O, NEW E,
         NEW x \in AEvent, NEW z, z \notin AEvent, ~act[x], NEW F, F \subseteq E, E \subseteq F \cup {x},
         Counts(act, C, U, handles, refs, life, O, E, z, x),
         NEW m, m = Settled(life, refs, {x})
  PROVE  Counts(act, C, U, handles, refs, m, O, F, z, z)
<1>2. /\ C \in [AEvent -> Nat] /\ handles \in [AEvent -> Nat] /\ refs \in [AEvent -> Nat]
      /\ life \in [AEvent -> {"unborn", "live", "deleted"}]
  BY DEF Counts
<1>3. /\ m \in [AEvent -> {"unborn", "live", "deleted"}]
      /\ \A e \in AEvent : m[e] = IF e \in {x} /\ refs[e] = 0 THEN "deleted" ELSE life[e]
  BY <1>2 DEF Settled
<1>4. \A e \in AEvent : act[e] => m[e] = "live"
  BY <1>3 DEF Counts
<1>5. ASSUME NEW e \in AEvent, m[e] = "live", refs[e] = 0 PROVE e \in F
  <2>1. e # x /\ life[e] = "live"
    BY <1>3, <1>5
  <2>2. e \in E
    BY <1>5, <2>1 DEF Counts
  <2>3. QED
    BY <2>1, <2>2
<1>6. QED
  BY <1>2, <1>3, <1>4, <1>5 DEF Counts

\* An event with references needs no trigger that ends.
LEMMA CountsKeep ==
  ASSUME NEW act, NEW C, NEW U, NEW handles, NEW refs, NEW life, NEW O, NEW E,
         NEW x, NEW z, NEW g, refs[x] # 0,
         Counts(act, C, U, handles, refs, life, O, E, g, x)
  PROVE  Counts(act, C, U, handles, refs, life, O, E, g, z)
BY DEF Counts

(***************************************************************************)
(* What a trigger of x does: SimpleTrigger and Unuse, for any values.      *)
(***************************************************************************)

\* What a trigger needs and what it leaves.
Group(act, kd, tg, Q, C, U, handles, refs, life, holds, node, slot, res, why,
      H, D, F, O, L, E, g, x, y) ==
  /\ WrapTypes(act, kd, tg, Q) /\ SetsAre(H, D, F, O, L, E)
  /\ Calls(act, kd, tg, Q, H, D, F, L, E, x)
  /\ Values(act, kd, why, slot, x)
  /\ Outcomes(act, kd, tg, why, res, H, x, y)
  /\ Counts(act, C, U, handles, refs, life, O, E, g, x)
  /\ Nodes(act, kd, holds, handles, node, H, D)

Owed(O, x, r, P) == P = O \cup (IF r THEN {x} ELSE {})

\* A trigger that empties x keeps all of it.
LEMMA GroupFires ==
  ASSUME Shape3,
         NEW act, NEW kd, NEW tg, NEW Q, NEW C, NEW U, NEW handles, NEW refs, NEW life, NEW holds,
         NEW node, NEW slot, NEW res, NEW why, NEW H, NEW D, NEW F, NEW O, NEW L, NEW E,
         NEW g, NEW x \in AEvent, NEW by, NEW r \in BOOLEAN,
         g = (IF r THEN x ELSE "active"),
         Group(act, kd, tg, Q, C, U, handles, refs, life, holds, node, slot, res, why,
               H, D, F, O, L, E, g, x, by),
         act[x], May(act, kd, tg, slot, H, x, by),
         NEW b, NEW y, NEW J, Emptied(act, why, H, x, by, b, y, J),
         NEW P, Owed(O, x, r, P)
  PROVE  /\ x \notin H \cup D /\ x \notin E
         /\ Group(b, kd, tg, Q, C, U, handles, refs, life, holds, node, slot, res, y,
                  J, D, F \cup {x}, P, L, E \cup {x}, "active", "active", "active")
<1>1. /\ WrapTypes(act, kd, tg, Q) /\ SetsAre(H, D, F, O, L, E)
      /\ Calls(act, kd, tg, Q, H, D, F, L, E, x)
      /\ Values(act, kd, why, slot, x)
      /\ Outcomes(act, kd, tg, why, res, H, x, by)
      /\ Counts(act, C, U, handles, refs, life, O, E, g, x)
      /\ Nodes(act, kd, holds, handles, node, H, D)
  BY DEF Group
<1>2. Root \notin Wrap /\ "active" \notin AEvent /\ {"natural", "hook"} \cap AEvent = {}
  BY DEF Shape3
<1>3. act \in [AEvent -> BOOLEAN]
  BY <1>1 DEF WrapTypes
<1>4. x \notin H \cup D /\ x \notin E /\ (x \in Wrap => kd[x] # "none")
  BY <1>1 DEF Calls
<1>5. /\ by \in {"natural", "hook"} \cup Wrap
      /\ by \in Wrap => ~act[by] /\ by \notin H /\ tg[by] = x
      /\ \A w \in Wrap : Ties(kd[w]) /\ ~act[w] /\ w \notin H /\ tg[w] = x => w = by
      /\ Rightly(kd, by, slot[x])
  BY DEF May
<1>e. /\ b = [act EXCEPT ![x] = FALSE] /\ y = [why EXCEPT ![x] = by]
      /\ J = H \cup ({x} \ {Root}) /\ P = O \cup (IF r THEN {x} ELSE {})
  BY DEF Emptied, Owed
<1>6. /\ WrapTypes(b, kd, tg, Q)
      /\ Calls(b, kd, tg, Q, J, D, F \cup {x}, L, E \cup {x}, "active")
  BY <1>1, <1>2, <1>e, CallsFire
<1>7. Values(b, kd, y, slot, "active")
  BY <1>1, <1>2, <1>3, <1>4, <1>5, <1>e, ValuesFire
<1>8. Outcomes(b, kd, tg, y, res, J, "active", "active")
  <2>1. /\ WrapTypes(act, kd, tg, Q) /\ act[x] /\ Values(act, kd, why, slot, x)
        /\ Outcomes(act, kd, tg, why, res, H, x, by) /\ May(act, kd, tg, slot, H, x, by)
    BY <1>1
  <2>2. QED
    BY <1>2, <2>1, OutcomesFire
<1>9. Counts(b, C, U, handles, refs, life, P, E \cup {x}, "active", "active")
  <2>1. O \subseteq E
    BY <1>1 DEF SetsAre
  <2>2. QED
    BY <1>1, <1>2, <1>3, <1>4, <1>e, <2>1, CountsFire
<1>10. Nodes(b, kd, holds, handles, node, J, D)
  BY <1>1, <1>2, <1>3, <1>e, NodesFire
<1>11. SetsAre(J, D, F \cup {x}, P, L, E \cup {x})
  <2>1. x # Root => x \in Wrap
    BY DEF AEvent
  <2>2. QED
    BY <1>1, <1>4, <1>e, <2>1 DEF SetsAre
<1>12. QED
  BY <1>4, <1>6, <1>7, <1>8, <1>9, <1>10, <1>11 DEF Group

\* So does a trigger of an empty event, which only loses a reference.
LEMMA GroupIdles ==
  ASSUME Shape3,
         NEW act, NEW kd, NEW tg, NEW Q, NEW C, NEW U, NEW handles, NEW refs, NEW life, NEW holds,
         NEW node, NEW slot, NEW res, NEW why, NEW H, NEW D, NEW F, NEW O, NEW L, NEW E,
         NEW x \in AEvent, NEW by, ~act[x],
         Group(act, kd, tg, Q, C, U, handles, refs, life, holds, node, slot, res, why,
               H, D, F, O, L, E, x, x, by),
         NEW less, less = [refs EXCEPT ![x] = @ - 1], NEW m, m = Settled(life, less, {x})
  PROVE  Group(act, kd, tg, Q, C, U, handles, less, m, holds, node, slot, res, why,
               H, D, F, O, L, E, "active", "active", "active")
<1>1. /\ WrapTypes(act, kd, tg, Q) /\ SetsAre(H, D, F, O, L, E)
      /\ Calls(act, kd, tg, Q, H, D, F, L, E, x)
      /\ Values(act, kd, why, slot, x)
      /\ Outcomes(act, kd, tg, why, res, H, x, by)
      /\ Counts(act, C, U, handles, refs, life, O, E, x, x)
      /\ Nodes(act, kd, holds, handles, node, H, D)
  BY DEF Group
<1>2. "active" \notin AEvent /\ tg \in [Wrap -> AEvent]
  BY <1>1 DEF Shape3, WrapTypes
<1>3. Calls(act, kd, tg, Q, H, D, F, L, E, "active")
  BY <1>1, CallsIdle
<1>4. Values(act, kd, why, slot, "active")
  BY <1>1, ValuesIdle
<1>5. Outcomes(act, kd, tg, why, res, H, "active", "active")
  BY <1>1, <1>2, OutcomesIdle
<1>6. Counts(act, C, U, handles, less, life, O, E, "active", x)
  BY <1>1, <1>2, CountsGive
<1>7. Counts(act, C, U, handles, less, m, O, E, "active", "active")
  BY <1>2, <1>6, CountsSettle
<1>8. QED
  BY <1>1, <1>3, <1>4, <1>5, <1>7 DEF Group

\* The sets of hooks, how many adapters hold each event, and who will be called.
CallSets(hk) == [e \in AEvent |-> Members(hk[e])]
Held(hs, tg) == [e \in AEvent |-> Cardinality({w \in Wrap : hs[w] /\ tg[w] = e})]
Due(Q, L) == L \cup UNION {Q[e] : e \in AEvent}
Lists(hk) == hk \in [AEvent -> Seq(Wrap)] /\ \A e \in AEvent : Distinct(hk[e])

\* What holds when a trigger of x by y begins, which gives up a reference to g; and what
\* holds between steps.
Ready(act, kd, tg, hk, handles, refs, life, holds, node, slot, res, why, st, g, x, y) ==
  /\ Stacked(st) /\ Lists(hk)
  /\ Group(act, kd, tg, CallSets(hk), Held(holds, tg), Due(CallSets(hk), Listing(st)),
           handles, refs, life, holds, node, slot, res, why,
           Hooking(st), Deleting(st), Finishing(st), Owing(st), Listing(st), Ending(st), g, x, y)

Whole(act, kd, tg, hk, handles, refs, life, holds, node, slot, res, why, st) ==
  Ready(act, kd, tg, hk, handles, refs, life, holds, node, slot, res, why, st,
        "active", "active", "active")

\* The sets of t are those of s and of f.
Over(t, f, s) ==
  /\ t = Top(f, s)
  /\ Hooking(t) = HookOf(f) \cup Hooking(s) /\ Deleting(t) = DeleteOf(f) \cup Deleting(s)
  /\ Finishing(t) = FinishOf(f) \cup Finishing(s) /\ Owing(t) = OwedOf(f) \cup Owing(s)
  /\ Listing(t) = ListOf(f) \cup Listing(s) /\ Ending(t) = EndOf(f) \cup Ending(s)

\* A frame that fits is pushed.
LEMMA Push ==
  ASSUME NEW s, Stacked(s), NEW f \in AFrame, Fits(f, s), NEW t, t = Top(f, s)
  PROVE  Stacked(t) /\ Over(t, f, s)
<1>1. s \in Seq(AFrame)
  BY DEF Stacked
<1>2. QED
  BY <1>1, Turns DEF Over

\* What is popped from a stack.
LEMMA Pop ==
  ASSUME NEW t, Stacked(t), t # <<>>
  PROVE  /\ Head(t) \in AFrame /\ Stacked(Tail(t)) /\ Fits(Head(t), Tail(t))
         /\ Over(t, Head(t), Tail(t))
<1>1. t \in Seq(AFrame)
  BY DEF Stacked
<1>2. Head(t) \in AFrame /\ Tail(t) \in Seq(AFrame) /\ t = Top(Head(t), Tail(t))
  BY <1>1, TopOf
<1>3. PICK f \in AFrame, s \in Seq(AFrame) : f = Head(t) /\ s = Tail(t) /\ t = Top(f, s)
  BY <1>2
<1>4. /\ Hooking(Top(f, s)) = HookOf(f) \cup Hooking(s)
      /\ Deleting(Top(f, s)) = DeleteOf(f) \cup Deleting(s)
      /\ Finishing(Top(f, s)) = FinishOf(f) \cup Finishing(s)
      /\ Owing(Top(f, s)) = OwedOf(f) \cup Owing(s)
      /\ Listing(Top(f, s)) = ListOf(f) \cup Listing(s)
      /\ Ending(Top(f, s)) = EndOf(f) \cup Ending(s)
      /\ Stacked(Top(f, s)) <=> Stacked(s) /\ Fits(f, s)
  BY Turns
<1>5. QED
  BY <1>2, <1>3, <1>4 DEF Over

\* The stack s once a trigger of x has emptied it.
Started(x, v, r, s) ==
  IF x = Root THEN Top(FinishFrame(x, r), s)
  ELSE Top(HookFrame(x, v), Top(FinishFrame(x, r), s))

\* The frames of a trigger of x, on top of a stack that has nothing of x.
LEMMA PushTrigger ==
  ASSUME NEW s, Stacked(s), NEW x \in AEvent, x \notin Hooking(s) \cup Deleting(s),
         x \notin Finishing(s), NEW r \in BOOLEAN, NEW v \in BOOLEAN, NEW t,
         t = Started(x, v, r, s)
  PROVE  /\ Stacked(t)
         /\ Hooking(t) = Hooking(s) \cup ({x} \ {Root}) /\ Deleting(t) = Deleting(s)
         /\ Finishing(t) = Finishing(s) \cup {x}
         /\ Owing(t) = Owing(s) \cup (IF r THEN {x} ELSE {})
         /\ Listing(t) = Listing(s) /\ Ending(t) = Ending(s) \cup {x}
<1>1. PICK f : f = FinishFrame(x, r)
  OBVIOUS
<1>2. /\ f \in AFrame /\ f.op = "finish" /\ HookOf(f) = {} /\ DeleteOf(f) = {} /\ FinishOf(f) = {x}
      /\ OwedOf(f) = (IF r THEN {x} ELSE {}) /\ ListOf(f) = {} /\ EndOf(f) = {x}
  BY <1>1, FinishFrameIs
<1>3. Fits(f, s)
  BY <1>2 DEF Fits
<1>4. PICK u : u = Top(f, s)
  OBVIOUS
<1>5. /\ Stacked(u)
      /\ Hooking(u) = Hooking(s) /\ Deleting(u) = Deleting(s)
      /\ Finishing(u) = Finishing(s) \cup {x}
      /\ Owing(u) = Owing(s) \cup (IF r THEN {x} ELSE {})
      /\ Listing(u) = Listing(s) /\ Ending(u) = Ending(s) \cup {x}
  <2>1. Stacked(u) /\ Over(u, f, s)
    BY <1>2, <1>3, <1>4, Push
  <2>2. QED
    BY <1>2, <2>1 DEF Over
<1>6. CASE x = Root
  BY <1>1, <1>4, <1>5, <1>6 DEF Started
<1>7. CASE x # Root
  <2>1. x \in Wrap
    BY <1>7 DEF AEvent
  <2>2. PICK h : h = HookFrame(x, v)
    OBVIOUS
  <2>3. /\ h \in AFrame /\ h.op = "hook" /\ HookOf(h) = {x} /\ DeleteOf(h) = {} /\ FinishOf(h) = {}
        /\ OwedOf(h) = {} /\ ListOf(h) = {} /\ EndOf(h) = {}
    BY <2>1, <2>2, HookFrameIs
  <2>4. Fits(h, u)
    BY <1>5, <2>3 DEF Fits
  <2>5. t = Top(h, u)
    BY <1>1, <1>4, <1>7, <2>2 DEF Started
  <2>6. Stacked(t) /\ Over(t, h, u)
    BY <1>5, <2>3, <2>4, <2>5, Push
  <2>7. {x} \ {Root} = {x}
    BY <1>7
  <2>8. QED
    BY <1>5, <2>3, <2>6, <2>7 DEF Over
<1>8. QED
  BY <1>6, <1>7

\* A trigger of x by `by` has emptied it; r tells whether it gives up a reference.
Fired(act, why, refs, st, x, v, by, r, b, y, t) ==
  /\ r \in BOOLEAN /\ (r <=> refs[x] > 0) /\ act[x]
  /\ b = [act EXCEPT ![x] = FALSE] /\ y = [why EXCEPT ![x] = by]
  /\ t = Started(x, v, r, st)

Given(r, x) == IF r THEN x ELSE "active"

\* SimpleTrigger of an active event, with its frames.
LEMMA FireKeeps ==
  ASSUME Shape3,
         NEW act, NEW kd, NEW tg, NEW hk, NEW handles, NEW refs, NEW life, NEW holds,
         NEW node, NEW slot, NEW res, NEW why, NEW st, NEW x \in AEvent, NEW v \in BOOLEAN,
         NEW by, NEW r, NEW b, NEW y, NEW t,
         Fired(act, why, refs, st, x, v, by, r, b, y, t),
         Ready(act, kd, tg, hk, handles, refs, life, holds, node, slot, res, why, st,
               Given(r, x), x, by),
         May(act, kd, tg, slot, Hooking(st), x, by)
  PROVE  Whole(b, kd, tg, hk, handles, refs, life, holds, node, slot, res, y, t)
<1>0. PICK g : g = Given(r, x)
  OBVIOUS
<1>f. /\ r \in BOOLEAN /\ (r <=> refs[x] > 0) /\ act[x]
      /\ b = [act EXCEPT ![x] = FALSE] /\ y = [why EXCEPT ![x] = by]
      /\ t = Started(x, v, r, st) /\ g = (IF r THEN x ELSE "active")
  BY <1>0 DEF Fired, Given
<1>1. PICK Q, C, U : Q = CallSets(hk) /\ C = Held(holds, tg) /\ U = Due(Q, Listing(st))
  OBVIOUS
<1>2. PICK H, D, F, O, L, E :
        /\ H = Hooking(st) /\ D = Deleting(st) /\ F = Finishing(st)
        /\ O = Owing(st) /\ L = Listing(st) /\ E = Ending(st)
  OBVIOUS
<1>3. /\ Stacked(st) /\ Lists(hk)
      /\ Group(act, kd, tg, Q, C, U, handles, refs, life, holds, node, slot, res, why,
               H, D, F, O, L, E, g, x, by)
  BY <1>0, <1>1, <1>2 DEF Ready
<1>j. PICK J, P : J = H \cup ({x} \ {Root}) /\ P = O \cup (IF r THEN {x} ELSE {})
  OBVIOUS
<1>4. May(act, kd, tg, slot, H, x, by)
  BY <1>2
<1>5. /\ x \notin H \cup D /\ x \notin E
      /\ Group(b, kd, tg, Q, C, U, handles, refs, life, holds, node, slot, res, y,
               J, D, F \cup {x}, P, L, E \cup {x}, "active", "active", "active")
  <2>1. Emptied(act, why, H, x, by, b, y, J) /\ Owed(O, x, r, P)
    BY <1>f, <1>j DEF Emptied, Owed
  <2>2. QED
    BY <1>3, <1>4, <1>f, <2>1, GroupFires
<1>6. x \notin F
  BY <1>3, <1>5 DEF Group, SetsAre
<1>7. /\ Stacked(t)
      /\ Hooking(t) = J /\ Deleting(t) = D /\ Finishing(t) = F \cup {x} /\ Owing(t) = P
      /\ Listing(t) = L /\ Ending(t) = E \cup {x}
  BY <1>2, <1>3, <1>5, <1>6, <1>f, <1>j, PushTrigger
<1>8. U = Due(Q, L)
  BY <1>1, <1>2
<1>9. QED
  BY <1>1, <1>3, <1>5, <1>7, <1>8 DEF Whole, Ready

\* SimpleTrigger of an empty one.
LEMMA IdleKeeps ==
  ASSUME Shape3,
         NEW act, NEW kd, NEW tg, NEW hk, NEW handles, NEW refs, NEW life, NEW holds,
         NEW node, NEW slot, NEW res, NEW why, NEW st, NEW x \in AEvent, NEW by, ~act[x],
         Ready(act, kd, tg, hk, handles, refs, life, holds, node, slot, res, why, st, x, x, by),
         NEW less, less = [refs EXCEPT ![x] = @ - 1], NEW m, m = Settled(life, less, {x})
  PROVE  Whole(act, kd, tg, hk, handles, less, m, holds, node, slot, res, why, st)
<1>1. PICK Q, C, U : Q = CallSets(hk) /\ C = Held(holds, tg) /\ U = Due(Q, Listing(st))
  OBVIOUS
<1>2. PICK H, D, F, O, L, E :
        /\ H = Hooking(st) /\ D = Deleting(st) /\ F = Finishing(st)
        /\ O = Owing(st) /\ L = Listing(st) /\ E = Ending(st)
  OBVIOUS
<1>3. /\ Stacked(st) /\ Lists(hk)
      /\ Group(act, kd, tg, Q, C, U, handles, refs, life, holds, node, slot, res, why,
               H, D, F, O, L, E, x, x, by)
  BY <1>1, <1>2 DEF Ready
<1>4. Group(act, kd, tg, Q, C, U, handles, less, m, holds, node, slot, res, why,
            H, D, F, O, L, E, "active", "active", "active")
  BY <1>3, GroupIdles
<1>5. QED
  BY <1>1, <1>2, <1>3, <1>4 DEF Whole, Ready

\* The stack that SimpleTrigger leaves.
LEMMA TriggerStack ==
  ASSUME NEW s \in Seq(AFrame), NEW x \in AEvent, NEW r \in BOOLEAN, NEW v \in BOOLEAN
  PROVE  (IF x = Root THEN <<>> ELSE <<HookFrame(x, v)>>) \o <<FinishFrame(x, r)>> \o s
           = Started(x, v, r, s)
<1>0. PICK t : t = (IF x = Root THEN <<>> ELSE <<HookFrame(x, v)>>) \o <<FinishFrame(x, r)>> \o s
  OBVIOUS
<1>1. PICK f \in AFrame : f = FinishFrame(x, r)
  BY FinishFrameIs
<1>2. CASE x = Root
  <2>1. <<>> \o <<f>> = <<f>>
    OBVIOUS
  <2>2. QED
    BY <1>0, <1>1, <1>2, <2>1 DEF Top, Started
<1>3. CASE x # Root
  <2>1. x \in Wrap
    BY <1>3 DEF AEvent
  <2>2. PICK h \in AFrame : h = HookFrame(x, v)
    BY <2>1, HookFrameIs
  <2>3. <<h>> \in Seq(AFrame) /\ <<f>> \in Seq(AFrame)
    OBVIOUS
  <2>4. (<<h>> \o <<f>>) \o s = <<h>> \o (<<f>> \o s)
    BY <2>3, ConcatAssociative
  <2>5. t = <<h>> \o <<f>> \o s
    BY <1>0, <1>1, <1>3, <2>2
  <2>6. t = <<h>> \o (<<f>> \o s)
    BY <2>4, <2>5
  <2>7. QED
    BY <1>0, <1>1, <1>3, <2>2, <2>6 DEF Top, Started
<1>4. QED
  BY <1>2, <1>3

\* What SimpleTrigger of an active event is.
LEMMA SimpleIs ==
  ASSUME NEW x \in AEvent, NEW v \in BOOLEAN, NEW by, NEW count \in [AEvent -> Nat],
         NEW s \in Seq(AFrame), aactive[x], Wraps!SimpleTrigger(x, v, by, count, s)
  PROVE  /\ arefs' = count /\ alife' = alife
         /\ \E r, b, y, t : /\ Fired(aactive, awhy, count, s, x, v, by, r, b, y, t)
                           /\ aactive' = b /\ awhy' = y /\ astack' = t
<1>1. PICK r \in BOOLEAN : r = (count[x] > 0)
  <2>1. count[x] \in Nat
    OBVIOUS
  <2>2. (count[x] > 0) \in BOOLEAN
    BY <2>1
  <2>3. QED
    BY <2>2
<1>2. /\ aactive' = [aactive EXCEPT ![x] = FALSE] /\ awhy' = [awhy EXCEPT ![x] = by]
      /\ arefs' = count /\ alife' = alife
  BY DEF Wraps!SimpleTrigger
<1>3. astack' = (IF x = Root THEN <<>> ELSE <<[op |-> "hook", w |-> x, values |-> v]>>)
                \o <<[op |-> "finish", ev |-> x, reduce |-> count[x] > 0]>> \o s
  BY DEF Wraps!SimpleTrigger
<1>4. PICK t : t = astack'
  OBVIOUS
<1>5. t = (IF x = Root THEN <<>> ELSE <<HookFrame(x, v)>>) \o <<FinishFrame(x, r)>> \o s
  BY <1>1, <1>3, <1>4 DEF HookFrame, FinishFrame
<1>6. t = Started(x, v, r, s)
  BY <1>5, TriggerStack
<1>7. r <=> count[x] > 0
  BY <1>1
<1>8. PICK b, y : b = aactive' /\ y = awhy'
  OBVIOUS
<1>9. Fired(aactive, awhy, count, s, x, v, by, r, b, y, t)
  BY <1>2, <1>6, <1>7, <1>8 DEF Fired
<1>10. QED
  BY <1>2, <1>4, <1>8, <1>9

\* SimpleTrigger keeps the invariant, whoever calls it.
LEMMA SimpleKeeps ==
  ASSUME Shape3, NEW kd, NEW tg, NEW hk, NEW handles, NEW count, NEW holds, NEW node, NEW slot,
         NEW res, NEW s, NEW x \in AEvent, NEW v \in BOOLEAN, NEW by,
         Ready(aactive, kd, tg, hk, handles, count, alife, holds, node, slot, res, awhy, s, x, x, by),
         aactive[x] => May(aactive, kd, tg, slot, Hooking(s), x, by),
         Wraps!SimpleTrigger(x, v, by, count, s)
  PROVE  Whole(aactive', kd, tg, hk, handles, arefs', alife', holds, node, slot, res, awhy', astack')
<1>1. Counts(aactive, Held(holds, tg), Due(CallSets(hk), Listing(s)), handles, count, alife,
             Owing(s), Ending(s), x, x)
  BY DEF Ready, Group
<1>2. "active" \notin AEvent
  BY DEF Shape3
<1>3. count[x] > 0
  BY <1>1, <1>2, CountsGive
<1>4. count \in [AEvent -> Nat] /\ alife \in [AEvent -> {"unborn", "live", "deleted"}]
  BY <1>1 DEF Counts
<1>5. s \in Seq(AFrame)
  BY DEF Ready, Stacked
<1>6. CASE aactive[x]
  <2>1. arefs' = count /\ alife' = alife
    BY <1>4, <1>5, <1>6, SimpleIs
  <2>2. PICK r, b, y, t : /\ Fired(aactive, awhy, count, s, x, v, by, r, b, y, t)
                          /\ aactive' = b /\ awhy' = y /\ astack' = t
    BY <1>4, <1>5, <1>6, SimpleIs
  <2>3. Given(r, x) = x
    BY <1>3, <2>2 DEF Fired, Given
  <2>4. Ready(aactive, kd, tg, hk, handles, count, alife, holds, node, slot, res, awhy, s,
              Given(r, x), x, by)
    BY <2>3
  <2>5. Whole(b, kd, tg, hk, handles, count, alife, holds, node, slot, res, y, t)
    BY <1>6, <2>2, <2>4, FireKeeps
  <2>6. QED
    BY <2>1, <2>2, <2>5
<1>7. CASE ~aactive[x]
  <2>1. /\ arefs' = [count EXCEPT ![x] = IF @ > 0 THEN @ - 1 ELSE 0]
        /\ alife' = Wraps!Unused(arefs', {x})
        /\ astack' = s /\ aactive' = aactive /\ awhy' = awhy
    BY <1>7 DEF Wraps!SimpleTrigger
  <2>2. PICK less, m : less = [count EXCEPT ![x] = @ - 1] /\ m = Settled(alife, less, {x})
    OBVIOUS
  <2>3. arefs' = less
    BY <1>3, <1>4, <2>1, <2>2
  <2>4. alife' = m
    BY <2>1, <2>2, <2>3 DEF Wraps!Unused, Settled, Wraps!Events, AEvent
  <2>5. Whole(aactive, kd, tg, hk, handles, less, m, holds, node, slot, res, awhy, s)
    BY <1>7, <2>2, IdleKeeps
  <2>6. QED
    BY <2>1, <2>3, <2>4, <2>5
<1>8. QED
  BY <1>6, <1>7

\* So does giving up a reference, which may be the last.
LEMMA UnuseKeeps ==
  ASSUME Shape3, NEW kd, NEW tg, NEW hk, NEW handles, NEW count, NEW holds, NEW node, NEW slot,
         NEW res, NEW s, NEW x \in AEvent, NEW by,
         Ready(aactive, kd, tg, hk, handles, count, alife, holds, node, slot, res, awhy, s,
               x, "active", "active"),
         aactive[x] => by \in {"natural", "hook"},
         Wraps!Unuse(x, by, count, s)
  PROVE  Whole(aactive', kd, tg, hk, handles, arefs', alife', holds, node, slot, res, awhy', astack')
<1> DEFINE Q == CallSets(hk)
           C == Held(holds, tg)
           U == Due(CallSets(hk), Listing(s))
<1>1. /\ Stacked(s) /\ Lists(hk)
      /\ WrapTypes(aactive, kd, tg, Q)
      /\ SetsAre(Hooking(s), Deleting(s), Finishing(s), Owing(s), Listing(s), Ending(s))
      /\ Calls(aactive, kd, tg, Q, Hooking(s), Deleting(s), Finishing(s), Listing(s), Ending(s), "active")
      /\ Values(aactive, kd, awhy, slot, "active")
      /\ Outcomes(aactive, kd, tg, awhy, res, Hooking(s), "active", "active")
      /\ Counts(aactive, C, U, handles, count, alife, Owing(s), Ending(s), x, "active")
      /\ Nodes(aactive, kd, holds, handles, node, Hooking(s), Deleting(s))
  BY DEF Ready, Group
<1>2. "active" \notin AEvent /\ {"natural", "hook"} \cap AEvent = {} /\ \A w \in Wrap : w \in AEvent
  BY DEF Shape3, AEvent
<1>3. Counts(aactive, C, U, handles, count, alife, Owing(s), Ending(s), x, x)
  BY <1>1, <1>2 DEF Counts
<1>4. PICK less : less = [count EXCEPT ![x] = @ - 1]
  OBVIOUS
<1>5. /\ count[x] > 0
      /\ Counts(aactive, C, U, handles, less, alife, Owing(s), Ending(s), "active", x)
  BY <1>2, <1>3, <1>4, CountsGive
<1>6. count \in [AEvent -> Nat] /\ less \in [AEvent -> Nat]
      /\ alife \in [AEvent -> {"unborn", "live", "deleted"}]
  BY <1>3, <1>5 DEF Counts
<1>7. aactive \in [AEvent -> BOOLEAN] /\ tg \in [Wrap -> AEvent] /\ kd \in [Wrap -> AKinds]
  BY <1>1 DEF WrapTypes
<1>8. Calls(aactive, kd, tg, Q, Hooking(s), Deleting(s), Finishing(s), Listing(s), Ending(s), x)
  <2>1. /\ \A w \in Wrap : Ties(kd[w]) /\ aactive[w] =>
             w \in Listing(s) \/ (w \in Q[tg[w]] /\ (aactive[tg[w]] \/ tg[w] \in Finishing(s)))
        /\ \A w \in Wrap : Ties(kd[w]) /\ ~aactive[w] /\ aactive[tg[w]] => w \in Hooking(s)
    BY <1>1, <1>2, <1>7 DEF Calls
  <2>2. QED
    BY <1>1, <2>1 DEF Calls
<1>9. Values(aactive, kd, awhy, slot, x)
  BY <1>1, <1>2 DEF Values
<1>10. CASE less[x] = 0 /\ aactive[x]
  <2>1. Wraps!SimpleTrigger(x, FALSE, by, less, s)
    BY <1>4, <1>10 DEF Wraps!Unuse
  <2>2. s \in Seq(AFrame)
    BY <1>1 DEF Stacked
  <2>3. by \in {"natural", "hook"} /\ by \notin Wrap
    BY <1>2, <1>10
  <2>4. \A w \in Wrap : ~(Ties(kd[w]) /\ ~aactive[w] /\ w \notin Hooking(s) /\ tg[w] = x)
    BY <1>1, <1>2, <1>10 DEF Calls
  <2>5. slot[x] = "unset"
    BY <1>1, <1>2, <1>10 DEF Values
  <2>6. May(aactive, kd, tg, slot, Hooking(s), x, by)
    BY <2>3, <2>4, <2>5 DEF May, Rightly
  <2>7. Outcomes(aactive, kd, tg, awhy, res, Hooking(s), x, by)
    <3>1. \A w \in Wrap : w # by /\ tg[w] # "active"
      BY <1>2, <1>7, <2>3
    <3>2. QED
      BY <1>1, <3>1 DEF Outcomes
  <2>8. Ready(aactive, kd, tg, hk, handles, less, alife, holds, node, slot, res, awhy, s, "active", x, by)
    BY <1>1, <1>5, <1>8, <1>9, <2>7 DEF Ready, Group
  <2>9. arefs' = less /\ alife' = alife
    BY <1>6, <1>10, <2>1, <2>2, SimpleIs
  <2>10. PICK r, b, y, t : /\ Fired(aactive, awhy, less, s, x, FALSE, by, r, b, y, t)
                           /\ aactive' = b /\ awhy' = y /\ astack' = t
    BY <1>6, <1>10, <2>1, <2>2, SimpleIs
  <2>11. Given(r, x) = "active"
    BY <1>10, <2>10 DEF Fired, Given
  <2>12. Ready(aactive, kd, tg, hk, handles, less, alife, holds, node, slot, res, awhy, s,
               Given(r, x), x, by)
    BY <2>8, <2>11
  <2>13. Whole(b, kd, tg, hk, handles, less, alife, holds, node, slot, res, y, t)
    BY <2>6, <2>10, <2>12, FireKeeps
  <2>14. QED
    BY <2>9, <2>10, <2>13
<1>11. CASE ~(less[x] = 0 /\ aactive[x])
  <2>1. /\ arefs' = less /\ alife' = Wraps!Unused(less, {x})
        /\ astack' = s /\ aactive' = aactive /\ awhy' = awhy
    BY <1>4, <1>11 DEF Wraps!Unuse
  <2>2. PICK m : m = Settled(alife, less, {x})
    OBVIOUS
  <2>3. alife' = m
    BY <2>1, <2>2 DEF Wraps!Unused, Settled, Wraps!Events, AEvent
  <2>4. Counts(aactive, C, U, handles, less, m, Owing(s), Ending(s), "active", "active")
    <3>1. CASE ~aactive[x]
      BY <1>2, <1>5, <2>2, <3>1, CountsSettle
    <3>2. CASE aactive[x]
      <4>1. less[x] # 0
        BY <1>11, <3>2
      <4>2. m = alife
        <5>1. \A e \in AEvent : m[e] = alife[e]
          BY <2>2, <4>1 DEF Settled
        <5>2. m \in [AEvent -> {"unborn", "live", "deleted"}]
          BY <1>6, <2>2 DEF Settled
        <5>3. QED
          BY <1>6, <5>1, <5>2
      <4>3. QED
        BY <1>5, <4>1, <4>2, CountsKeep
    <3>3. QED
      BY <3>1, <3>2
  <2>5. Whole(aactive, kd, tg, hk, handles, less, m, holds, node, slot, res, awhy, s)
    BY <1>1, <2>4 DEF Whole, Ready, Group
  <2>6. QED
    BY <2>1, <2>3, <2>5
<1>12. QED
  BY <1>10, <1>11

\* The members of a list of hooks.
LEMMA MembersAre ==
  /\ Members(<<>>) = {} /\ Distinct(<<>>)
  /\ \A l \in Seq(Wrap) : Members(l) \subseteq Wrap
<1>1. DOMAIN <<>> = {}
  OBVIOUS
<1>2. Members(<<>>) = {} /\ Distinct(<<>>)
  BY <1>1 DEF Members, Distinct
<1>3. ASSUME NEW l \in Seq(Wrap) PROVE Members(l) \subseteq Wrap
  BY DEF Members
<1>4. QED
  BY <1>2, <1>3

\* The first of a list is no more in the rest.
LEMMA MembersPop ==
  ASSUME NEW l \in Seq(Wrap), l # <<>>, Distinct(l)
  PROVE  /\ Head(l) \in Members(l) /\ Head(l) \in Wrap /\ Tail(l) \in Seq(Wrap)
         /\ Members(Tail(l)) = Members(l) \ {Head(l)}
         /\ Distinct(Tail(l))
<1>1. Head(l) \in Wrap /\ Tail(l) \in Seq(Wrap) /\ l = Top(Head(l), Tail(l))
  BY TopOf
<1>2. PICK h \in Wrap, r \in Seq(Wrap) : h = Head(l) /\ r = Tail(l) /\ l = Top(h, r)
  BY <1>1
<1>3. OnTop(Wrap, l, h, r)
  BY <1>2, TopIs
<1>4. /\ 1 \in DOMAIN l /\ l[1] = h
      /\ \A i \in DOMAIN r : i + 1 \in DOMAIN l /\ l[i + 1] = r[i]
      /\ \A i \in DOMAIN l : i = 1 \/ (i - 1 \in DOMAIN r /\ l[i] = r[i - 1])
  BY <1>3 DEF OnTop
<1>5. \A i \in DOMAIN r : i \in Nat /\ i >= 1
  <2>1. DOMAIN r = 1 .. Len(r) /\ Len(r) \in Nat
    OBVIOUS
  <2>2. QED
    BY <2>1
<1>6. h \in Members(l)
  BY <1>4 DEF Members
<1>7. \A i \in DOMAIN r : r[i] # h
  <2> TAKE i \in DOMAIN r
  <2>1. i + 1 \in DOMAIN l /\ l[i + 1] = r[i] /\ i + 1 # 1
    BY <1>4, <1>5
  <2>2. QED
    BY <1>4, <2>1 DEF Distinct
<1>8. ASSUME NEW x PROVE x \in Members(r) <=> x \in Members(l) /\ x # h
  <2>1. ASSUME x \in Members(r) PROVE x \in Members(l) /\ x # h
    <3>1. PICK i \in DOMAIN r : x = r[i]
      BY <2>1 DEF Members
    <3>2. i + 1 \in DOMAIN l /\ x = l[i + 1]
      BY <1>4, <3>1
    <3>3. QED
      BY <1>7, <3>1, <3>2 DEF Members
  <2>2. ASSUME x \in Members(l), x # h PROVE x \in Members(r)
    <3>1. PICK i \in DOMAIN l : x = l[i]
      BY <2>2 DEF Members
    <3>2. i - 1 \in DOMAIN r /\ x = r[i - 1]
      BY <1>4, <2>2, <3>1
    <3>3. QED
      BY <3>2 DEF Members
  <2>3. QED
    BY <2>1, <2>2
<1>9. Members(r) = Members(l) \ {h}
  BY <1>8
<1>10. Distinct(r)
  <2>1. ASSUME NEW i \in DOMAIN r, NEW j \in DOMAIN r, r[i] = r[j] PROVE i = j
    <3>1. i + 1 \in DOMAIN l /\ j + 1 \in DOMAIN l /\ l[i + 1] = l[j + 1]
      BY <1>4, <2>1
    <3>2. i + 1 = j + 1
      BY <3>1 DEF Distinct
    <3>3. i \in Nat /\ j \in Nat
      BY <1>5
    <3>4. QED
      BY <3>2, <3>3
  <2>2. QED
    BY <2>1 DEF Distinct
<1>11. QED
  BY <1>2, <1>6, <1>9, <1>10

\* A list with one more hook.
LEMMA MembersAppend ==
  ASSUME NEW l \in Seq(Wrap), Distinct(l), NEW w \in Wrap, w \notin Members(l)
  PROVE  /\ Append(l, w) \in Seq(Wrap) /\ Distinct(Append(l, w))
         /\ Members(Append(l, w)) = Members(l) \cup {w}
<1>1. PICK t : t = Append(l, w)
  OBVIOUS
<1>2. DOMAIN l = 1 .. Len(l) /\ Len(l) \in Nat
  OBVIOUS
<1>3. /\ t \in Seq(Wrap) /\ DOMAIN t = 1 .. Len(l) + 1
      /\ t[Len(l) + 1] = w /\ \A i \in 1 .. Len(l) : t[i] = l[i]
  BY <1>1, <1>2
<1>4. \A i \in DOMAIN t : i = Len(l) + 1 \/ (i \in DOMAIN l /\ t[i] = l[i])
  BY <1>2, <1>3
<1>5. \A i \in DOMAIN l : i \in DOMAIN t /\ t[i] = l[i]
  BY <1>2, <1>3
<1>6. Len(l) + 1 \in DOMAIN t
  BY <1>2, <1>3
<1>7. Members(t) = Members(l) \cup {w}
  BY <1>3, <1>4, <1>5, <1>6 DEF Members
<1>8. \A i \in DOMAIN l : l[i] # w
  BY DEF Members
<1>9. Distinct(t)
  <2>1. ASSUME NEW i \in DOMAIN t, NEW j \in DOMAIN t, t[i] = t[j] PROVE i = j
    BY <1>3, <1>4, <1>8, <2>1 DEF Distinct
  <2>2. QED
    BY <2>1 DEF Distinct
<1>10. QED
  BY <1>1, <1>3, <1>7, <1>9

\* g is f but for x, where it is v.
Puts(f, x, v, g) == g = [f EXCEPT ![x] = v]

\* The sets of hooks when one list is replaced.
LEMMA CallSetsIs ==
  ASSUME NEW hk, Lists(hk), NEW x \in AEvent, NEW l \in Seq(Wrap), Distinct(l),
         NEW n, Puts(hk, x, l, n)
  PROVE  Lists(n) /\ Puts(CallSets(hk), x, Members(l), CallSets(n))
         /\ hk[x] \in Seq(Wrap) /\ Distinct(hk[x]) /\ Members(hk[x]) = CallSets(hk)[x]
<1>1. hk \in [AEvent -> Seq(Wrap)] /\ \A e \in AEvent : Distinct(hk[e])
  BY DEF Lists
<1>2. n \in [AEvent -> Seq(Wrap)] /\ n[x] = l /\ \A e \in AEvent : e # x => n[e] = hk[e]
  BY <1>1 DEF Puts
<1>3. Lists(n)
  BY <1>1, <1>2 DEF Lists
<1>4. \A e \in AEvent : CallSets(n)[e] = Members(n[e]) /\ CallSets(hk)[e] = Members(hk[e])
  BY DEF CallSets
<1>5. DOMAIN CallSets(n) = AEvent /\ DOMAIN CallSets(hk) = AEvent
  BY DEF CallSets
<1>6. CallSets(n) = [e \in AEvent |-> Members(n[e])] /\ CallSets(hk) = [e \in AEvent |-> Members(hk[e])]
  BY DEF CallSets
<1>7. PICK Q : Q = CallSets(hk)
  OBVIOUS
<1>8. [Q EXCEPT ![x] = Members(l)] = [e \in AEvent |-> IF e = x THEN Members(l) ELSE Q[e]]
  BY <1>5, <1>7
<1>9. [e \in AEvent |-> Members(n[e])] = [e \in AEvent |-> IF e = x THEN Members(l) ELSE Q[e]]
  <2>1. \A e \in AEvent : Members(n[e]) = IF e = x THEN Members(l) ELSE Q[e]
    BY <1>2, <1>4, <1>7
  <2>2. QED
    BY <2>1
<1>10. QED
  BY <1>1, <1>3, <1>4, <1>6, <1>7, <1>8, <1>9 DEF Puts

(***************************************************************************)
(* The second half of a trigger: the hooks of x are about to be called.    *)
(***************************************************************************)

\* What the second half of a trigger of x changes.
Finished(x, r, F, F0, O, O0, L, L2, Q, Q2, refs, refs2) ==
  /\ F = F0 \cup {x} /\ x \notin F0
  /\ O = O0 \cup (IF r THEN {x} ELSE {}) /\ O0 \subseteq F0
  /\ L2 = L \cup Q[x] /\ Puts(Q, x, {}, Q2)
  /\ refs2 = [refs EXCEPT ![x] = IF r THEN @ - 1 ELSE @]

\* The second half of a trigger takes the hooks of x over.
LEMMA FinishGroup ==
  ASSUME Shape3,
         NEW act, NEW kd, NEW tg, NEW Q, NEW C, NEW handles, NEW refs, NEW life, NEW holds,
         NEW node, NEW slot, NEW res, NEW why, NEW H, NEW D, NEW F, NEW O, NEW L, NEW E,
         NEW x \in AEvent, NEW r \in BOOLEAN, NEW F0, NEW O0, NEW Q2, NEW refs2, NEW L2,
         Finished(x, r, F, F0, O, O0, L, L2, Q, Q2, refs, refs2),
         Group(act, kd, tg, Q, C, Due(Q, L), handles, refs, life, holds, node, slot, res, why,
               H, D, F, O, L, E, "active", "active", "active")
  PROVE  Group(act, kd, tg, Q2, C, Due(Q2, L2), handles, refs2, life, holds, node, slot, res, why,
               H, D, F0, O0, L2, E, "active", "active", "active")
<1>1. /\ WrapTypes(act, kd, tg, Q) /\ SetsAre(H, D, F, O, L, E)
      /\ Calls(act, kd, tg, Q, H, D, F, L, E, "active")
      /\ Values(act, kd, why, slot, "active")
      /\ Outcomes(act, kd, tg, why, res, H, "active", "active")
      /\ Counts(act, C, Due(Q, L), handles, refs, life, O, E, "active", "active")
      /\ Nodes(act, kd, holds, handles, node, H, D)
  BY DEF Group
<1>2. "active" \notin AEvent /\ \A w \in Wrap : w \in AEvent
  BY DEF Shape3, AEvent
<1>3. /\ act \in [AEvent -> BOOLEAN] /\ kd \in [Wrap -> AKinds]
      /\ tg \in [Wrap -> AEvent] /\ Q \in [AEvent -> SUBSET Wrap]
  BY <1>1 DEF WrapTypes
<1>s. PICK S : S = Q[x]
  OBVIOUS
<1>f. /\ F = F0 \cup {x} /\ x \notin F0 /\ O0 \subseteq F0 /\ L2 = L \cup S
  BY <1>s DEF Finished
<1>4. Q2 \in [AEvent -> SUBSET Wrap] /\ Q2[x] = {} /\ \A e \in AEvent : e # x => Q2[e] = Q[e]
  BY <1>3 DEF Finished, Puts
<1>5. S \subseteq Wrap /\ x \in E /\ ~act[x]
  BY <1>1, <1>3, <1>f, <1>s DEF SetsAre, Calls
<1>6. WrapTypes(act, kd, tg, Q2)
  BY <1>3, <1>4 DEF WrapTypes
<1>7. SetsAre(H, D, F0, O0, L2, E)
  BY <1>1, <1>5, <1>f DEF SetsAre
<1>8. Due(Q2, L2) = Due(Q, L)
  <2>1. \A z : z \in Due(Q2, L2) <=> z \in L2 \/ \E e \in AEvent : z \in Q2[e]
    BY DEF Due
  <2>2. \A z : z \in Due(Q, L) <=> z \in L \/ \E e \in AEvent : z \in Q[e]
    BY DEF Due
  <2>3. \A z : (\E e \in AEvent : z \in Q2[e]) <=> (\E e \in AEvent : e # x /\ z \in Q[e])
    BY <1>4
  <2>4. \A z : z \in L2 <=> z \in L \/ z \in Q[x]
    BY <1>f, <1>s
  <2>5. \A z : z \in Due(Q2, L2) <=> z \in Due(Q, L)
    BY <2>1, <2>2, <2>3, <2>4
  <2>6. QED
    BY <2>5
<1>9. Calls(act, kd, tg, Q2, H, D, F0, L2, E, "active")
  <2>1. \A e \in AEvent : Q2[e] \cap L2 = {}
    BY <1>1, <1>4, <1>f, <1>s DEF Calls
  <2>2. \A d, e \in AEvent : d # e => Q2[d] \cap Q2[e] = {}
    BY <1>1, <1>4 DEF Calls
  <2>3. \A w \in Wrap : kd[w] = "none" => ~act[w] /\ w \notin L2 /\ \A e \in AEvent : w \notin Q2[e]
    BY <1>1, <1>4, <1>f, <1>s DEF Calls
  <2>4. ASSUME NEW w \in Wrap, Ties(kd[w]), act[w]
        PROVE  w \in L2 \/ (w \in Q2[tg[w]] /\ (act[tg[w]] \/ tg[w] \in F0))
    <3>1. tg[w] \in AEvent /\ w # "active"
      BY <1>2, <1>3
    <3>2. w \in L \/ (w \in Q[tg[w]] /\ (act[tg[w]] \/ tg[w] \in F))
      BY <1>1, <2>4, <3>1 DEF Calls
    <3>3. QED
      BY <1>4, <1>5, <1>f, <1>s, <3>1, <3>2
  <2>5. QED
    BY <1>1, <2>1, <2>2, <2>3, <2>4 DEF Calls
<1>o. O = O0 \cup (IF r THEN {x} ELSE {}) /\ x \notin O0
  BY DEF Finished
<1>10. Counts(act, C, Due(Q, L), handles, refs2, life, O0, E, "active", "active")
  <2>1. /\ C \in [AEvent -> Nat] /\ handles \in [AEvent -> Nat] /\ refs \in [AEvent -> Nat]
        /\ life \in [AEvent -> {"unborn", "live", "deleted"}]
    BY <1>1 DEF Counts
  <2>2. PICK U : U = Due(Q, L)
    OBVIOUS
  <2>3. \A e \in AEvent :
          /\ refs[e] = handles[e] + C[e] + One(e \in U) + One(e \in O) + One(e = "active")
          /\ handles[e] \in Nat /\ C[e] \in Nat /\ refs[e] \in Nat
          /\ One(e \in U) \in {0, 1} /\ One(e = "active") = 0
    BY <1>1, <1>2, <2>1, <2>2, Ones DEF Counts
  <2>4. x \notin O0 /\ One(x \in O0) = 0 /\ One(x \in O) = IF r THEN 1 ELSE 0
    <3>1. x \notin O0 /\ (x \in O <=> r)
      BY <1>o
    <3>2. One(x \in O0) = 0
      BY <3>1 DEF One
    <3>3. CASE r
      <4>1. x \in O
        BY <3>1, <3>3
      <4>2. One(x \in O) = 1
        BY <4>1 DEF One
      <4>3. QED
        BY <3>1, <3>2, <3>3, <4>2
    <3>4. CASE ~r
      <4>1. x \notin O
        BY <3>1, <3>4
      <4>2. One(x \in O) = 0
        BY <4>1 DEF One
      <4>3. QED
        BY <3>1, <3>2, <3>4, <4>2
    <3>5. QED
      BY <3>3, <3>4
  <2>5. \A e \in AEvent : e # x => One(e \in O0) = One(e \in O)
    <3>1. \A e \in AEvent : e # x => (e \in O0 <=> e \in O)
      BY <1>o
    <3>2. QED
      BY <3>1, Ones
  <2>6. refs[x] = handles[x] + C[x] + One(x \in U) + (IF r THEN 1 ELSE 0)
    BY <2>3, <2>4
  <2>7. (IF r THEN refs[x] - 1 ELSE refs[x]) = handles[x] + C[x] + One(x \in U)
    BY <2>3, <2>6
  <2>8. handles[x] + C[x] + One(x \in U) \in Nat
    BY <2>3
  <2>9. /\ refs2 \in [AEvent -> Nat] /\ refs2[x] = handles[x] + C[x] + One(x \in U)
        /\ \A e \in AEvent : e # x => refs2[e] = refs[e]
    BY <2>1, <2>7, <2>8 DEF Finished
  <2>10. ASSUME NEW e \in AEvent
         PROVE  refs2[e] = handles[e] + C[e] + One(e \in U) + One(e \in O0) + One(e = "active")
    <3>1. CASE e = x
      BY <2>3, <2>4, <2>9, <3>1
    <3>2. CASE e # x
      BY <2>3, <2>5, <2>9, <3>2
    <3>3. QED
      BY <3>1, <3>2
  <2>11. \A e \in AEvent : life[e] = "live" /\ refs2[e] = 0 /\ e # "active" => e \in E
    BY <1>1, <1>5, <2>9 DEF Counts
  <2>12. QED
    BY <1>1, <2>1, <2>2, <2>9, <2>10, <2>11 DEF Counts
<1>11. QED
  BY <1>1, <1>6, <1>7, <1>8, <1>9, <1>10 DEF Group

WrapInv ==
  Whole(aactive, akind, atarget, ahooks, ahandles, arefs, alife, aholds, anode, aslot, aresult,
        awhy, astack)

\* f is on top of the stack, over b.
OnFrame(f, b) ==
  /\ f = Head(astack) /\ b = Tail(astack) /\ f \in AFrame /\ Stacked(b) /\ Fits(f, b)
  /\ astack = Top(f, b) /\ b \in Seq(AFrame)
  /\ Hooking(astack) = HookOf(f) \cup Hooking(b)
  /\ Deleting(astack) = DeleteOf(f) \cup Deleting(b)
  /\ Finishing(astack) = FinishOf(f) \cup Finishing(b)
  /\ Owing(astack) = OwedOf(f) \cup Owing(b)
  /\ Listing(astack) = ListOf(f) \cup Listing(b)
  /\ Ending(astack) = EndOf(f) \cup Ending(b)

\* The frame on top of the stack, what is under it, and the sets.
LEMMA Popped ==
  ASSUME WrapInv, astack # <<>>
  PROVE  \E f, b : OnFrame(f, b)
<1>1. Stacked(astack)
  BY DEF WrapInv, Whole, Ready
<1>2. Stacked(Tail(astack)) /\ Tail(astack) \in Seq(AFrame)
  BY <1>1, Pop DEF Stacked
<1>3. PICK f, b : f = Head(astack) /\ b = Tail(astack)
  OBVIOUS
<1>4. OnFrame(f, b)
  BY <1>1, <1>2, <1>3, Pop DEF OnFrame, Over
<1>5. QED
  BY <1>4

\* The second half of a trigger.
LEMMA FinishKeeps ==
  ASSUME Shape3, WrapInv, Wraps!FinishTrigger
  PROVE  WrapInv'
<1>1. astack # <<>> /\ Head(astack).op = "finish"
  BY DEF Wraps!FinishTrigger, Wraps!TopIs
<1>p. PICK f, b : OnFrame(f, b)
  BY <1>1, Popped
<1>2. /\ f = Head(astack) /\ b = Tail(astack) /\ f \in AFrame /\ Stacked(b) /\ Fits(f, b)
      /\ astack = Top(f, b) /\ b \in Seq(AFrame)
      /\ Hooking(astack) = HookOf(f) \cup Hooking(b)
      /\ Deleting(astack) = DeleteOf(f) \cup Deleting(b)
      /\ Finishing(astack) = FinishOf(f) \cup Finishing(b)
      /\ Owing(astack) = OwedOf(f) \cup Owing(b)
      /\ Listing(astack) = ListOf(f) \cup Listing(b)
      /\ Ending(astack) = EndOf(f) \cup Ending(b)
  BY <1>p DEF OnFrame
<1>3. PICK x \in AEvent, r \in BOOLEAN : f = FinishFrame(x, r) /\ f.ev = x /\ f.reduce = r
  BY <1>1, <1>2, FrameIs
<1>4. /\ HookOf(f) = {} /\ DeleteOf(f) = {} /\ FinishOf(f) = {x}
      /\ OwedOf(f) = (IF r THEN {x} ELSE {}) /\ ListOf(f) = {} /\ EndOf(f) = {x}
  BY <1>3, FinishFrameIs
<1>5. PICK Q, H, D, F, O, L, E :
        /\ Q = CallSets(ahooks)
        /\ H = Hooking(astack) /\ D = Deleting(astack) /\ F = Finishing(astack)
        /\ O = Owing(astack) /\ L = Listing(astack) /\ E = Ending(astack)
  OBVIOUS
<1>6. /\ Lists(ahooks)
      /\ Group(aactive, akind, atarget, Q, Held(aholds, atarget), Due(Q, L), ahandles, arefs, alife,
               aholds, anode, aslot, aresult, awhy, H, D, F, O, L, E, "active", "active", "active")
  BY <1>5 DEF WrapInv, Whole, Ready
<1>7. /\ arefs' = [arefs EXCEPT ![x] = IF r THEN @ - 1 ELSE @]
      /\ astack' = <<[op |-> "hooks", ev |-> x, list |-> ahooks[x]]>> \o b
      /\ ahooks' = [ahooks EXCEPT ![x] = <<>>]
      /\ UNCHANGED <<alife, aactive, ahandles, akind, atarget, aholds, anode, aslot, aresult, awhy>>
  BY <1>2, <1>3 DEF Wraps!FinishTrigger
<1>8. PICK n, refs2, t : n = ahooks' /\ refs2 = arefs' /\ t = astack'
  OBVIOUS
<1>9. <<>> \in Seq(Wrap)
  OBVIOUS
<1>10. /\ Lists(n) /\ Puts(Q, x, {}, CallSets(n))
       /\ ahooks[x] \in Seq(Wrap) /\ Distinct(ahooks[x]) /\ Members(ahooks[x]) = Q[x]
  <2>1. Puts(ahooks, x, <<>>, n)
    BY <1>7, <1>8 DEF Puts
  <2>2. Members(<<>>) = {} /\ Distinct(<<>>)
    BY MembersAre
  <2>3. /\ Lists(n) /\ Puts(CallSets(ahooks), x, Members(<<>>), CallSets(n))
        /\ ahooks[x] \in Seq(Wrap) /\ Distinct(ahooks[x])
        /\ Members(ahooks[x]) = CallSets(ahooks)[x]
    BY <1>6, <1>9, <2>1, <2>2, CallSetsIs
  <2>4. QED
    BY <1>5, <2>2, <2>3
<1>11. PICK l, S : l \in Seq(Wrap) /\ l = ahooks[x] /\ S = Q[x]
  BY <1>10
<1>12. PICK g : g = ListFrame(x, l)
  OBVIOUS
<1>13. /\ g \in AFrame /\ g.op = "hooks" /\ g.ev = x /\ g.list = l
       /\ HookOf(g) = {} /\ DeleteOf(g) = {} /\ FinishOf(g) = {}
       /\ OwedOf(g) = {} /\ ListOf(g) = S /\ EndOf(g) = {x}
  BY <1>10, <1>11, <1>12, ListFrameIs
<1>14. t = Top(g, b)
  BY <1>7, <1>8, <1>11, <1>12 DEF Top, ListFrame
<1>15. Fits(g, b)
  <2>1. S \cap Listing(b) = {}
    BY <1>2, <1>5, <1>6, <1>11 DEF Group, Calls
  <2>2. QED
    BY <1>10, <1>11, <1>13, <2>1 DEF Fits
<1>16. Stacked(t) /\ Over(t, g, b)
  BY <1>2, <1>13, <1>14, <1>15, Push
<1>17. PICK F0, O0, L2 : F0 = Finishing(b) /\ O0 = Owing(b) /\ L2 = L \cup S
  OBVIOUS
<1>18. x \notin F0
  BY <1>2, <1>4, <1>17 DEF Fits
<1>19. /\ F = F0 \cup {x} /\ O = O0 \cup (IF r THEN {x} ELSE {})
       /\ Hooking(t) = H /\ Deleting(t) = D /\ Finishing(t) = F0 /\ Owing(t) = O0
       /\ Listing(t) = L2 /\ Ending(t) = E
  BY <1>2, <1>4, <1>5, <1>13, <1>16, <1>17 DEF Over
<1>20. O0 \subseteq F0
  <2>1. \A i \in DOMAIN b : b[i] \in AFrame
    BY <1>2
  <2>2. QED
    BY <1>17, <2>1 DEF Owing, Finishing, Gather, OwedOf, FinishOf
<1>21. PICK Q2 : Q2 = CallSets(n)
  OBVIOUS
<1>22. Group(aactive, akind, atarget, Q2, Held(aholds, atarget), Due(Q2, L2), ahandles, refs2,
             alife, aholds, anode, aslot, aresult, awhy, H, D, F0, O0, L2, E,
             "active", "active", "active")
  <2>1. Finished(x, r, F, F0, O, O0, L, L2, Q, Q2, arefs, refs2)
    BY <1>7, <1>8, <1>10, <1>11, <1>17, <1>18, <1>19, <1>20, <1>21 DEF Finished
  <2>2. QED
    BY <1>6, <2>1, FinishGroup
<1>23. Whole(aactive, akind, atarget, n, ahandles, refs2, alife, aholds, anode, aslot, aresult,
             awhy, t)
  BY <1>10, <1>16, <1>19, <1>21, <1>22 DEF Whole, Ready
<1>24. QED
  BY <1>7, <1>8, <1>23 DEF WrapInv

\* Between steps, a trigger of any event by the program or by a hook may begin.
LEMMA Begins ==
  ASSUME Shape3,
         NEW act, NEW kd, NEW tg, NEW Q, NEW C, NEW U, NEW handles, NEW refs, NEW life, NEW holds,
         NEW node, NEW slot, NEW res, NEW why, NEW H, NEW D, NEW F, NEW O, NEW L, NEW E,
         NEW g, NEW x \in AEvent, NEW y, y \in {"natural", "hook"},
         Group(act, kd, tg, Q, C, U, handles, refs, life, holds, node, slot, res, why,
               H, D, F, O, L, E, g, "active", "active")
  PROVE  /\ Group(act, kd, tg, Q, C, U, handles, refs, life, holds, node, slot, res, why,
                  H, D, F, O, L, E, g, x, y)
         /\ act[x] => slot[x] = "unset" /\ May(act, kd, tg, slot, H, x, y)
<1>1. /\ WrapTypes(act, kd, tg, Q) /\ SetsAre(H, D, F, O, L, E)
      /\ Calls(act, kd, tg, Q, H, D, F, L, E, "active")
      /\ Values(act, kd, why, slot, "active")
      /\ Outcomes(act, kd, tg, why, res, H, "active", "active")
      /\ Counts(act, C, U, handles, refs, life, O, E, g, "active")
      /\ Nodes(act, kd, holds, handles, node, H, D)
  BY DEF Group
<1>2. /\ "active" \notin AEvent /\ {"natural", "hook"} \cap AEvent = {}
      /\ \A w \in Wrap : w \in AEvent /\ tg[w] \in AEvent
  BY <1>1 DEF Shape3, AEvent, WrapTypes
<1>3. Calls(act, kd, tg, Q, H, D, F, L, E, x)
  <2>1. /\ \A w \in Wrap : Ties(kd[w]) /\ act[w] =>
             w \in L \/ (w \in Q[tg[w]] /\ (act[tg[w]] \/ tg[w] \in F))
        /\ \A w \in Wrap : Ties(kd[w]) /\ ~act[w] /\ act[tg[w]] => w \in H
    BY <1>1, <1>2 DEF Calls
  <2>2. QED
    BY <1>1, <2>1 DEF Calls
<1>4. Values(act, kd, why, slot, x)
  BY <1>1, <1>2 DEF Values
<1>5. Outcomes(act, kd, tg, why, res, H, x, y)
  <2>1. \A w \in Wrap : w # y /\ tg[w] # "active"
    BY <1>2
  <2>2. QED
    BY <1>1, <2>1 DEF Outcomes
<1>6. Counts(act, C, U, handles, refs, life, O, E, g, x)
  BY <1>1, <1>2 DEF Counts
<1>7. ASSUME act[x] PROVE slot[x] = "unset" /\ May(act, kd, tg, slot, H, x, y)
  <2>1. slot[x] = "unset"
    BY <1>1, <1>2, <1>7 DEF Values
  <2>2. y \notin Wrap
    BY <1>2
  <2>3. \A w \in Wrap : Ties(kd[w]) /\ ~act[w] /\ w \notin H /\ tg[w] = x => w = y
    BY <1>1, <1>2, <1>7 DEF Calls
  <2>4. QED
    BY <2>1, <2>2, <2>3 DEF May, Rightly
<1>8. QED
  BY <1>1, <1>3, <1>4, <1>5, <1>6, <1>7 DEF Group

\* The hook h is taken off the list, and its trigger begins.
LEMMA TakeGroup ==
  ASSUME Shape3,
         NEW act, NEW kd, NEW tg, NEW Q, NEW C, NEW handles, NEW refs, NEW life, NEW holds,
         NEW node, NEW slot, NEW res, NEW why, NEW H, NEW D, NEW F, NEW O, NEW L, NEW E,
         NEW h \in Wrap, h \in L,
         Group(act, kd, tg, Q, C, Due(Q, L), handles, refs, life, holds, node, slot, res, why,
               H, D, F, O, L, E, "active", "active", "active"),
         NEW M, M = L \ {h}
  PROVE  /\ Group(act, kd, tg, Q, C, Due(Q, M), handles, refs, life, holds, node, slot, res, why,
                  H, D, F, O, M, E, h, h, "hook")
         /\ act[h] => May(act, kd, tg, slot, H, h, "hook")
<1>0. h \in AEvent
  BY DEF AEvent
<1>1. PICK U, V : U = Due(Q, L) /\ V = Due(Q, M)
  OBVIOUS
<1>2. /\ Group(act, kd, tg, Q, C, U, handles, refs, life, holds, node, slot, res, why,
               H, D, F, O, L, E, "active", h, "hook")
      /\ act[h] => May(act, kd, tg, slot, H, h, "hook")
  <2>1. Group(act, kd, tg, Q, C, U, handles, refs, life, holds, node, slot, res, why,
              H, D, F, O, L, E, "active", "active", "active")
    BY <1>1
  <2>2. "hook" \in {"natural", "hook"}
    OBVIOUS
  <2>3. QED
    BY <1>0, <2>1, <2>2, Begins
<1>3. /\ WrapTypes(act, kd, tg, Q) /\ SetsAre(H, D, F, O, L, E)
      /\ Calls(act, kd, tg, Q, H, D, F, L, E, h)
      /\ Values(act, kd, why, slot, h)
      /\ Outcomes(act, kd, tg, why, res, H, h, "hook")
      /\ Counts(act, C, U, handles, refs, life, O, E, "active", h)
      /\ Nodes(act, kd, holds, handles, node, H, D)
  BY <1>2 DEF Group
<1>4. "active" \notin AEvent
  BY DEF Shape3
<1>5. SetsAre(H, D, F, O, M, E)
  BY <1>3 DEF SetsAre
<1>6. Calls(act, kd, tg, Q, H, D, F, M, E, h)
  <2>1. \A e \in AEvent : Q[e] \cap M = {}
    BY <1>3 DEF Calls
  <2>2. \A w \in Wrap : kd[w] = "none" => ~act[w] /\ w \notin M /\ \A e \in AEvent : w \notin Q[e]
    BY <1>3 DEF Calls
  <2>3. \A w \in Wrap : Ties(kd[w]) /\ act[w] /\ w # h =>
          w \in M \/ (w \in Q[tg[w]] /\ (act[tg[w]] \/ tg[w] \in F))
    BY <1>3 DEF Calls
  <2>4. QED
    BY <1>3, <2>1, <2>2, <2>3 DEF Calls
<1>7. \A e \in AEvent : e \in V <=> e \in U /\ e # h
  <2>1. \A z : z \in U <=> z \in L \/ \E e \in AEvent : z \in Q[e]
    BY <1>1 DEF Due
  <2>2. \A z : z \in V <=> z \in M \/ \E e \in AEvent : z \in Q[e]
    BY <1>1 DEF Due
  <2>3. \A e \in AEvent : h \notin Q[e]
    BY <1>3 DEF Calls
  <2>4. QED
    BY <2>1, <2>2, <2>3
<1>8. h \in U
  BY <1>1 DEF Due
<1>9. Counts(act, C, V, handles, refs, life, O, E, h, h)
  <2>1. ASSUME NEW e \in AEvent
        PROVE  refs[e] = handles[e] + C[e] + One(e \in V) + One(e \in O) + One(e = h)
    <3>1. refs[e] = handles[e] + C[e] + One(e \in U) + One(e \in O) + One(e = "active")
      BY <1>3 DEF Counts
    <3>2. One(e = "active") = 0
      BY <1>4 DEF One
    <3>3. One(e \in V) + One(e = h) = One(e \in U)
      <4>1. CASE e = h
        <5>1. One(e \in V) = 0 /\ One(e = h) = 1 /\ One(e \in U) = 1
          BY <1>7, <1>8, <4>1 DEF One
        <5>2. QED
          BY <5>1
      <4>2. CASE e # h
        <5>1. One(e = h) = 0 /\ One(e \in V) = One(e \in U)
          BY <1>7, <4>2 DEF One
        <5>2. One(e \in U) \in {0, 1}
          BY Ones
        <5>3. QED
          BY <5>1, <5>2
      <4>3. QED
        BY <4>1, <4>2
    <3>4. /\ One(e \in V) \in {0, 1} /\ One(e \in O) \in {0, 1} /\ One(e = h) \in {0, 1}
          /\ One(e \in U) \in {0, 1} /\ handles[e] \in Nat /\ C[e] \in Nat /\ refs[e] \in Nat
      BY <1>3, Ones DEF Counts
    <3>5. QED
      BY <3>1, <3>2, <3>3, <3>4
  <2>2. QED
    BY <1>3, <2>1 DEF Counts
<1>10. QED
  BY <1>1, <1>2, <1>3, <1>5, <1>6, <1>9 DEF Group

\* The list is empty: x is deleted if it is not used.
LEMMA EndGroup ==
  ASSUME Shape3,
         NEW act, NEW kd, NEW tg, NEW Q, NEW C, NEW U, NEW handles, NEW refs, NEW life, NEW holds,
         NEW node, NEW slot, NEW res, NEW why, NEW H, NEW D, NEW F, NEW O, NEW L, NEW E,
         NEW x \in AEvent, NEW G, E = G \cup {x}, F \subseteq G,
         Group(act, kd, tg, Q, C, U, handles, refs, life, holds, node, slot, res, why,
               H, D, F, O, L, E, "active", "active", "active"),
         NEW m, m = Settled(life, refs, {x})
  PROVE  Group(act, kd, tg, Q, C, U, handles, refs, m, holds, node, slot, res, why,
               H, D, F, O, L, G, "active", "active", "active")
<1>1. /\ WrapTypes(act, kd, tg, Q) /\ SetsAre(H, D, F, O, L, E)
      /\ Calls(act, kd, tg, Q, H, D, F, L, E, "active")
      /\ Values(act, kd, why, slot, "active")
      /\ Outcomes(act, kd, tg, why, res, H, "active", "active")
      /\ Counts(act, C, U, handles, refs, life, O, E, "active", "active")
      /\ Nodes(act, kd, holds, handles, node, H, D)
  BY DEF Group
<1>2. "active" \notin AEvent
  BY DEF Shape3
<1>3. SetsAre(H, D, F, O, L, G)
  BY <1>1 DEF SetsAre
<1>4. \A e \in G : e \in E
  OBVIOUS
<1>5. Calls(act, kd, tg, Q, H, D, F, L, G, "active")
  BY <1>1, <1>4 DEF Calls
<1>6. ~act[x]
  BY <1>1 DEF Calls
<1>7. Counts(act, C, U, handles, refs, life, O, E, "active", x)
  BY <1>1, <1>2 DEF Counts
<1>8. Counts(act, C, U, handles, refs, m, O, G, "active", "active")
  <2>1. G \subseteq E /\ E \subseteq G \cup {x}
    OBVIOUS
  <2>2. QED
    BY <1>2, <1>6, <1>7, <2>1, CountsSettle
<1>9. QED
  BY <1>1, <1>3, <1>5, <1>8 DEF Group

\* The next hook of an event, or the end of its trigger.
LEMMA CallHookKeeps ==
  ASSUME Shape3, WrapInv, Wraps!CallHook
  PROVE  WrapInv'
<1>1. astack # <<>> /\ Head(astack).op = "hooks"
  BY DEF Wraps!CallHook, Wraps!TopIs
<1>p. PICK f, b : OnFrame(f, b)
  BY <1>1, Popped
<1>2. /\ f = Head(astack) /\ b = Tail(astack) /\ f \in AFrame /\ Stacked(b) /\ Fits(f, b)
      /\ astack = Top(f, b) /\ b \in Seq(AFrame)
      /\ Hooking(astack) = HookOf(f) \cup Hooking(b)
      /\ Deleting(astack) = DeleteOf(f) \cup Deleting(b)
      /\ Finishing(astack) = FinishOf(f) \cup Finishing(b)
      /\ Owing(astack) = OwedOf(f) \cup Owing(b)
      /\ Listing(astack) = ListOf(f) \cup Listing(b)
      /\ Ending(astack) = EndOf(f) \cup Ending(b)
  BY <1>p DEF OnFrame
<1>3. PICK x \in AEvent, l \in Seq(Wrap) : f = ListFrame(x, l) /\ f.ev = x /\ f.list = l
  BY <1>1, <1>2, FrameIs
<1>4. /\ HookOf(f) = {} /\ DeleteOf(f) = {} /\ FinishOf(f) = {}
      /\ OwedOf(f) = {} /\ ListOf(f) = Members(l) /\ EndOf(f) = {x}
  BY <1>3, ListFrameIs
<1>5. PICK Q, H, D, F, O, L, E :
        /\ Q = CallSets(ahooks)
        /\ H = Hooking(astack) /\ D = Deleting(astack) /\ F = Finishing(astack)
        /\ O = Owing(astack) /\ L = Listing(astack) /\ E = Ending(astack)
  OBVIOUS
<1>6. /\ Lists(ahooks)
      /\ Group(aactive, akind, atarget, Q, Held(aholds, atarget), Due(Q, L), ahandles, arefs, alife,
               aholds, anode, aslot, aresult, awhy, H, D, F, O, L, E, "active", "active", "active")
  BY <1>5 DEF WrapInv, Whole, Ready
<1>e. /\ H = Hooking(b) /\ D = Deleting(b) /\ F = Finishing(b) /\ O = Owing(b)
      /\ L = Members(l) \cup Listing(b) /\ E = {x} \cup Ending(b)
  <2>1. /\ H = HookOf(f) \cup Hooking(b) /\ D = DeleteOf(f) \cup Deleting(b)
        /\ F = FinishOf(f) \cup Finishing(b) /\ O = OwedOf(f) \cup Owing(b)
        /\ L = ListOf(f) \cup Listing(b) /\ E = EndOf(f) \cup Ending(b)
    BY <1>2, <1>5
  <2>2. QED
    BY <1>4, <2>1
<1>7. UNCHANGED <<ahandles, ahooks, akind, atarget, aholds, anode, aslot, aresult>>
  BY DEF Wraps!CallHook
<1>8. Distinct(l)
  BY <1>1, <1>2, <1>3 DEF Fits
<1>9. CASE l # <<>>
  <2>1. PICK h \in Wrap, k \in Seq(Wrap) : h = Head(l) /\ k = Tail(l)
    BY <1>8, <1>9, MembersPop
  <2>2. h \in Members(l) /\ Members(k) = Members(l) \ {h} /\ Distinct(k)
    BY <1>8, <1>9, <2>1, MembersPop
  <2>3. PICK g : g = ListFrame(x, k)
    OBVIOUS
  <2>4. /\ g \in AFrame /\ g.op = "hooks" /\ g.ev = x /\ g.list = k
        /\ HookOf(g) = {} /\ DeleteOf(g) = {} /\ FinishOf(g) = {}
        /\ OwedOf(g) = {} /\ ListOf(g) = Members(k) /\ EndOf(g) = {x}
    BY <2>3, ListFrameIs
  <2>5. PICK s : s = Top(g, b)
    OBVIOUS
  <2>6. Fits(g, b)
    BY <1>2, <1>4, <2>2, <2>4 DEF Fits
  <2>7. Stacked(s) /\ Over(s, g, b)
    BY <1>2, <2>4, <2>5, <2>6, Push
  <2>8. h \in L /\ h \notin Listing(b) /\ L = Members(l) \cup Listing(b)
    BY <1>2, <1>4, <1>5, <2>2 DEF Fits
  <2>9. PICK M : M = L \ {h}
    OBVIOUS
  <2>10. /\ Hooking(s) = H /\ Deleting(s) = D /\ Finishing(s) = F /\ Owing(s) = O
         /\ Listing(s) = M /\ Ending(s) = E
    <3>1. /\ Hooking(s) = HookOf(g) \cup Hooking(b) /\ Deleting(s) = DeleteOf(g) \cup Deleting(b)
          /\ Finishing(s) = FinishOf(g) \cup Finishing(b) /\ Owing(s) = OwedOf(g) \cup Owing(b)
          /\ Listing(s) = ListOf(g) \cup Listing(b) /\ Ending(s) = EndOf(g) \cup Ending(b)
      BY <2>7 DEF Over
    <3>2. M = Members(k) \cup Listing(b)
      BY <2>2, <2>8, <2>9
    <3>3. QED
      BY <1>e, <2>4, <3>1, <3>2
  <2>11. /\ Group(aactive, akind, atarget, Q, Held(aholds, atarget), Due(Q, M), ahandles, arefs,
                  alife, aholds, anode, aslot, aresult, awhy, H, D, F, O, M, E, h, h, "hook")
         /\ aactive[h] => May(aactive, akind, atarget, aslot, H, h, "hook")
    BY <1>6, <2>8, <2>9, TakeGroup
  <2>12. Ready(aactive, akind, atarget, ahooks, ahandles, arefs, alife, aholds, anode, aslot,
               aresult, awhy, s, h, h, "hook")
    BY <1>5, <1>6, <2>7, <2>10, <2>11 DEF Ready
  <2>13. Wraps!SimpleTrigger(h, FALSE, "hook", arefs, s)
    <3>1. [f EXCEPT !.list = Tail(@)] = g
      <4>1. [ListFrame(x, l) EXCEPT !.list = k] = ListFrame(x, k)
        BY DEF ListFrame
      <4>2. QED
        BY <1>3, <2>1, <2>3, <4>1
    <3>2. Wraps!SimpleTrigger(Head(f.list), FALSE, "hook", arefs, <<[f EXCEPT !.list = Tail(@)]>> \o b)
      BY <1>2, <1>3, <1>9 DEF Wraps!CallHook
    <3>3. <<[f EXCEPT !.list = Tail(@)]>> \o b = s
      BY <2>5, <3>1 DEF Top
    <3>4. QED
      BY <1>3, <2>1, <3>2, <3>3
  <2>14. h \in AEvent /\ (aactive[h] => May(aactive, akind, atarget, aslot, Hooking(s), h, "hook"))
    BY <2>10, <2>11 DEF AEvent
  <2>15. Whole(aactive', akind, atarget, ahooks, ahandles, arefs', alife', aholds, anode, aslot,
               aresult, awhy', astack')
    BY <2>12, <2>13, <2>14, SimpleKeeps
  <2>16. QED
    BY <1>7, <2>15 DEF WrapInv
<1>10. CASE l = <<>>
  <2>1. Members(l) = {}
    BY <1>10, MembersAre
  <2>2. PICK m, G : m = alife' /\ G = Ending(b)
    OBVIOUS
  <2>3. /\ m = Settled(alife, arefs, {x}) /\ astack' = b
        /\ aactive' = aactive /\ arefs' = arefs /\ awhy' = awhy
    BY <1>2, <1>3, <1>10, <2>2
       DEF Wraps!CallHook, Wraps!Unused, Settled, Wraps!Events, AEvent
  <2>4. /\ Hooking(b) = H /\ Deleting(b) = D /\ Finishing(b) = F /\ Owing(b) = O
        /\ Listing(b) = L /\ E = G \cup {x}
    BY <1>e, <2>1, <2>2
  <2>5. F \subseteq G
    <3>1. \A i \in DOMAIN b : b[i] \in AFrame
      BY <1>2
    <3>2. QED
      BY <2>2, <2>4, <3>1 DEF Ending, Finishing, Gather, EndOf, FinishOf
  <2>6. PICK U : U = Due(Q, L)
    OBVIOUS
  <2>7. Group(aactive, akind, atarget, Q, Held(aholds, atarget), U, ahandles, arefs, m,
              aholds, anode, aslot, aresult, awhy, H, D, F, O, L, G, "active", "active", "active")
    BY <1>6, <2>3, <2>4, <2>5, <2>6, EndGroup
  <2>8. Whole(aactive, akind, atarget, ahooks, ahandles, arefs, m, aholds, anode, aslot, aresult,
              awhy, b)
    BY <1>2, <1>5, <1>6, <2>2, <2>4, <2>6, <2>7 DEF Whole, Ready
  <2>9. QED
    BY <1>7, <2>2, <2>3, <2>8 DEF WrapInv
<1>11. QED
  BY <1>9, <1>10

Holders(hs, tg, e) == {w \in Wrap : hs[w] /\ tg[w] = e}

\* How many adapters hold each event.
LEMMA HeldAre ==
  ASSUME IsFiniteSet(Wrap), NEW hs, NEW tg
  PROVE  /\ Held(hs, tg) \in [AEvent -> Nat]
         /\ \A e \in AEvent : /\ Held(hs, tg)[e] = Cardinality(Holders(hs, tg, e))
                              /\ Held(hs, tg)[e] \in Nat
         /\ \A e : IsFiniteSet(Holders(hs, tg, e))
<1>1. ASSUME NEW e PROVE IsFiniteSet(Holders(hs, tg, e)) /\ Cardinality(Holders(hs, tg, e)) \in Nat
  <2>1. Holders(hs, tg, e) \subseteq Wrap
    BY DEF Holders
  <2>2. IsFiniteSet(Holders(hs, tg, e))
    BY <2>1, FS_Subset
  <2>3. QED
    BY <2>2, FS_CardinalityType
<1>2. Held(hs, tg) = [e \in AEvent |-> Cardinality(Holders(hs, tg, e))]
  BY DEF Held, Holders
<1>3. PICK C : C = Held(hs, tg)
  OBVIOUS
<1>4. C \in [AEvent -> Nat]
  BY <1>1, <1>2, <1>3
<1>5. QED
  BY <1>1, <1>2, <1>3, <1>4

Off(hs, w, h2) == h2 = [hs EXCEPT ![w] = FALSE]

\* How many adapters hold each event when one of them begins or ceases to.
LEMMA HeldOff ==
  ASSUME IsFiniteSet(Wrap), NEW hs \in [Wrap -> BOOLEAN], NEW tg \in [Wrap -> AEvent],
         NEW w \in Wrap, NEW h2, Off(hs, w, h2), NEW e \in AEvent
  PROVE  /\ h2 \in [Wrap -> BOOLEAN] /\ ~h2[w] /\ \A v \in Wrap : v # w => h2[v] = hs[v]
         /\ hs[w] /\ e = tg[w] => Held(hs, tg)[e] = Held(h2, tg)[e] + 1
         /\ ~hs[w] \/ e # tg[w] => Held(hs, tg)[e] = Held(h2, tg)[e]
<1>1. h2 \in [Wrap -> BOOLEAN] /\ ~h2[w] /\ \A v \in Wrap : v # w => h2[v] = hs[v]
  BY DEF Off
<1>2. PICK A, B : A = Holders(hs, tg, e) /\ B = Holders(h2, tg, e)
  OBVIOUS
<1>3. /\ Held(hs, tg)[e] = Cardinality(A) /\ Held(h2, tg)[e] = Cardinality(B)
      /\ IsFiniteSet(A) /\ IsFiniteSet(B)
  BY <1>2, HeldAre
<1>4. ASSUME hs[w], e = tg[w] PROVE Cardinality(A) = Cardinality(B) + 1
  <2>1. A = B \cup {w} /\ w \notin B
    BY <1>1, <1>2, <1>4 DEF Holders
  <2>2. QED
    BY <1>3, <2>1, FS_AddElement
<1>5. ASSUME ~hs[w] \/ e # tg[w] PROVE A = B
  BY <1>1, <1>2, <1>5 DEF Holders
<1>6. QED
  BY <1>1, <1>3, <1>4, <1>5

LEMMA HeldOn ==
  ASSUME IsFiniteSet(Wrap), NEW hs \in [Wrap -> BOOLEAN], NEW tg \in [Wrap -> AEvent],
         NEW w \in Wrap, ~hs[w], NEW t \in AEvent, NEW v \in BOOLEAN, NEW h2, Puts(hs, w, v, h2),
         NEW t2, Puts(tg, w, t, t2), NEW e \in AEvent
  PROVE  /\ h2 \in [Wrap -> BOOLEAN] /\ h2[w] = v /\ \A z \in Wrap : z # w => h2[z] = hs[z]
         /\ t2 \in [Wrap -> AEvent] /\ t2[w] = t /\ \A z \in Wrap : z # w => t2[z] = tg[z]
         /\ v /\ e = t => Held(h2, t2)[e] = Held(hs, tg)[e] + 1
         /\ ~v \/ e # t => Held(h2, t2)[e] = Held(hs, tg)[e]
<1>1. /\ h2 \in [Wrap -> BOOLEAN] /\ h2[w] = v /\ \A z \in Wrap : z # w => h2[z] = hs[z]
      /\ t2 \in [Wrap -> AEvent] /\ t2[w] = t /\ \A z \in Wrap : z # w => t2[z] = tg[z]
  BY DEF Puts
<1>2. PICK A, B : A = Holders(hs, tg, e) /\ B = Holders(h2, t2, e)
  OBVIOUS
<1>3. /\ Held(hs, tg)[e] = Cardinality(A) /\ Held(h2, t2)[e] = Cardinality(B)
      /\ IsFiniteSet(A) /\ IsFiniteSet(B)
  BY <1>2, HeldAre
<1>4. ASSUME v, e = t PROVE Cardinality(B) = Cardinality(A) + 1
  <2>1. B = A \cup {w} /\ w \notin A
    BY <1>1, <1>2, <1>4 DEF Holders
  <2>2. QED
    BY <1>3, <2>1, FS_AddElement
<1>5. ASSUME ~v \/ e # t PROVE A = B
  BY <1>1, <1>2, <1>5 DEF Holders
<1>6. QED
  BY <1>1, <1>3, <1>4, <1>5

(***************************************************************************)
(* The hook of an adapter w: it goes off the stack, and its deletion goes  *)
(* on.                                                                     *)
(***************************************************************************)

Moved(H, D, w, J, K) == w \in H /\ J = H \ {w} /\ K = D \cup {w}

\* What that leaves.
Left(act, kd, tg, Q, handles, life, holds, node, slot, why, F, O, L, E, w, t, J, K) ==
  /\ w \in Wrap /\ t \in AEvent /\ ~act[w] /\ w \notin J /\ kd[w] # "none"
  /\ SetsAre(J, K, F, O, L, E)
  /\ Calls(act, kd, tg, Q, J, K, F, L, E, t)
  /\ ~Ties(kd[w]) \/ ~act[t] => Calls(act, kd, tg, Q, J, K, F, L, E, "active")
  /\ Nodes(act, kd, holds, handles, node, J, K)
  /\ act[t] => /\ slot[t] = "unset" /\ why[t] = "active" /\ life[t] = "live"
               /\ \A v \in Wrap : Ties(kd[v]) /\ ~act[v] /\ v \notin J /\ tg[v] = t => v = w

\* A hook that has run leaves its deletion.
LEMMA HookMoves ==
  ASSUME Shape3,
         NEW act, NEW kd, NEW tg, NEW Q, NEW C, NEW U, NEW handles, NEW refs, NEW life, NEW holds,
         NEW node, NEW slot, NEW res, NEW why, NEW H, NEW D, NEW F, NEW O, NEW L, NEW E,
         NEW w, NEW J, NEW K, Moved(H, D, w, J, K), NEW t, t = tg[w],
         Group(act, kd, tg, Q, C, U, handles, refs, life, holds, node, slot, res, why,
               H, D, F, O, L, E, "active", "active", "active")
  PROVE  Left(act, kd, tg, Q, handles, life, holds, node, slot, why, F, O, L, E, w, t, J, K)
<1>1. /\ WrapTypes(act, kd, tg, Q) /\ SetsAre(H, D, F, O, L, E)
      /\ Calls(act, kd, tg, Q, H, D, F, L, E, "active")
      /\ Values(act, kd, why, slot, "active")
      /\ Counts(act, C, U, handles, refs, life, O, E, "active", "active")
      /\ Nodes(act, kd, holds, handles, node, H, D)
  BY DEF Group
<1>2. w \in H /\ J = H \ {w} /\ K = D \cup {w}
  BY DEF Moved
<1>3. SetsAre(J, K, F, O, L, E) /\ w \in Wrap /\ w \notin J
  BY <1>1, <1>2 DEF SetsAre
<1>4. t \in AEvent /\ "active" \notin AEvent /\ \A v \in Wrap : v \in AEvent /\ tg[v] \in AEvent
  BY <1>1, <1>3 DEF WrapTypes, Shape3, AEvent
<1>5. ~act[w] /\ kd[w] # "none"
  BY <1>1, <1>2 DEF Calls
<1>6. \A v : v \in J \cup K <=> v \in H \cup D
  BY <1>2
<1>7. /\ \A v \in J \cup K : ~act[v] /\ kd[v] # "none"
      /\ \A v \in Wrap : Ties(kd[v]) /\ act[v] =>
           v \in L \/ (v \in Q[tg[v]] /\ (act[tg[v]] \/ tg[v] \in F))
      /\ \A v \in Wrap : Ties(kd[v]) /\ ~act[v] /\ act[tg[v]] => v \in H
  BY <1>1, <1>4, <1>6 DEF Calls
<1>8. \A v \in Wrap : Ties(kd[v]) /\ ~act[v] /\ act[tg[v]] /\ tg[v] # t => v \in J
  BY <1>2, <1>7
<1>9. Calls(act, kd, tg, Q, J, K, F, L, E, t)
  BY <1>1, <1>7, <1>8 DEF Calls
<1>10. ASSUME ~Ties(kd[w]) \/ ~act[t] PROVE Calls(act, kd, tg, Q, J, K, F, L, E, "active")
  <2>1. \A v \in Wrap : Ties(kd[v]) /\ ~act[v] /\ act[tg[v]] => v \in J
    BY <1>2, <1>7, <1>10
  <2>2. QED
    BY <1>1, <1>7, <2>1 DEF Calls
<1>11. Nodes(act, kd, holds, handles, node, J, K)
  <2>1. \A v \in Wrap : Grips(kd[v]) /\ (act[v] \/ v \in J) => holds[v]
    BY <1>1, <1>2 DEF Nodes
  <2>2. \A v : v \in H \cup D <=> v \in J \cup K
    BY <1>6
  <2>3. \A v \in Wrap : kd[v] # "none" => (node[v] = "live" <=> act[v] \/ v \in J \cup K)
    BY <1>1, <2>2 DEF Nodes
  <2>4. QED
    BY <1>1, <2>1, <2>3 DEF Nodes
<1>12. ASSUME act[t]
       PROVE  /\ slot[t] = "unset" /\ why[t] = "active" /\ life[t] = "live"
              /\ \A v \in Wrap : Ties(kd[v]) /\ ~act[v] /\ v \notin J /\ tg[v] = t => v = w
  <2>1. why[t] = "active" /\ slot[t] = "unset"
    BY <1>1, <1>4, <1>12 DEF Values
  <2>2. life[t] = "live"
    BY <1>1, <1>4, <1>12 DEF Counts
  <2>3. QED
    BY <1>2, <1>7, <1>12, <2>1, <2>2
<1>13. QED
  BY <1>3, <1>4, <1>5, <1>9, <1>10, <1>11, <1>12 DEF Left

\* What becomes of the value of t when w sets it.
Sets(act, slot, t, w, slot2) == slot2 = IF act[t] THEN [slot EXCEPT ![t] = w] ELSE slot

\* w sets the value of its target t, gives up its event<> and triggers t.
LEMMA ReleaseGroup ==
  ASSUME Shape3, IsFiniteSet(Wrap),
         NEW act, NEW kd, NEW tg, NEW Q, NEW U, NEW handles, NEW refs, NEW life, NEW holds,
         NEW node, NEW slot, NEW res, NEW why, NEW H, NEW D, NEW F, NEW O, NEW L, NEW E,
         NEW w, NEW J, NEW K, Moved(H, D, w, J, K), NEW t, t = tg[w],
         Group(act, kd, tg, Q, Held(holds, tg), U, handles, refs, life, holds, node, slot, res, why,
               H, D, F, O, L, E, "active", "active", "active"),
         kd[w] = "bind" \/ (kd[w] = "map" /\ act[t]),
         NEW h2, Off(holds, w, h2), NEW slot2, Sets(act, slot, t, w, slot2)
  PROVE  /\ Group(act, kd, tg, Q, Held(h2, tg), U, handles, refs, life, h2, node, slot2, res, why,
                  J, K, F, O, L, E, t, t, w)
         /\ act[t] => May(act, kd, tg, slot2, J, t, w)
<1>1. /\ WrapTypes(act, kd, tg, Q)
      /\ Values(act, kd, why, slot, "active")
      /\ Outcomes(act, kd, tg, why, res, H, "active", "active")
      /\ Counts(act, Held(holds, tg), U, handles, refs, life, O, E, "active", "active")
      /\ Nodes(act, kd, holds, handles, node, H, D)
  BY DEF Group
<1>2. /\ w \in Wrap /\ t \in AEvent /\ ~act[w] /\ w \notin J /\ kd[w] # "none"
      /\ SetsAre(J, K, F, O, L, E)
      /\ Calls(act, kd, tg, Q, J, K, F, L, E, t)
      /\ Nodes(act, kd, holds, handles, node, J, K)
      /\ act[t] => /\ slot[t] = "unset" /\ why[t] = "active" /\ life[t] = "live"
                   /\ \A v \in Wrap : Ties(kd[v]) /\ ~act[v] /\ v \notin J /\ tg[v] = t => v = w
  <2>1. Left(act, kd, tg, Q, handles, life, holds, node, slot, why, F, O, L, E, w, t, J, K)
    BY HookMoves
  <2>2. QED
    BY <2>1 DEF Left
<1>3. w \in H /\ J = H \ {w}
  BY DEF Moved
<1>4. "active" \notin AEvent /\ \A v \in Wrap : v \in AEvent /\ tg[v] \in AEvent
  BY <1>1 DEF WrapTypes, Shape3, AEvent
<1>5. Grips(kd[w]) /\ kd[w] # "helper" /\ holds[w]
  BY <1>1, <1>2, <1>3 DEF Grips, Nodes
<1>6. holds \in [Wrap -> BOOLEAN] /\ tg \in [Wrap -> AEvent]
  BY <1>1 DEF Nodes, WrapTypes
<1>7. h2 \in [Wrap -> BOOLEAN] /\ ~h2[w] /\ \A v \in Wrap : v # w => h2[v] = holds[v]
  BY <1>2, <1>6 DEF Off
<1>8. PICK C, C2 : C = Held(holds, tg) /\ C2 = Held(h2, tg)
  OBVIOUS
<1>9. C2 \in [AEvent -> Nat]
  BY <1>8, HeldAre
<1>10. \A e \in AEvent : /\ e = t => C[e] = C2[e] + 1
                         /\ e # t => C[e] = C2[e]
  <2>1. w \in Wrap
    BY <1>2
  <2>2. ASSUME NEW e \in AEvent
        PROVE  /\ h2 \in [Wrap -> BOOLEAN] /\ ~h2[w] /\ \A v \in Wrap : v # w => h2[v] = holds[v]
               /\ holds[w] /\ e = tg[w] => Held(holds, tg)[e] = Held(h2, tg)[e] + 1
               /\ ~holds[w] \/ e # tg[w] => Held(holds, tg)[e] = Held(h2, tg)[e]
    BY <1>6, <2>1, HeldOff
  <2>3. QED
    BY <1>5, <1>8, <2>2
<1>11. Nodes(act, kd, h2, handles, node, J, K)
  <2>1. /\ \A v \in Wrap : h2[v] => Grips(kd[v])
        /\ \A v \in Wrap : Grips(kd[v]) /\ (act[v] \/ v \in J) => h2[v]
    BY <1>2, <1>7 DEF Nodes
  <2>2. QED
    BY <1>2, <1>7, <2>1 DEF Nodes
<1>12. Counts(act, C2, U, handles, refs, life, O, E, t, t)
  <2>1. ASSUME NEW e \in AEvent
        PROVE  refs[e] = handles[e] + C2[e] + One(e \in U) + One(e \in O) + One(e = t)
    <3>1. refs[e] = handles[e] + C[e] + One(e \in U) + One(e \in O) + One(e = "active")
      BY <1>1, <1>8 DEF Counts
    <3>2. One(e = "active") = 0
      BY <1>4 DEF One
    <3>3. One(e = t) = IF e = t THEN 1 ELSE 0
      BY DEF One
    <3>4. /\ One(e \in U) \in {0, 1} /\ One(e \in O) \in {0, 1}
          /\ handles[e] \in Nat /\ C2[e] \in Nat /\ C[e] \in Nat
      BY <1>1, <1>8, <1>9, Ones DEF Counts
    <3>5. QED
      BY <1>10, <3>1, <3>2, <3>3, <3>4
  <2>2. QED
    BY <1>1, <1>4, <1>9, <2>1 DEF Counts
<1>13. Outcomes(act, kd, tg, why, res, J, t, w)
  BY <1>1, <1>3, <1>5 DEF Outcomes
<1>14. CASE act[t]
  <2>1. /\ slot2 \in [AEvent -> {"unset", "natural"} \cup Wrap] /\ slot2[t] = w
        /\ \A e \in AEvent : e # t => slot2[e] = slot[e]
    BY <1>1, <1>2, <1>14 DEF Values, Sets
  <2>2. /\ \A e \in AEvent : act[e] => why[e] = "active"
        /\ \A e \in AEvent : why[e] = "active" => slot[e] = "unset"
        /\ \A e \in AEvent : Rightly(kd, why[e], slot[e])
    BY <1>1, <1>4 DEF Values
  <2>3. why[t] = "active" /\ t # "active"
    BY <1>2, <1>4, <1>14
  <2>4. \A e \in AEvent : why[e] = "active" /\ ~(e = t /\ act[e]) => slot2[e] = "unset"
    BY <1>14, <2>1, <2>2
  <2>5. \A y \in Wrap : y # "active"
    BY <1>4
  <2>6. Rightly(kd, "active", slot2[t])
    BY <2>5 DEF Rightly
  <2>7. \A e \in AEvent : Rightly(kd, why[e], slot2[e])
    BY <2>1, <2>2, <2>3, <2>6
  <2>8. Values(act, kd, why, slot2, t)
    BY <1>1, <2>1, <2>2, <2>4, <2>7 DEF Values
  <2>9. w \notin {"natural", "hook"} /\ w # "unset"
    BY <1>2, <1>4 DEF Shape3
  <2>10. Rightly(kd, w, slot2[t])
    BY <1>2, <1>5, <2>1, <2>9 DEF Rightly, Grips
  <2>11. May(act, kd, tg, slot2, J, t, w)
    BY <1>2, <1>14, <2>10 DEF May
  <2>12. QED
    BY <1>1, <1>2, <1>8, <1>11, <1>12, <1>13, <2>8, <2>11 DEF Group
<1>15. CASE ~act[t]
  <2>1. Values(act, kd, why, slot2, t)
    BY <1>1, <1>4, <1>15 DEF Values, Sets
  <2>2. QED
    BY <1>1, <1>2, <1>8, <1>11, <1>12, <1>13, <1>15, <2>1 DEF Group
<1>16. QED
  BY <1>14, <1>15

\* t has one reference more.
Gains(refs, t, refs2) == refs2 = [refs EXCEPT ![t] = @ + 1]

\* w triggers its active target t without a value, through a copy of the event<>.
LEMMA UnblockGroup ==
  ASSUME Shape3,
         NEW act, NEW kd, NEW tg, NEW Q, NEW C, NEW U, NEW handles, NEW refs, NEW life, NEW holds,
         NEW node, NEW slot, NEW res, NEW why, NEW H, NEW D, NEW F, NEW O, NEW L, NEW E,
         NEW w, NEW J, NEW K, Moved(H, D, w, J, K), NEW t, t = tg[w],
         Group(act, kd, tg, Q, C, U, handles, refs, life, holds, node, slot, res, why,
               H, D, F, O, L, E, "active", "active", "active"),
         kd[w] \in {"helper", "map"}, act[t],
         NEW refs2, Gains(refs, t, refs2),
         NEW res2, Outcomes(act, kd, tg, why, res2, J, t, w)
  PROVE  /\ Group(act, kd, tg, Q, C, U, handles, refs2, life, holds, node, slot, res2, why,
                  J, K, F, O, L, E, t, t, w)
         /\ May(act, kd, tg, slot, J, t, w)
<1>1. /\ WrapTypes(act, kd, tg, Q)
      /\ Values(act, kd, why, slot, "active")
      /\ Counts(act, C, U, handles, refs, life, O, E, "active", "active")
  BY DEF Group
<1>2. /\ w \in Wrap /\ t \in AEvent /\ ~act[w] /\ w \notin J /\ kd[w] # "none"
      /\ SetsAre(J, K, F, O, L, E)
      /\ Calls(act, kd, tg, Q, J, K, F, L, E, t)
      /\ Nodes(act, kd, holds, handles, node, J, K)
      /\ slot[t] = "unset" /\ why[t] = "active" /\ life[t] = "live"
      /\ \A v \in Wrap : Ties(kd[v]) /\ ~act[v] /\ v \notin J /\ tg[v] = t => v = w
  <2>1. Left(act, kd, tg, Q, handles, life, holds, node, slot, why, F, O, L, E, w, t, J, K)
    BY HookMoves
  <2>2. QED
    BY <2>1 DEF Left
<1>4. "active" \notin AEvent /\ \A v \in Wrap : v \in AEvent /\ tg[v] \in AEvent
  BY <1>1 DEF WrapTypes, Shape3, AEvent
<1>5. Counts(act, C, U, handles, refs2, life, O, E, t, t)
  <2>0. refs \in [AEvent -> Nat]
    BY <1>1 DEF Counts
  <2>1. /\ refs2 \in [AEvent -> Nat] /\ refs2[t] = refs[t] + 1
        /\ \A e \in AEvent : e # t => refs2[e] = refs[e]
    BY <1>2, <2>0 DEF Gains
  <2>2. ASSUME NEW e \in AEvent
        PROVE  refs2[e] = handles[e] + C[e] + One(e \in U) + One(e \in O) + One(e = t)
    <3>1. refs[e] = handles[e] + C[e] + One(e \in U) + One(e \in O) + One(e = "active")
      BY <1>1 DEF Counts
    <3>2. One(e = "active") = 0
      BY <1>4 DEF One
    <3>3. One(e = t) = IF e = t THEN 1 ELSE 0
      BY DEF One
    <3>4. /\ One(e \in U) \in {0, 1} /\ One(e \in O) \in {0, 1}
          /\ handles[e] \in Nat /\ C[e] \in Nat
      BY <1>1, Ones DEF Counts
    <3>5. QED
      BY <2>1, <3>1, <3>2, <3>3, <3>4
  <2>3. \A e \in AEvent : life[e] = "live" /\ refs2[e] = 0 /\ e # t => e \in E
    BY <1>1, <1>4, <2>1 DEF Counts
  <2>4. QED
    BY <1>1, <2>1, <2>2, <2>3 DEF Counts
<1>6. Values(act, kd, why, slot, t)
  BY <1>1, <1>4 DEF Values
<1>7. w \notin {"natural", "hook"}
  BY <1>2, <1>4 DEF Shape3
<1>8. Rightly(kd, w, slot[t])
  BY <1>2, <1>7 DEF Rightly
<1>9. May(act, kd, tg, slot, J, t, w)
  BY <1>2, <1>8 DEF May
<1>10. QED
  BY <1>1, <1>2, <1>5, <1>6, <1>9 DEF Group

\* w leaves its target alone.
LEMMA LeaveGroup ==
  ASSUME Shape3,
         NEW act, NEW kd, NEW tg, NEW Q, NEW C, NEW U, NEW handles, NEW refs, NEW life, NEW holds,
         NEW node, NEW slot, NEW res, NEW why, NEW H, NEW D, NEW F, NEW O, NEW L, NEW E,
         NEW w, NEW J, NEW K, Moved(H, D, w, J, K),
         Group(act, kd, tg, Q, C, U, handles, refs, life, holds, node, slot, res, why,
               H, D, F, O, L, E, "active", "active", "active"),
         ~Ties(kd[w]) \/ ~act[tg[w]],
         NEW res2, Outcomes(act, kd, tg, why, res2, J, "active", "active")
  PROVE  Group(act, kd, tg, Q, C, U, handles, refs, life, holds, node, slot, res2, why,
               J, K, F, O, L, E, "active", "active", "active")
<1>0. PICK t : t = tg[w]
  OBVIOUS
<1>1. /\ WrapTypes(act, kd, tg, Q)
      /\ Values(act, kd, why, slot, "active")
      /\ Counts(act, C, U, handles, refs, life, O, E, "active", "active")
  BY DEF Group
<1>2. /\ SetsAre(J, K, F, O, L, E)
      /\ ~Ties(kd[w]) \/ ~act[t] => Calls(act, kd, tg, Q, J, K, F, L, E, "active")
      /\ Nodes(act, kd, holds, handles, node, J, K)
  <2>1. Left(act, kd, tg, Q, handles, life, holds, node, slot, why, F, O, L, E, w, t, J, K)
    BY <1>0, HookMoves
  <2>2. QED
    BY <2>1 DEF Left
<1>3. QED
  BY <1>0, <1>1, <1>2 DEF Group

\* The hook of w is on top of the stack; r is the stack with the deletion of w instead.
HookTop(w, v, r) ==
  /\ w \in Wrap /\ v \in BOOLEAN
  /\ Wraps!Self = w /\ Wraps!Frame.values = v /\ Wraps!Rest = r
  /\ Stacked(r)
  /\ Moved(Hooking(astack), Deleting(astack), w, Hooking(r), Deleting(r))
  /\ Finishing(r) = Finishing(astack) /\ Owing(r) = Owing(astack)
  /\ Listing(r) = Listing(astack) /\ Ending(r) = Ending(astack)

\* The hook that is on top of the stack.
LEMMA AtHook ==
  ASSUME WrapInv, Wraps!TopIs("hook")
  PROVE  \E w, v, r : HookTop(w, v, r)
<1>1. astack # <<>> /\ Head(astack).op = "hook"
  BY DEF Wraps!TopIs
<1>p. PICK f, b : OnFrame(f, b)
  BY <1>1, Popped
<1>2. /\ f = Head(astack) /\ b = Tail(astack) /\ f \in AFrame /\ Stacked(b) /\ Fits(f, b)
      /\ astack = Top(f, b) /\ b \in Seq(AFrame)
      /\ Hooking(astack) = HookOf(f) \cup Hooking(b)
      /\ Deleting(astack) = DeleteOf(f) \cup Deleting(b)
      /\ Finishing(astack) = FinishOf(f) \cup Finishing(b)
      /\ Owing(astack) = OwedOf(f) \cup Owing(b)
      /\ Listing(astack) = ListOf(f) \cup Listing(b)
      /\ Ending(astack) = EndOf(f) \cup Ending(b)
  BY <1>p DEF OnFrame
<1>3. PICK w \in Wrap, v \in BOOLEAN : f = HookFrame(w, v) /\ f.w = w /\ f.values = v
  BY <1>1, <1>2, FrameIs
<1>4. /\ HookOf(f) = {w} /\ DeleteOf(f) = {} /\ FinishOf(f) = {}
      /\ OwedOf(f) = {} /\ ListOf(f) = {} /\ EndOf(f) = {}
  BY <1>3, HookFrameIs
<1>5. PICK g : g = DeleteFrame(w)
  OBVIOUS
<1>6. /\ g \in AFrame /\ g.op = "delete" /\ HookOf(g) = {} /\ DeleteOf(g) = {w} /\ FinishOf(g) = {}
      /\ OwedOf(g) = {} /\ ListOf(g) = {} /\ EndOf(g) = {}
  BY <1>5, DeleteFrameIs
<1>7. PICK r : r = Top(g, b)
  OBVIOUS
<1>8. w \notin Hooking(b) /\ w \notin Deleting(b)
  BY <1>2, <1>4 DEF Fits
<1>9. Fits(g, b)
  BY <1>6, <1>8 DEF Fits
<1>10. Stacked(r) /\ Over(r, g, b)
  BY <1>2, <1>6, <1>7, <1>9, Push
<1>11. /\ Hooking(r) = HookOf(g) \cup Hooking(b) /\ Deleting(r) = DeleteOf(g) \cup Deleting(b)
       /\ Finishing(r) = FinishOf(g) \cup Finishing(b) /\ Owing(r) = OwedOf(g) \cup Owing(b)
       /\ Listing(r) = ListOf(g) \cup Listing(b) /\ Ending(r) = EndOf(g) \cup Ending(b)
  BY <1>10 DEF Over
<1>12. /\ Finishing(r) = Finishing(astack) /\ Owing(r) = Owing(astack)
       /\ Listing(r) = Listing(astack) /\ Ending(r) = Ending(astack)
  BY <1>2, <1>4, <1>6, <1>11
<1>13. /\ Hooking(astack) = {w} \cup Hooking(b) /\ Deleting(astack) = Deleting(b)
       /\ Hooking(r) = Hooking(b) /\ Deleting(r) = {w} \cup Deleting(b)
  BY <1>2, <1>4, <1>6, <1>11
<1>14. Moved(Hooking(astack), Deleting(astack), w, Hooking(r), Deleting(r))
  BY <1>8, <1>13 DEF Moved
<1>15. Wraps!Self = w /\ Wraps!Frame.values = v
  BY <1>2, <1>3 DEF Wraps!Self, Wraps!Frame
<1>16. Wraps!Rest = r
  BY <1>2, <1>5, <1>7, <1>15 DEF Wraps!Rest, Top, DeleteFrame
<1>17. QED
  BY <1>10, <1>12, <1>14, <1>15, <1>16 DEF HookTop

\* The groups of the state and of the stack without the hook.
LEMMA AtGroup ==
  ASSUME WrapInv
  PROVE  /\ Stacked(astack) /\ Lists(ahooks)
         /\ Group(aactive, akind, atarget, CallSets(ahooks), Held(aholds, atarget),
                  Due(CallSets(ahooks), Listing(astack)), ahandles, arefs, alife, aholds, anode,
                  aslot, aresult, awhy, Hooking(astack), Deleting(astack), Finishing(astack),
                  Owing(astack), Listing(astack), Ending(astack), "active", "active", "active")
BY DEF WrapInv, Whole, Ready

\* The hooks of the adapters, one by one.
LEMMA BindHookKeeps ==
  ASSUME Shape3, IsFiniteSet(Wrap), WrapInv, Wraps!BindHook
  PROVE  WrapInv'
<1>1. Wraps!TopIs("hook")
  BY DEF Wraps!BindHook
<1>2. PICK w, v, r : HookTop(w, v, r)
  BY <1>1, AtHook
<1>3. /\ w \in Wrap /\ Wraps!Self = w /\ Wraps!Rest = r /\ Stacked(r)
      /\ Finishing(r) = Finishing(astack) /\ Owing(r) = Owing(astack)
      /\ Listing(r) = Listing(astack) /\ Ending(r) = Ending(astack)
  BY <1>2 DEF HookTop
<1>4. PICK t, s2, h2 : t = atarget[w] /\ s2 = aslot' /\ h2 = aholds'
  OBVIOUS
<1>5. /\ akind[w] = "bind"
      /\ Sets(aactive, aslot, t, w, s2) /\ Off(aholds, w, h2)
      /\ Wraps!SimpleTrigger(t, TRUE, w, arefs, r)
      /\ UNCHANGED <<ahandles, ahooks, akind, atarget, anode, aresult>>
  BY <1>3, <1>4 DEF Wraps!BindHook, Sets, Off
<1>6. PICK J, K, Q, U, F, O, L, E, H, D :
        /\ J = Hooking(r) /\ K = Deleting(r) /\ H = Hooking(astack) /\ D = Deleting(astack)
        /\ Q = CallSets(ahooks) /\ U = Due(CallSets(ahooks), Listing(astack))
        /\ F = Finishing(astack) /\ O = Owing(astack) /\ L = Listing(astack) /\ E = Ending(astack)
  OBVIOUS
<1>7. Moved(H, D, w, J, K)
  BY <1>2, <1>6 DEF HookTop
<1>8. Group(aactive, akind, atarget, Q, Held(aholds, atarget), U, ahandles, arefs, alife, aholds,
            anode, aslot, aresult, awhy, H, D, F, O, L, E, "active", "active", "active")
  BY <1>6, AtGroup
<1>9. /\ Group(aactive, akind, atarget, Q, Held(h2, atarget), U, ahandles, arefs, alife, h2, anode,
               s2, aresult, awhy, J, K, F, O, L, E, t, t, w)
      /\ aactive[t] => May(aactive, akind, atarget, s2, J, t, w)
  BY <1>4, <1>5, <1>7, <1>8, ReleaseGroup
<1>10. Lists(ahooks)
  BY AtGroup
<1>11. Ready(aactive, akind, atarget, ahooks, ahandles, arefs, alife, h2, anode, s2, aresult, awhy,
             r, t, t, w)
  BY <1>3, <1>6, <1>9, <1>10 DEF Ready
<1>12. t \in AEvent
  BY <1>3, <1>4, <1>9 DEF Group, WrapTypes
<1>13. aactive[t] => May(aactive, akind, atarget, s2, Hooking(r), t, w)
  BY <1>6, <1>9
<1>14. Whole(aactive', akind, atarget, ahooks, ahandles, arefs', alife', h2, anode, s2, aresult,
             awhy', astack')
  BY <1>5, <1>11, <1>12, <1>13, SimpleKeeps
<1>15. QED
  BY <1>4, <1>5, <1>14 DEF WrapInv

LEMMA MapHookKeeps ==
  ASSUME Shape3, IsFiniteSet(Wrap), WrapInv, Wraps!MapHook
  PROVE  WrapInv'
<1>1. Wraps!TopIs("hook")
  BY DEF Wraps!MapHook
<1>2. PICK w, v, r : HookTop(w, v, r)
  BY <1>1, AtHook
<1>3. /\ w \in Wrap /\ Wraps!Self = w /\ Wraps!Rest = r /\ Stacked(r)
      /\ Finishing(r) = Finishing(astack) /\ Owing(r) = Owing(astack)
      /\ Listing(r) = Listing(astack) /\ Ending(r) = Ending(astack)
  BY <1>2 DEF HookTop
<1>4. PICK t, s2, h2 : t = atarget[w] /\ s2 = aslot' /\ h2 = aholds'
  OBVIOUS
<1>5. /\ akind[w] = "map"
      /\ UNCHANGED <<ahandles, ahooks, akind, atarget, anode, aresult>>
  BY <1>3, <1>4 DEF Wraps!MapHook
<1>6. PICK J, K, Q, U, F, O, L, E, H, D :
        /\ J = Hooking(r) /\ K = Deleting(r) /\ H = Hooking(astack) /\ D = Deleting(astack)
        /\ Q = CallSets(ahooks) /\ U = Due(CallSets(ahooks), Listing(astack))
        /\ F = Finishing(astack) /\ O = Owing(astack) /\ L = Listing(astack) /\ E = Ending(astack)
  OBVIOUS
<1>7. Moved(H, D, w, J, K)
  BY <1>2, <1>6 DEF HookTop
<1>8. Group(aactive, akind, atarget, Q, Held(aholds, atarget), U, ahandles, arefs, alife, aholds,
            anode, aslot, aresult, awhy, H, D, F, O, L, E, "active", "active", "active")
  BY <1>6, AtGroup
<1>10. Lists(ahooks)
  BY AtGroup
<1>12. t \in AEvent
  BY <1>3, <1>4, <1>8 DEF Group, WrapTypes
<1>o. Outcomes(aactive, akind, atarget, awhy, aresult, H, "active", "active")
  BY <1>8 DEF Group
<1>13. CASE /\ aactive[t] /\ Sets(aactive, aslot, t, w, s2) /\ Off(aholds, w, h2)
            /\ Wraps!SimpleTrigger(t, TRUE, w, arefs, r)
  <2>1. /\ Group(aactive, akind, atarget, Q, Held(h2, atarget), U, ahandles, arefs, alife, h2, anode,
                 s2, aresult, awhy, J, K, F, O, L, E, t, t, w)
        /\ aactive[t] => May(aactive, akind, atarget, s2, J, t, w)
    BY <1>4, <1>5, <1>7, <1>8, <1>13, ReleaseGroup
  <2>2. Ready(aactive, akind, atarget, ahooks, ahandles, arefs, alife, h2, anode, s2, aresult, awhy,
              r, t, t, w)
    BY <1>3, <1>6, <1>10, <2>1 DEF Ready
  <2>3. aactive[t] => May(aactive, akind, atarget, s2, Hooking(r), t, w)
    BY <1>6, <2>1
  <2>4. Whole(aactive', akind, atarget, ahooks, ahandles, arefs', alife', h2, anode, s2, aresult,
              awhy', astack')
    BY <1>12, <1>13, <2>2, <2>3, SimpleKeeps
  <2>5. QED
    BY <1>4, <1>5, <2>4 DEF WrapInv
<1>14. CASE /\ aactive[t] /\ UNCHANGED <<aslot, aholds>>
            /\ Wraps!SimpleTrigger(t, FALSE, w, [arefs EXCEPT ![t] = @ + 1], r)
  <2>0. PICK refs2 : refs2 = [arefs EXCEPT ![t] = @ + 1]
    OBVIOUS
  <2>1. Outcomes(aactive, akind, atarget, awhy, aresult, J, t, w)
    BY <1>o, <1>5, <1>7 DEF Outcomes, Moved
  <2>2. /\ Group(aactive, akind, atarget, Q, Held(aholds, atarget), U, ahandles, refs2, alife, aholds,
                 anode, aslot, aresult, awhy, J, K, F, O, L, E, t, t, w)
        /\ May(aactive, akind, atarget, aslot, J, t, w)
    <3>1. Gains(arefs, t, refs2) /\ akind[w] \in {"helper", "map"} /\ aactive[t]
      BY <1>5, <1>14, <2>0 DEF Gains
    <3>2. QED
      BY <1>4, <1>7, <1>8, <2>1, <3>1, UnblockGroup
  <2>3. Ready(aactive, akind, atarget, ahooks, ahandles, refs2, alife, aholds, anode, aslot, aresult,
              awhy, r, t, t, w)
    BY <1>3, <1>6, <1>10, <2>2 DEF Ready
  <2>4. aactive[t] => May(aactive, akind, atarget, aslot, Hooking(r), t, w)
    BY <1>6, <2>2
  <2>5. Wraps!SimpleTrigger(t, FALSE, w, refs2, r)
    BY <1>14, <2>0
  <2>6. Whole(aactive', akind, atarget, ahooks, ahandles, arefs', alife', aholds, anode, aslot,
              aresult, awhy', astack')
    BY <1>12, <2>3, <2>4, <2>5, SimpleKeeps
  <2>7. QED
    BY <1>4, <1>5, <1>14, <2>6 DEF WrapInv
<1>15. CASE /\ ~aactive[t] /\ astack' = r
            /\ UNCHANGED <<alife, aactive, arefs, awhy, aslot, aholds>>
  <2>1. Outcomes(aactive, akind, atarget, awhy, aresult, J, "active", "active")
    BY <1>o, <1>5, <1>7 DEF Outcomes, Moved
  <2>2. Group(aactive, akind, atarget, Q, Held(aholds, atarget), U, ahandles, arefs, alife, aholds,
              anode, aslot, aresult, awhy, J, K, F, O, L, E, "active", "active", "active")
    BY <1>4, <1>7, <1>8, <1>15, <2>1, LeaveGroup
  <2>3. Whole(aactive, akind, atarget, ahooks, ahandles, arefs, alife, aholds, anode, aslot, aresult,
              awhy, r)
    BY <1>3, <1>6, <1>10, <2>2 DEF Whole, Ready
  <2>4. QED
    BY <1>5, <1>15, <2>3 DEF WrapInv
<1>16. QED
  <2>1. CASE /\ aactive[t] /\ aslot' = [aslot EXCEPT ![t] = w]
             /\ aholds' = [aholds EXCEPT ![w] = FALSE]
             /\ Wraps!SimpleTrigger(t, TRUE, w, arefs, r)
    <3>1. Sets(aactive, aslot, t, w, s2) /\ Off(aholds, w, h2)
      BY <1>4, <2>1 DEF Sets, Off
    <3>2. QED
      BY <1>13, <2>1, <3>1
  <2>2. QED
    BY <1>3, <1>4, <1>14, <1>15, <2>1 DEF Wraps!MapHook

LEMMA FunHookKeeps ==
  ASSUME Shape3, WrapInv, Wraps!FunHook
  PROVE  WrapInv'
<1>1. Wraps!TopIs("hook")
  BY DEF Wraps!FunHook
<1>2. PICK w, v, r : HookTop(w, v, r)
  BY <1>1, AtHook
<1>3. /\ w \in Wrap /\ Wraps!Self = w /\ Wraps!Rest = r /\ Stacked(r)
      /\ Finishing(r) = Finishing(astack) /\ Owing(r) = Owing(astack)
      /\ Listing(r) = Listing(astack) /\ Ending(r) = Ending(astack)
  BY <1>2 DEF HookTop
<1>4. /\ akind[w] = "fun" /\ astack' = <<[op |-> "user"]>> \o r
      /\ UNCHANGED <<alife, aactive, arefs, ahandles, ahooks, akind, atarget, aholds, anode,
                     aslot, aresult, awhy>>
  BY <1>3 DEF Wraps!FunHook
<1>5. PICK J, K, Q, U, F, O, L, E, H, D :
        /\ J = Hooking(r) /\ K = Deleting(r) /\ H = Hooking(astack) /\ D = Deleting(astack)
        /\ Q = CallSets(ahooks) /\ U = Due(CallSets(ahooks), Listing(astack))
        /\ F = Finishing(astack) /\ O = Owing(astack) /\ L = Listing(astack) /\ E = Ending(astack)
  OBVIOUS
<1>6. Moved(H, D, w, J, K)
  BY <1>2, <1>5 DEF HookTop
<1>7. Group(aactive, akind, atarget, Q, Held(aholds, atarget), U, ahandles, arefs, alife, aholds,
            anode, aslot, aresult, awhy, H, D, F, O, L, E, "active", "active", "active")
  BY <1>5, AtGroup
<1>8. Lists(ahooks)
  BY AtGroup
<1>9. Outcomes(aactive, akind, atarget, awhy, aresult, J, "active", "active")
  <2>1. Outcomes(aactive, akind, atarget, awhy, aresult, H, "active", "active")
    BY <1>7 DEF Group
  <2>2. QED
    BY <1>4, <1>6, <2>1 DEF Outcomes, Moved
<1>10. Group(aactive, akind, atarget, Q, Held(aholds, atarget), U, ahandles, arefs, alife, aholds,
             anode, aslot, aresult, awhy, J, K, F, O, L, E, "active", "active", "active")
  <2>1. ~Ties(akind[w]) \/ ~aactive[atarget[w]]
    BY <1>4 DEF Ties
  <2>2. QED
    BY <1>6, <1>7, <1>9, <2>1, LeaveGroup
<1>11. PICK f, u : f = UserFrame /\ u = astack'
  OBVIOUS
<1>12. /\ f \in AFrame /\ f.op = "user" /\ HookOf(f) = {} /\ DeleteOf(f) = {} /\ FinishOf(f) = {}
       /\ OwedOf(f) = {} /\ ListOf(f) = {} /\ EndOf(f) = {}
  BY <1>11, UserFrameIs
<1>13. u = Top(f, r)
  BY <1>4, <1>11 DEF Top, UserFrame
<1>14. Stacked(u) /\ Over(u, f, r)
  <2>1. Fits(f, r)
    BY <1>12 DEF Fits
  <2>2. QED
    BY <1>3, <1>12, <1>13, <2>1, Push
<1>15. /\ Hooking(u) = J /\ Deleting(u) = K /\ Finishing(u) = F /\ Owing(u) = O
       /\ Listing(u) = L /\ Ending(u) = E
  <2>1. /\ Hooking(u) = HookOf(f) \cup Hooking(r) /\ Deleting(u) = DeleteOf(f) \cup Deleting(r)
        /\ Finishing(u) = FinishOf(f) \cup Finishing(r) /\ Owing(u) = OwedOf(f) \cup Owing(r)
        /\ Listing(u) = ListOf(f) \cup Listing(r) /\ Ending(u) = EndOf(f) \cup Ending(r)
    BY <1>14 DEF Over
  <2>2. QED
    BY <1>3, <1>5, <1>12, <2>1
<1>16. Whole(aactive, akind, atarget, ahooks, ahandles, arefs, alife, aholds, anode, aslot, aresult,
             awhy, u)
  BY <1>5, <1>8, <1>10, <1>14, <1>15 DEF Whole, Ready
<1>17. QED
  BY <1>4, <1>11, <1>16 DEF WrapInv

\* with_helper notes who ended the event before it triggers it.
LEMMA HelperOutcomes ==
  ASSUME Shape3, Wraps!AdapterAssumption,
         NEW act, NEW kd, NEW tg, NEW why, NEW res, NEW H, NEW J, NEW t, NEW w \in Wrap,
         tg \in [Wrap -> AEvent], kd[w] = "helper", w \in H, J = H \ {w}, t = tg[w],
         Outcomes(act, kd, tg, why, res, H, "active", "active"),
         NEW res2, Puts(res, Tracker[w], IF act[t] THEN w ELSE "zero", res2)
  PROVE  /\ act[t] => Outcomes(act, kd, tg, why, res2, J, t, w)
         /\ ~act[t] => Outcomes(act, kd, tg, why, res2, J, "active", "active")
<1>1. /\ Tracker \in [Wrap -> Wrap] /\ \A u, v \in Wrap : Tracker[u] = Tracker[v] => u = v
  BY DEF Wraps!AdapterAssumption
<1>2. "active" \notin AEvent /\ \A v \in Wrap : v # "active"
  BY DEF Shape3, AEvent
<1>3. /\ res \in [Wrap -> {"unset", "zero"} \cup Wrap]
      /\ \A v \in Wrap : kd[v] = "helper" /\ (act[v] \/ v \in H) => why[tg[v]] # v
      /\ \A v \in Wrap : kd[v] = "helper" /\ ~act[v] /\ v \notin H =>
           res[Tracker[v]] = IF why[tg[v]] = v THEN v ELSE "zero"
  BY <1>2 DEF Outcomes
<1>4. /\ res2 \in [Wrap -> {"unset", "zero"} \cup Wrap]
      /\ res2[Tracker[w]] = IF act[t] THEN w ELSE "zero"
      /\ \A v \in Wrap : v # w => res2[Tracker[v]] = res[Tracker[v]]
  <2>1. Tracker[w] \in Wrap /\ \A v \in Wrap : Tracker[v] \in Wrap
    BY <1>1
  <2>2. PICK k, z : k = Tracker[w] /\ z = (IF act[t] THEN w ELSE "zero")
    OBVIOUS
  <2>3. res2 = [res EXCEPT ![k] = z] /\ z \in {"unset", "zero"} \cup Wrap /\ k \in Wrap
    BY <2>1, <2>2 DEF Puts
  <2>4. /\ res2 \in [Wrap -> {"unset", "zero"} \cup Wrap] /\ res2[k] = z
        /\ \A j \in Wrap : j # k => res2[j] = res[j]
    BY <1>3, <2>3
  <2>5. QED
    BY <1>1, <2>1, <2>2, <2>4
<1>5. \A v \in Wrap : kd[v] = "helper" /\ (act[v] \/ v \in J) => why[tg[v]] # v
  BY <1>3
<1>6. why[t] # w
  BY <1>3
<1>7. ASSUME NEW v \in Wrap, kd[v] = "helper", ~act[v], v \notin J, v # w
      PROVE  res2[Tracker[v]] = IF why[tg[v]] = v THEN v ELSE "zero"
  BY <1>3, <1>4, <1>7
<1>8. ASSUME act[t] PROVE Outcomes(act, kd, tg, why, res2, J, t, w)
  <2>1. ASSUME NEW v \in Wrap, kd[v] = "helper", ~act[v], v \notin J
        PROVE  res2[Tracker[v]] = IF (v = w /\ tg[v] = t /\ act[t]) \/ why[tg[v]] = v
                                  THEN v ELSE "zero"
    <3>1. CASE v = w
      BY <1>4, <1>8, <3>1
    <3>2. CASE v # w
      BY <1>7, <2>1, <3>2
    <3>3. QED
      BY <3>1, <3>2
  <2>2. QED
    BY <1>4, <1>5, <2>1 DEF Outcomes
<1>9. ASSUME ~act[t] PROVE Outcomes(act, kd, tg, why, res2, J, "active", "active")
  <2>1. ASSUME NEW v \in Wrap, kd[v] = "helper", ~act[v], v \notin J
        PROVE  res2[Tracker[v]] = IF (v = "active" /\ tg[v] = "active" /\ act["active"])
                                     \/ why[tg[v]] = v THEN v ELSE "zero"
    <3>1. v # "active"
      BY <1>2
    <3>2. CASE v = w
      BY <1>4, <1>6, <1>9, <3>1, <3>2
    <3>3. CASE v # w
      BY <1>7, <2>1, <3>1, <3>3
    <3>4. QED
      BY <3>2, <3>3
  <2>2. QED
    BY <1>4, <1>5, <2>1 DEF Outcomes
<1>10. QED
  BY <1>8, <1>9

LEMMA HelperHookKeeps ==
  ASSUME Shape3, Wraps!AdapterAssumption, WrapInv, Wraps!HelperHook
  PROVE  WrapInv'
<1>1. Wraps!TopIs("hook")
  BY DEF Wraps!HelperHook
<1>2. PICK w, v, r : HookTop(w, v, r)
  BY <1>1, AtHook
<1>3. /\ w \in Wrap /\ Wraps!Self = w /\ Wraps!Rest = r /\ Stacked(r)
      /\ Finishing(r) = Finishing(astack) /\ Owing(r) = Owing(astack)
      /\ Listing(r) = Listing(astack) /\ Ending(r) = Ending(astack)
  BY <1>2 DEF HookTop
<1>4. PICK t, res2 : t = atarget[w] /\ res2 = aresult'
  OBVIOUS
<1>5. /\ akind[w] = "helper"
      /\ UNCHANGED <<ahandles, ahooks, akind, atarget, aholds, anode, aslot>>
      /\ Puts(aresult, Tracker[w], IF aactive[t] THEN w ELSE "zero", res2)
  BY <1>3, <1>4 DEF Wraps!HelperHook, Puts
<1>6. PICK J, K, Q, U, F, O, L, E, H, D :
        /\ J = Hooking(r) /\ K = Deleting(r) /\ H = Hooking(astack) /\ D = Deleting(astack)
        /\ Q = CallSets(ahooks) /\ U = Due(CallSets(ahooks), Listing(astack))
        /\ F = Finishing(astack) /\ O = Owing(astack) /\ L = Listing(astack) /\ E = Ending(astack)
  OBVIOUS
<1>7. Moved(H, D, w, J, K) /\ w \in H /\ J = H \ {w}
  <2>1. Moved(H, D, w, J, K)
    BY <1>2, <1>6 DEF HookTop
  <2>2. QED
    BY <2>1 DEF Moved
<1>8. Group(aactive, akind, atarget, Q, Held(aholds, atarget), U, ahandles, arefs, alife, aholds,
            anode, aslot, aresult, awhy, H, D, F, O, L, E, "active", "active", "active")
  BY <1>6, AtGroup
<1>10. Lists(ahooks)
  BY AtGroup
<1>12. t \in AEvent /\ atarget \in [Wrap -> AEvent]
  BY <1>3, <1>4, <1>8 DEF Group, WrapTypes
<1>o. /\ aactive[t] => Outcomes(aactive, akind, atarget, awhy, res2, J, t, w)
      /\ ~aactive[t] => Outcomes(aactive, akind, atarget, awhy, res2, J, "active", "active")
  <2>1. Outcomes(aactive, akind, atarget, awhy, aresult, H, "active", "active")
    BY <1>8 DEF Group
  <2>2. QED
    BY <1>3, <1>4, <1>5, <1>7, <1>12, <2>1, HelperOutcomes
<1>14. CASE /\ aactive[t]
            /\ Wraps!SimpleTrigger(t, FALSE, w, [arefs EXCEPT ![t] = @ + 1], r)
  <2>0. PICK refs2 : refs2 = [arefs EXCEPT ![t] = @ + 1]
    OBVIOUS
  <2>1. Outcomes(aactive, akind, atarget, awhy, res2, J, t, w)
    BY <1>o, <1>14
  <2>2. /\ Group(aactive, akind, atarget, Q, Held(aholds, atarget), U, ahandles, refs2, alife, aholds,
                 anode, aslot, res2, awhy, J, K, F, O, L, E, t, t, w)
        /\ May(aactive, akind, atarget, aslot, J, t, w)
    <3>1. Gains(arefs, t, refs2) /\ akind[w] \in {"helper", "map"} /\ aactive[t]
      BY <1>5, <1>14, <2>0 DEF Gains
    <3>2. QED
      BY <1>4, <1>7, <1>8, <2>1, <3>1, UnblockGroup
  <2>3. Ready(aactive, akind, atarget, ahooks, ahandles, refs2, alife, aholds, anode, aslot, res2,
              awhy, r, t, t, w)
    BY <1>3, <1>6, <1>10, <2>2 DEF Ready
  <2>4. aactive[t] => May(aactive, akind, atarget, aslot, Hooking(r), t, w)
    BY <1>6, <2>2
  <2>5. Wraps!SimpleTrigger(t, FALSE, w, refs2, r)
    BY <1>14, <2>0
  <2>6. Whole(aactive', akind, atarget, ahooks, ahandles, arefs', alife', aholds, anode, aslot,
              res2, awhy', astack')
    BY <1>12, <2>3, <2>4, <2>5, SimpleKeeps
  <2>7. QED
    BY <1>4, <1>5, <1>14, <2>6 DEF WrapInv
<1>15. CASE /\ ~aactive[t] /\ astack' = r
            /\ UNCHANGED <<alife, aactive, arefs, awhy>>
  <2>1. Outcomes(aactive, akind, atarget, awhy, res2, J, "active", "active")
    BY <1>o, <1>15
  <2>2. Group(aactive, akind, atarget, Q, Held(aholds, atarget), U, ahandles, arefs, alife, aholds,
              anode, aslot, res2, awhy, J, K, F, O, L, E, "active", "active", "active")
    BY <1>4, <1>7, <1>8, <1>15, <2>1, LeaveGroup
  <2>3. Whole(aactive, akind, atarget, ahooks, ahandles, arefs, alife, aholds, anode, aslot, res2,
              awhy, r)
    BY <1>3, <1>6, <1>10, <2>2 DEF Whole, Ready
  <2>4. QED
    BY <1>4, <1>5, <1>15, <2>3 DEF WrapInv
<1>16. QED
  BY <1>3, <1>4, <1>14, <1>15 DEF Wraps!HelperHook

(***************************************************************************)
(* delete self                                                             *)
(***************************************************************************)

\* The rendezvous of w is deleted, and its event<> with it.
Freed(D, K, w, node, node2, holds, h2) ==
  /\ w \in D /\ K = D \ {w}
  /\ node2 = [node EXCEPT ![w] = "deleted"] /\ Off(holds, w, h2)

Dropped(b, t) == IF b THEN t ELSE "active"

\* A rendezvous that is deleted holds nothing any more.
LEMMA DeleteGroup ==
  ASSUME Shape3, IsFiniteSet(Wrap),
         NEW act, NEW kd, NEW tg, NEW Q, NEW U, NEW handles, NEW refs, NEW life, NEW holds,
         NEW node, NEW slot, NEW res, NEW why, NEW H, NEW D, NEW F, NEW O, NEW L, NEW E,
         Group(act, kd, tg, Q, Held(holds, tg), U, handles, refs, life, holds, node, slot, res, why,
               H, D, F, O, L, E, "active", "active", "active"),
         NEW w, NEW K, NEW node2, NEW h2, Freed(D, K, w, node, node2, holds, h2)
  PROVE  /\ Group(act, kd, tg, Q, Held(h2, tg), U, handles, refs, life, h2, node2, slot, res, why,
                  H, K, F, O, L, E, Dropped(holds[w], tg[w]), "active", "active")
         /\ w \in Wrap /\ tg[w] \in AEvent /\ (holds[w] => ~act[tg[w]])
<1>1. /\ WrapTypes(act, kd, tg, Q) /\ SetsAre(H, D, F, O, L, E)
      /\ Calls(act, kd, tg, Q, H, D, F, L, E, "active")
      /\ Values(act, kd, why, slot, "active")
      /\ Outcomes(act, kd, tg, why, res, H, "active", "active")
      /\ Counts(act, Held(holds, tg), U, handles, refs, life, O, E, "active", "active")
      /\ Nodes(act, kd, holds, handles, node, H, D)
  BY DEF Group
<1>2. w \in D /\ K = D \ {w} /\ node2 = [node EXCEPT ![w] = "deleted"] /\ Off(holds, w, h2)
  BY DEF Freed
<1>3. SetsAre(H, K, F, O, L, E) /\ w \in Wrap /\ w \notin H
  BY <1>1, <1>2 DEF SetsAre
<1>4. "active" \notin AEvent /\ \A v \in Wrap : v \in AEvent /\ tg[v] \in AEvent
  BY <1>1 DEF WrapTypes, Shape3, AEvent
<1>5. ~act[w] /\ kd[w] # "none"
  BY <1>1, <1>2 DEF Calls
<1>6. holds \in [Wrap -> BOOLEAN] /\ tg \in [Wrap -> AEvent]
      /\ node \in [Wrap -> {"unborn", "live", "deleted"}]
  BY <1>1 DEF Nodes, WrapTypes
<1>7. h2 \in [Wrap -> BOOLEAN] /\ ~h2[w] /\ \A v \in Wrap : v # w => h2[v] = holds[v]
  BY <1>2, <1>3, <1>6 DEF Off
<1>8. /\ node2 \in [Wrap -> {"unborn", "live", "deleted"}] /\ node2[w] = "deleted"
      /\ \A v \in Wrap : v # w => node2[v] = node[v]
  BY <1>2, <1>3, <1>6
<1>9. Calls(act, kd, tg, Q, H, K, F, L, E, "active")
  <2>1. \A v \in H \cup K : v \in H \cup D
    BY <1>2
  <2>2. QED
    BY <1>1, <2>1 DEF Calls
<1>10. Nodes(act, kd, h2, handles, node2, H, K)
  <2>1. \A v \in Wrap : kd[v] # "none" => (node2[v] = "live" <=> act[v] \/ v \in H \cup K)
    <3> TAKE v \in Wrap
    <3>1. CASE v = w
      BY <1>2, <1>3, <1>5, <1>8, <3>1
    <3>2. CASE v # w
      BY <1>1, <1>2, <1>8, <3>2 DEF Nodes
    <3>3. QED
      BY <3>1, <3>2
  <2>2. /\ \A v \in Wrap : h2[v] => Grips(kd[v])
        /\ \A v \in Wrap : Grips(kd[v]) /\ (act[v] \/ v \in H) => h2[v]
    BY <1>1, <1>3, <1>5, <1>7 DEF Nodes
  <2>3. QED
    BY <1>1, <1>7, <1>8, <2>1, <2>2 DEF Nodes
<1>11. PICK C, C2, g : C = Held(holds, tg) /\ C2 = Held(h2, tg) /\ g = Dropped(holds[w], tg[w])
  OBVIOUS
<1>12. C2 \in [AEvent -> Nat] /\ C \in [AEvent -> Nat]
  BY <1>11, HeldAre
<1>13. \A e \in AEvent : /\ e = g => C[e] = C2[e] + 1
                         /\ e # g => C[e] = C2[e]
  <2>1. ASSUME NEW e \in AEvent
        PROVE  /\ h2 \in [Wrap -> BOOLEAN] /\ ~h2[w] /\ \A v \in Wrap : v # w => h2[v] = holds[v]
               /\ holds[w] /\ e = tg[w] => Held(holds, tg)[e] = Held(h2, tg)[e] + 1
               /\ ~holds[w] \/ e # tg[w] => Held(holds, tg)[e] = Held(h2, tg)[e]
    BY <1>2, <1>3, <1>6, HeldOff
  <2>2. QED
    BY <1>4, <1>11, <2>1 DEF Dropped
<1>14. Counts(act, C2, U, handles, refs, life, O, E, g, "active")
  <2>1. ASSUME NEW e \in AEvent
        PROVE  refs[e] = handles[e] + C2[e] + One(e \in U) + One(e \in O) + One(e = g)
    <3>1. refs[e] = handles[e] + C[e] + One(e \in U) + One(e \in O) + One(e = "active")
      BY <1>1, <1>11 DEF Counts
    <3>2. One(e = "active") = 0
      BY <1>4 DEF One
    <3>3. One(e = g) = IF e = g THEN 1 ELSE 0
      BY DEF One
    <3>4. /\ One(e \in U) \in {0, 1} /\ One(e \in O) \in {0, 1}
          /\ handles[e] \in Nat /\ C2[e] \in Nat /\ C[e] \in Nat
      BY <1>1, <1>11, <1>12, Ones DEF Counts
    <3>5. QED
      BY <1>13, <3>1, <3>2, <3>3, <3>4
  <2>2. QED
    BY <1>1, <1>4, <1>12, <2>1 DEF Counts
<1>15. ASSUME holds[w] PROVE ~act[tg[w]]
  <2>1. Ties(kd[w])
    BY <1>1, <1>3, <1>15 DEF Nodes, Grips, Ties
  <2>2. tg[w] # "active"
    BY <1>3, <1>4
  <2>3. QED
    BY <1>1, <1>3, <1>5, <2>1, <2>2 DEF Calls
<1>16. QED
  BY <1>1, <1>3, <1>4, <1>9, <1>10, <1>11, <1>14, <1>15 DEF Group

\* The deletion of a rendezvous, with e_ if it has not been released.
LEMMA DeleteSelfKeeps ==
  ASSUME Shape3, IsFiniteSet(Wrap), WrapInv, Wraps!DeleteSelf
  PROVE  WrapInv'
<1>1. astack # <<>> /\ Head(astack).op = "delete"
  BY DEF Wraps!DeleteSelf, Wraps!TopIs
<1>p. PICK f, b : OnFrame(f, b)
  BY <1>1, Popped
<1>2. /\ f = Head(astack) /\ b = Tail(astack) /\ f \in AFrame /\ Stacked(b) /\ Fits(f, b)
      /\ astack = Top(f, b) /\ b \in Seq(AFrame)
      /\ Hooking(astack) = HookOf(f) \cup Hooking(b)
      /\ Deleting(astack) = DeleteOf(f) \cup Deleting(b)
      /\ Finishing(astack) = FinishOf(f) \cup Finishing(b)
      /\ Owing(astack) = OwedOf(f) \cup Owing(b)
      /\ Listing(astack) = ListOf(f) \cup Listing(b)
      /\ Ending(astack) = EndOf(f) \cup Ending(b)
  BY <1>p DEF OnFrame
<1>3. PICK w \in Wrap : f = DeleteFrame(w) /\ f.w = w
  BY <1>1, <1>2, FrameIs
<1>4. /\ HookOf(f) = {} /\ DeleteOf(f) = {w} /\ FinishOf(f) = {}
      /\ OwedOf(f) = {} /\ ListOf(f) = {} /\ EndOf(f) = {}
  BY <1>3, DeleteFrameIs
<1>5. PICK Q, U, H, D, F, O, L, E :
        /\ H = Hooking(astack) /\ D = Deleting(astack)
        /\ Q = CallSets(ahooks) /\ U = Due(CallSets(ahooks), Listing(astack))
        /\ F = Finishing(astack) /\ O = Owing(astack) /\ L = Listing(astack) /\ E = Ending(astack)
  OBVIOUS
<1>6. PICK K : K = Deleting(b)
  OBVIOUS
<1>7. /\ Hooking(b) = H /\ D = {w} \cup K /\ Finishing(b) = F /\ Owing(b) = O
      /\ Listing(b) = L /\ Ending(b) = E
  <2>1. /\ H = HookOf(f) \cup Hooking(b) /\ D = DeleteOf(f) \cup K
        /\ F = FinishOf(f) \cup Finishing(b) /\ O = OwedOf(f) \cup Owing(b)
        /\ L = ListOf(f) \cup Listing(b) /\ E = EndOf(f) \cup Ending(b)
    BY <1>2, <1>5, <1>6
  <2>2. QED
    BY <1>4, <2>1
<1>8. w \notin K
  BY <1>2, <1>4, <1>6 DEF Fits
<1>9. Wraps!Self = w
  BY <1>2, <1>3 DEF Wraps!Self, Wraps!Frame
<1>10. PICK node2, h2, t : node2 = anode' /\ h2 = aholds' /\ t = atarget[w]
  OBVIOUS
<1>11. /\ node2 = [anode EXCEPT ![w] = "deleted"] /\ Off(aholds, w, h2)
       /\ IF aholds[w] THEN Wraps!Unuse(t, w, arefs, b)
          ELSE astack' = b /\ UNCHANGED <<alife, aactive, arefs, awhy>>
       /\ UNCHANGED <<ahandles, ahooks, akind, atarget, aslot, aresult>>
  BY <1>2, <1>9, <1>10 DEF Wraps!DeleteSelf, Off
<1>12. Freed(D, K, w, anode, node2, aholds, h2)
  BY <1>7, <1>8, <1>11 DEF Freed
<1>13. Group(aactive, akind, atarget, Q, Held(aholds, atarget), U, ahandles, arefs, alife, aholds,
             anode, aslot, aresult, awhy, H, D, F, O, L, E, "active", "active", "active")
  BY <1>5, AtGroup
<1>14. Lists(ahooks)
  BY AtGroup
<1>15. /\ Group(aactive, akind, atarget, Q, Held(h2, atarget), U, ahandles, arefs, alife, h2, node2,
                aslot, aresult, awhy, H, K, F, O, L, E, Dropped(aholds[w], atarget[w]),
                "active", "active")
       /\ w \in Wrap /\ atarget[w] \in AEvent /\ (aholds[w] => ~aactive[atarget[w]])
  BY <1>12, <1>13, DeleteGroup
<1>16. CASE aholds[w]
  <2>1. Dropped(aholds[w], atarget[w]) = t
    BY <1>10, <1>16 DEF Dropped
  <2>2. Ready(aactive, akind, atarget, ahooks, ahandles, arefs, alife, h2, node2, aslot, aresult,
              awhy, b, t, "active", "active")
    BY <1>2, <1>5, <1>6, <1>7, <1>14, <1>15, <2>1 DEF Ready
  <2>3. Wraps!Unuse(t, w, arefs, b) /\ t \in AEvent /\ (aactive[t] => w \in {"natural", "hook"})
    BY <1>10, <1>11, <1>15, <1>16
  <2>4. Whole(aactive', akind, atarget, ahooks, ahandles, arefs', alife', h2, node2, aslot,
              aresult, awhy', astack')
    BY <2>2, <2>3, UnuseKeeps
  <2>5. QED
    BY <1>10, <1>11, <2>4 DEF WrapInv
<1>17. CASE ~aholds[w]
  <2>1. Dropped(aholds[w], atarget[w]) = "active"
    BY <1>17 DEF Dropped
  <2>2. Whole(aactive, akind, atarget, ahooks, ahandles, arefs, alife, h2, node2, aslot, aresult,
              awhy, b)
    BY <1>2, <1>5, <1>6, <1>7, <1>14, <1>15, <2>1 DEF Whole, Ready
  <2>3. QED
    BY <1>10, <1>11, <1>17, <2>2 DEF WrapInv
<1>18. QED
  BY <1>16, <1>17

\* The end of a fun_event.
LEMMA FunReturnsKeeps ==
  ASSUME WrapInv, Wraps!FunReturns
  PROVE  WrapInv'
<1>1. astack # <<>> /\ Head(astack).op = "user"
  BY DEF Wraps!FunReturns, Wraps!TopIs
<1>p. PICK f, b : OnFrame(f, b)
  BY <1>1, Popped
<1>2. /\ f = Head(astack) /\ b = Tail(astack) /\ f \in AFrame /\ Stacked(b)
      /\ Hooking(astack) = HookOf(f) \cup Hooking(b)
      /\ Deleting(astack) = DeleteOf(f) \cup Deleting(b)
      /\ Finishing(astack) = FinishOf(f) \cup Finishing(b)
      /\ Owing(astack) = OwedOf(f) \cup Owing(b)
      /\ Listing(astack) = ListOf(f) \cup Listing(b)
      /\ Ending(astack) = EndOf(f) \cup Ending(b)
  BY <1>p DEF OnFrame
<1>3. f = UserFrame
  BY <1>1, <1>2, FrameIs
<1>4. /\ HookOf(f) = {} /\ DeleteOf(f) = {} /\ FinishOf(f) = {}
      /\ OwedOf(f) = {} /\ ListOf(f) = {} /\ EndOf(f) = {}
  BY <1>3, UserFrameIs
<1>5. /\ Hooking(b) = Hooking(astack) /\ Deleting(b) = Deleting(astack)
      /\ Finishing(b) = Finishing(astack) /\ Owing(b) = Owing(astack)
      /\ Listing(b) = Listing(astack) /\ Ending(b) = Ending(astack)
  BY <1>2, <1>4
<1>6. Whole(aactive, akind, atarget, ahooks, ahandles, arefs, alife, aholds, anode, aslot, aresult,
            awhy, b)
  BY <1>2, <1>5, AtGroup DEF Whole, Ready
<1>7. astack' = b /\ UNCHANGED <<alife, aactive, arefs, ahandles, ahooks, akind, atarget, aholds,
                                 anode, aslot, aresult, awhy>>
  BY <1>2 DEF Wraps!FunReturns
<1>8. QED
  BY <1>6, <1>7 DEF WrapInv

\* One handle to e is given up.
Loses(handles, e, h2) == h2 = [handles EXCEPT ![e] = @ - 1]

\* A handle that is there is to an event that has been made.
LEMMA GiveGroup ==
  ASSUME Shape3,
         NEW act, NEW kd, NEW tg, NEW Q, NEW C, NEW U, NEW handles, NEW refs, NEW life, NEW holds,
         NEW node, NEW slot, NEW res, NEW why, NEW H, NEW D, NEW F, NEW O, NEW L, NEW E,
         NEW x, NEW y, NEW e \in AEvent,
         Group(act, kd, tg, Q, C, U, handles, refs, life, holds, node, slot, res, why,
               H, D, F, O, L, E, "active", x, y),
         handles[e] > 0, NEW h2, Loses(handles, e, h2)
  PROVE  Group(act, kd, tg, Q, C, U, h2, refs, life, holds, node, slot, res, why,
               H, D, F, O, L, E, e, x, y)
<1>1. /\ WrapTypes(act, kd, tg, Q) /\ SetsAre(H, D, F, O, L, E)
      /\ Calls(act, kd, tg, Q, H, D, F, L, E, x)
      /\ Values(act, kd, why, slot, x)
      /\ Outcomes(act, kd, tg, why, res, H, x, y)
      /\ Counts(act, C, U, handles, refs, life, O, E, "active", x)
      /\ Nodes(act, kd, holds, handles, node, H, D)
  BY DEF Group
<1>2. "active" \notin AEvent /\ \A w \in Wrap : w \in AEvent
  BY DEF Shape3, AEvent
<1>3. handles \in [AEvent -> Nat]
  BY <1>1 DEF Counts
<1>4. /\ h2 \in [AEvent -> Nat] /\ h2[e] = handles[e] - 1
      /\ \A d \in AEvent : d # e => h2[d] = handles[d]
  <2>1. handles[e] - 1 \in Nat
    BY <1>3
  <2>2. QED
    BY <1>3, <2>1 DEF Loses
<1>5. Counts(act, C, U, h2, refs, life, O, E, e, x)
  <2>1. ASSUME NEW d \in AEvent
        PROVE  refs[d] = h2[d] + C[d] + One(d \in U) + One(d \in O) + One(d = e)
    <3>1. refs[d] = handles[d] + C[d] + One(d \in U) + One(d \in O) + One(d = "active")
      BY <1>1 DEF Counts
    <3>2. One(d = "active") = 0
      BY <1>2 DEF One
    <3>3. One(d = e) = IF d = e THEN 1 ELSE 0
      BY DEF One
    <3>4. /\ One(d \in U) \in {0, 1} /\ One(d \in O) \in {0, 1}
          /\ handles[d] \in Nat /\ C[d] \in Nat
      BY <1>1, Ones DEF Counts
    <3>5. QED
      BY <1>4, <3>1, <3>2, <3>3, <3>4
  <2>2. QED
    BY <1>1, <1>4, <2>1 DEF Counts
<1>6. Nodes(act, kd, holds, h2, node, H, D)
  <2>1. \A w \in Wrap : kd[w] = "none" => h2[w] = 0
    BY <1>1, <1>2, <1>4 DEF Nodes
  <2>2. QED
    BY <1>1, <2>1 DEF Nodes
<1>7. QED
  BY <1>1, <1>5, <1>6 DEF Group

\* The program sets the value of e, or not.
Stores(slot, e, v, slot2) == slot2 = [slot EXCEPT ![e] = IF v THEN "natural" ELSE @]

\* The program sets the value of an active event.
LEMMA StoreGroup ==
  ASSUME Shape3,
         NEW act, NEW kd, NEW tg, NEW Q, NEW C, NEW U, NEW handles, NEW refs, NEW life, NEW holds,
         NEW node, NEW slot, NEW res, NEW why, NEW H, NEW D, NEW F, NEW O, NEW L, NEW E,
         NEW g, NEW e \in AEvent, NEW v \in BOOLEAN, v => act[e],
         Group(act, kd, tg, Q, C, U, handles, refs, life, holds, node, slot, res, why,
               H, D, F, O, L, E, g, e, "natural"),
         act[e] => May(act, kd, tg, slot, H, e, "natural"),
         NEW slot2, Stores(slot, e, v, slot2)
  PROVE  /\ Group(act, kd, tg, Q, C, U, handles, refs, life, holds, node, slot2, res, why,
                  H, D, F, O, L, E, g, e, "natural")
         /\ act[e] => May(act, kd, tg, slot2, H, e, "natural")
<1>1. /\ WrapTypes(act, kd, tg, Q) /\ SetsAre(H, D, F, O, L, E)
      /\ Calls(act, kd, tg, Q, H, D, F, L, E, e)
      /\ Values(act, kd, why, slot, e)
      /\ Outcomes(act, kd, tg, why, res, H, e, "natural")
      /\ Counts(act, C, U, handles, refs, life, O, E, g, e)
      /\ Nodes(act, kd, holds, handles, node, H, D)
  BY DEF Group
<1>2. /\ "active" \notin AEvent /\ "natural" \notin AEvent /\ \A w \in Wrap : w \in AEvent
  BY DEF Shape3, AEvent
<1>3. /\ why \in [AEvent -> {"active", "natural", "hook"} \cup Wrap]
      /\ slot \in [AEvent -> {"unset", "natural"} \cup Wrap]
      /\ \A d \in AEvent : act[d] => why[d] = "active"
      /\ \A d \in AEvent : why[d] = "active" /\ ~(d = e /\ act[d]) => slot[d] = "unset"
      /\ \A d \in AEvent : Rightly(kd, why[d], slot[d])
      /\ \A w \in Wrap : kd[w] = "none" => why[w] = "active"
  BY <1>1 DEF Values
<1>4. CASE v
  <2>1. /\ slot2 \in [AEvent -> {"unset", "natural"} \cup Wrap] /\ slot2[e] = "natural"
        /\ \A d \in AEvent : d # e => slot2[d] = slot[d]
    BY <1>3, <1>4 DEF Stores
  <2>2. act[e] /\ why[e] = "active"
    BY <1>3, <1>4
  <2>3. Rightly(kd, "active", slot2[e])
    BY <1>2 DEF Rightly
  <2>4. \A d \in AEvent : Rightly(kd, why[d], slot2[d])
    BY <1>3, <2>1, <2>2, <2>3
  <2>5. Values(act, kd, why, slot2, e)
    BY <1>3, <2>1, <2>2, <2>4 DEF Values
  <2>6. Rightly(kd, "natural", slot2[e])
    BY <1>2, <2>1 DEF Rightly
  <2>7. May(act, kd, tg, slot2, H, e, "natural")
    BY <2>2, <2>6 DEF May
  <2>8. QED
    BY <1>1, <2>5, <2>7 DEF Group
<1>5. CASE ~v
  <2>1. slot2 = slot
    BY <1>3, <1>5 DEF Stores
  <2>2. QED
    BY <2>1
<1>6. QED
  BY <1>4, <1>5

\* The operations of the program, one by one.
LEMMA TriggerKeeps ==
  ASSUME Shape3, WrapInv, NEW e \in AEvent, NEW v \in BOOLEAN, Wraps!Trigger(e, v)
  PROVE  WrapInv'
<1>1. PICK h2, s2 : h2 = ahandles' /\ s2 = aslot'
  OBVIOUS
<1>2. /\ ahandles[e] > 0 /\ (v => aactive[e])
      /\ Loses(ahandles, e, h2) /\ Stores(aslot, e, v, s2)
      /\ Wraps!SimpleTrigger(e, v, "natural", arefs, astack)
      /\ UNCHANGED <<ahooks, akind, atarget, aholds, anode, aresult>>
  BY <1>1 DEF Wraps!Trigger, Loses, Stores
<1>3. PICK Q, C, U, F, O, L, E, H, D :
        /\ H = Hooking(astack) /\ D = Deleting(astack)
        /\ Q = CallSets(ahooks) /\ U = Due(CallSets(ahooks), Listing(astack))
        /\ C = Held(aholds, atarget)
        /\ F = Finishing(astack) /\ O = Owing(astack) /\ L = Listing(astack) /\ E = Ending(astack)
  OBVIOUS
<1>4. Group(aactive, akind, atarget, Q, C, U, ahandles, arefs, alife, aholds,
            anode, aslot, aresult, awhy, H, D, F, O, L, E, "active", "active", "active")
  BY <1>3, AtGroup
<1>5. /\ Group(aactive, akind, atarget, Q, C, U, ahandles, arefs, alife, aholds,
               anode, aslot, aresult, awhy, H, D, F, O, L, E, "active", e, "natural")
      /\ aactive[e] => May(aactive, akind, atarget, aslot, H, e, "natural")
  <2>1. "natural" \in {"natural", "hook"}
    OBVIOUS
  <2>2. QED
    BY <1>4, <2>1, Begins
<1>6. Group(aactive, akind, atarget, Q, C, U, h2, arefs, alife, aholds,
            anode, aslot, aresult, awhy, H, D, F, O, L, E, e, e, "natural")
  BY <1>2, <1>5, GiveGroup
<1>7. /\ Group(aactive, akind, atarget, Q, C, U, h2, arefs, alife, aholds,
               anode, s2, aresult, awhy, H, D, F, O, L, E, e, e, "natural")
      /\ aactive[e] => May(aactive, akind, atarget, s2, H, e, "natural")
  BY <1>2, <1>5, <1>6, StoreGroup
<1>8. Stacked(astack) /\ Lists(ahooks)
  BY AtGroup
<1>9. Ready(aactive, akind, atarget, ahooks, h2, arefs, alife, aholds, anode, s2, aresult, awhy,
            astack, e, e, "natural")
  BY <1>3, <1>7, <1>8 DEF Ready
<1>10. aactive[e] => May(aactive, akind, atarget, s2, Hooking(astack), e, "natural")
  BY <1>3, <1>7
<1>11. Whole(aactive', akind, atarget, ahooks, h2, arefs', alife', aholds, anode, s2, aresult,
             awhy', astack')
  BY <1>2, <1>9, <1>10, SimpleKeeps
<1>12. QED
  BY <1>1, <1>2, <1>11 DEF WrapInv

LEMMA DropKeeps ==
  ASSUME Shape3, WrapInv, NEW e \in AEvent, Wraps!Drop(e)
  PROVE  WrapInv'
<1>1. PICK h2 : h2 = ahandles'
  OBVIOUS
<1>2. /\ ahandles[e] > 0
      /\ Loses(ahandles, e, h2)
      /\ Wraps!Unuse(e, "natural", arefs, astack)
      /\ UNCHANGED <<ahooks, akind, atarget, aholds, anode, aslot, aresult>>
  BY <1>1 DEF Wraps!Drop, Loses
<1>3. PICK Q, C, U, F, O, L, E, H, D :
        /\ H = Hooking(astack) /\ D = Deleting(astack)
        /\ Q = CallSets(ahooks) /\ U = Due(CallSets(ahooks), Listing(astack))
        /\ C = Held(aholds, atarget)
        /\ F = Finishing(astack) /\ O = Owing(astack) /\ L = Listing(astack) /\ E = Ending(astack)
  OBVIOUS
<1>4. Group(aactive, akind, atarget, Q, C, U, ahandles, arefs, alife, aholds,
            anode, aslot, aresult, awhy, H, D, F, O, L, E, "active", "active", "active")
  BY <1>3, AtGroup
<1>5. Group(aactive, akind, atarget, Q, C, U, h2, arefs, alife, aholds,
            anode, aslot, aresult, awhy, H, D, F, O, L, E, e, "active", "active")
  BY <1>2, <1>4, GiveGroup
<1>6. Stacked(astack) /\ Lists(ahooks)
  BY AtGroup
<1>7. Ready(aactive, akind, atarget, ahooks, h2, arefs, alife, aholds, anode, aslot, aresult, awhy,
            astack, e, "active", "active")
  BY <1>3, <1>5, <1>6 DEF Ready
<1>8. "natural" \in {"natural", "hook"}
  OBVIOUS
<1>9. Whole(aactive', akind, atarget, ahooks, h2, arefs', alife', aholds, anode, aslot, aresult,
            awhy', astack')
  BY <1>2, <1>7, <1>8, UnuseKeeps
<1>10. QED
  BY <1>1, <1>2, <1>9 DEF WrapInv

LEMMA CopyKeeps ==
  ASSUME Shape3, WrapInv, NEW e \in AEvent, Wraps!Copy(e)
  PROVE  WrapInv'
<1>1. PICK h2, refs2 : h2 = ahandles' /\ refs2 = arefs'
  OBVIOUS
<1>2. /\ ahandles[e] \in 1 .. MaxHandles - 1
      /\ h2 = [ahandles EXCEPT ![e] = @ + 1] /\ refs2 = [arefs EXCEPT ![e] = @ + 1]
      /\ UNCHANGED <<alife, aactive, ahooks, akind, atarget, aholds, anode, aslot, aresult, awhy,
                     astack>>
  BY <1>1 DEF Wraps!Copy
<1>3. PICK Q, C, U, F, O, L, E, H, D :
        /\ H = Hooking(astack) /\ D = Deleting(astack)
        /\ Q = CallSets(ahooks) /\ U = Due(CallSets(ahooks), Listing(astack))
        /\ C = Held(aholds, atarget)
        /\ F = Finishing(astack) /\ O = Owing(astack) /\ L = Listing(astack) /\ E = Ending(astack)
  OBVIOUS
<1>4. /\ WrapTypes(aactive, akind, atarget, Q) /\ SetsAre(H, D, F, O, L, E)
      /\ Calls(aactive, akind, atarget, Q, H, D, F, L, E, "active")
      /\ Values(aactive, akind, awhy, aslot, "active")
      /\ Outcomes(aactive, akind, atarget, awhy, aresult, H, "active", "active")
      /\ Counts(aactive, C, U, ahandles, arefs, alife, O, E, "active", "active")
      /\ Nodes(aactive, akind, aholds, ahandles, anode, H, D)
  BY <1>3, AtGroup DEF Group
<1>5. "active" \notin AEvent /\ \A w \in Wrap : w \in AEvent
  BY DEF Shape3, AEvent
<1>6. ahandles \in [AEvent -> Nat] /\ arefs \in [AEvent -> Nat]
  BY <1>4 DEF Counts
<1>7. /\ h2 \in [AEvent -> Nat] /\ refs2 \in [AEvent -> Nat]
      /\ h2[e] = ahandles[e] + 1 /\ refs2[e] = arefs[e] + 1
      /\ \A d \in AEvent : d # e => h2[d] = ahandles[d] /\ refs2[d] = arefs[d]
  BY <1>2, <1>6
<1>8. Counts(aactive, C, U, h2, refs2, alife, O, E, "active", "active")
  <2>1. ASSUME NEW d \in AEvent
        PROVE  refs2[d] = h2[d] + C[d] + One(d \in U) + One(d \in O) + One(d = "active")
    <3>1. arefs[d] = ahandles[d] + C[d] + One(d \in U) + One(d \in O) + One(d = "active")
      BY <1>4 DEF Counts
    <3>2. /\ One(d = "active") \in {0, 1} /\ One(d \in U) \in {0, 1} /\ One(d \in O) \in {0, 1}
          /\ ahandles[d] \in Nat /\ C[d] \in Nat
      BY <1>4, Ones DEF Counts
    <3>3. QED
      BY <1>7, <3>1, <3>2
  <2>2. \A d \in AEvent : alife[d] = "live" /\ refs2[d] = 0 /\ d # "active" => d \in E
    BY <1>4, <1>6, <1>7 DEF Counts
  <2>3. QED
    BY <1>4, <1>7, <2>1, <2>2 DEF Counts
<1>9. Nodes(aactive, akind, aholds, h2, anode, H, D)
  <2>1. ahandles[e] # 0
    BY <1>2, <1>6
  <2>2. \A w \in Wrap : akind[w] = "none" => h2[w] = 0
    BY <1>4, <1>5, <1>7, <2>1 DEF Nodes
  <2>3. QED
    BY <1>4, <2>2 DEF Nodes
<1>10. Group(aactive, akind, atarget, Q, C, U, h2, refs2, alife, aholds,
             anode, aslot, aresult, awhy, H, D, F, O, L, E, "active", "active", "active")
  BY <1>4, <1>8, <1>9 DEF Group
<1>11. Whole(aactive, akind, atarget, ahooks, h2, refs2, alife, aholds, anode, aslot, aresult, awhy,
             astack)
  BY <1>3, <1>10, AtGroup DEF Whole, Ready
<1>12. QED
  BY <1>1, <1>2, <1>11 DEF WrapInv

LEMMA ClearKeeps ==
  ASSUME Shape3, WrapInv, Wraps!Clear
  PROVE  WrapInv'
<1>0. Root \in AEvent /\ Root \notin Wrap
  BY DEF AEvent, Shape3
<1>1. PICK b, y, n, t : b = aactive' /\ y = awhy' /\ n = ahooks' /\ t = astack'
  OBVIOUS
<1>2. /\ aactive[Root]
      /\ b = [aactive EXCEPT ![Root] = FALSE] /\ y = [awhy EXCEPT ![Root] = "natural"]
      /\ t = <<[op |-> "hooks", ev |-> Root, list |-> ahooks[Root]]>> \o astack
      /\ Puts(ahooks, Root, <<>>, n)
      /\ UNCHANGED <<alife, arefs, ahandles, akind, atarget, aholds, anode, aslot, aresult>>
  BY <1>1 DEF Wraps!Clear, Puts
<1>3. PICK Q, C, U, F, O, L, E, H, D :
        /\ H = Hooking(astack) /\ D = Deleting(astack)
        /\ Q = CallSets(ahooks) /\ U = Due(CallSets(ahooks), Listing(astack))
        /\ C = Held(aholds, atarget)
        /\ F = Finishing(astack) /\ O = Owing(astack) /\ L = Listing(astack) /\ E = Ending(astack)
  OBVIOUS
<1>4. Group(aactive, akind, atarget, Q, C, U, ahandles, arefs, alife, aholds,
            anode, aslot, aresult, awhy, H, D, F, O, L, E, "active", "active", "active")
  BY <1>3, AtGroup
<1>5. /\ Group(aactive, akind, atarget, Q, C, U, ahandles, arefs, alife, aholds,
               anode, aslot, aresult, awhy, H, D, F, O, L, E, "active", Root, "natural")
      /\ aactive[Root] => May(aactive, akind, atarget, aslot, H, Root, "natural")
  <2>1. "natural" \in {"natural", "hook"}
    OBVIOUS
  <2>2. QED
    BY <1>0, <1>4, <2>1, Begins
<1>6. /\ Root \notin E
      /\ Group(b, akind, atarget, Q, C, U, ahandles, arefs, alife, aholds,
               anode, aslot, aresult, y, H, D, F \cup {Root}, O, L, E \cup {Root},
               "active", "active", "active")
  <2>1. PICK r \in BOOLEAN : r = FALSE
    OBVIOUS
  <2>2. Emptied(aactive, awhy, H, Root, "natural", b, y, H)
    <3>1. H = H \cup ({Root} \ {Root})
      OBVIOUS
    <3>2. QED
      BY <1>2, <3>1 DEF Emptied
  <2>3. Owed(O, Root, r, O)
    BY <2>1 DEF Owed
  <2>4. PICK x \in AEvent : x = Root
    BY <1>0
  <2>g. PICK g : g = "active"
    OBVIOUS
  <2>5. g = (IF r THEN x ELSE "active")
    BY <2>1, <2>g
  <2>6. /\ May(aactive, akind, atarget, aslot, H, x, "natural") /\ aactive[x]
        /\ Emptied(aactive, awhy, H, x, "natural", b, y, H) /\ Owed(O, x, r, O)
        /\ Group(aactive, akind, atarget, Q, C, U, ahandles, arefs, alife, aholds,
                 anode, aslot, aresult, awhy, H, D, F, O, L, E, g, x, "natural")
    BY <1>2, <1>5, <2>2, <2>3, <2>4, <2>g
  <2>7. /\ x \notin H \cup D /\ x \notin E
        /\ Group(b, akind, atarget, Q, C, U, ahandles, arefs, alife, aholds, anode, aslot,
                 aresult, y, H, D, F \cup {x}, O, L, E \cup {x}, "active", "active", "active")
    BY <2>5, <2>6, GroupFires
  <2>8. QED
    BY <2>4, <2>7
<1>7. /\ Lists(n) /\ Puts(Q, Root, {}, CallSets(n))
      /\ ahooks[Root] \in Seq(Wrap) /\ Distinct(ahooks[Root]) /\ Members(ahooks[Root]) = Q[Root]
  <2>1. <<>> \in Seq(Wrap) /\ Lists(ahooks)
    BY AtGroup
  <2>2. Members(<<>>) = {} /\ Distinct(<<>>)
    BY MembersAre
  <2>3. /\ Lists(n) /\ Puts(CallSets(ahooks), Root, Members(<<>>), CallSets(n))
        /\ ahooks[Root] \in Seq(Wrap) /\ Distinct(ahooks[Root])
        /\ Members(ahooks[Root]) = CallSets(ahooks)[Root]
    BY <1>0, <1>2, <2>1, <2>2, CallSetsIs
  <2>4. QED
    BY <1>3, <2>2, <2>3
<1>8. PICK l, S, Q2, L2 :
        l \in Seq(Wrap) /\ l = ahooks[Root] /\ S = Q[Root] /\ Q2 = CallSets(n) /\ L2 = L \cup S
  BY <1>7
<1>9. PICK f : f = ListFrame(Root, l)
  OBVIOUS
<1>10. /\ f \in AFrame /\ f.op = "hooks" /\ f.list = l
       /\ HookOf(f) = {} /\ DeleteOf(f) = {} /\ FinishOf(f) = {}
       /\ OwedOf(f) = {} /\ ListOf(f) = Members(l) /\ EndOf(f) = {Root}
  BY <1>0, <1>8, <1>9, ListFrameIs
<1>11. t = Top(f, astack)
  BY <1>2, <1>8, <1>9 DEF Top, ListFrame
<1>12. Distinct(l) /\ Members(l) = S
  BY <1>7, <1>8
<1>13. Fits(f, astack)
  <2>1. S \cap L = {}
    BY <1>0, <1>4, <1>8 DEF Group, Calls
  <2>2. QED
    BY <1>3, <1>10, <1>12, <2>1 DEF Fits
<1>14. Stacked(t) /\ Over(t, f, astack)
  <2>1. Stacked(astack)
    BY AtGroup
  <2>2. QED
    BY <1>10, <1>11, <1>13, <2>1, Push
<1>15. /\ Hooking(t) = H /\ Deleting(t) = D /\ Finishing(t) = F /\ Owing(t) = O
       /\ Listing(t) = L2 /\ Ending(t) = E \cup {Root}
  <2>1. /\ Hooking(t) = HookOf(f) \cup H /\ Deleting(t) = DeleteOf(f) \cup D
        /\ Finishing(t) = FinishOf(f) \cup F /\ Owing(t) = OwedOf(f) \cup O
        /\ Listing(t) = ListOf(f) \cup L /\ Ending(t) = EndOf(f) \cup E
    BY <1>3, <1>14 DEF Over
  <2>2. QED
    BY <1>8, <1>10, <1>12, <2>1
<1>16. PICK E2, F2 : E2 = E \cup {Root} /\ F2 = F \cup {Root}
  OBVIOUS
<1>17. Group(b, akind, atarget, Q2, C, Due(Q2, L2), ahandles, arefs, alife, aholds,
             anode, aslot, aresult, y, H, D, F, O, L2, E2, "active", "active", "active")
  <2>1. PICK r \in BOOLEAN : r = FALSE
    OBVIOUS
  <2>2. F \subseteq E /\ O \subseteq F
    BY <1>4 DEF Group, SetsAre
  <2>3. arefs = [arefs EXCEPT ![Root] = IF r THEN @ - 1 ELSE @]
    <3>1. arefs \in [AEvent -> Nat]
      BY <1>4 DEF Group, Counts
    <3>2. QED
      BY <2>1, <3>1
  <2>4. Finished(Root, r, F2, F, O, O, L, L2, Q, Q2, arefs, arefs)
    <3>1. F2 = F \cup {Root} /\ Root \notin F
      BY <1>6, <1>16, <2>2
    <3>2. O = O \cup (IF r THEN {Root} ELSE {})
      BY <2>1
    <3>3. L2 = L \cup Q[Root] /\ Puts(Q, Root, {}, Q2)
      BY <1>7, <1>8
    <3>4. QED
      BY <2>2, <2>3, <3>1, <3>2, <3>3 DEF Finished
  <2>5. Group(b, akind, atarget, Q, C, Due(Q, L), ahandles, arefs, alife, aholds,
              anode, aslot, aresult, y, H, D, F2, O, L, E2, "active", "active", "active")
    BY <1>3, <1>6, <1>16
  <2>6. QED
    BY <1>0, <2>4, <2>5, FinishGroup
<1>18. Whole(b, akind, atarget, n, ahandles, arefs, alife, aholds, anode, aslot, aresult, y, t)
  BY <1>3, <1>7, <1>8, <1>14, <1>15, <1>16, <1>17 DEF Whole, Ready
<1>19. QED
  BY <1>1, <1>2, <1>18 DEF WrapInv

(***************************************************************************)
(* A new adapter w of kind k, which t will call.                           *)
(***************************************************************************)

\* What an adapter that has not been made is not part of.
LEMMA Unmade ==
  ASSUME Shape3,
         NEW act, NEW kd, NEW tg, NEW Q, NEW U, NEW handles, NEW refs, NEW life, NEW holds,
         NEW node, NEW slot, NEW res, NEW why, NEW H, NEW D, NEW F, NEW O, NEW L, NEW E,
         Group(act, kd, tg, Q, Held(holds, tg), U, handles, refs, life, holds, node, slot, res, why,
               H, D, F, O, L, E, "active", "active", "active"),
         NEW w \in Wrap, kd[w] = "none"
  PROVE  /\ w \in AEvent /\ ~act[w] /\ ~holds[w] /\ handles[w] = 0
         /\ why[w] = "active" /\ slot[w] = "unset"
         /\ w \notin H \cup D /\ w \notin E /\ w \notin O /\ w \notin L
         /\ \A e \in AEvent : w \notin Q[e]
         /\ \A e \in AEvent : why[e] # w
         /\ \A v \in Wrap : Ties(kd[v]) => tg[v] # w
         /\ \A v \in Wrap : ~(holds[v] /\ tg[v] = w)
<1>1. /\ WrapTypes(act, kd, tg, Q) /\ SetsAre(H, D, F, O, L, E)
      /\ Calls(act, kd, tg, Q, H, D, F, L, E, "active")
      /\ Values(act, kd, why, slot, "active")
      /\ Nodes(act, kd, holds, handles, node, H, D)
  BY DEF Group
<1>2. /\ w \in AEvent /\ "active" \notin AEvent /\ w \notin {"active", "natural", "hook"}
  BY DEF Shape3, AEvent
<1>3. ~act[w] /\ w \notin L /\ \A e \in AEvent : w \notin Q[e]
  BY <1>1 DEF Calls
<1>4. w \notin H \cup D /\ w \notin E
  BY <1>1 DEF Calls
<1>5. w \notin O
  BY <1>1, <1>4 DEF SetsAre
<1>6. why[w] = "active" /\ slot[w] = "unset"
  BY <1>1, <1>2 DEF Values
<1>7. \A e \in AEvent : why[e] # w
  BY <1>1, <1>2 DEF Values, Rightly
<1>8. \A v \in Wrap : Ties(kd[v]) => tg[v] # w
  BY <1>1 DEF Calls
<1>9. ~holds[w] /\ handles[w] = 0
  BY <1>1 DEF Nodes, Grips
<1>10. \A v \in Wrap : ~(holds[v] /\ tg[v] = w)
  BY <1>1, <1>8 DEF Nodes, Grips, Ties
<1>11. QED
  BY <1>2, <1>3, <1>4, <1>5, <1>6, <1>7, <1>8, <1>9, <1>10

\* The new adapter's own state.
Made(act, act2, kd, kd2, tg, tg2, holds, h2, node, node2, life, life2, w, u, k) ==
  /\ act2 = [act EXCEPT ![w] = TRUE] /\ kd2 = [kd EXCEPT ![w] = k]
  /\ tg2 = [tg EXCEPT ![w] = u] /\ h2 = [holds EXCEPT ![w] = Grips(k)]
  /\ node2 = [node EXCEPT ![w] = "live"] /\ life2 = [life EXCEPT ![w] = "live"]

\* Its references, and those of t.
Counted(handles, handles2, refs, refs2, w, t, k) ==
  /\ handles2 \in [AEvent -> Nat] /\ refs2 \in [AEvent -> Nat]
  /\ w # t /\ handles[t] > 0
  /\ refs2[w] = handles2[w] + 1
  /\ refs2[t] + handles[t] = refs[t] + handles2[t] + One(Grips(k)) /\ refs2[t] >= refs[t]
  /\ \A e \in AEvent : e # w /\ e # t => handles2[e] = handles[e] /\ refs2[e] = refs[e]

\* The hook of t, or the trigger of w that is about to begin.
Hooked(act, Q, Q2, L, L2, E, E2, w, t) ==
  \/ act[t] /\ Puts(Q, t, Q[t] \cup {w}, Q2) /\ L2 = L /\ E2 = E
  \/ ~act[t] /\ Q2 = Q /\ L2 = L \cup {w} /\ E2 = E \cup {t}

MadeAre(act, act2, kd, kd2, tg, tg2, holds, h2, node, node2, life, life2, w, u, k) ==
  /\ act2 \in [AEvent -> BOOLEAN] /\ act2[w]
  /\ \A e \in AEvent : e # w => act2[e] = act[e]
  /\ kd2 \in [Wrap -> AKinds] /\ kd2[w] = k /\ \A v \in Wrap : v # w => kd2[v] = kd[v]
  /\ tg2 \in [Wrap -> AEvent] /\ tg2[w] = u /\ \A v \in Wrap : v # w => tg2[v] = tg[v]
  /\ h2 \in [Wrap -> BOOLEAN] /\ (h2[w] <=> Grips(k))
  /\ \A v \in Wrap : v # w => h2[v] = holds[v]
  /\ node2 \in [Wrap -> {"unborn", "live", "deleted"}] /\ node2[w] = "live"
  /\ \A v \in Wrap : v # w => node2[v] = node[v]
  /\ life2 \in [AEvent -> {"unborn", "live", "deleted"}] /\ life2[w] = "live"
  /\ \A e \in AEvent : e # w => life2[e] = life[e]

\* The state of a new adapter, and what it leaves alone.
LEMMA MadeTypes ==
  ASSUME NEW act, NEW act2, NEW kd, NEW kd2, NEW tg, NEW tg2, NEW holds, NEW h2, NEW node,
         NEW node2, NEW life, NEW life2, NEW w \in Wrap, NEW u \in AEvent,
         NEW k \in {"bind", "helper", "map", "fun"},
         act \in [AEvent -> BOOLEAN], kd \in [Wrap -> AKinds], tg \in [Wrap -> AEvent],
         holds \in [Wrap -> BOOLEAN], node \in [Wrap -> {"unborn", "live", "deleted"}],
         life \in [AEvent -> {"unborn", "live", "deleted"}],
         Made(act, act2, kd, kd2, tg, tg2, holds, h2, node, node2, life, life2, w, u, k)
  PROVE  MadeAre(act, act2, kd, kd2, tg, tg2, holds, h2, node, node2, life, life2, w, u, k)
<1>1. w \in AEvent
  BY DEF AEvent
<1>2. k \in AKinds
  BY DEF AKinds
<1>3. PICK g : g = Grips(k)
  OBVIOUS
<1>12. g \in BOOLEAN
  BY <1>3 DEF Grips
<1>4. /\ act2 = [act EXCEPT ![w] = TRUE] /\ kd2 = [kd EXCEPT ![w] = k]
      /\ tg2 = [tg EXCEPT ![w] = u] /\ h2 = [holds EXCEPT ![w] = g]
      /\ node2 = [node EXCEPT ![w] = "live"] /\ life2 = [life EXCEPT ![w] = "live"]
  BY <1>3 DEF Made
<1>5. /\ act2 \in [AEvent -> BOOLEAN] /\ act2[w]
      /\ \A e \in AEvent : e # w => act2[e] = act[e]
  BY <1>1, <1>4
<1>6. kd2 \in [Wrap -> AKinds] /\ kd2[w] = k /\ \A v \in Wrap : v # w => kd2[v] = kd[v]
  BY <1>2, <1>4
<1>7. tg2 \in [Wrap -> AEvent] /\ tg2[w] = u /\ \A v \in Wrap : v # w => tg2[v] = tg[v]
  BY <1>4
<1>8. h2 \in [Wrap -> BOOLEAN] /\ h2[w] = g /\ \A v \in Wrap : v # w => h2[v] = holds[v]
  BY <1>4, <1>12
<1>9. /\ node2 \in [Wrap -> {"unborn", "live", "deleted"}] /\ node2[w] = "live"
      /\ \A v \in Wrap : v # w => node2[v] = node[v]
  BY <1>4
<1>10. /\ life2 \in [AEvent -> {"unborn", "live", "deleted"}] /\ life2[w] = "live"
       /\ \A e \in AEvent : e # w => life2[e] = life[e]
  BY <1>1, <1>4
<1>11. QED
  <2>1. h2[w] <=> Grips(k)
    BY <1>3, <1>8
  <2>2. QED
    BY <1>5, <1>6, <1>7, <1>8, <1>9, <1>10, <2>1 DEF MadeAre

HookedAre(act, Q, Q2, L, L2, E, E2, w, t) ==
  /\ Q2 \in [AEvent -> SUBSET Wrap]
  /\ \A e \in AEvent : Q2[e] \cap L2 = {}
  /\ \A d, e \in AEvent : d # e => Q2[d] \cap Q2[e] = {}
  /\ \A v : v # w => /\ v \in L2 <=> v \in L
                     /\ \A e \in AEvent : v \in Q2[e] <=> v \in Q[e]
  /\ w \in L2 \/ (w \in Q2[t] /\ act[t])
  /\ L2 \subseteq L \cup {w} /\ E \subseteq E2 /\ E2 \subseteq E \cup {t}
  /\ t \in E2 \ E => ~act[t]
  /\ \A v : v \in Due(Q2, L2) <=> v \in Due(Q, L) \/ v = w

Unhooked(Q, L, w) ==
  /\ Q \in [AEvent -> SUBSET Wrap] /\ w \notin L /\ \A e \in AEvent : w \notin Q[e]
  /\ \A e \in AEvent : Q[e] \cap L = {}
  /\ \A d, e \in AEvent : d # e => Q[d] \cap Q[e] = {}

\* The new adapter will be called, and only it is new.
LEMMA HookedSets ==
  ASSUME NEW act, NEW Q, NEW Q2, NEW L, NEW L2, NEW E, NEW E2, NEW w \in Wrap, NEW t \in AEvent,
         Hooked(act, Q, Q2, L, L2, E, E2, w, t), Unhooked(Q, L, w)
  PROVE  HookedAre(act, Q, Q2, L, L2, E, E2, w, t)
<1>4. /\ Q \in [AEvent -> SUBSET Wrap] /\ w \notin L /\ \A e \in AEvent : w \notin Q[e]
      /\ \A e \in AEvent : Q[e] \cap L = {}
      /\ \A d, e \in AEvent : d # e => Q[d] \cap Q[e] = {}
  BY DEF Unhooked
<1>1. CASE act[t] /\ Puts(Q, t, Q[t] \cup {w}, Q2) /\ L2 = L /\ E2 = E
  <2>1. /\ Q2 \in [AEvent -> SUBSET Wrap] /\ Q2[t] = Q[t] \cup {w}
        /\ \A e \in AEvent : e # t => Q2[e] = Q[e]
    BY <1>1, <1>4 DEF Puts
  <2>2. \A e \in AEvent : Q2[e] \cap L2 = {}
    BY <1>1, <1>4, <2>1
  <2>3. \A d, e \in AEvent : d # e => Q2[d] \cap Q2[e] = {}
    BY <1>4, <2>1
  <2>4. \A v : v # w => \A e \in AEvent : v \in Q2[e] <=> v \in Q[e]
    BY <1>4, <2>1
  <2>5. \A v : v \in Due(Q2, L2) <=> v \in Due(Q, L) \/ v = w
    <3>1. \A z : z \in Due(Q2, L2) <=> z \in L2 \/ \E e \in AEvent : z \in Q2[e]
      BY DEF Due
    <3>2. \A z : z \in Due(Q, L) <=> z \in L \/ \E e \in AEvent : z \in Q[e]
      BY DEF Due
    <3>3. \A z : (\E e \in AEvent : z \in Q2[e]) <=> z = w \/ \E e \in AEvent : z \in Q[e]
      BY <1>4, <2>1
    <3>4. QED
      BY <1>1, <3>1, <3>2, <3>3
  <2>6. QED
    BY <1>1, <1>4, <2>1, <2>2, <2>3, <2>4, <2>5 DEF HookedAre
<1>2. CASE ~act[t] /\ Q2 = Q /\ L2 = L \cup {w} /\ E2 = E \cup {t}
  <2>5. \A v : v \in Due(Q2, L2) <=> v \in Due(Q, L) \/ v = w
    BY <1>2 DEF Due
  <2>6. \A e \in AEvent : Q2[e] \cap L2 = {}
    BY <1>2, <1>4
  <2>7. QED
    BY <1>2, <1>4, <2>5, <2>6 DEF HookedAre
<1>3. QED
  BY <1>1, <1>2 DEF Hooked

\* Making an adapter keeps all of the invariant.
LEMMA MakeGroup ==
  ASSUME Shape3, IsFiniteSet(Wrap),
         NEW act, NEW kd, NEW tg, NEW Q, NEW handles, NEW refs, NEW life, NEW holds,
         NEW node, NEW slot, NEW res, NEW why, NEW H, NEW D, NEW F, NEW O, NEW L, NEW E,
         Group(act, kd, tg, Q, Held(holds, tg), Due(Q, L), handles, refs, life, holds, node, slot,
               res, why, H, D, F, O, L, E, "active", "active", "active"),
         NEW w \in Wrap, NEW t \in AEvent, NEW u \in AEvent,
         NEW k \in {"bind", "helper", "map", "fun"}, Ties(k) => u = t, kd[w] = "none",
         NEW act2, NEW kd2, NEW tg2, NEW h2, NEW node2, NEW life2, NEW handles2, NEW refs2,
         NEW Q2, NEW L2, NEW E2,
         Made(act, act2, kd, kd2, tg, tg2, holds, h2, node, node2, life, life2, w, u, k),
         Counted(handles, handles2, refs, refs2, w, t, k),
         Hooked(act, Q, Q2, L, L2, E, E2, w, t)
  PROVE  Group(act2, kd2, tg2, Q2, Held(h2, tg2), Due(Q2, L2), handles2, refs2, life2, h2, node2,
               slot, res, why, H, D, F, O, L2, E2, "active", "active", "active")
<1> DEFINE U == Due(Q, L)
           V == Due(Q2, L2)
<1>1. /\ WrapTypes(act, kd, tg, Q) /\ SetsAre(H, D, F, O, L, E)
      /\ Calls(act, kd, tg, Q, H, D, F, L, E, "active")
      /\ Values(act, kd, why, slot, "active")
      /\ Outcomes(act, kd, tg, why, res, H, "active", "active")
      /\ Counts(act, Held(holds, tg), U, handles, refs, life, O, E, "active", "active")
      /\ Nodes(act, kd, holds, handles, node, H, D)
  BY DEF Group
<1>2. /\ "active" \notin AEvent /\ \A v \in Wrap : v \in AEvent /\ v # "active"
  BY DEF Shape3, AEvent
<1>3. /\ act \in [AEvent -> BOOLEAN] /\ kd \in [Wrap -> AKinds] /\ tg \in [Wrap -> AEvent]
      /\ Q \in [AEvent -> SUBSET Wrap]
      /\ holds \in [Wrap -> BOOLEAN] /\ node \in [Wrap -> {"unborn", "live", "deleted"}]
      /\ life \in [AEvent -> {"unborn", "live", "deleted"}]
      /\ handles \in [AEvent -> Nat] /\ refs \in [AEvent -> Nat]
  BY <1>1 DEF WrapTypes, Nodes, Counts
<1>4. /\ w \in AEvent /\ ~act[w] /\ ~holds[w] /\ handles[w] = 0
      /\ why[w] = "active" /\ slot[w] = "unset"
      /\ w \notin H \cup D /\ w \notin E /\ w \notin O /\ w \notin L
      /\ \A e \in AEvent : w \notin Q[e]
      /\ \A e \in AEvent : why[e] # w
      /\ \A v \in Wrap : Ties(kd[v]) => tg[v] # w
      /\ \A v \in Wrap : ~(holds[v] /\ tg[v] = w)
  BY Unmade
<1>5. /\ act2 \in [AEvent -> BOOLEAN] /\ act2[w]
      /\ \A e \in AEvent : e # w => act2[e] = act[e]
      /\ kd2 \in [Wrap -> AKinds] /\ kd2[w] = k /\ \A v \in Wrap : v # w => kd2[v] = kd[v]
      /\ tg2 \in [Wrap -> AEvent] /\ tg2[w] = u /\ \A v \in Wrap : v # w => tg2[v] = tg[v]
      /\ h2 \in [Wrap -> BOOLEAN] /\ (h2[w] <=> Grips(k))
      /\ \A v \in Wrap : v # w => h2[v] = holds[v]
      /\ node2 \in [Wrap -> {"unborn", "live", "deleted"}] /\ node2[w] = "live"
      /\ \A v \in Wrap : v # w => node2[v] = node[v]
      /\ life2 \in [AEvent -> {"unborn", "live", "deleted"}] /\ life2[w] = "live"
      /\ \A e \in AEvent : e # w => life2[e] = life[e]
  <2>1. MadeAre(act, act2, kd, kd2, tg, tg2, holds, h2, node, node2, life, life2, w, u, k)
    BY <1>3, MadeTypes
  <2>2. QED
    BY <2>1 DEF MadeAre
<1>6. /\ Q2 \in [AEvent -> SUBSET Wrap]
      /\ \A e \in AEvent : Q2[e] \cap L2 = {}
      /\ \A d, e \in AEvent : d # e => Q2[d] \cap Q2[e] = {}
      /\ \A v : v # w => /\ v \in L2 <=> v \in L
                         /\ \A e \in AEvent : v \in Q2[e] <=> v \in Q[e]
      /\ w \in L2 \/ (w \in Q2[t] /\ act[t])
      /\ L2 \subseteq L \cup {w} /\ E \subseteq E2 /\ E2 \subseteq E \cup {t}
      /\ t \in E2 \ E => ~act[t]
      /\ \A v : v \in V <=> v \in U \/ v = w
  <2>1. /\ \A e \in AEvent : Q[e] \cap L = {}
        /\ \A d, e \in AEvent : d # e => Q[d] \cap Q[e] = {}
    BY <1>1 DEF Calls
  <2>2. Q \in [AEvent -> SUBSET Wrap] /\ w \notin L /\ \A e \in AEvent : w \notin Q[e]
    BY <1>3, <1>4
  <2>3. QED
    <3>1. Unhooked(Q, L, w)
      BY <2>1, <2>2 DEF Unhooked
    <3>2. HookedAre(act, Q, Q2, L, L2, E, E2, w, t)
      BY <3>1, HookedSets
    <3>3. QED
      BY <3>2 DEF HookedAre
<1>7. /\ handles2 \in [AEvent -> Nat] /\ refs2 \in [AEvent -> Nat]
      /\ w # t /\ handles[t] > 0
      /\ refs2[w] = handles2[w] + 1
      /\ refs2[t] + handles[t] = refs[t] + handles2[t] + One(Grips(k)) /\ refs2[t] >= refs[t]
      /\ \A e \in AEvent : e # w /\ e # t => handles2[e] = handles[e] /\ refs2[e] = refs[e]
  BY DEF Counted
<1>8. t \in Wrap => kd[t] # "none"
  BY <1>1, <1>3, <1>7 DEF Nodes
<1>9. k # "none"
  OBVIOUS
<1>10. WrapTypes(act2, kd2, tg2, Q2)
  BY <1>5, <1>6 DEF WrapTypes
<1>11. SetsAre(H, D, F, O, L2, E2)
  BY <1>1, <1>6 DEF SetsAre
<1>12. Calls(act2, kd2, tg2, Q2, H, D, F, L2, E2, "active")
  <2>1. \A v \in H \cup D : ~act2[v] /\ kd2[v] # "none"
    <3>1. \A v \in H \cup D : v \in Wrap /\ v # w /\ ~act[v] /\ kd[v] # "none"
      BY <1>1, <1>4 DEF SetsAre, Calls
    <3>2. QED
      BY <1>2, <1>5, <3>1
  <2>2. \A e \in E2 : ~act2[e] /\ (e \in Wrap => kd2[e] # "none")
    <3> TAKE e \in E2
    <3>1. e \in AEvent /\ e # w /\ ~act[e] /\ (e \in Wrap => kd[e] # "none")
      <4>1. CASE e \in E
        BY <1>1, <1>4, <4>1 DEF SetsAre, Calls
      <4>2. CASE e \notin E
        BY <1>6, <1>7, <1>8, <4>2
      <4>3. QED
        BY <4>1, <4>2
    <3>2. QED
      BY <1>5, <3>1
  <2>3. \A v \in Wrap : kd2[v] = "none" => ~act2[v] /\ v \notin L2 /\ \A e \in AEvent : v \notin Q2[e]
    <3> TAKE v \in Wrap
    <3> HAVE kd2[v] = "none"
    <3>1. v # w /\ kd[v] = "none"
      BY <1>5, <1>9
    <3>2. ~act[v] /\ v \notin L /\ \A e \in AEvent : v \notin Q[e]
      BY <1>1, <3>1 DEF Calls
    <3>3. QED
      BY <1>2, <1>5, <1>6, <3>1, <3>2
  <2>4. \A v \in Wrap : Ties(kd2[v]) /\ tg2[v] \in Wrap => kd2[tg2[v]] # "none"
    <3> TAKE v \in Wrap
    <3> HAVE Ties(kd2[v]) /\ tg2[v] \in Wrap
    <3>1. CASE v = w
      <4>1. tg2[v] = t
        BY <1>5, <3>1
      <4>2. QED
        BY <1>5, <1>7, <1>8, <4>1
    <3>2. CASE v # w
      <4>1. kd2[v] = kd[v] /\ tg2[v] = tg[v] /\ tg[v] # w
        BY <1>4, <1>5, <3>2
      <4>2. kd[tg[v]] # "none"
        BY <1>1, <4>1 DEF Calls
      <4>3. QED
        BY <1>5, <4>1, <4>2
    <3>3. QED
      BY <3>1, <3>2
  <2>5. \A v \in Wrap : Ties(kd2[v]) /\ act2[v] /\ v # "active" =>
          v \in L2 \/ (v \in Q2[tg2[v]] /\ (act2[tg2[v]] \/ tg2[v] \in F))
    <3> TAKE v \in Wrap
    <3> HAVE Ties(kd2[v]) /\ act2[v] /\ v # "active"
    <3>1. CASE v = w
      <4>1. tg2[v] = t /\ act2[t] = act[t]
        BY <1>5, <1>7, <3>1
      <4>2. QED
        BY <1>6, <3>1, <4>1
    <3>2. CASE v # w
      <4>1. kd2[v] = kd[v] /\ tg2[v] = tg[v] /\ tg[v] # w /\ act[v] /\ tg[v] \in AEvent
        BY <1>2, <1>3, <1>4, <1>5, <3>2
      <4>2. v \in L \/ (v \in Q[tg[v]] /\ (act[tg[v]] \/ tg[v] \in F))
        BY <1>1, <4>1 DEF Calls
      <4>3. QED
        BY <1>5, <1>6, <3>2, <4>1, <4>2
    <3>3. QED
      BY <3>1, <3>2
  <2>6. \A v \in Wrap : Ties(kd2[v]) /\ ~act2[v] /\ act2[tg2[v]] /\ tg2[v] # "active" => v \in H
    <3> TAKE v \in Wrap
    <3> HAVE Ties(kd2[v]) /\ ~act2[v] /\ act2[tg2[v]] /\ tg2[v] # "active"
    <3>1. v # w
      BY <1>5
    <3>2. kd2[v] = kd[v] /\ tg2[v] = tg[v] /\ ~act[v]
      BY <1>2, <1>5, <3>1
    <3>3. tg[v] # w /\ tg[v] \in AEvent /\ act[tg[v]]
      BY <1>3, <1>4, <1>5, <3>2
    <3>4. QED
      BY <1>1, <3>2, <3>3 DEF Calls
  <2>7. QED
    BY <1>6, <2>1, <2>2, <2>3, <2>4, <2>5, <2>6 DEF Calls
<1>13. Values(act2, kd2, why, slot, "active")
  <2>1. /\ why \in [AEvent -> {"active", "natural", "hook"} \cup Wrap]
        /\ slot \in [AEvent -> {"unset", "natural"} \cup Wrap]
        /\ \A e \in AEvent : act[e] => why[e] = "active"
        /\ \A e \in AEvent : why[e] = "active" => slot[e] = "unset"
        /\ \A e \in AEvent : Rightly(kd, why[e], slot[e])
        /\ \A v \in Wrap : kd[v] = "none" => why[v] = "active"
    BY <1>1, <1>2 DEF Values
  <2>2. \A e \in AEvent : act2[e] => why[e] = "active"
    BY <1>4, <1>5, <2>1
  <2>3. \A e \in AEvent : Rightly(kd2, why[e], slot[e])
    <3> TAKE e \in AEvent
    <3>1. why[e] # w /\ Rightly(kd, why[e], slot[e])
      BY <1>4, <2>1
    <3>2. why[e] \in Wrap => kd2[why[e]] = kd[why[e]]
      BY <1>5, <3>1
    <3>3. QED
      BY <3>1, <3>2 DEF Rightly
  <2>4. \A v \in Wrap : kd2[v] = "none" => why[v] = "active"
    BY <1>5, <1>9, <2>1
  <2>5. QED
    BY <2>1, <2>2, <2>3, <2>4 DEF Values
<1>14. Outcomes(act2, kd2, tg2, why, res, H, "active", "active")
  <2>1. /\ res \in [Wrap -> {"unset", "zero"} \cup Wrap]
        /\ \A v \in Wrap : kd[v] = "helper" /\ (act[v] \/ v \in H) => why[tg[v]] # v
        /\ \A v \in Wrap : kd[v] = "helper" /\ ~act[v] /\ v \notin H =>
             res[Tracker[v]] = IF why[tg[v]] = v THEN v ELSE "zero"
    BY <1>1, <1>2 DEF Outcomes
  <2>2. \A v \in Wrap : v # w => kd2[v] = kd[v] /\ tg2[v] = tg[v] /\ act2[v] = act[v]
    BY <1>2, <1>5
  <2>3. tg2[w] \in AEvent /\ why[tg2[w]] # w
    BY <1>4, <1>5
  <2>4. \A v \in Wrap : kd2[v] = "helper" /\ (act2[v] \/ v \in H) => why[tg2[v]] # v
    BY <2>1, <2>2, <2>3
  <2>5. ASSUME NEW v \in Wrap, kd2[v] = "helper", ~act2[v], v \notin H
        PROVE  v # "active" /\ res[Tracker[v]] = IF why[tg2[v]] = v THEN v ELSE "zero"
    <3>1. v # w
      BY <1>5, <2>5
    <3>2. kd[v] = "helper" /\ ~act[v] /\ tg2[v] = tg[v]
      BY <2>2, <2>5, <3>1
    <3>3. QED
      BY <1>2, <2>1, <2>5, <3>2
  <2>6. QED
    BY <2>1, <2>4, <2>5 DEF Outcomes
<1>15. Nodes(act2, kd2, h2, handles2, node2, H, D)
  <2>1. \A v \in Wrap : kd2[v] # "none" => (node2[v] = "live" <=> act2[v] \/ v \in H \cup D)
    <3> TAKE v \in Wrap
    <3>1. CASE v = w
      BY <1>5, <3>1
    <3>2. CASE v # w
      BY <1>1, <1>2, <1>5, <3>2 DEF Nodes
    <3>3. QED
      BY <3>1, <3>2
  <2>2. \A v \in Wrap : kd2[v] = "none" => handles2[v] = 0
    <3> TAKE v \in Wrap
    <3> HAVE kd2[v] = "none"
    <3>1. v # w /\ kd[v] = "none"
      BY <1>5, <1>9
    <3>2. handles[v] = 0 /\ v # t /\ v \in AEvent
      BY <1>1, <1>2, <1>8, <3>1 DEF Nodes
    <3>3. QED
      BY <1>7, <3>1, <3>2
  <2>3. \A v \in Wrap : h2[v] => Grips(kd2[v])
    <3> TAKE v \in Wrap
    <3>1. CASE v = w
      BY <1>5, <3>1
    <3>2. CASE v # w
      BY <1>1, <1>5, <3>2 DEF Nodes
    <3>3. QED
      BY <3>1, <3>2
  <2>4. \A v \in Wrap : Grips(kd2[v]) /\ (act2[v] \/ v \in H) => h2[v]
    <3> TAKE v \in Wrap
    <3>1. CASE v = w
      BY <1>5, <3>1
    <3>2. CASE v # w
      BY <1>1, <1>2, <1>5, <3>2 DEF Nodes
    <3>3. QED
      BY <3>1, <3>2
  <2>5. QED
    BY <1>5, <2>1, <2>2, <2>3, <2>4 DEF Nodes
<1>16. PICK C, C2, g : C = Held(holds, tg) /\ C2 = Held(h2, tg2) /\ g = Grips(k)
  OBVIOUS
<1>17. C \in [AEvent -> Nat] /\ C2 \in [AEvent -> Nat]
  BY <1>16, HeldAre
<1>18. \A e \in AEvent : C2[e] = C[e] + One(g /\ e = t)
  <2>1. g \in BOOLEAN
    BY <1>16 DEF Grips
  <2>2. Puts(holds, w, g, h2) /\ Puts(tg, w, u, tg2)
    BY <1>16 DEF Made, Puts
  <2>3. g => u = t
    BY <1>16 DEF Grips, Ties
  <2>4. ASSUME NEW e \in AEvent PROVE C2[e] = C[e] + One(g /\ e = t)
    <3>1. /\ h2 \in [Wrap -> BOOLEAN] /\ h2[w] = g /\ \A z \in Wrap : z # w => h2[z] = holds[z]
          /\ tg2 \in [Wrap -> AEvent] /\ tg2[w] = u /\ \A z \in Wrap : z # w => tg2[z] = tg[z]
          /\ g /\ e = u => Held(h2, tg2)[e] = Held(holds, tg)[e] + 1
          /\ ~g \/ e # u => Held(h2, tg2)[e] = Held(holds, tg)[e]
      BY <1>3, <1>4, <2>1, <2>2, HeldOn
    <3>2. CASE g /\ e = t
      <4>1. One(g /\ e = t) = 1
        BY <3>2 DEF One
      <4>2. QED
        BY <1>16, <2>3, <3>1, <3>2, <4>1
    <3>3. CASE ~(g /\ e = t)
      <4>1. One(g /\ e = t) = 0
        BY <3>3 DEF One
      <4>2. C[e] \in Nat
        BY <1>17
      <4>3. C2[e] = C[e]
        BY <1>16, <2>3, <3>1, <3>3
      <4>4. QED
        BY <4>1, <4>2, <4>3
    <3>4. QED
      BY <3>2, <3>3
  <2>5. QED
    BY <2>4
<1>19. C[w] = 0
  <2>1. Holders(holds, tg, w) = {}
    BY <1>4 DEF Holders
  <2>2. C[w] = Cardinality(Holders(holds, tg, w))
    BY <1>4, <1>16, HeldAre
  <2>3. QED
    BY <2>1, <2>2, FS_EmptySet
<1>20. Counts(act2, C2, V, handles2, refs2, life2, O, E2, "active", "active")
  <2>1. ASSUME NEW e \in AEvent
        PROVE  refs2[e] = handles2[e] + C2[e] + One(e \in V) + One(e \in O) + One(e = "active")
    <3>1. refs[e] = handles[e] + C[e] + One(e \in U) + One(e \in O) + One(e = "active")
      BY <1>1, <1>16 DEF Counts
    <3>2. One(e = "active") = 0
      BY <1>2 DEF One
    <3>3. /\ One(e \in U) \in {0, 1} /\ One(e \in O) \in {0, 1} /\ handles[e] \in Nat
          /\ handles2[e] \in Nat /\ C[e] \in Nat /\ C2[e] \in Nat /\ refs[e] \in Nat /\ refs2[e] \in Nat
      BY <1>3, <1>7, <1>17, Ones
    <3>4. CASE e = w
      <4>1. One(e \in V) = 1 /\ One(e \in O) = 0 /\ One(g /\ e = t) = 0
        BY <1>4, <1>6, <1>7, <3>4 DEF One
      <4>2. C2[e] = 0
        BY <1>18, <1>19, <3>4, <4>1
      <4>3. refs2[e] = handles2[e] + 1
        BY <1>7, <3>4
      <4>4. QED
        BY <3>2, <3>3, <4>1, <4>2, <4>3
    <3>5. CASE e = t
      <4>1. One(e \in V) = One(e \in U)
        BY <1>6, <1>7, <3>5 DEF One
      <4>2. One(g /\ e = t) = One(g) /\ One(g) \in {0, 1}
        BY <3>5 DEF One
      <4>3. C2[e] = C[e] + One(g)
        BY <1>18, <4>2
      <4>4. refs2[e] + handles[e] = refs[e] + handles2[e] + One(g)
        BY <1>7, <1>16, <3>5
      <4>5. QED
        BY <3>1, <3>2, <3>3, <4>1, <4>2, <4>3, <4>4
    <3>6. CASE e # w /\ e # t
      <4>1. One(e \in V) = One(e \in U) /\ One(g /\ e = t) = 0
        BY <1>6, <3>6 DEF One
      <4>2. C2[e] = C[e] + 0
        BY <1>18, <4>1
      <4>3. refs2[e] = refs[e] /\ handles2[e] = handles[e]
        BY <1>7, <3>6
      <4>4. QED
        BY <3>1, <3>2, <3>3, <4>1, <4>2, <4>3
    <3>7. QED
      BY <3>4, <3>5, <3>6
  <2>2. \A e \in AEvent : act2[e] => life2[e] = "live"
    BY <1>1, <1>5 DEF Counts
  <2>3. ASSUME NEW e \in AEvent, life2[e] = "live", refs2[e] = 0 PROVE e \in E2
    <3>1. e # w
      BY <1>4, <1>7, <2>3
    <3>2. refs[e] = 0
      BY <1>3, <1>7, <2>3, <3>1
    <3>3. e \in E
      BY <1>1, <1>2, <1>5, <2>3, <3>1, <3>2 DEF Counts
    <3>4. QED
      BY <1>6, <3>3
  <2>4. QED
    BY <1>5, <1>7, <1>17, <2>1, <2>2, <2>3 DEF Counts
<1>21. QED
  BY <1>10, <1>11, <1>12, <1>13, <1>14, <1>15, <1>16, <1>20 DEF Group

\* w is appended to the hooks of t, or will be called from the stack.
Calling(act, hk, n, st, s, w, t) ==
  \/ act[t] /\ Puts(hk, t, Append(hk[t], w), n) /\ s = st
  \/ ~act[t] /\ n = hk /\ s = <<ListFrame(t, <<w>>)>> \o st

\* The sets are those of s with one hook more.
Called(act, hk, n, st, s, w, t) ==
  /\ Stacked(s) /\ Lists(n)
  /\ Hooked(act, CallSets(hk), CallSets(n), Listing(st), Listing(s), Ending(st), Ending(s), w, t)
  /\ Hooking(s) = Hooking(st) /\ Deleting(s) = Deleting(st) /\ Finishing(s) = Finishing(st)
  /\ Owing(s) = Owing(st)

\* The frame or the hook for a new adapter.
LEMMA CallingIs ==
  ASSUME NEW act, NEW hk, NEW n, NEW st, NEW s, NEW w \in Wrap, NEW t \in AEvent,
         Stacked(st), Lists(hk), Calling(act, hk, n, st, s, w, t),
         w \notin CallSets(hk)[t], w \notin Listing(st)
  PROVE  Called(act, hk, n, st, s, w, t)
<1>1. CASE act[t] /\ Puts(hk, t, Append(hk[t], w), n) /\ s = st
  <2>1. hk[t] \in Seq(Wrap) /\ Distinct(hk[t]) /\ Members(hk[t]) = CallSets(hk)[t]
    BY DEF Lists, CallSets
  <2>2. PICK l, m : l = hk[t] /\ m = Append(l, w)
    OBVIOUS
  <2>3. m \in Seq(Wrap) /\ Distinct(m) /\ Members(m) = Members(l) \cup {w}
    BY <2>1, <2>2, MembersAppend
  <2>4. Puts(hk, t, m, n)
    BY <1>1, <2>2
  <2>5. Lists(n) /\ Puts(CallSets(hk), t, Members(m), CallSets(n))
    BY <2>3, <2>4, CallSetsIs
  <2>6. Members(m) = CallSets(hk)[t] \cup {w}
    BY <2>1, <2>2, <2>3
  <2>7. Hooked(act, CallSets(hk), CallSets(n), Listing(st), Listing(s), Ending(st), Ending(s), w, t)
    <3>1. PICK M : M = Members(m)
      OBVIOUS
    <3>2. Puts(CallSets(hk), t, CallSets(hk)[t] \cup {w}, CallSets(n))
      BY <2>5, <2>6
    <3>3. QED
      BY <1>1, <3>2 DEF Hooked
  <2>8. QED
    BY <1>1, <2>5, <2>7 DEF Called
<1>2. CASE ~act[t] /\ n = hk /\ s = <<ListFrame(t, <<w>>)>> \o st
  <2>1. PICK l : l = <<w>>
    OBVIOUS
  <2>2. l \in Seq(Wrap) /\ Members(l) = {w} /\ Distinct(l)
    <3>1. DOMAIN l = {1} /\ l[1] = w /\ l \in Seq(Wrap)
      BY <2>1
    <3>2. QED
      BY <3>1 DEF Members, Distinct
  <2>3. PICK f : f = ListFrame(t, l)
    OBVIOUS
  <2>4. /\ f \in AFrame /\ f.op = "hooks" /\ f.list = l
        /\ HookOf(f) = {} /\ DeleteOf(f) = {} /\ FinishOf(f) = {}
        /\ OwedOf(f) = {} /\ ListOf(f) = Members(l) /\ EndOf(f) = {t}
    BY <2>2, <2>3, ListFrameIs
  <2>5. Fits(f, st)
    BY <2>2, <2>4 DEF Fits
  <2>6. s = Top(f, st)
    BY <1>2, <2>1, <2>3 DEF Top
  <2>7. Stacked(s) /\ Over(s, f, st)
    BY <2>4, <2>5, <2>6, Push
  <2>8. /\ Hooking(s) = HookOf(f) \cup Hooking(st) /\ Deleting(s) = DeleteOf(f) \cup Deleting(st)
        /\ Finishing(s) = FinishOf(f) \cup Finishing(st) /\ Owing(s) = OwedOf(f) \cup Owing(st)
        /\ Listing(s) = ListOf(f) \cup Listing(st) /\ Ending(s) = EndOf(f) \cup Ending(st)
    BY <2>7 DEF Over
  <2>9. /\ Hooking(s) = Hooking(st) /\ Deleting(s) = Deleting(st) /\ Finishing(s) = Finishing(st)
        /\ Owing(s) = Owing(st) /\ Listing(s) = Listing(st) \cup {w}
        /\ Ending(s) = Ending(st) \cup {t}
    BY <2>2, <2>4, <2>8
  <2>10. Hooked(act, CallSets(hk), CallSets(n), Listing(st), Listing(s), Ending(st), Ending(s), w, t)
    BY <1>2, <2>9 DEF Hooked
  <2>11. QED
    BY <1>2, <2>7, <2>9, <2>10 DEF Called
<1>3. QED
  BY <1>1, <1>2 DEF Calling

\* Making an adapter, with the stack.
LEMMA MakeKeeps ==
  ASSUME Shape3, IsFiniteSet(Wrap), WrapInv,
         NEW w \in Wrap, NEW t \in AEvent, NEW u \in AEvent,
         NEW k \in {"bind", "helper", "map", "fun"}, Ties(k) => u = t, akind[w] = "none",
         NEW act2, NEW kd2, NEW tg2, NEW h2, NEW node2, NEW life2, NEW handles2, NEW refs2,
         NEW n, NEW s,
         Made(aactive, act2, akind, kd2, atarget, tg2, aholds, h2, anode, node2, alife, life2, w, u, k),
         Counted(ahandles, handles2, arefs, refs2, w, t, k),
         Calling(aactive, ahooks, n, astack, s, w, t)
  PROVE  Whole(act2, kd2, tg2, n, handles2, refs2, life2, h2, node2, aslot, aresult, awhy, s)
<1>1. PICK Q, U, F, O, L, E, H, D :
        /\ H = Hooking(astack) /\ D = Deleting(astack)
        /\ Q = CallSets(ahooks) /\ U = Due(CallSets(ahooks), Listing(astack))
        /\ F = Finishing(astack) /\ O = Owing(astack) /\ L = Listing(astack) /\ E = Ending(astack)
  OBVIOUS
<1>2. Group(aactive, akind, atarget, Q, Held(aholds, atarget), Due(Q, L), ahandles, arefs, alife,
            aholds, anode, aslot, aresult, awhy, H, D, F, O, L, E, "active", "active", "active")
  BY <1>1, AtGroup
<1>3. Stacked(astack) /\ Lists(ahooks)
  BY AtGroup
<1>4. w \notin L /\ w \notin Q[t]
  BY <1>2 DEF Group, Calls
<1>5. Called(aactive, ahooks, n, astack, s, w, t)
  BY <1>1, <1>3, <1>4, CallingIs
<1>6. PICK Q2, L2, E2 : Q2 = CallSets(n) /\ L2 = Listing(s) /\ E2 = Ending(s)
  OBVIOUS
<1>7. /\ Stacked(s) /\ Lists(n) /\ Hooked(aactive, Q, Q2, L, L2, E, E2, w, t)
      /\ Hooking(s) = H /\ Deleting(s) = D /\ Finishing(s) = F /\ Owing(s) = O
  BY <1>1, <1>5, <1>6 DEF Called
<1>8. Group(act2, kd2, tg2, Q2, Held(h2, tg2), Due(Q2, L2), handles2, refs2, life2, h2, node2,
            aslot, aresult, awhy, H, D, F, O, L2, E2, "active", "active", "active")
  BY <1>2, <1>7, MakeGroup
<1>9. QED
  BY <1>6, <1>7, <1>8 DEF Whole, Ready

\* Each way to make one.
LEMMA AdaptKeeps ==
  ASSUME Shape3, IsFiniteSet(Wrap), WrapInv,
         NEW w \in Wrap, NEW t \in AEvent, NEW k \in {"bind", "helper", "map"},
         NEW keep \in BOOLEAN, k = "helper" => keep, NEW copies \in Nat,
         Wraps!Adapt(k, w, t, keep, copies)
  PROVE  WrapInv'
<1>1. PICK act2, kd2, tg2, n, handles2, refs2, life2, h2, node2, s :
        /\ act2 = aactive' /\ kd2 = akind' /\ tg2 = atarget' /\ n = ahooks' /\ handles2 = ahandles'
        /\ refs2 = arefs' /\ life2 = alife' /\ h2 = aholds' /\ node2 = anode' /\ s = astack'
  OBVIOUS
<1>2. /\ akind[w] = "none" /\ ahandles[t] > 0
      /\ UNCHANGED <<aslot, aresult, awhy>>
  BY DEF Wraps!Adapt
<1>3. Calling(aactive, ahooks, n, astack, s, w, t)
  BY <1>1 DEF Wraps!Adapt, Wraps!AtTrigger, Calling, Puts, ListFrame
<1>4. Made(aactive, act2, akind, kd2, atarget, tg2, aholds, h2, anode, node2, alife, life2, w, t, k)
  <2>1. Grips(k) = (k # "helper")
    BY DEF Grips
  <2>2. QED
    BY <1>1, <2>1 DEF Wraps!Adapt, Wraps!AtTrigger, Made
<1>5. Counted(ahandles, handles2, arefs, refs2, w, t, k)
  <2>1. /\ ahandles \in [AEvent -> Nat] /\ arefs \in [AEvent -> Nat] /\ ahandles[w] = 0
    BY <1>2, AtGroup DEF Group, Counts, Nodes
  <2>2. w # t /\ w \in AEvent
    BY <1>2, <2>1 DEF AEvent
  <2>3. PICK c : c = [arefs EXCEPT ![w] = copies,
                                   ![t] = IF k # "helper" /\ keep THEN @ + 1 ELSE @]
    OBVIOUS
  <2>4. /\ handles2 = [ahandles EXCEPT ![w] = copies, ![t] = IF keep THEN @ ELSE @ - 1]
        /\ refs2 = [c EXCEPT ![w] = @ + 1]
    BY <1>1, <2>3 DEF Wraps!Adapt, Wraps!AtTrigger
  <2>5. /\ c \in [AEvent -> Nat] /\ c[w] = copies
        /\ c[t] = (IF k # "helper" /\ keep THEN arefs[t] + 1 ELSE arefs[t])
        /\ \A e \in AEvent : e # w /\ e # t => c[e] = arefs[e]
    BY <2>1, <2>2, <2>3
  <2>6. /\ refs2 \in [AEvent -> Nat] /\ refs2[w] = copies + 1
        /\ \A e \in AEvent : e # w => refs2[e] = c[e]
    BY <2>2, <2>4, <2>5
  <2>7. /\ handles2[w] = copies /\ handles2[t] = (IF keep THEN ahandles[t] ELSE ahandles[t] - 1)
        /\ handles2 \in [AEvent -> Nat]
        /\ \A e \in AEvent : e # w /\ e # t => handles2[e] = ahandles[e]
    <3>1. ahandles[t] - 1 \in Nat
      BY <1>2, <2>1
    <3>2. QED
      BY <2>1, <2>2, <2>4, <3>1
  <2>8. refs2[t] + ahandles[t] = arefs[t] + handles2[t] + One(Grips(k)) /\ refs2[t] >= arefs[t]
    <3>1. ahandles[t] \in Nat /\ arefs[t] \in Nat /\ refs2[t] = c[t]
      BY <2>1, <2>2, <2>6
    <3>2. CASE k = "helper"
      <4>1. One(Grips(k)) = 0
        BY <3>2 DEF One, Grips
      <4>2. QED
        BY <2>5, <2>7, <3>1, <3>2, <4>1
    <3>3. CASE k # "helper"
      <4>1. One(Grips(k)) = 1
        BY <3>3 DEF One, Grips
      <4>2. QED
        BY <2>5, <2>7, <3>1, <3>3, <4>1
    <3>4. QED
      BY <3>2, <3>3
  <2>9. QED
    BY <1>2, <2>2, <2>5, <2>6, <2>7, <2>8 DEF Counted
<1>6. Whole(act2, kd2, tg2, n, handles2, refs2, life2, h2, node2, aslot, aresult, awhy, s)
  BY <1>2, <1>3, <1>4, <1>5, MakeKeeps
<1>7. QED
  BY <1>1, <1>2, <1>6 DEF WrapInv

LEMMA NotifyKeeps ==
  ASSUME Shape3, IsFiniteSet(Wrap), WrapInv, NEW w \in Wrap, NEW t \in AEvent,
         Wraps!NotifyFun(w, t)
  PROVE  WrapInv'
<1>1. PICK act2, kd2, n, refs2, life2, node2, k, u :
        /\ act2 = aactive' /\ kd2 = akind' /\ n = ahooks' /\ refs2 = arefs'
        /\ life2 = alife' /\ node2 = anode' /\ k = "fun" /\ u = atarget[w]
  OBVIOUS
<1>2. /\ akind[w] = "none" /\ ahandles[t] > 0 /\ aactive[t]
      /\ UNCHANGED <<ahandles, atarget, aholds, aslot, aresult, awhy, astack>>
  BY DEF Wraps!NotifyFun
<1>3. Calling(aactive, ahooks, n, astack, astack, w, t)
  BY <1>1, <1>2 DEF Wraps!NotifyFun, Calling, Puts
<1>4. /\ ahandles \in [AEvent -> Nat] /\ arefs \in [AEvent -> Nat] /\ ahandles[w] = 0
      /\ aholds \in [Wrap -> BOOLEAN] /\ ~aholds[w] /\ atarget \in [Wrap -> AEvent]
  BY <1>2, AtGroup DEF Group, Counts, Nodes, WrapTypes, Grips
<1>5. Made(aactive, act2, akind, kd2, atarget, atarget, aholds, aholds, anode, node2, alife, life2,
           w, u, k)
  <2>1. Grips(k) = FALSE
    BY <1>1 DEF Grips
  <2>2. aholds = [aholds EXCEPT ![w] = Grips(k)]
    BY <1>4, <2>1
  <2>3. atarget = [atarget EXCEPT ![w] = u]
    BY <1>1, <1>4
  <2>4. QED
    BY <1>1, <2>2, <2>3 DEF Wraps!NotifyFun, Made
<1>6. Counted(ahandles, ahandles, arefs, refs2, w, t, k)
  <2>1. w # t /\ w \in AEvent
    BY <1>2, <1>4 DEF AEvent
  <2>2. refs2 = [arefs EXCEPT ![w] = 1]
    BY <1>1 DEF Wraps!NotifyFun
  <2>3. /\ refs2 \in [AEvent -> Nat] /\ refs2[w] = 1 /\ \A e \in AEvent : e # w => refs2[e] = arefs[e]
    BY <1>4, <2>1, <2>2
  <2>4. One(Grips(k)) = 0
    BY <1>1 DEF One, Grips
  <2>5. ahandles[t] \in Nat /\ arefs[t] \in Nat
    BY <1>4
  <2>6. QED
    BY <1>2, <1>4, <2>1, <2>3, <2>4, <2>5 DEF Counted
<1>7. u \in AEvent /\ ~Ties(k) /\ k \in {"bind", "helper", "map", "fun"}
  BY <1>1, <1>4 DEF Ties
<1>8. Whole(act2, kd2, atarget, n, ahandles, refs2, life2, aholds, node2, aslot, aresult, awhy, astack)
  BY <1>2, <1>3, <1>5, <1>6, <1>7, MakeKeeps
<1>9. QED
  BY <1>1, <1>2, <1>8 DEF WrapInv

\* The instance counts as this module does.
LEMMA WrapCounting ==
  \A S : /\ Wraps!IsFiniteSet(S) <=> IsFiniteSet(S)
         /\ Wraps!Cardinality(S) = Cardinality(S)
BY DEF Wraps!IsFiniteSet, Wraps!Cardinality, IsFiniteSet, Cardinality

\* What the assumption says.
LEMMA WrapShape ==
  ASSUME Wraps!AdapterAssumption
  PROVE  /\ Shape3 /\ IsFiniteSet(Wrap) /\ MaxHandles \in Nat
         /\ Tracker \in [Wrap -> Wrap] /\ \A v, w \in Wrap : Tracker[v] = Tracker[w] => v = w
<1>1. /\ Root \notin Wrap /\ MaxHandles \in Nat
      /\ Tracker \in [Wrap -> Wrap] /\ \A v, w \in Wrap : Tracker[v] = Tracker[w] => v = w
  BY DEF Wraps!AdapterAssumption
<1>2. IsFiniteSet(Wrap)
  BY WrapCounting DEF Wraps!AdapterAssumption
<1>3. {"active", "natural", "hook", "unset", "zero"} \cap AEvent = {}
  BY DEF Wraps!AdapterAssumption, AEvent
<1>4. QED
  BY <1>1, <1>2, <1>3 DEF Shape3

\* Every step keeps the invariant.
LEMMA WrapStep ==
  ASSUME Wraps!AdapterAssumption, WrapInv, Wraps!Next
  PROVE  WrapInv'
<1>1. Shape3 /\ IsFiniteSet(Wrap) /\ MaxHandles \in Nat
  BY WrapShape
<1>2. Wraps!Events = AEvent
  BY DEF Wraps!Events, AEvent
<1>3. CASE \/ Wraps!FinishTrigger \/ Wraps!CallHook \/ Wraps!DeleteSelf
           \/ Wraps!BindHook \/ Wraps!HelperHook \/ Wraps!MapHook \/ Wraps!FunHook
           \/ Wraps!FunReturns \/ Wraps!Clear
  BY <1>1, <1>3, FinishKeeps, CallHookKeeps, DeleteSelfKeeps, BindHookKeeps, HelperHookKeeps,
     MapHookKeeps, FunHookKeeps, FunReturnsKeeps, ClearKeeps
<1>4. CASE \E e \in AEvent : \/ Wraps!Copy(e) \/ Wraps!Drop(e)
                             \/ Wraps!SilentTimeout(e) \/ Wraps!SilentSignal(e)
  BY <1>1, <1>4, CopyKeeps, DropKeeps DEF Wraps!SilentTimeout, Wraps!SilentSignal
<1>5. CASE \E e \in AEvent, v \in BOOLEAN : Wraps!Trigger(e, v)
  BY <1>1, <1>5, TriggerKeeps
<1>6. ASSUME NEW w \in Wrap, NEW t \in AEvent, NEW keep \in BOOLEAN,
             Wraps!Bind(w, t, keep) \/ Wraps!Map(w, t, keep)
      PROVE  WrapInv'
  <2>1. PICK k \in {"bind", "helper", "map"} :
          k # "helper" /\ Wraps!Adapt(k, w, t, keep, 1)
    BY <1>6 DEF Wraps!Bind, Wraps!Map
  <2>2. 1 \in Nat
    OBVIOUS
  <2>3. QED
    BY <1>1, <2>1, <2>2, AdaptKeeps
<1>7. ASSUME NEW w \in Wrap, NEW t \in AEvent,
             \/ Wraps!AddTimeout(w, t) \/ Wraps!AddSignal(w, t)
             \/ Wraps!WithTimeout(w, t) \/ Wraps!WithSignal(w, t)
      PROVE  WrapInv'
  <2>1. PICK k \in {"bind", "helper", "map"}, n \in Nat : Wraps!Adapt(k, w, t, TRUE, n)
    <3>1. 1 \in Nat /\ \A n \in 1 .. MaxHandles : n \in Nat
      BY <1>1
    <3>2. QED
      BY <1>7, <3>1 DEF Wraps!AddTimeout, Wraps!AddSignal, Wraps!WithTimeout, Wraps!WithSignal
  <2>2. PICK keep \in BOOLEAN : keep = TRUE
    OBVIOUS
  <2>3. Wraps!Adapt(k, w, t, keep, n)
    BY <2>1, <2>2
  <2>4. QED
    BY <1>1, <2>2, <2>3, AdaptKeeps
<1>8. CASE \E w \in Wrap, t \in AEvent : Wraps!NotifyFun(w, t)
  BY <1>1, <1>8, NotifyKeeps
<1>9. QED
  BY <1>2, <1>3, <1>4, <1>5, <1>6, <1>7, <1>8 DEF Wraps!Next

LEMMA WrapStutter == WrapInv /\ UNCHANGED Wraps!vars => WrapInv'
BY DEF Wraps!vars, WrapInv, Whole, Ready

\* An empty stack stands for nothing.
LEMMA NothingStacked ==
  /\ Hooking(<<>>) = {} /\ Deleting(<<>>) = {} /\ Finishing(<<>>) = {}
  /\ Owing(<<>>) = {} /\ Listing(<<>>) = {} /\ Ending(<<>>) = {} /\ Stacked(<<>>)
<1>1. PICK s : s = <<>>
  OBVIOUS
<1>2. s \in Seq(AFrame) /\ DOMAIN s = {}
  BY <1>1
<1>3. \A F : Gather(F, s) = {}
  BY <1>2 DEF Gather
<1>4. Stacked(s)
  BY <1>2 DEF Stacked
<1>5. /\ Hooking(s) = {} /\ Deleting(s) = {} /\ Finishing(s) = {}
      /\ Owing(s) = {} /\ Listing(s) = {} /\ Ending(s) = {}
  BY <1>3 DEF Hooking, Deleting, Finishing, Owing, Listing, Ending
<1>6. QED
  BY <1>1, <1>4, <1>5

\* The invariant holds at first.
LEMMA WrapInit ==
  ASSUME Wraps!AdapterAssumption, Wraps!Init
  PROVE  WrapInv
<1>1. Shape3 /\ IsFiniteSet(Wrap)
  BY WrapShape
<1>2. Wraps!Events = AEvent /\ Root \in AEvent /\ Root \notin Wrap /\ \A w \in Wrap : w \in AEvent
  BY <1>1 DEF Wraps!Events, AEvent, Shape3
<1>3. /\ alife = [e \in AEvent |-> IF e = Root THEN "live" ELSE "unborn"]
      /\ aactive = [e \in AEvent |-> e = Root]
      /\ arefs = [e \in AEvent |-> IF e = Root THEN 1 ELSE 0]
      /\ ahandles = arefs
      /\ ahooks = [e \in AEvent |-> <<>>]
      /\ akind = [w \in Wrap |-> "none"] /\ atarget = [w \in Wrap |-> Root]
      /\ aholds = [w \in Wrap |-> FALSE] /\ anode = [w \in Wrap |-> "unborn"]
      /\ aslot = [e \in AEvent |-> "unset"] /\ aresult = [w \in Wrap |-> "unset"]
      /\ awhy = [e \in AEvent |-> "active"] /\ astack = <<>>
  BY <1>2 DEF Wraps!Init
<1>4. /\ Hooking(astack) = {} /\ Deleting(astack) = {} /\ Finishing(astack) = {}
      /\ Owing(astack) = {} /\ Listing(astack) = {} /\ Ending(astack) = {} /\ Stacked(astack)
  BY <1>3, NothingStacked
<1>5. Lists(ahooks)
  <2>1. <<>> \in Seq(Wrap) /\ Distinct(<<>>)
    BY MembersAre
  <2>2. QED
    BY <1>3, <2>1 DEF Lists
<1>6. PICK Q, C, U : Q = CallSets(ahooks) /\ C = Held(aholds, atarget) /\ U = Due(Q, {})
  OBVIOUS
<1>7. Q \in [AEvent -> SUBSET Wrap] /\ \A e \in AEvent : Q[e] = {}
  <2>1. Members(<<>>) = {}
    BY MembersAre
  <2>2. Q = [e \in AEvent |-> Members(ahooks[e])]
    BY <1>6 DEF CallSets
  <2>3. \A e \in AEvent : Members(ahooks[e]) = {}
    BY <1>3, <2>1
  <2>4. QED
    BY <2>2, <2>3
<1>8. U = {}
  BY <1>6, <1>7 DEF Due
<1>9. C \in [AEvent -> Nat] /\ \A e \in AEvent : C[e] = 0
  <2>1. \A e : Holders(aholds, atarget, e) = {}
    BY <1>3 DEF Holders
  <2>2. C \in [AEvent -> Nat] /\ \A e \in AEvent : C[e] = Cardinality({})
    BY <1>1, <1>6, <2>1, HeldAre
  <2>3. QED
    BY <2>2, FS_EmptySet
<1>10. WrapTypes(aactive, akind, atarget, Q)
  BY <1>2, <1>3, <1>7 DEF WrapTypes, AKinds
<1>11. SetsAre({}, {}, {}, {}, {}, {})
  BY DEF SetsAre
<1>12. Calls(aactive, akind, atarget, Q, {}, {}, {}, {}, {}, "active")
  <2>1. \A w \in Wrap : akind[w] = "none" /\ ~Ties(akind[w])
    BY <1>3 DEF Ties
  <2>2. \A w \in Wrap : ~aactive[w]
    BY <1>2, <1>3
  <2>3. QED
    BY <1>2, <1>7, <2>1, <2>2 DEF Calls
<1>13. Values(aactive, akind, awhy, aslot, "active")
  <2>1. Rightly(akind, "active", "unset")
    BY <1>1 DEF Rightly, Shape3, AEvent
  <2>2. QED
    BY <1>2, <1>3, <2>1 DEF Values
<1>14. Outcomes(aactive, akind, atarget, awhy, aresult, {}, "active", "active")
  BY <1>3 DEF Outcomes
<1>15. Counts(aactive, C, U, ahandles, arefs, alife, {}, {}, "active", "active")
  <2>1. ASSUME NEW e \in AEvent
        PROVE  arefs[e] = ahandles[e] + C[e] + One(e \in U) + One(e \in {}) + One(e = "active")
    <3>1. One(e \in U) = 0 /\ One(e \in {}) = 0 /\ One(e = "active") = 0
      BY <1>1, <1>8 DEF One, Shape3
    <3>2. arefs[e] = ahandles[e] /\ ahandles[e] \in Nat /\ C[e] = 0
      BY <1>3, <1>9
    <3>3. QED
      BY <3>1, <3>2
  <2>2. /\ ahandles \in [AEvent -> Nat] /\ arefs \in [AEvent -> Nat]
        /\ alife \in [AEvent -> {"unborn", "live", "deleted"}]
    BY <1>3
  <2>3. /\ \A e \in AEvent : aactive[e] => alife[e] = "live"
        /\ \A e \in AEvent : ~(alife[e] = "live" /\ arefs[e] = 0)
    <3> SUFFICES ASSUME NEW e \in AEvent
                 PROVE  (aactive[e] => alife[e] = "live") /\ ~(alife[e] = "live" /\ arefs[e] = 0)
      OBVIOUS
    <3>1. CASE e = Root
      <4>1. alife[e] = "live" /\ arefs[e] = 1
        BY <1>3, <3>1
      <4>2. QED
        BY <4>1
    <3>2. CASE e # Root
      <4>1. alife[e] = "unborn" /\ ~aactive[e]
        BY <1>3, <3>2
      <4>2. QED
        BY <4>1
    <3>3. QED
      BY <3>1, <3>2
  <2>4. QED
    BY <1>9, <2>1, <2>2, <2>3 DEF Counts
<1>16. Nodes(aactive, akind, aholds, ahandles, anode, {}, {})
  BY <1>2, <1>3 DEF Nodes, Grips
<1>17. Group(aactive, akind, atarget, Q, C, U, ahandles, arefs, alife, aholds, anode, aslot, aresult,
             awhy, {}, {}, {}, {}, {}, {}, "active", "active", "active")
  BY <1>10, <1>11, <1>12, <1>13, <1>14, <1>15, <1>16 DEF Group
<1>18. QED
  BY <1>4, <1>5, <1>6, <1>17 DEF WrapInv, Whole, Ready

LEMMA WrapMembers == \A l : Wraps!ToSet(l) = Members(l)
BY DEF Wraps!ToSet, Members

\* A set without two members has one or none.
LEMMA OneOrNone ==
  ASSUME NEW S, \A x, y \in S : x = y
  PROVE  IsFiniteSet(S) /\ Cardinality(S) = One(S # {})
<1>1. CASE S = {}
  BY <1>1, FS_EmptySet DEF One
<1>2. CASE S # {}
  <2>1. PICK x : x \in S
    BY <1>2
  <2>2. S = {x}
    BY <2>1
  <2>3. IsFiniteSet({x}) /\ Cardinality({x}) = 1
    BY FS_Singleton
  <2>4. QED
    BY <1>2, <2>2, <2>3 DEF One
<1>3. QED
  BY <1>1, <1>2

\* The places of the stack where a reference to e is kept.
OwedAt(s, e)   == {i \in DOMAIN s : s[i] = [op |-> "finish", ev |-> e, reduce |-> TRUE]}
ListedAt(s, e) == {i \in DOMAIN s : s[i].op = "hooks" /\ e \in Members(s[i].list)}

\* The sets of a stack, told by its frames.
LEMMA OnStack ==
  ASSUME NEW s, Stacked(s)
  PROVE  /\ \A w : w \in Hooking(s) \cup Deleting(s) <=>
              \E i \in DOMAIN s : s[i].op \in {"hook", "delete"} /\ s[i].w = w
         /\ \A e : e \in Ending(s) <=>
              \E i \in DOMAIN s : s[i].op \in {"finish", "hooks"} /\ s[i].ev = e
         /\ \A e : e \in Owing(s) <=> OwedAt(s, e) # {}
         /\ \A e : e \in Listing(s) <=> ListedAt(s, e) # {}
<1>1. \A i \in DOMAIN s : s[i] \in AFrame
  BY DEF Stacked
<1>2. \A w : w \in Hooking(s) <=> \E i \in DOMAIN s : s[i].op = "hook" /\ s[i].w = w
  <2>1. \A w : w \in Hooking(s) <=> \E i \in DOMAIN s : w \in HookOf(s[i])
    BY <1>1 DEF Hooking, Gather
  <2>2. QED
    BY <2>1 DEF HookOf
<1>3. \A w : w \in Deleting(s) <=> \E i \in DOMAIN s : s[i].op = "delete" /\ s[i].w = w
  <2>1. \A w : w \in Deleting(s) <=> \E i \in DOMAIN s : w \in DeleteOf(s[i])
    BY <1>1 DEF Deleting, Gather
  <2>2. QED
    BY <2>1 DEF DeleteOf
<1>4. \A e : e \in Ending(s) <=> \E i \in DOMAIN s : s[i].op \in {"finish", "hooks"} /\ s[i].ev = e
  <2>1. \A w : w \in Ending(s) <=> \E i \in DOMAIN s : w \in EndOf(s[i])
    BY <1>1 DEF Ending, Gather
  <2>2. QED
    BY <2>1 DEF EndOf
<1>5. \A e : e \in Owing(s) <=> OwedAt(s, e) # {}
  <2>1. \A e : e \in Owing(s) <=> \E i \in DOMAIN s : e \in OwedOf(s[i])
    BY <1>1 DEF Owing, Gather
  <2>2. ASSUME NEW i \in DOMAIN s, NEW e
        PROVE  e \in OwedOf(s[i]) <=> s[i] = [op |-> "finish", ev |-> e, reduce |-> TRUE]
    <3>1. ASSUME e \in OwedOf(s[i]) PROVE s[i] = [op |-> "finish", ev |-> e, reduce |-> TRUE]
      <4>1. s[i].op = "finish" /\ s[i].reduce /\ e = s[i].ev
        BY <3>1 DEF OwedOf
      <4>2. s[i].reduce \in BOOLEAN /\ s[i] = FinishFrame(s[i].ev, s[i].reduce)
        BY <1>1, <4>1, FrameIs
      <4>3. s[i].reduce = TRUE
        BY <4>1, <4>2
      <4>4. QED
        BY <4>1, <4>2, <4>3 DEF FinishFrame
    <3>2. ASSUME s[i] = [op |-> "finish", ev |-> e, reduce |-> TRUE] PROVE e \in OwedOf(s[i])
      BY <3>2 DEF OwedOf
    <3>3. QED
      BY <3>1, <3>2
  <2>3. QED
    BY <2>1, <2>2 DEF OwedAt
<1>6. \A e : e \in Listing(s) <=> ListedAt(s, e) # {}
  <2>1. \A e : e \in Listing(s) <=> \E i \in DOMAIN s : e \in ListOf(s[i])
    BY <1>1 DEF Listing, Gather
  <2>2. QED
    BY <2>1 DEF ListOf, ListedAt
<1>7. QED
  BY <1>2, <1>3, <1>4, <1>5, <1>6

\* How many references to e the stack keeps.
LEMMA StackCounts ==
  ASSUME NEW s, Stacked(s), NEW e
  PROVE  Cardinality(OwedAt(s, e) \cup ListedAt(s, e)) = One(e \in Owing(s)) + One(e \in Listing(s))
<1>1. /\ e \in Owing(s) <=> OwedAt(s, e) # {}
      /\ e \in Listing(s) <=> ListedAt(s, e) # {}
  BY OnStack
<1>2. PICK A, B : A = OwedAt(s, e) /\ B = ListedAt(s, e)
  OBVIOUS
<1>3. ASSUME NEW i \in A, NEW j \in A PROVE i = j
  <2>1. i \in DOMAIN s /\ j \in DOMAIN s /\ e \in FinishOf(s[i]) /\ e \in FinishOf(s[j])
    BY <1>2 DEF OwedAt, FinishOf
  <2>2. i # j => Apart(s[i], s[j])
    BY <2>1 DEF Stacked
  <2>3. QED
    BY <2>1, <2>2 DEF Apart
<1>4. ASSUME NEW i \in B, NEW j \in B PROVE i = j
  <2>1. i \in DOMAIN s /\ j \in DOMAIN s /\ e \in ListOf(s[i]) /\ e \in ListOf(s[j])
    BY <1>2 DEF ListedAt, ListOf
  <2>2. i # j => Apart(s[i], s[j])
    BY <2>1 DEF Stacked
  <2>3. QED
    BY <2>1, <2>2 DEF Apart
<1>5. A \cap B = {}
  BY <1>2 DEF OwedAt, ListedAt
<1>6. IsFiniteSet(A) /\ Cardinality(A) = One(A # {})
  BY <1>3, OneOrNone
<1>7. IsFiniteSet(B) /\ Cardinality(B) = One(B # {})
  BY <1>4, OneOrNone
<1>8. Cardinality(A \cup B) = Cardinality(A) + Cardinality(B)
  <2>1. Cardinality(A \cup B) = Cardinality(A) + Cardinality(B) - Cardinality(A \cap B)
    BY <1>6, <1>7, FS_Union
  <2>2. Cardinality(A \cap B) = 0
    BY <1>5, FS_EmptySet
  <2>3. Cardinality(A) \in {0, 1} /\ Cardinality(B) \in {0, 1}
    BY <1>6, <1>7, Ones
  <2>4. QED
    BY <2>1, <2>2, <2>3
<1>9. Cardinality(A) = One(e \in Owing(s)) /\ Cardinality(B) = One(e \in Listing(s))
  BY <1>1, <1>2, <1>6, <1>7 DEF One
<1>10. QED
  BY <1>2, <1>8, <1>9

\* How many references to v the hooks keep.
LEMMA HookCounts ==
  ASSUME NEW Q \in [AEvent -> SUBSET Wrap], \A d, e \in AEvent : d # e => Q[d] \cap Q[e] = {},
         NEW L, \A e \in AEvent : Q[e] \cap L = {}, NEW v
  PROVE  Cardinality({x \in AEvent : v \in Q[x]}) + One(v \in L) = One(v \in Due(Q, L))
<1>1. PICK S : S = {x \in AEvent : v \in Q[x]}
  OBVIOUS
<1>2. \A x, y \in S : x = y
  BY <1>1
<1>3. Cardinality(S) = One(S # {})
  BY <1>2, OneOrNone
<1>4. v \in Due(Q, L) <=> v \in L \/ S # {}
  BY <1>1 DEF Due
<1>5. S # {} => v \notin L
  BY <1>1
<1>6. CASE S # {}
  <2>1. One(S # {}) = 1 /\ One(v \in L) = 0 /\ One(v \in Due(Q, L)) = 1
    BY <1>4, <1>5, <1>6 DEF One
  <2>2. QED
    BY <1>1, <1>3, <2>1
<1>7. CASE S = {}
  <2>1. One(S # {}) = 0 /\ One(v \in L) = One(v \in Due(Q, L)) /\ One(v \in L) \in {0, 1}
    BY <1>4, <1>7 DEF One
  <2>2. QED
    BY <1>1, <1>3, <2>1
<1>8. QED
  BY <1>6, <1>7

\* The counts are those of AdapterMemory.
LEMMA WrapMemory ==
  ASSUME Shape3, IsFiniteSet(Wrap), WrapInv
  PROVE  Wraps!AdapterMemory
<1>1. PICK Q, U, F, O, L, E, H, D :
        /\ H = Hooking(astack) /\ D = Deleting(astack)
        /\ Q = CallSets(ahooks) /\ U = Due(CallSets(ahooks), Listing(astack))
        /\ F = Finishing(astack) /\ O = Owing(astack) /\ L = Listing(astack) /\ E = Ending(astack)
  OBVIOUS
<1>2. Group(aactive, akind, atarget, Q, Held(aholds, atarget), U, ahandles, arefs, alife, aholds,
            anode, aslot, aresult, awhy, H, D, F, O, L, E, "active", "active", "active")
  BY <1>1, AtGroup
<1>3. Stacked(astack)
  BY AtGroup
<1>4. Wraps!Events = AEvent /\ "active" \notin AEvent
  BY DEF Wraps!Events, AEvent, Shape3
<1>5. ASSUME NEW w \in Wrap, akind[w] # "none"
      PROVE  anode[w] = "live" <=>
               \/ aactive[w]
               \/ \E i \in DOMAIN astack : astack[i].op \in {"hook", "delete"} /\ astack[i].w = w
  <2>1. anode[w] = "live" <=> aactive[w] \/ w \in H \cup D
    BY <1>2, <1>5 DEF Group, Nodes
  <2>2. w \in Hooking(astack) \cup Deleting(astack) <=>
          \E i \in DOMAIN astack : astack[i].op \in {"hook", "delete"} /\ astack[i].w = w
    BY <1>3, OnStack
  <2>3. QED
    BY <1>1, <2>1, <2>2
<1>6. ASSUME NEW e \in AEvent
      PROVE  /\ arefs[e] = ahandles[e] + Wraps!Cardinality({w \in Wrap : aholds[w] /\ atarget[w] = e})
                  + Wraps!Cardinality({x \in Wraps!Events : e \in Wraps!ToSet(ahooks[x])})
                  + Wraps!Cardinality({i \in DOMAIN astack :
                       \/ astack[i] = [op |-> "finish", ev |-> e, reduce |-> TRUE]
                       \/ astack[i].op = "hooks" /\ e \in Wraps!ToSet(astack[i].list)})
             /\ aactive[e] => alife[e] = "live"
             /\ alife[e] = "live" /\ arefs[e] = 0 =>
                  \E i \in DOMAIN astack : astack[i].op \in {"finish", "hooks"} /\ astack[i].ev = e
  <2>1. Counts(aactive, Held(aholds, atarget), U, ahandles, arefs, alife, O, E, "active", "active")
    BY <1>2 DEF Group
  <2>2. PICK A, B, C :
          /\ A = {w \in Wrap : aholds[w] /\ atarget[w] = e}
          /\ B = {x \in Wraps!Events : e \in Wraps!ToSet(ahooks[x])}
          /\ C = {i \in DOMAIN astack :
                       \/ astack[i] = [op |-> "finish", ev |-> e, reduce |-> TRUE]
                       \/ astack[i].op = "hooks" /\ e \in Wraps!ToSet(astack[i].list)}
    OBVIOUS
  <2>3. Wraps!Cardinality(A) = Held(aholds, atarget)[e] /\ Held(aholds, atarget)[e] \in Nat
    <3>1. A = Holders(aholds, atarget, e)
      BY <2>2 DEF Holders
    <3>2. QED
      BY <3>1, HeldAre, WrapCounting
  <2>4. Wraps!Cardinality(B) + One(e \in L) = One(e \in U)
    <3>1. Q \in [AEvent -> SUBSET Wrap] /\ \A d, x \in AEvent : d # x => Q[d] \cap Q[x] = {}
      BY <1>2 DEF Group, WrapTypes, Calls
    <3>2. \A x \in AEvent : Q[x] \cap L = {}
      BY <1>2 DEF Group, Calls
    <3>3. B = {x \in AEvent : e \in Q[x]}
      <4>1. \A x \in AEvent : Q[x] = Wraps!ToSet(ahooks[x])
        BY <1>1, WrapMembers DEF CallSets
      <4>2. QED
        BY <1>4, <2>2, <4>1
    <3>4. Cardinality({x \in AEvent : e \in Q[x]}) + One(e \in L) = One(e \in Due(Q, L))
      BY <3>1, <3>2, HookCounts
    <3>5. QED
      BY <1>1, <3>3, <3>4, WrapCounting
  <2>5. Wraps!Cardinality(C) = One(e \in O) + One(e \in L)
    <3>1. C = OwedAt(astack, e) \cup ListedAt(astack, e)
      BY <2>2, WrapMembers DEF OwedAt, ListedAt
    <3>2. QED
      BY <1>1, <1>3, <3>1, StackCounts, WrapCounting
  <2>6. arefs[e] = ahandles[e] + Wraps!Cardinality(A) + Wraps!Cardinality(B) + Wraps!Cardinality(C)
    <3>1. /\ arefs[e] = ahandles[e] + Held(aholds, atarget)[e] + One(e \in U) + One(e \in O)
                          + One(e = "active")
          /\ ahandles[e] \in Nat
      BY <2>1 DEF Counts
    <3>2. One(e = "active") = 0
      BY <1>4 DEF One
    <3>3. One(e \in L) \in {0, 1} /\ One(e \in U) \in {0, 1} /\ One(e \in O) \in {0, 1}
      BY Ones
    <3>4. PICK c : c = Wraps!Cardinality(B)
      OBVIOUS
    <3>5. c \in Int
      <4>1. \A x, y \in B : x = y
        <5>1. \A d, x \in AEvent : d # x => Q[d] \cap Q[x] = {}
          BY <1>2 DEF Group, Calls
        <5>2. \A x \in AEvent : Q[x] = Wraps!ToSet(ahooks[x])
          BY <1>1, WrapMembers DEF CallSets
        <5>3. QED
          BY <1>4, <2>2, <5>1, <5>2
      <4>2. Cardinality(B) = One(B # {})
        BY <4>1, OneOrNone
      <4>3. One(B # {}) \in {0, 1}
        BY Ones
      <4>4. QED
        BY <3>4, <4>2, <4>3, WrapCounting
    <3>6. c + One(e \in L) = One(e \in U)
      BY <2>4, <3>4
    <3>7. QED
      BY <2>3, <2>5, <3>1, <3>2, <3>3, <3>4, <3>5, <3>6
  <2>7. aactive[e] => alife[e] = "live"
    BY <2>1 DEF Counts
  <2>8. alife[e] = "live" /\ arefs[e] = 0 =>
          \E i \in DOMAIN astack : astack[i].op \in {"finish", "hooks"} /\ astack[i].ev = e
    <3>1. alife[e] = "live" /\ arefs[e] = 0 => e \in E
      BY <1>4, <2>1 DEF Counts
    <3>2. e \in Ending(astack) <=>
            \E i \in DOMAIN astack : astack[i].op \in {"finish", "hooks"} /\ astack[i].ev = e
      BY <1>3, OnStack
    <3>3. QED
      BY <1>1, <3>1, <3>2
  <2>9. QED
    BY <2>2, <2>6, <2>7, <2>8
<1>7. QED
  BY <1>4, <1>5, <1>6 DEF Wraps!AdapterMemory

\* The invariant says what the property says.
LEMMA WrapAgree ==
  ASSUME Wraps!AdapterAssumption, WrapInv
  PROVE  AdaptersAgree
<1>1. /\ Shape3 /\ IsFiniteSet(Wrap)
      /\ Tracker \in [Wrap -> Wrap] /\ \A v, w \in Wrap : Tracker[v] = Tracker[w] => v = w
  BY WrapShape
<1>2. PICK Q, U, F, O, L, E, H, D :
        /\ H = Hooking(astack) /\ D = Deleting(astack)
        /\ Q = CallSets(ahooks) /\ U = Due(CallSets(ahooks), Listing(astack))
        /\ F = Finishing(astack) /\ O = Owing(astack) /\ L = Listing(astack) /\ E = Ending(astack)
  OBVIOUS
<1>3. Group(aactive, akind, atarget, Q, Held(aholds, atarget), U, ahandles, arefs, alife, aholds,
            anode, aslot, aresult, awhy, H, D, F, O, L, E, "active", "active", "active")
  BY <1>2, AtGroup
<1>4. Wraps!Events = AEvent /\ "active" \notin AEvent /\ \A w \in Wrap : w \in AEvent
  BY <1>1 DEF Wraps!Events, AEvent, Shape3
<1>5. astack = <<>> => H = {} /\ F = {} /\ L = {}
  BY <1>2, NothingStacked
<1>6. atarget \in [Wrap -> AEvent] /\ aactive \in [AEvent -> BOOLEAN]
  BY <1>3 DEF Group, WrapTypes
<1>7. ASSUME astack = <<>>, NEW w \in Wrap, Ties(akind[w]) PROVE aactive[w] <=> aactive[atarget[w]]
  <2>1. w # "active" /\ atarget[w] # "active"
    BY <1>4, <1>6
  <2>2. aactive[w] => w \in L \/ (w \in Q[atarget[w]] /\ (aactive[atarget[w]] \/ atarget[w] \in F))
    BY <1>3, <1>7, <2>1 DEF Group, Calls
  <2>3. ~aactive[w] /\ aactive[atarget[w]] => w \in H
    BY <1>3, <1>7, <2>1 DEF Group, Calls
  <2>4. QED
    BY <1>5, <1>7, <2>2, <2>3
<1>8. Wraps!BothOrNeither
  BY <1>7 DEF Wraps!BothOrNeither, Wraps!Tied, Ties
<1>9. Wraps!FirstSetsResult
  <2>1. \A e \in AEvent : Rightly(akind, awhy[e], aslot[e])
    BY <1>3 DEF Group, Values
  <2>2. QED
    BY <1>4, <2>1 DEF Wraps!FirstSetsResult, Rightly
<1>10. ASSUME astack = <<>>, NEW w \in Wrap, akind[w] = "helper", ~aactive[atarget[w]],
              NEW S, S = {x \in Wrap : /\ akind[x] = "helper" /\ atarget[x] = atarget[w]
                                       /\ Tracker[x] = Tracker[w]}
       PROVE  aresult[Tracker[w]] = IF awhy[atarget[w]] \in S THEN awhy[atarget[w]] ELSE "zero"
  <2>1. S = {w}
    BY <1>1, <1>10
  <2>2. ~aactive[w]
    BY <1>7, <1>10 DEF Ties
  <2>3. w \notin H /\ atarget[w] # "active"
    BY <1>4, <1>5, <1>6, <1>10
  <2>4. aresult[Tracker[w]] = IF awhy[atarget[w]] = w THEN w ELSE "zero"
    BY <1>3, <1>10, <2>2, <2>3 DEF Group, Outcomes
  <2>5. QED
    BY <2>1, <2>4
<1>11. Wraps!OutcomeTells
  BY <1>10 DEF Wraps!OutcomeTells
<1>12. Wraps!AdapterMemory
  BY <1>1, WrapMemory
<1>13. QED
  BY <1>8, <1>9, <1>11, <1>12 DEF AdaptersAgree

\* In every state an adapter and its target are both active or both empty when the
\* calls have returned, the first trigger's value stays, a result variable tells what
\* ended the event, and no reference is lost or kept.
THEOREM AdaptersSafe ==
  ASSUME Wraps!AdapterAssumption
  PROVE  Wraps!Spec => []AdaptersAgree
<1>1. Wraps!Init => WrapInv
  BY WrapInit
<1>2. WrapInv /\ [Wraps!Next]_Wraps!vars => WrapInv'
  BY WrapStep, WrapStutter
<1>3. WrapInv => AdaptersAgree
  BY WrapAgree
<1>4. QED
  BY <1>1, <1>2, <1>3, PTL DEF Wraps!Spec
===============================================================================
