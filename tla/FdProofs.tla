------------------------------- MODULE FdProofs -------------------------------
(***************************************************************************)
(* The descriptor object lives exactly as long as somebody refers to it,   *)
(* and closes its number once, for any finite number of calls; reads and   *)
(* writes end in the order in which they were called.  exec gives a child    *)
(* process its descriptors and no others, for any list of them; the sockets *)
(* of the helper processes stay in order, for any number of them; and what  *)
(* is read through a buffer is the input, cut after each delimiter.         *)
(***************************************************************************)
EXTENDS Files, FiniteSetTheorems, SequenceTheorems, TLAPS

OpAssumption == IsFiniteSet(Op) /\ MaxRefs \in Nat \ {0} /\ Size \in Nat \ {0}

Places == {"idle", "called", "locking", "polling", "woken", "linked", "done"}

PendingOps == {o \in Op : Pending(o)}
Armed == IF closer = "armed" THEN 1 ELSE 0
Links(o) == kind[o] = "tcp_connect" /\ pc[o] \notin {"idle", "done"}

\* While a call such as tcp_connect is making the descriptor nobody else has it,
\* so that its failure is the first to close the number; and an event of closer()
\* is armed only while the number is open.  What deref deleted twice, nobody
\* refers to any more.
LifeInv ==
  /\ refs \in Nat /\ weak \in Nat
  /\ pc \in [Op -> Places] /\ kind \in [Op -> Kind]
  /\ DescriptorLifetime
  /\ closer = "armed" => Open
  /\ torn \in BOOLEAN /\ (torn => refs = 0 /\ weak = 0)
  /\ \A o \in Op : Links(o) => Open /\ closer # "armed"
  /\ \A o, p \in Op : Links(o) /\ Links(p) => o = p
  /\ \A o \in Op : pc[o] = "linked" => Links(o)

LEMMA Count ==
  ASSUME OpAssumption, LifeInv
  PROVE  IsFiniteSet(PendingOps) /\ Cardinality(PendingOps) \in Nat
<1>1. PendingOps \in SUBSET Op
  BY DEF PendingOps
<1>2. QED
  BY <1>1, FS_Subset, FS_CardinalityType DEF OpAssumption

\* The exact count, in terms of the sets.
LEMMA Exact ==
  DescriptorLifetime <=>
    /\ weak = Cardinality(PendingOps) + Armed
    /\ deleted = (IF refs = 0 /\ weak = 0 THEN IF torn THEN 2 ELSE 1 ELSE 0)
    /\ closes = (IF Open THEN 0 ELSE 1)
    /\ refs = 0 => ~Open
BY DEF DescriptorLifetime, PendingOps, Armed

LEMMA ExactNext ==
  DescriptorLifetime' <=>
    /\ weak' = Cardinality(PendingOps') + Armed'
    /\ deleted' = (IF refs' = 0 /\ weak' = 0 THEN IF torn' THEN 2 ELSE 1 ELSE 0)
    /\ closes' = (IF Open' THEN 0 ELSE 1)
    /\ refs' = 0 => ~Open'
BY DEF DescriptorLifetime, PendingOps, Armed

LEMMA LifeInit == ASSUME OpAssumption, Init PROVE LifeInv
<1> USE DEF Init
<1>1. PendingOps = {}
  BY DEF PendingOps, Pending
<1>2. DescriptorLifetime
  BY <1>1, Exact, FS_EmptySet DEF Armed, Open
<1>3. QED
  BY <1>2 DEF LifeInv, Places, Kind, In, Links

\* Steps of calls that stay pending, and of the calls' own data.
LEMMA Stays ==
  ASSUME OpAssumption, LifeInv, UNCHANGED <<fde, refs, weak, deleted, closes, closer, torn, kind>>,
         pc' \in [Op -> Places],
         \A o \in Op : (Pending(o) <=> Pending(o)') /\ (Links(o)' => Links(o)),
         \A o \in Op : pc'[o] = "linked" => pc[o] = "linked"
  PROVE  LifeInv'
<1>1. PendingOps' = PendingOps
  BY DEF PendingOps
<1>2. DescriptorLifetime'
  BY <1>1, Exact, ExactNext DEF LifeInv, Armed, Open
<1>3. \A o \in Op : (pc[o] = "linked" => Links(o)) => (pc'[o] = "linked" => Links(o)')
  BY DEF Links
<1>4. QED
  BY <1>2, <1>3 DEF LifeInv, Open

\* A call ends and gives back its reference.
LEMMA Ends ==
  ASSUME OpAssumption, LifeInv, NEW o \in Op, Pending(o),
         UNCHANGED <<fde, refs, closes, closer, torn, kind>>, WeakDeref(1),
         pc' = [pc EXCEPT ![o] = IF kind[o] = "tcp_connect" THEN "linked" ELSE "done"]
  PROVE  LifeInv'
<1>1. pc' \in [Op -> Places] /\ PendingOps' = PendingOps \ {o} /\ o \in PendingOps
  BY DEF LifeInv, Places, PendingOps, Pending
<1>2. Cardinality(PendingOps') = Cardinality(PendingOps) - 1 /\ Cardinality(PendingOps') \in Nat
  <2>1. IsFiniteSet(PendingOps) /\ IsFiniteSet(PendingOps \ {o})
        /\ Cardinality(PendingOps \ {o}) = Cardinality(PendingOps) - 1
    BY <1>1, Count, FS_RemoveElement
  <2>2. QED
    BY <1>1, <2>1, FS_CardinalityType
<1>3. weak' \in Nat /\ weak' = Cardinality(PendingOps') + Armed' /\ weak # 0
  BY <1>2, Count, Exact DEF LifeInv, Armed, WeakDeref
<1>4. ~torn /\ ~torn'
  BY <1>3 DEF LifeInv, WeakDeref
<1>8. DescriptorLifetime'
  BY <1>2, <1>3, <1>4, Exact, ExactNext DEF LifeInv, WeakDeref, Open
<1>5. \A p \in Op : Links(p)' => Links(p)
  BY DEF LifeInv, Links, Pending, Places
<1>6. \A p \in Op : pc'[p] = "linked" => Links(p)'
  BY <1>1 DEF LifeInv, Links
<1>7. QED
  BY <1>1, <1>3, <1>4, <1>5, <1>6, <1>8 DEF LifeInv, Open

\* One resumption
LEMMA RunStep ==
  ASSUME OpAssumption, LifeInv, NEW o \in Op, Pending(o), Run(o)
  PROVE  LifeInv'
<1>1. PICK s \in Step(o) :
        /\ UNCHANGED <<fde, refs, closes, closer, torn, kind>>
        /\ IF s[2] = "again"
           THEN pc' = [pc EXCEPT ![o] = "polling"] /\ UNCHANGED <<weak, deleted>>
           ELSE /\ pc' = [pc EXCEPT ![o] = IF kind[o] = "tcp_connect" THEN "linked" ELSE "done"]
                /\ WeakDeref(1)
  BY DEF Run
<1>2. CASE s[2] = "again"
  <2>1. pc' \in [Op -> Places] /\ \A p \in Op : Pending(p) <=> Pending(p)'
    BY <1>1, <1>2 DEF LifeInv, Places, Pending
  <2>2. \A p \in Op : Links(p)' => Links(p)
    BY <1>1, <1>2 DEF LifeInv, Links, Pending
  <2>3. \A p \in Op : pc'[p] = "linked" => pc[p] = "linked"
    BY <1>1, <1>2 DEF LifeInv
  <2>4. QED
    BY <1>1, <1>2, <2>1, <2>2, <2>3, Stays
<1>3. CASE s[2] # "again"
  BY <1>1, <1>3, Ends
<1>4. QED
  BY <1>2, <1>3

\* Readiness, the lock and the caller's event
LEMMA WaitStep ==
  ASSUME OpAssumption, LifeInv, NEW o \in Op, Grant(o) \/ Ready(o) \/ Cancel(o)
  PROVE  LifeInv'
<1>1. pc' \in [Op -> Places] /\ \A p \in Op : Pending(p) <=> Pending(p)'
  BY DEF LifeInv, Places, Pending, Grant, Ready, Cancel
<1>2. \A p \in Op : Links(p)' => Links(p)
  BY DEF LifeInv, Links, Grant, Ready, Cancel
<1>3. UNCHANGED <<fde, refs, weak, deleted, closes, closer, torn, kind>>
  BY DEF Grant, Ready, Cancel, imp
<1>4. \A p \in Op : pc'[p] = "linked" => pc[p] = "linked"
  BY DEF LifeInv, Grant, Ready, Cancel
<1>5. QED
  BY <1>1, <1>2, <1>3, <1>4, Stays

LEMMA CallStep ==
  ASSUME OpAssumption, LifeInv, NEW o \in Op, NEW k \in Kind, Call(o, k)
  PROVE  LifeInv'
<1>1. /\ UNCHANGED <<fde, refs, deleted, closes, closer, torn>> /\ refs > 0 /\ pc[o] = "idle"
      /\ kind' = [kind EXCEPT ![o] = k]
      /\ \A p \in Op : ~Links(p)
  BY DEF Call, Free, Linking, Links
<1>2. kind' \in [Op -> Kind]
  BY <1>1 DEF LifeInv
<1>3. CASE ~Open \/ k = "direct"
  <2>1. pc' = [pc EXCEPT ![o] = "done"] /\ weak' = weak
    BY <1>3 DEF Call
  <2>2. pc' \in [Op -> Places] /\ PendingOps' = PendingOps
    BY <1>1, <2>1 DEF LifeInv, Places, PendingOps, Pending
  <2>3. \A p \in Op : ~Links(p)'
    BY <1>1, <2>1 DEF LifeInv, Links
  <2>4. DescriptorLifetime'
    BY <1>1, <2>1, <2>2, Exact, ExactNext DEF LifeInv, Armed, Open
  <2>5. \A p \in Op : pc'[p] # "linked"
    BY <1>1, <2>1 DEF LifeInv
  <2>6. QED
    BY <1>1, <1>2, <2>1, <2>2, <2>3, <2>4, <2>5 DEF LifeInv, Open
<1>4. CASE Open /\ k # "direct"
  <2>1. PICK place \in {"called", "locking"} :
          pc' = [pc EXCEPT ![o] = place] /\ weak' = weak + 1
    BY <1>4 DEF Call
  <2>2. pc' \in [Op -> Places] /\ PendingOps' = PendingOps \cup {o} /\ o \notin PendingOps
    BY <1>1, <2>1 DEF LifeInv, Places, PendingOps, Pending
  <2>3. Cardinality(PendingOps') = Cardinality(PendingOps) + 1
    BY <2>2, Count, FS_AddElement
  <2>4. weak' \in Nat /\ weak' = Cardinality(PendingOps') + Armed'
    BY <1>1, <2>1, <2>3, Count, Exact DEF LifeInv, Armed
  <2>5. DescriptorLifetime'
    BY <1>1, <2>4, Exact, ExactNext DEF LifeInv, Open
  <2>6. \A p \in Op : Links(p)' => p = o /\ k = "tcp_connect"
    BY <1>1, <2>1 DEF LifeInv, Links
  <2>7. k = "tcp_connect" => closer = "none"
    BY DEF Call
  <2>8. \A p \in Op : pc'[p] # "linked"
    BY <1>1, <2>1 DEF LifeInv
  <2>9. QED
    BY <1>1, <1>2, <1>4, <2>2, <2>4, <2>5, <2>6, <2>7, <2>8 DEF LifeInv, Open
<1>5. QED
  BY <1>3, <1>4

LEMMA TcpStep ==
  ASSUME OpAssumption, LifeInv, NEW o \in Op, TcpConnected(o)
  PROVE  LifeInv'
<1>1. /\ pc' = [pc EXCEPT ![o] = "done"] /\ pc[o] = "linked"
      /\ UNCHANGED <<refs, weak, deleted, closer, torn, kind>>
  BY DEF TcpConnected
<1>2. Links(o) /\ Open /\ closer # "armed" /\ \A p \in Op : Links(p) => p = o
  BY <1>1 DEF LifeInv, Links
<1>3. pc' \in [Op -> Places] /\ PendingOps' = PendingOps
  BY <1>1 DEF LifeInv, Places, PendingOps, Pending
<1>4. \A p \in Op : ~Links(p)'
  BY <1>1, <1>2 DEF LifeInv, Links
<1>5. refs # 0 /\ closes' = IF Open' THEN 0 ELSE 1
  BY <1>2, Exact DEF LifeInv, TcpConnected, Open
<1>6. DescriptorLifetime'
  BY <1>1, <1>3, <1>5, Exact, ExactNext DEF LifeInv, Armed
<1>7. \A p \in Op : pc'[p] # "linked"
  BY <1>1, <1>2 DEF LifeInv
<1>8. QED
  BY <1>1, <1>2, <1>3, <1>4, <1>6, <1>7 DEF LifeInv

(* The object itself.  Nobody is making it and no call has just begun. *)

\* The last wrapper, which keeps the number open, is not gone before the close;
\* pending calls are resumed by kill_fd and stay pending.
LEMMA CloseImpOK ==
  ASSUME OpAssumption, LifeInv, Free, NEW err \in {"EBADF", "error"}, CloseImp(err),
         UNCHANGED kind
  PROVE  /\ pc' \in [Op -> Places] /\ PendingOps' = PendingOps
         /\ \A o \in Op : ~Links(o)' /\ pc'[o] # "linked"
         /\ ~Open' /\ closes' = 1 /\ closer' # "armed"
         /\ Armed' = 0 /\ (closer # closer' <=> closer = "armed")
<1>1. \A o \in Op : ~Links(o)
  BY DEF Free, Linking, Links
<1>2. pc' \in [Op -> Places] /\ \A o \in Op : Pending(o) <=> Pending(o)'
  BY DEF LifeInv, CloseImp, Woken, Places, Pending
<1>3. \A o \in Op : pc'[o] \in {"idle", "done"} <=> pc[o] \in {"idle", "done"}
  BY DEF LifeInv, CloseImp, Woken, Places
<1>4. \A o \in Op : pc'[o] = "linked" => pc[o] = "linked"
  BY DEF LifeInv, CloseImp, Woken, Places
<1>5. ~Open' /\ closes' = 1 /\ closer' # "armed" /\ (closer # closer' <=> closer = "armed")
  BY DEF CloseImp, LifeInv, DescriptorLifetime, Open
<1>6. QED
  BY <1>1, <1>2, <1>3, <1>4, <1>5 DEF LifeInv, Links, PendingOps, Armed

LEMMA CloseStep ==
  ASSUME OpAssumption, LifeInv,
         (\E err \in {"EBADF", "error"} : Close(err)) \/ TriggerCloser
  PROVE  LifeInv'
<1>1. PICK err \in {"EBADF", "error"} :
        /\ CloseImp(err) /\ Free /\ UNCHANGED <<refs, torn, kind>>
        /\ WeakDeref(IF closer = "armed" THEN 1 ELSE 0) /\ refs > 0
  <2>1. ASSUME NEW err \in {"EBADF", "error"}, Close(err)
        PROVE  /\ CloseImp(err) /\ Free /\ UNCHANGED <<refs, torn, kind>>
               /\ WeakDeref(IF closer = "armed" THEN 1 ELSE 0) /\ refs > 0
    <3>1. CloseImp(err) /\ Free /\ UNCHANGED <<refs, torn, kind>> /\ refs > 0
          /\ WeakDeref(IF closer # closer' THEN 1 ELSE 0)
      BY <2>1 DEF Close, MayClose
    <3>2. QED
      BY <3>1, CloseImpOK
  <2>2. ASSUME TriggerCloser
        PROVE  /\ CloseImp("EBADF") /\ Free /\ UNCHANGED <<refs, torn, kind>>
               /\ WeakDeref(IF closer = "armed" THEN 1 ELSE 0) /\ refs > 0
    BY <2>2 DEF TriggerCloser, MayClose, LifeInv, DescriptorLifetime
  <2>3. QED
    BY <2>1, <2>2
<1>2. /\ pc' \in [Op -> Places] /\ PendingOps' = PendingOps
      /\ \A o \in Op : ~Links(o)' /\ pc'[o] # "linked"
      /\ ~Open' /\ closes' = 1 /\ closer' # "armed" /\ Armed' = 0
  BY <1>1, CloseImpOK
<1>3. weak' \in Nat /\ weak' = Cardinality(PendingOps') + Armed'
  BY <1>1, <1>2, Count, Exact DEF LifeInv, Armed, WeakDeref
<1>4. deleted' = IF refs' = 0 /\ weak' = 0 THEN 1 ELSE 0
  BY <1>1, Exact DEF LifeInv, WeakDeref
<1>5. DescriptorLifetime'
  BY <1>1, <1>2, <1>3, <1>4, Exact, ExactNext
<1>6. QED
  BY <1>1, <1>2, <1>3, <1>5 DEF LifeInv

LEMMA DropStep == ASSUME OpAssumption, LifeInv, Drop PROVE LifeInv'
<1>1. CASE refs = 1
  <2>1. CloseImp("EBADF") /\ Free /\ UNCHANGED kind /\ refs' = 0 /\ torn' = (torn \/ Tears)
    BY <1>1 DEF Drop, LifeInv
  <2>2. /\ pc' \in [Op -> Places] /\ PendingOps' = PendingOps
        /\ \A o \in Op : ~Links(o)' /\ pc'[o] # "linked"
        /\ ~Open' /\ closes' = 1 /\ closer' # "armed" /\ Armed' = 0
        /\ (closer # closer' <=> closer = "armed")
    BY <2>1, CloseImpOK
  <2>3. weak' = weak - Armed
        /\ deleted' = IF weak = Armed THEN deleted + 1 + Armed ELSE deleted
    BY <1>1, <2>2 DEF Drop, Armed
  <2>4. weak = Cardinality(PendingOps) + Armed /\ deleted = 0 /\ ~torn /\ Armed \in {0, 1}
    BY <1>1, Exact DEF LifeInv, Armed
  <2>5. weak' = Cardinality(PendingOps') /\ weak' \in Nat
    BY <2>2, <2>3, <2>4, Count DEF LifeInv
  <2>6. torn' \in BOOLEAN /\ (torn' <=> Armed = 1 /\ weak = 1)
    <3>1. Tears <=> Armed = 1 /\ weak = 1
      BY <1>1 DEF Tears, Armed
    <3>2. torn' \in BOOLEAN /\ (torn' <=> Tears)
      BY <2>1, <2>4, Zenon
    <3>3. QED
      BY <3>1, <3>2, Zenon
  <2>7. deleted' = IF weak' = 0 THEN IF torn' THEN 2 ELSE 1 ELSE 0
    BY <2>3, <2>4, <2>6 DEF LifeInv
  <2>8. DescriptorLifetime'
    BY <2>1, <2>2, <2>5, <2>7, ExactNext
  <2>9. torn' => refs' = 0 /\ weak' = 0
    BY <2>1, <2>3, <2>6
  <2>10. QED
    BY <2>1, <2>2, <2>5, <2>6, <2>8, <2>9 DEF LifeInv
<1>2. CASE refs # 1
  <2>1. /\ UNCHANGED <<fde, closes, pc, closer, torn, kind>>
        /\ refs' = refs - 1 /\ refs' > 0 /\ refs > 0 /\ weak' = weak /\ deleted' = deleted
    BY <1>2 DEF Drop, LifeInv, Tears
  <2>2. PendingOps' = PendingOps /\ Armed' = Armed /\ \A o \in Op : Links(o)' <=> Links(o)
    BY <2>1 DEF PendingOps, Pending, Armed, Links
  <2>3. DescriptorLifetime'
    BY <2>1, <2>2, Exact, ExactNext DEF LifeInv, Open
  <2>4. QED
    BY <2>1, <2>2, <2>3 DEF LifeInv, Open
<1>3. QED
  BY <1>1, <1>2

LEMMA WrapStep == ASSUME OpAssumption, LifeInv, Copy \/ MakeCloser PROVE LifeInv'
<1>1. /\ UNCHANGED <<fde, closes, deleted, torn, pc, kind>> /\ refs' >= refs /\ refs > 0
      /\ refs' \in Nat /\ weak' \in Nat
      /\ weak' - Armed' = weak - Armed /\ Armed' \in {0, 1} /\ Armed \in {0, 1}
      /\ \/ closer' = closer
         \/ Open /\ Free
  BY DEF Copy, MakeCloser, calls, Armed, LifeInv, OpAssumption
<1>2. PendingOps' = PendingOps /\ \A o \in Op : Links(o)' <=> Links(o)
  BY <1>1 DEF PendingOps, Pending, Links
<1>3. Free => \A o \in Op : ~Links(o)
  BY DEF Free, Linking, Links
<1>4. DescriptorLifetime'
  BY <1>1, <1>2, Count, Exact, ExactNext DEF LifeInv, Open
<1>5. QED
  BY <1>1, <1>2, <1>3, <1>4 DEF LifeInv, Open

LEMMA LifeNext == ASSUME OpAssumption, LifeInv, [Next]_vars PROVE LifeInv'
<1>1. CASE UNCHANGED vars
  BY <1>1, Stays DEF vars, imp, calls, LifeInv, Pending, Links
<1>2. ASSUME NEW o \in Op, Started(o) \/ Resume(o)
      PROVE  LifeInv'
  BY <1>2, RunStep DEF Started, Resume, Pending
<1>3. QED
  BY <1>1, <1>2, WaitStep, TcpStep, CallStep, CloseStep, DropStep, WrapStep DEF Next

\* tamer::fd::fdimp (tamer/fd.hh): whatever is closed, copied, dropped, canceled or
\* resumed in whatever order, the two counts are exact, the object is deleted when
\* nobody refers to it, and the descriptor number is closed once and no later than
\* the last wrapper goes.  The object is deleted once; but twice exactly if the
\* last wrapper goes away while an armed event of closer() is all that is left.
THEOREM LifetimeExact == ASSUME OpAssumption PROVE Spec => []DescriptorLifetime
<1>1. Init => LifeInv
  BY LifeInit
<1>2. LifeInv /\ [Next]_vars => LifeInv'
  BY LifeNext
<1>3. LifeInv => DescriptorLifetime
  BY DEF LifeInv
<1>4. QED
  BY <1>1, <1>2, <1>3, PTL DEF Spec

(***************************************************************************)
(* The order of the operations                                             *)
(***************************************************************************)

Dirs == {"in", "out"}
Class(d) == IF d = "in" THEN In ELSE Out
Lock(d) == IF d = "in" THEN rlock ELSE wlock

\* Calls are made once, and those that were made are not idle.
CalledInv ==
  /\ called \in Seq(Op)
  /\ \A i, j \in DOMAIN called : called[i] = called[j] => i = j
  /\ \A o \in Op : pc[o] # "idle" <=> \E i \in DOMAIN called : called[i] = o
  /\ \A o \in Op : Pending(o) => kind[o] # "direct"

\* The queue of a lock holds the pending calls in the order they were made; all but
\* the first wait for the lock.
QueueInv(d) ==
  /\ Lock(d) \in Seq(Op)
  /\ \A i \in DOMAIN Lock(d) :
       /\ kind[Lock(d)[i]] \in Class(d) /\ Pending(Lock(d)[i])
       /\ i # 1 => pc[Lock(d)[i]] = "locking"
  /\ \A i, j \in DOMAIN Lock(d) : i < j => Before(Lock(d)[i], Lock(d)[j])
  /\ \A o \in Op : kind[o] \in Class(d) /\ Pending(o) => \E i \in DOMAIN Lock(d) : Lock(d)[i] = o

\* Nobody in direction d who was called before p is pending.
Clear(p, d) == \A o \in Op : Before(o, p) /\ kind[o] \in Class(d) => ~Pending(o)

AnsweredInv(d) ==
  \A p \in Op :
    kind[p] \in Class(d) /\ pc[p] \in {"linked", "done"} /\ result[p] # "EBADF" => Clear(p, d)

\* Whoever has moved bytes is at its turn or was.
MovedInv(d) ==
  /\ moved[d] \in Seq(Op)
  /\ \A i \in DOMAIN moved[d] :
       LET p == moved[d][i] IN
         pc[p] # "idle" /\ (kind[p] = "sendmsg" \/ (kind[p] \in Class(d) /\ Clear(p, d)))
  /\ \A i, j \in DOMAIN moved[d] :
       i < j /\ kind[moved[d][i]] # "sendmsg" /\ kind[moved[d][j]] # "sendmsg"
         => ~Before(moved[d][j], moved[d][i])

ResultTyped ==
  /\ active \subseteq Op
  /\ result \in [Op -> {"none", "ok"} \cup Errors]
  /\ pos \in [Op -> 0 .. Size]
  /\ fde \in {"open", "EBADF", "error"}
  /\ refs <= MaxRefs
  /\ closer \in {"none", "armed", "gone"}

OrderInv ==
  /\ CalledInv /\ ResultTyped /\ moved \in [Dirs -> Seq(Op)]
  /\ \A d \in Dirs : QueueInv(d) /\ AnsweredInv(d) /\ MovedInv(d)

\* What is known of the first in a queue, and of the order in which calls are made.
LEMMA BeforeOrder ==
  ASSUME CalledInv, NEW o \in Op, NEW p \in Op, Before(o, p)
  PROVE  ~Before(p, o) /\ o # p /\ pc[o] # "idle" /\ pc[p] # "idle"
<1>1. DOMAIN called = 1 .. Len(called) /\ Len(called) \in Nat
  BY DEF CalledInv
<1>2. PICK i \in DOMAIN called, j \in DOMAIN called : i < j /\ called[i] = o /\ called[j] = p
  BY DEF Before
<1>3. ASSUME NEW m \in DOMAIN called, NEW n \in DOMAIN called, m < n, called[m] = p, called[n] = o
      PROVE  FALSE
  <2>1. m = j /\ n = i
    BY <1>2, <1>3 DEF CalledInv
  <2>2. QED
    BY <1>1, <1>2, <1>3, <2>1
<1>4. o # p
  <2>1. i # j
    BY <1>1, <1>2
  <2>2. QED
    BY <1>2, <2>1 DEF CalledInv
<1>5. QED
  BY <1>2, <1>3, <1>4 DEF CalledInv, Before

LEMMA QueueOrder ==
  ASSUME CalledInv, NEW d \in Dirs, QueueInv(d), NEW i \in DOMAIN Lock(d), NEW j \in DOMAIN Lock(d), i # j
  PROVE  Lock(d)[i] # Lock(d)[j]
<1>1. i \in Int /\ j \in Int /\ Lock(d)[i] \in Op /\ Lock(d)[j] \in Op
  BY DEF QueueInv
<1>2. i < j \/ j < i
  BY <1>1
<1>3. Before(Lock(d)[i], Lock(d)[j]) \/ Before(Lock(d)[j], Lock(d)[i])
  BY <1>2 DEF QueueInv
<1>4. QED
  BY <1>1, <1>3, BeforeOrder

\* An operation runs only at its turn, and then nobody before it is pending.
LEMMA AtTurn ==
  ASSUME CalledInv, NEW d \in Dirs, QueueInv(d), NEW o \in Op,
         kind[o] \in Class(d), Pending(o), pc[o] # "locking"
  PROVE  Lock(d) # <<>> /\ 1 \in DOMAIN Lock(d) /\ Lock(d)[1] = o /\ Clear(o, d)
<1>1. Lock(d) \in Seq(Op)
  BY DEF QueueInv
<1>2. PICK i \in DOMAIN Lock(d) : Lock(d)[i] = o
  BY DEF QueueInv
<1>3. i = 1
  BY <1>2 DEF QueueInv
<1>4. ASSUME NEW x \in Op, Before(x, o), kind[x] \in Class(d), Pending(x)
      PROVE  FALSE
  <2>1. PICK j \in DOMAIN Lock(d) : Lock(d)[j] = x
    BY <1>4 DEF QueueInv
  <2>2. x # o /\ ~Before(o, x)
    BY <1>4, BeforeOrder
  <2>3. 1 < j
    BY <1>1, <1>2, <1>3, <2>1, <2>2
  <2>4. Before(o, x)
    BY <1>2, <1>3, <2>1, <2>3 DEF QueueInv
  <2>5. QED
    BY <2>2, <2>4
<1>5. QED
  BY <1>1, <1>2, <1>3, <1>4 DEF Clear

LEMMA Places2 ==
  ASSUME pc \in [Op -> Places], NEW o \in Op
  PROVE  Pending(o) <=> pc[o] \notin {"idle", "linked", "done"}
BY DEF Places, Pending

\* Steps that leave the queues, the bytes and the answers alone
LEMMA OrderFrame ==
  ASSUME OrderInv, ResultTyped', UNCHANGED <<called, kind, moved, result, rlock, wlock>>,
         \A o \in Op : Pending(o)' <=> Pending(o),
         \A o \in Op : pc'[o] = "idle" <=> pc[o] = "idle",
         \A o \in Op : pc'[o] \in {"linked", "done"} <=> pc[o] \in {"linked", "done"},
         \A o \in Op : pc[o] = "locking" /\ pc'[o] # "locking" => \E d \in Dirs : Holds(Lock(d), o)
  PROVE  OrderInv'
<1>1. \A o, p : Before(o, p)' <=> Before(o, p)
  BY DEF Before
<1>2. \A p \in Op, d \in Dirs : Clear(p, d)' <=> Clear(p, d)
  BY <1>1 DEF Clear
<1>3. CalledInv'
  BY DEF OrderInv, CalledInv
<1>4. ASSUME NEW d \in Dirs PROVE QueueInv(d)'
  <2>1. Lock(d)' = Lock(d) /\ QueueInv(d) /\ Lock(d) \in Seq(Op) /\ CalledInv
    BY DEF Lock, OrderInv, QueueInv
  <2>2. ASSUME NEW i \in DOMAIN Lock(d), i # 1
        PROVE  pc'[Lock(d)[i]] = "locking"
    <3>1. Lock(d)[i] \in Op /\ pc[Lock(d)[i]] = "locking" /\ kind[Lock(d)[i]] \in Class(d)
      BY <2>1, <2>2 DEF QueueInv
    <3>2. ASSUME NEW e \in Dirs, Holds(Lock(e), Lock(d)[i])
          PROVE  FALSE
      <4>1. QueueInv(e) /\ Lock(e) \in Seq(Op) /\ 1 \in DOMAIN Lock(e) /\ Lock(e)[1] = Lock(d)[i]
        BY <3>2 DEF OrderInv, QueueInv, Holds
      <4>2. kind[Lock(d)[i]] \in Class(e)
        BY <4>1 DEF QueueInv
      <4>3. e = d
        BY <3>1, <4>2 DEF Dirs, Class, In, Out
      <4>4. QED
        BY <2>1, <2>2, <4>1, <4>3, QueueOrder
    <3>3. QED
      BY <3>1, <3>2
  <2>3. QED
    BY <1>1, <2>1, <2>2 DEF QueueInv
<1>5. ASSUME NEW d \in Dirs PROVE AnsweredInv(d)'
  BY <1>2, <1>5 DEF OrderInv, AnsweredInv
<1>6. ASSUME NEW d \in Dirs PROVE MovedInv(d)'
  <2>1. MovedInv(d) /\ moved[d] \in Seq(Op)
    BY DEF OrderInv, MovedInv
  <2>2. \A i \in DOMAIN moved[d] : moved[d][i] \in Op
    BY <2>1
  <2>3. QED
    BY <1>1, <1>2, <2>1, <2>2 DEF MovedInv
<1>7. QED
  BY <1>3, <1>4, <1>5, <1>6 DEF OrderInv

LEMMA Disjoint ==
  ASSUME NEW k
  PROVE  /\ "in" \in Dirs /\ "out" \in Dirs /\ Dirs = {"in", "out"}
         /\ k \in Class("in") => k \in In /\ k \notin Out /\ k \notin {"sendmsg", "direct"}
         /\ k \in Class("out") => k \in Out /\ k \notin In /\ k \notin {"sendmsg", "direct"}
BY DEF Class, Dirs, In, Out

(* A new call *)

\* The new call comes after those that were made before it.
LEMMA Made ==
  ASSUME CalledInv, NEW o \in Op, pc[o] = "idle", called' = Append(called, o)
  PROVE  /\ called' \in Seq(Op)
         /\ \A i, j \in DOMAIN called' : called'[i] = called'[j] => i = j
         /\ \A p \in Op : (\E i \in DOMAIN called' : called'[i] = p)
                            <=> p = o \/ \E i \in DOMAIN called : called[i] = p
         /\ \A x, y \in Op : Before(x, y)' <=> Before(x, y) \/ (y = o /\ pc[x] # "idle")
<1> DEFINE n == Len(called)
<1>1. /\ called \in Seq(Op) /\ n \in Nat /\ DOMAIN called = 1 .. n
      /\ called' \in Seq(Op) /\ DOMAIN called' = 1 .. n + 1
      /\ called'[n + 1] = o /\ \A i \in 1 .. n : called'[i] = called[i]
  BY DEF CalledInv
<1>2. \A i \in 1 .. n : called[i] # o /\ called[i] \in Op
  BY <1>1 DEF CalledInv
<1>3. \A i \in 1 .. n + 1 : i \in 1 .. n \/ i = n + 1
  BY <1>1
<1>4. \A i, j \in DOMAIN called' : called'[i] = called'[j] => i = j
  BY <1>1, <1>2, <1>3 DEF CalledInv
<1>5. \A p \in Op : (\E i \in DOMAIN called' : called'[i] = p)
                      <=> p = o \/ \E i \in DOMAIN called : called[i] = p
  <2>1. 1 .. n \subseteq 1 .. n + 1 /\ n + 1 \in 1 .. n + 1
    BY <1>1
  <2>2. QED
    BY <1>1, <1>3, <2>1
<1>6. ASSUME NEW x \in Op, NEW y \in Op
      PROVE  Before(x, y)' <=> Before(x, y) \/ (y = o /\ pc[x] # "idle")
  <2>1. ASSUME Before(x, y)'
        PROVE  Before(x, y) \/ (y = o /\ pc[x] # "idle")
    <3>1. PICK i \in 1 .. n + 1, j \in 1 .. n + 1 : i < j /\ called'[i] = x /\ called'[j] = y
      BY <1>1, <2>1 DEF Before
    <3>2. i \in 1 .. n /\ called[i] = x
      BY <1>1, <3>1
    <3>3. CASE j = n + 1
      BY <1>1, <3>1, <3>2, <3>3 DEF CalledInv
    <3>4. CASE j \in 1 .. n
      BY <1>1, <3>1, <3>2, <3>4 DEF Before
    <3>5. QED
      BY <1>3, <3>3, <3>4
  <2>2. ASSUME Before(x, y)
        PROVE  Before(x, y)'
    <3>1. PICK i \in 1 .. n, j \in 1 .. n : i < j /\ called[i] = x /\ called[j] = y
      BY <1>1, <2>2 DEF Before
    <3>2. i \in 1 .. n + 1 /\ j \in 1 .. n + 1 /\ called'[i] = x /\ called'[j] = y
      BY <1>1, <3>1
    <3>3. QED
      BY <1>1, <3>1, <3>2 DEF Before
  <2>3. ASSUME y = o, pc[x] # "idle"
        PROVE  Before(x, y)'
    <3>1. PICK i \in 1 .. n : called[i] = x
      BY <1>1, <2>3 DEF CalledInv
    <3>2. i \in 1 .. n + 1 /\ n + 1 \in 1 .. n + 1 /\ i < n + 1 /\ called'[i] = x /\ called'[n + 1] = y
      BY <1>1, <2>3, <3>1
    <3>3. QED
      BY <1>1, <3>2 DEF Before
  <2>4. QED
    BY <2>1, <2>2, <2>3
<1>7. QED
  BY <1>1, <1>4, <1>5, <1>6

\* What a call does to the calls and to the lock of one direction
Asked(o, k, d) ==
  \/ /\ ~Open \/ k = "direct"
     /\ pc' = [pc EXCEPT ![o] = "done"] /\ Lock(d)' = Lock(d)
     /\ k = "direct" \/ result'[o] = "EBADF"
  \/ /\ k \notin Class(d) /\ k # "direct" /\ Lock(d)' = Lock(d) /\ UNCHANGED result
     /\ \E place \in {"called", "locking"} : pc' = [pc EXCEPT ![o] = place]
  \/ /\ k \in Class(d) /\ k # "direct" /\ Lock(d)' = Append(Lock(d), o) /\ UNCHANGED result
     /\ \E place \in {"called", "locking"} :
          /\ pc' = [pc EXCEPT ![o] = place]
          /\ Lock(d) # <<>> => place = "locking"

LEMMA CallAsks ==
  ASSUME LifeInv, OrderInv, NEW o \in Op, NEW k \in Kind, Call(o, k), NEW d \in Dirs
  PROVE  Asked(o, k, d)
<1>1. /\ pc[o] = "idle" /\ rlock \in Seq(Op) /\ wlock \in Seq(Op)
      /\ \A i \in DOMAIN rlock : Pending(rlock[i])
      /\ \A i \in DOMAIN wlock : Pending(wlock[i])
  BY Disjoint DEF Call, OrderInv, QueueInv, Lock
<1>2. ~Pending(o)
  BY <1>1 DEF Pending
<1>3. ASSUME NEW q \in Seq(Op), \A i \in DOMAIN q : Pending(q[i])
      PROVE  ~Holds(q, o) /\ (q # <<>> => ~Holds(Append(q, o), o))
  <2>1. q # <<>> => 1 \in DOMAIN q /\ Head(q) = q[1] /\ Head(Append(q, o)) = q[1]
    BY <1>3
  <2>2. QED
    BY <1>2, <1>3, <2>1 DEF Holds
<1>4. CASE ~Open \/ k = "direct"
  <2>1. pc' = [pc EXCEPT ![o] = "done"] /\ Lock(d)' = Lock(d)
    BY <1>4 DEF Call, Lock, locks
  <2>2. k = "direct" \/ result'[o] = "EBADF"
    BY <1>4 DEF Call, DirectResult, OrderInv, ResultTyped
  <2>3. QED
    BY <1>4, <2>1, <2>2 DEF Asked
<1>5. CASE Open /\ k # "direct"
  <2> DEFINE place == IF k = "sendmsg" \/ Holds(rlock', o) \/ Holds(wlock', o) THEN "called" ELSE "locking"
  <2>1. pc' = [pc EXCEPT ![o] = place] /\ Ask(o, k) /\ UNCHANGED result /\ place \in {"called", "locking"}
    BY <1>5 DEF Call
  <2>2. CASE k \in Class(d)
    <3>1. Lock(d)' = Append(Lock(d), o) /\ k # "sendmsg"
      BY <2>1, <2>2, Disjoint DEF Ask, Lock, Class, Dirs
    <3>2. Lock(d) # <<>> => ~Holds(rlock', o) /\ ~Holds(wlock', o)
      <4>1. CASE d = "in"
        BY <1>1, <1>3, <2>1, <2>2, <4>1, Disjoint DEF Ask, Lock
      <4>2. CASE d = "out"
        BY <1>1, <1>3, <2>1, <2>2, <4>2, Disjoint DEF Ask, Lock
      <4>3. QED
        BY <4>1, <4>2 DEF Dirs
    <3>3. QED
      BY <1>5, <2>1, <2>2, <3>1, <3>2 DEF Asked
  <2>3. CASE k \notin Class(d)
    <3>1. Lock(d)' = Lock(d)
      BY <2>1, <2>3 DEF Ask, Lock, Class
    <3>2. QED
      BY <1>5, <2>1, <2>3, <3>1 DEF Asked
  <2>4. QED
    BY <2>2, <2>3
<1>6. QED
  BY <1>4, <1>5

LEMMA CallOrder ==
  ASSUME LifeInv, OrderInv, NEW o \in Op, NEW k \in Kind, Call(o, k), ResultTyped'
  PROVE  OrderInv'
<1>1. /\ pc[o] = "idle" /\ called' = Append(called, o) /\ moved' = moved
      /\ kind' = [kind EXCEPT ![o] = k] /\ CalledInv
  BY DEF Call, OrderInv
<1>2. PICK place \in {"called", "locking", "done"} : pc' = [pc EXCEPT ![o] = place]
                                                   /\ (k = "direct" => place = "done")
  BY Disjoint, CallAsks DEF Asked
<1>3. /\ called' \in Seq(Op)
      /\ \A i, j \in DOMAIN called' : called'[i] = called'[j] => i = j
      /\ \A p \in Op : (\E i \in DOMAIN called' : called'[i] = p)
                         <=> p = o \/ \E i \in DOMAIN called : called[i] = p
      /\ \A x, y \in Op : Before(x, y)' <=> Before(x, y) \/ (y = o /\ pc[x] # "idle")
  BY <1>1, Made
<1>4. /\ pc'[o] = place /\ kind'[o] = k /\ ~Pending(o)
      /\ \A p \in Op : p # o => pc'[p] = pc[p] /\ kind'[p] = kind[p] /\ (Pending(p)' <=> Pending(p))
  BY <1>1, <1>2 DEF LifeInv, Pending
<1>5. \A p \in Op : p # o => result'[p] = result[p]
  BY DEF Call, OrderInv, ResultTyped
<1>6. CalledInv'
  <2>1. \A p \in Op : pc'[p] # "idle" <=> \E i \in DOMAIN called' : called'[i] = p
    BY <1>1, <1>3, <1>4 DEF CalledInv
  <2>2. \A p \in Op : Pending(p)' => kind'[p] # "direct"
    BY <1>1, <1>2, <1>4 DEF CalledInv, Pending
  <2>3. QED
    BY <1>3, <2>1, <2>2 DEF CalledInv
\* Nobody is called before the new call who was called after it.
<1>7. ASSUME NEW p \in Op, NEW d \in Dirs, p # o, pc[p] # "idle", Clear(p, d)
      PROVE  Clear(p, d)'
  <2>1. ASSUME NEW x \in Op, Before(x, p)', kind'[x] \in Class(d), Pending(x)'
        PROVE  FALSE
    <3>1. Before(x, p) /\ x # o
      BY <1>1, <1>3, <1>7, <2>1, BeforeOrder
    <3>2. QED
      BY <1>4, <1>7, <2>1, <3>1 DEF Clear
  <2>2. QED
    BY <2>1 DEF Clear
<1>8. ASSUME NEW d \in Dirs PROVE QueueInv(d)'
  <2>0. PICK q \in Seq(Op) : q = Lock(d)
    BY DEF OrderInv, QueueInv
  <2>1. /\ q \in Seq(Op) /\ QueueInv(d)
        /\ \A i \in DOMAIN q : q[i] \in Op /\ q[i] # o
    <3>1. q \in Seq(Op) /\ QueueInv(d)
      BY <2>0 DEF OrderInv, QueueInv
    <3>2. \A i \in DOMAIN q : q[i] \in Op /\ Pending(q[i])
      BY <2>0, <3>1 DEF QueueInv
    <3>3. QED
      BY <1>4, <3>1, <3>2
  \* the calls that were there
  <2>2. \A i \in DOMAIN q : /\ kind'[q[i]] \in Class(d) /\ Pending(q[i])'
                            /\ i # 1 => pc'[q[i]] = "locking"
    BY <1>4, <2>0, <2>1 DEF QueueInv
  <2>3. \A i, j \in DOMAIN q : i < j => Before(q[i], q[j])'
    BY <1>3, <2>0, <2>1 DEF QueueInv
  <2>4. \A p \in Op : p # o /\ kind'[p] \in Class(d) /\ Pending(p)' => \E i \in DOMAIN q : q[i] = p
    BY <1>4, <2>0, <2>1 DEF QueueInv
  <2>5. CASE Lock(d)' = Lock(d) /\ (k \notin Class(d) \/ place = "done")
    <3>1. ~(kind'[o] \in Class(d) /\ Pending(o)')
      BY <1>4, <2>5 DEF Pending
    <3>2. QED
      BY <2>0, <2>1, <2>2, <2>3, <2>4, <2>5, <3>1 DEF QueueInv
  <2>6. CASE Lock(d)' = Append(q, o) /\ k \in Class(d) /\ place # "done" /\ (q # <<>> => place = "locking")
    <3> DEFINE r == Append(q, o)
               n == Len(q)
    <3>1. /\ r \in Seq(Op) /\ n \in Nat /\ DOMAIN q = 1 .. n /\ DOMAIN r = 1 .. n + 1
          /\ r[n + 1] = o /\ \A i \in 1 .. n : r[i] = q[i]
          /\ q = <<>> <=> n = 0
      BY <2>1
    <3>2. \A i \in 1 .. n + 1 : i \in 1 .. n \/ i = n + 1
      BY <3>1
    <3>3. 1 .. n \subseteq 1 .. n + 1 /\ n + 1 \in 1 .. n + 1
      BY <3>1
    <3>4. Pending(o)' /\ kind'[o] \in Class(d) /\ (n # 0 => pc'[o] = "locking")
      BY <1>4, <2>6, <3>1 DEF Pending
    <3>5. \A i \in DOMAIN r : /\ kind'[r[i]] \in Class(d) /\ Pending(r[i])'
                              /\ i # 1 => pc'[r[i]] = "locking"
      <4>1. n + 1 # 1 => n # 0
        BY <3>1
      <4>2. QED
        BY <2>2, <3>1, <3>2, <3>4, <4>1
    <3>6. \A i, j \in DOMAIN r : i < j => Before(r[i], r[j])'
      <4>1. ASSUME NEW i \in 1 .. n, NEW j \in 1 .. n + 1, i < j
            PROVE  Before(r[i], r[j])'
        <5>1. CASE j \in 1 .. n
          BY <2>3, <3>1, <4>1, <5>1
        <5>2. CASE j = n + 1
          <6>1. q[i] \in Op /\ pc[q[i]] # "idle" /\ r[i] = q[i] /\ r[j] = o
            BY <2>0, <2>1, <3>1, <5>2 DEF QueueInv, Pending
          <6>2. QED
            BY <1>3, <6>1
        <5>3. QED
          BY <3>2, <5>1, <5>2
      <4>2. \A j \in 1 .. n + 1 : ~(n + 1 < j)
        BY <3>1
      <4>3. QED
        BY <3>1, <3>2, <4>1, <4>2
    <3>7. \A p \in Op : kind'[p] \in Class(d) /\ Pending(p)' => \E i \in DOMAIN r : r[i] = p
      BY <2>4, <3>1, <3>3
    <3>8. Lock(d)' = r
      BY <2>6
    <3>9. QED
      BY <3>1, <3>5, <3>6, <3>7, <3>8 DEF QueueInv
  <2>7. \/ Lock(d)' = Lock(d) /\ (k \notin Class(d) \/ place = "done")
        \/ /\ Lock(d)' = Append(q, o) /\ k \in Class(d) /\ place # "done"
           /\ q # <<>> => place = "locking"
    <3>1. Asked(o, k, d)
      BY CallAsks
    <3>2. \A x \in {"called", "locking", "done"} : pc' = [pc EXCEPT ![o] = x] => x = place
      BY <1>2 DEF LifeInv
    <3>3. QED
      BY <2>0, <3>1, <3>2 DEF Asked
  <2>8. QED
    BY <2>5, <2>6, <2>7
<1>9. ASSUME NEW d \in Dirs PROVE AnsweredInv(d)'
  <2>1. ASSUME NEW p \in Op, kind'[p] \in Class(d), pc'[p] \in {"linked", "done"}, result'[p] # "EBADF"
        PROVE  Clear(p, d)'
    <3>1. CASE p = o
      <4>1. place = "done" /\ k \in Class(d)
        BY <1>4, <2>1, <3>1
      <4>2. k # "direct"
        BY <4>1, Disjoint
      <4>3. \A x \in {"called", "locking"} : pc' # [pc EXCEPT ![o] = x]
        BY <1>2, <4>1 DEF LifeInv
      <4>4. QED
        BY <2>1, <3>1, <4>2, <4>3, CallAsks DEF Asked
    <3>2. CASE p # o
      <4>1. kind[p] \in Class(d) /\ pc[p] \in {"linked", "done"} /\ result[p] # "EBADF"
        BY <1>4, <1>5, <2>1, <3>2
      <4>2. Clear(p, d) /\ pc[p] # "idle"
        BY <4>1 DEF OrderInv, AnsweredInv
      <4>3. QED
        BY <1>7, <3>2, <4>2
    <3>3. QED
      BY <3>1, <3>2
  <2>2. QED
    BY <2>1 DEF AnsweredInv
<1>10. ASSUME NEW d \in Dirs PROVE MovedInv(d)'
  <2>1. MovedInv(d) /\ moved[d] \in Seq(Op)
    BY DEF OrderInv, MovedInv
  <2>2. \A i \in DOMAIN moved[d] : moved[d][i] \in Op /\ pc[moved[d][i]] # "idle" /\ moved[d][i] # o
    BY <1>1, <2>1 DEF MovedInv
  <2>3. \A i, j \in DOMAIN moved[d] : Before(moved[d][i], moved[d][j])' <=> Before(moved[d][i], moved[d][j])
    BY <1>1, <1>3, <2>2
  <2>4. QED
    BY <1>1, <1>4, <1>7, <2>1, <2>2, <2>3 DEF MovedInv
<1>11. QED
  BY <1>1, <1>6, <1>8, <1>9, <1>10 DEF OrderInv

(* One resumption *)

LEMMA StepTyped ==
  ASSUME OpAssumption, LifeInv, OrderInv, NEW o \in Op, Pending(o), NEW s \in Step(o)
  PROVE  s[1] \in 0 .. Size /\ s[2] \in {"again", "ok", "error", "ECANCELED", "abort"}
<1>1. kind[o] \in Kind /\ kind[o] # "direct" /\ pos[o] \in 0 .. Size /\ Size \in Nat /\ Size > 0
  BY DEF LifeInv, OrderInv, CalledInv, ResultTyped, OpAssumption
<1>2. 0 \in 0 .. Size /\ 1 \in 0 .. Size /\ pos[o] .. Size \subseteq 0 .. Size
  BY <1>1
<1>3. ASSUME s \in (pos[o] .. Size) \X {"again", "ok", "error"} \/ s \in (0 .. Size) \X {"ok"}
             \/ s \in {<<0, x>> : x \in {"again", "ok", "error", "ECANCELED", "abort"}}
             \/ s \in {<<1, x>> : x \in {"again", "ok", "error", "ECANCELED", "abort"}}
             \/ s \in {<<pos[o], x>> : x \in {"ok", "ECANCELED"}}
      PROVE  s[1] \in 0 .. Size /\ s[2] \in {"again", "ok", "error", "ECANCELED", "abort"}
  BY <1>1, <1>2, <1>3
<1>4. CASE kind[o] = "read"
  <2>1. s \in ReadLoop(o)
    BY <1>4 DEF Step, Connects
  <2>2. QED
    BY <1>3, <2>1 DEF ReadLoop
<1>5. CASE kind[o] = "write"
  <2>1. s \in WriteLoop(o)
    BY <1>5 DEF Step, Connects
  <2>2. QED
    BY <1>3, <2>1 DEF WriteLoop
<1>6. CASE kind[o] = "read_once"
  <2>1. s \in ReadOnceLoop(o)
    BY <1>6 DEF Step, Connects
  <2>2. QED
    BY <1>3, <2>1 DEF ReadOnceLoop
<1>7. CASE kind[o] = "write_once"
  <2>1. s \in WriteOnceLoop(o)
    BY <1>7 DEF Step, Connects
  <2>2. QED
    BY <1>3, <2>1 DEF WriteOnceLoop
<1>8. CASE kind[o] \in {"sendmsg", "accept"}
  <2>1. s \in SendmsgLoop(o) \/ s \in AcceptLoop(o)
    BY <1>8 DEF Step, Connects
  <2>2. QED
    BY <1>3, <2>1 DEF SendmsgLoop, AcceptLoop
<1>9. CASE kind[o] \in {"connect", "tcp_connect"}
  <2>1. s \in ConnectStep(o)
    BY <1>9 DEF Step, Connects
  <2>2. QED
    BY <1>3, <2>1 DEF ConnectStep
<1>10. QED
  BY <1>1, <1>4, <1>5, <1>6, <1>7, <1>8, <1>9 DEF Kind, In, Out

LEMMA FunSeq ==
  ASSUME NEW m \in Nat, NEW f \in [1 .. m -> Op]
  PROVE  f \in Seq(Op) /\ Len(f) = m
<1>1. f \in Seq(Op)
  BY SeqDef
<1>2. Len(f) \in Nat /\ 1 .. Len(f) = 1 .. m
  BY <1>1, LenProperties
<1>3. ASSUME NEW i \in Nat, NEW j \in Nat, 1 .. i = 1 .. j, i < j
      PROVE  FALSE
  <2>1. j \in 1 .. j /\ j \notin 1 .. i
    BY <1>3
  <2>2. QED
    BY <1>3, <2>1
<1>4. ~(Len(f) < m) /\ ~(m < Len(f))
  BY <1>2, <1>3
<1>5. QED
  BY <1>1, <1>2, <1>4

\* Bytes of one call are put after the others.
LEMMA Extend ==
  ASSUME NEW q \in Seq(Op), NEW o \in Op, NEW n \in Int
  PROVE  LET e == q \o [i \in 1 .. n |-> o] IN
           /\ e \in Seq(Op)
           /\ \A i \in DOMAIN e : IF i \in DOMAIN q THEN e[i] = q[i] ELSE e[i] = o
           /\ \A i, j \in DOMAIN e : i < j /\ j \in DOMAIN q => i \in DOMAIN q
<1> DEFINE r == [i \in 1 .. n |-> o]
           m == IF n < 0 THEN 0 ELSE n
<1>1. m \in Nat /\ 1 .. n = 1 .. m
  BY SMT
<1>2. r = [i \in 1 .. m |-> o]
  BY <1>1
<1>3. r \in Seq(Op) /\ Len(r) = m /\ \A i \in 1 .. m : r[i] = o
  <2>1. r \in [1 .. m -> Op] /\ m \in Nat
    BY <1>1, <1>2
  <2>2. r \in Seq(Op) /\ Len(r) = m
    BY <2>1, FunSeq
  <2>3. QED
    BY <1>1, <2>2
<1> HIDE DEF r, m
<1> DEFINE e == q \o r
<1>4. e \in Seq(Op) /\ Len(e) = Len(q) + m /\ Len(q) \in Nat
  BY <1>1, <1>3
<1>5. DOMAIN e = 1 .. Len(q) + m /\ DOMAIN q = 1 .. Len(q)
  BY <1>4
<1>6. \A i \in 1 .. Len(q) : e[i] = q[i]
  BY <1>3
<1>7. \A i \in 1 .. Len(q) + m : i \notin 1 .. Len(q) => i - Len(q) \in 1 .. m /\ e[i] = r[i - Len(q)]
  BY <1>1, <1>3, <1>4
<1>8. \A i \in DOMAIN e : IF i \in DOMAIN q THEN e[i] = q[i] ELSE e[i] = o
  BY <1>3, <1>5, <1>6, <1>7
<1>9. \A i, j \in DOMAIN e : i < j /\ j \in DOMAIN q => i \in DOMAIN q
  BY <1>1, <1>4, <1>5
<1>10. QED
  BY <1>4, <1>8, <1>9 DEF r

\* The first in a queue leaves it.
LEMMA Shorter ==
  ASSUME NEW q \in Seq(Op), q # <<>>
  PROVE  /\ Tail(q) \in Seq(Op)
         /\ \A i \in DOMAIN Tail(q) : i + 1 \in DOMAIN q /\ i + 1 # 1 /\ Tail(q)[i] = q[i + 1]
         /\ \A i \in DOMAIN q : i # 1 => i - 1 \in DOMAIN Tail(q) /\ Tail(q)[i - 1] = q[i]
OBVIOUS

\* What one resumption does to the queue of one direction
LEMMA RunQueue ==
  ASSUME LifeInv, OrderInv, NEW o \in Op, pc[o] \in {"called", "woken"}, NEW d \in Dirs,
         UNCHANGED <<called, kind>>,
         NEW place \in {"polling", "linked", "done"}, pc' = [pc EXCEPT ![o] = place],
         Lock(d)' = IF place # "polling" /\ Holds(Lock(d), o) THEN Tail(Lock(d)) ELSE Lock(d)
  PROVE  QueueInv(d)'
<1>1. PICK q \in Seq(Op) : q = Lock(d)
  BY DEF OrderInv, QueueInv
<1>2. /\ QueueInv(d) /\ CalledInv
      /\ \A i \in DOMAIN q : /\ q[i] \in Op /\ kind[q[i]] \in Class(d) /\ Pending(q[i])
                             /\ i # 1 => pc[q[i]] = "locking"
      /\ \A i, j \in DOMAIN q : i < j => Before(q[i], q[j])
      /\ \A p \in Op : kind[p] \in Class(d) /\ Pending(p) => \E i \in DOMAIN q : q[i] = p
  <2>1. QueueInv(d) /\ CalledInv
    BY DEF OrderInv
  <2>2. QED
    BY <1>1, <2>1 DEF QueueInv
<1>3. Pending(o) /\ pc[o] # "locking" /\ pc'[o] = place /\ (Pending(o)' <=> place = "polling")
      /\ \A p \in Op : p # o => pc'[p] = pc[p] /\ (Pending(p)' <=> Pending(p))
  BY DEF LifeInv, Pending
<1>4. \A x, y : Before(x, y)' <=> Before(x, y)
  BY DEF Before
<1>5. \A i \in DOMAIN q : q[i] = o => i = 1
  BY <1>2, <1>3
<1>6. kind[o] \in Class(d) => q # <<>> /\ q[1] = o /\ Holds(Lock(d), o)
  <2>1. kind[o] \in Class(d) => q # <<>> /\ q[1] = o
    BY <1>1, <1>2, <1>3, AtTurn
  <2>2. QED
    BY <1>1, <2>1 DEF Holds
<1>7. \A i \in DOMAIN q : i # 1 => /\ kind'[q[i]] \in Class(d) /\ Pending(q[i])'
                                    /\ pc'[q[i]] = "locking"
  BY <1>2, <1>3, <1>5
<1>8. CASE place # "polling" /\ Holds(Lock(d), o)
  <2>1. q # <<>> /\ q[1] = o /\ 1 \in DOMAIN q
    BY <1>1, <1>8 DEF Holds
  <2>2. PICK r \in Seq(Op) : r = Tail(q) /\ r = Lock(d)'
    BY <1>1, <1>8, <2>1, Shorter
  <2>3. /\ \A i \in DOMAIN r : i + 1 \in DOMAIN q /\ i + 1 # 1 /\ r[i] = q[i + 1]
        /\ \A i \in DOMAIN q : i # 1 => i - 1 \in DOMAIN r /\ r[i - 1] = q[i]
    BY <2>1, <2>2, Shorter
  <2>4. \A i \in DOMAIN r : kind'[r[i]] \in Class(d) /\ Pending(r[i])' /\ pc'[r[i]] = "locking"
    BY <1>7, <2>3
  <2>5. \A i, j \in DOMAIN r : i < j => Before(r[i], r[j])'
    <3>1. \A i, j \in DOMAIN r : i < j => i + 1 < j + 1
      BY <2>2
    <3>2. QED
      BY <1>2, <1>4, <2>3, <3>1
  <2>6. \A p \in Op : kind'[p] \in Class(d) /\ Pending(p)' => \E i \in DOMAIN r : r[i] = p
    <3>1. ASSUME NEW p \in Op, kind'[p] \in Class(d), Pending(p)'
          PROVE  \E i \in DOMAIN r : r[i] = p
      <4>1. p # o /\ kind[p] \in Class(d) /\ Pending(p)
        BY <1>3, <1>8, <3>1
      <4>2. PICK i \in DOMAIN q : q[i] = p /\ i # 1
        BY <1>2, <2>1, <4>1
      <4>3. QED
        BY <2>3, <4>2
    <3>2. QED
      BY <3>1
  <2>7. QED
    BY <2>2, <2>4, <2>5, <2>6 DEF QueueInv
<1>9. CASE ~(place # "polling" /\ Holds(Lock(d), o))
  <2>1. Lock(d)' = q
    BY <1>1, <1>9
  <2>2. place = "polling" \/ kind[o] \notin Class(d)
    BY <1>6, <1>9
  <2>3. \A i \in DOMAIN q : kind'[q[i]] \in Class(d) /\ Pending(q[i])'
    BY <1>2, <1>3, <2>2
  <2>4. \A p \in Op : kind'[p] \in Class(d) /\ Pending(p)' => \E i \in DOMAIN q : q[i] = p
    BY <1>2, <1>3, <2>2
  <2>5. QED
    BY <1>2, <1>4, <1>7, <2>1, <2>3, <2>4 DEF QueueInv
<1>10. QED
  BY <1>8, <1>9

LEMMA RunOrder ==
  ASSUME OpAssumption, LifeInv, OrderInv, NEW o \in Op, pc[o] \in {"called", "woken"}, Run(o)
  PROVE  OrderInv'
<1>1. Pending(o) /\ pc[o] # "locking" /\ kind[o] \in Kind /\ kind[o] # "direct" /\ CalledInv
  BY DEF Pending, LifeInv, OrderInv, CalledInv
<1>2. PICK s \in Step(o) :
        /\ UNCHANGED <<fde, refs, closes, closer, kind, called>>
        /\ pos' = [pos EXCEPT ![o] = s[1]]
        /\ moved' = IF Connects(o) THEN moved
                    ELSE [moved EXCEPT ![Direction(o)] = @ \o [i \in 1 .. s[1] - pos[o] |-> o]]
        /\ IF s[2] = "again"
           THEN /\ pc' = [pc EXCEPT ![o] = "polling"]
                /\ UNCHANGED <<active, result, locks>>
           ELSE /\ pc' = [pc EXCEPT ![o] = IF kind[o] = "tcp_connect" THEN "linked" ELSE "done"]
                /\ result' = [result EXCEPT ![o] = IF o \in active THEN s[2] ELSE @]
                /\ active' = active \ {o}
                /\ Unlock(o)
  BY DEF Run
<1>3. s[1] \in 0 .. Size /\ s[2] \in {"again", "ok", "error", "ECANCELED", "abort"}
  BY <1>1, StepTyped
<1>4. ResultTyped'
  <2>1. pos' \in [Op -> 0 .. Size]
    BY <1>2, <1>3 DEF OrderInv, ResultTyped
  <2>2. active' \subseteq Op /\ result' \in [Op -> {"none", "ok"} \cup Errors]
    BY <1>2, <1>3 DEF OrderInv, ResultTyped, Errors
  <2>3. QED
    BY <1>2, <2>1, <2>2 DEF OrderInv, ResultTyped
<1>5. PICK place \in {"polling", "linked", "done"} :
        /\ pc' = [pc EXCEPT ![o] = place]
        /\ \A d \in Dirs :
             Lock(d)' = IF place # "polling" /\ Holds(Lock(d), o) THEN Tail(Lock(d)) ELSE Lock(d)
  BY <1>2 DEF Unlock, Lock, locks
<1>6. /\ \A p \in Op : p # o => pc'[p] = pc[p] /\ result'[p] = result[p]
      /\ \A p \in Op : Pending(p)' => Pending(p)
      /\ \A p \in Op : (p = o \/ pc[p] # "idle") <=> pc'[p] # "idle"
  <2>1. \A p \in Op : p # o => pc'[p] = pc[p] /\ result'[p] = result[p]
    BY <1>2 DEF LifeInv, OrderInv, ResultTyped
  <2>2. pc'[o] = place
    BY <1>5 DEF LifeInv
  <2>3. QED
    BY <1>1, <2>1, <2>2 DEF Pending
<1>7. \A x, y : Before(x, y)' <=> Before(x, y)
  BY <1>2 DEF Before
<1>8. \A p \in Op, d \in Dirs : Clear(p, d) => Clear(p, d)'
  BY <1>2, <1>6, <1>7 DEF Clear
<1>9. CalledInv'
  <2>1. \A p \in Op : pc'[p] # "idle" <=> pc[p] # "idle"
    BY <1>1, <1>6 DEF Pending
  <2>2. \A p \in Op : Pending(p)' => kind'[p] # "direct"
    BY <1>2, <1>6 DEF OrderInv, CalledInv
  <2>3. QED
    BY <1>2, <2>1, <2>2 DEF OrderInv, CalledInv
<1>10. ASSUME NEW d \in Dirs PROVE QueueInv(d)'
  BY <1>2, <1>5, RunQueue
\* It ran because it was its turn.
<1>11. ASSUME NEW d \in Dirs, kind[o] \in Class(d) PROVE Clear(o, d)
  BY <1>1, <1>11, AtTurn DEF OrderInv
<1>12. ASSUME NEW d \in Dirs PROVE AnsweredInv(d)'
  <2>1. ASSUME NEW p \in Op, kind'[p] \in Class(d), pc'[p] \in {"linked", "done"}, result'[p] # "EBADF"
        PROVE  Clear(p, d)
    <3>1. CASE p = o
      BY <1>2, <1>11, <2>1, <3>1
    <3>2. CASE p # o
      BY <1>2, <1>6, <2>1, <3>2 DEF OrderInv, AnsweredInv
    <3>3. QED
      BY <3>1, <3>2
  <2>2. QED
    BY <1>8, <2>1 DEF AnsweredInv
<1>13. ASSUME NEW d \in Dirs PROVE MovedInv(d)'
  <2> DEFINE m == moved[d]
             Bytes(e) == [i \in 1 .. s[1] - pos[o] |-> e]
  <2>1. PICK q \in Seq(Op) : q = moved[d]
    BY DEF OrderInv, MovedInv
  <2>2. /\ \A i \in DOMAIN q : /\ q[i] \in Op /\ pc[q[i]] # "idle"
                               /\ kind[q[i]] = "sendmsg" \/ (kind[q[i]] \in Class(d) /\ Clear(q[i], d))
        /\ \A i, j \in DOMAIN q :
             i < j /\ kind[q[i]] # "sendmsg" /\ kind[q[j]] # "sendmsg" => ~Before(q[j], q[i])
    BY <2>1 DEF OrderInv, MovedInv
  <2>3. PICK r \in Seq(Op) :
          /\ r = moved'[d]
          /\ \A i \in DOMAIN r : IF i \in DOMAIN q THEN r[i] = q[i]
                                 ELSE r[i] = o /\ (kind[o] = "sendmsg" \/ kind[o] \in Class(d))
          /\ \A i, j \in DOMAIN r : i < j /\ j \in DOMAIN q => i \in DOMAIN q
    <3>1. CASE ~Connects(o) /\ d = Direction(o)
      <4>1. s[1] - pos[o] \in Int
        BY <1>3 DEF OrderInv, ResultTyped
      <4>2. moved'[d] = q \o [i \in 1 .. s[1] - pos[o] |-> o]
        BY <1>2, <2>1, <3>1 DEF OrderInv
      <4>3. kind[o] = "sendmsg" \/ kind[o] \in Class(d)
        BY <1>1, <3>1 DEF Direction, Class, Kind, In, Out
      <4>4. PICK r \in Seq(Op) :
              /\ r = q \o [i \in 1 .. s[1] - pos[o] |-> o]
              /\ \A i \in DOMAIN r : IF i \in DOMAIN q THEN r[i] = q[i] ELSE r[i] = o
              /\ \A i, j \in DOMAIN r : i < j /\ j \in DOMAIN q => i \in DOMAIN q
        <5>1. \A n \in Int : LET e == q \o [i \in 1 .. n |-> o] IN
                 /\ e \in Seq(Op)
                 /\ \A i \in DOMAIN e : IF i \in DOMAIN q THEN e[i] = q[i] ELSE e[i] = o
                 /\ \A i, j \in DOMAIN e : i < j /\ j \in DOMAIN q => i \in DOMAIN q
          BY Extend
        <5>2. QED
          BY <4>1, <5>1
      <4>5. QED
        BY <4>2, <4>3, <4>4
    <3>2. CASE Connects(o) \/ d # Direction(o)
      <4>1. moved'[d] = q
        BY <1>2, <2>1, <3>2 DEF OrderInv
      <4>2. \A i, j \in DOMAIN q : i < j /\ j \in DOMAIN q => i \in DOMAIN q
        OBVIOUS
      <4>3. QED
        BY <4>1, <4>2
    <3>3. QED
      BY <3>1, <3>2
  <2>4. \A i \in DOMAIN r : /\ pc'[r[i]] # "idle"
                            /\ kind[r[i]] = "sendmsg" \/ (kind[r[i]] \in Class(d) /\ Clear(r[i], d))
    BY <1>6, <1>11, <2>2, <2>3
  <2>5. ASSUME NEW i \in DOMAIN r, NEW j \in DOMAIN r, i < j,
               kind[r[i]] # "sendmsg", kind[r[j]] # "sendmsg", Before(r[j], r[i])
        PROVE  FALSE
    <3>1. CASE i \in DOMAIN q /\ j \in DOMAIN q
      BY <2>2, <2>3, <2>5, <3>1
    <3>2. CASE i \in DOMAIN q /\ j \notin DOMAIN q
      <4>1. r[j] = o /\ kind[o] \in Class(d) /\ r[i] \in Op /\ Clear(r[i], d)
        BY <2>2, <2>3, <2>4, <2>5, <3>2
      <4>2. QED
        BY <1>1, <2>5, <4>1 DEF Clear
    <3>3. CASE i \notin DOMAIN q /\ j \notin DOMAIN q
      BY <1>1, <2>3, <2>5, <3>3, BeforeOrder
    <3>4. QED
      BY <2>3, <2>5, <3>1, <3>2, <3>3
  <2>6. \A i \in DOMAIN r : r[i] \in Op /\ (Clear(r[i], d) => Clear(r[i], d)')
    BY <1>8
  <2>7. QED
    BY <1>2, <1>7, <2>3, <2>4, <2>5, <2>6 DEF MovedInv
<1>14. moved' \in [Dirs -> Seq(Op)]
  <2>1. \A d \in Dirs : moved'[d] \in Seq(Op)
    BY <1>13 DEF MovedInv
  <2>2. moved' = [d \in Dirs |-> moved'[d]]
    BY <1>2 DEF OrderInv
  <2>3. QED
    BY <2>1, <2>2
<1>15. QED
  BY <1>4, <1>9, <1>10, <1>12, <1>13, <1>14 DEF OrderInv

(* The steps that only change who waits, and the object itself *)

LEMMA CloseFrame ==
  ASSUME LifeInv, NEW err \in {"EBADF", "error"}, CloseImp(err)
  PROVE  /\ \A o \in Op : /\ Pending(o)' <=> Pending(o)
                          /\ pc'[o] = "idle" <=> pc[o] = "idle"
                          /\ pc'[o] \in {"linked", "done"} <=> pc[o] \in {"linked", "done"}
                          /\ pc[o] = "locking" => pc'[o] = "locking"
         /\ fde \in {"open", "EBADF", "error"} => fde' \in {"open", "EBADF", "error"}
         /\ closer \in {"none", "armed", "gone"} => closer' \in {"none", "armed", "gone"}
<1>1. \A o \in Op : pc'[o] = pc[o] \/ (pc[o] = "polling" /\ pc'[o] = "woken")
  BY DEF CloseImp, Woken, LifeInv
<1>2. \A o \in Op : /\ Pending(o)' <=> Pending(o)
                    /\ pc'[o] = "idle" <=> pc[o] = "idle"
                    /\ pc'[o] \in {"linked", "done"} <=> pc[o] \in {"linked", "done"}
                    /\ pc[o] = "locking" => pc'[o] = "locking"
  BY <1>1 DEF Pending
<1>3. QED
  BY <1>2 DEF CloseImp

LEMMA ImpOrder ==
  ASSUME OpAssumption, LifeInv, OrderInv,
         (\E err \in {"EBADF", "error"} : Close(err)) \/ Copy \/ Drop \/ MakeCloser \/ TriggerCloser
  PROVE  OrderInv'
<1>1. UNCHANGED <<kind, active, result, pos, called, moved, rlock, wlock>>
  BY DEF Close, Copy, Drop, MakeCloser, TriggerCloser, calls, locks
<1>2. \/ (\E err \in {"EBADF", "error"} : CloseImp(err))
      \/ UNCHANGED <<fde, pc>> /\ (closer' = closer \/ closer' = "armed")
  BY DEF Close, Copy, Drop, MakeCloser, TriggerCloser, calls
<1>3. refs' <= MaxRefs
  BY DEF Close, Copy, Drop, MakeCloser, TriggerCloser, OrderInv, ResultTyped, LifeInv, OpAssumption
<1>4. /\ \A o \in Op : /\ Pending(o)' <=> Pending(o)
                       /\ pc'[o] = "idle" <=> pc[o] = "idle"
                       /\ pc'[o] \in {"linked", "done"} <=> pc[o] \in {"linked", "done"}
                       /\ pc[o] = "locking" => pc'[o] = "locking"
      /\ fde' \in {"open", "EBADF", "error"}
      /\ closer' \in {"none", "armed", "gone"}
  <2>1. CASE \E err \in {"EBADF", "error"} : CloseImp(err)
    BY <2>1, CloseFrame DEF OrderInv, ResultTyped
  <2>2. CASE UNCHANGED <<fde, pc>> /\ (closer' = closer \/ closer' = "armed")
    BY <2>2 DEF Pending, OrderInv, ResultTyped
  <2>3. QED
    BY <1>2, <2>1, <2>2
<1>5. ResultTyped'
  BY <1>1, <1>3, <1>4 DEF OrderInv, ResultTyped
<1>6. QED
  BY <1>1, <1>4, <1>5, OrderFrame

LEMMA WaitOrder ==
  ASSUME LifeInv, OrderInv, NEW o \in Op, Grant(o) \/ Ready(o) \/ Cancel(o) \/ TcpConnected(o)
  PROVE  OrderInv'
<1>1. UNCHANGED <<kind, result, pos, called, moved, rlock, wlock, refs, closer>>
  BY DEF Grant, Ready, Cancel, TcpConnected, imp, locks
<1>2. ResultTyped'
  <2>1. active' \subseteq Op /\ fde' \in {"open", "EBADF", "error"}
    BY DEF Grant, Ready, Cancel, TcpConnected, imp, OrderInv, ResultTyped
  <2>2. QED
    BY <1>1, <2>1 DEF OrderInv, ResultTyped
<1>3. \A p \in Op : \/ pc'[p] = pc[p]
                    \/ pc[p] = "polling" /\ pc'[p] = "woken"
                    \/ pc[p] = "linked" /\ pc'[p] = "done"
                    \/ pc[p] = "locking" /\ pc'[p] = "woken" /\ \E d \in Dirs : Holds(Lock(d), p)
  BY DEF Grant, Ready, Cancel, TcpConnected, LifeInv, Lock, Dirs
<1>4. \A p \in Op : /\ Pending(p)' <=> Pending(p)
                    /\ pc'[p] = "idle" <=> pc[p] = "idle"
                    /\ pc'[p] \in {"linked", "done"} <=> pc[p] \in {"linked", "done"}
                    /\ pc[p] = "locking" /\ pc'[p] # "locking" => \E d \in Dirs : Holds(Lock(d), p)
  BY <1>3 DEF Pending
<1>5. QED
  BY <1>1, <1>2, <1>4, OrderFrame

LEMMA CallTyped ==
  ASSUME OrderInv, NEW o \in Op, NEW k \in Kind, Call(o, k)
  PROVE  ResultTyped'
<1>1. UNCHANGED <<fde, refs, closer, pos>>
  BY DEF Call
<1>2. active' \subseteq Op /\ result' \in [Op -> {"none", "ok"} \cup Errors]
  BY DEF Call, DirectResult, Errors, OrderInv, ResultTyped
<1>3. QED
  BY <1>1, <1>2 DEF OrderInv, ResultTyped

LEMMA OrderInit == ASSUME OpAssumption, Init PROVE OrderInv
<1> USE DEF Init
<1>1. ResultTyped
  BY DEF ResultTyped, OpAssumption
<1>2. CalledInv
  BY DEF CalledInv, Pending
<1>3. \A d \in Dirs : Lock(d) = <<>> /\ moved[d] = <<>>
  BY DEF Lock, Dirs
<1>4. \A o \in Op : pc[o] = "idle" /\ ~Pending(o)
  BY DEF Pending
<1>5. \A d \in Dirs : QueueInv(d) /\ AnsweredInv(d) /\ MovedInv(d)
  <2>1. ASSUME NEW d \in Dirs
        PROVE  QueueInv(d) /\ AnsweredInv(d) /\ MovedInv(d)
    <3>1. Lock(d) \in Seq(Op) /\ moved[d] \in Seq(Op) /\ DOMAIN Lock(d) = {} /\ DOMAIN moved[d] = {}
      <4>1. \A q : q = <<>> => q \in Seq(Op) /\ DOMAIN q = {}
        OBVIOUS
      <4>2. Lock(d) = <<>> /\ moved[d] = <<>>
        BY <1>3
      <4>3. QED
        BY <4>1, <4>2, Zenon
    <3>2. QueueInv(d)
      <4>1. \A o \in Op : ~(kind[o] \in Class(d) /\ Pending(o))
        BY <1>4
      <4>2. QED
        BY <3>1, <4>1, Zenon DEF QueueInv
    <3>5. AnsweredInv(d)
      BY <1>4 DEF AnsweredInv
    <3>3. MovedInv(d)
      BY <3>1 DEF MovedInv
    <3>4. QED
      BY <3>2, <3>3, <3>5
  <2>2. QED
    BY <2>1
<1>6. moved \in [Dirs -> Seq(Op)]
  BY DEF Dirs
<1>7. QED
  BY <1>1, <1>2, <1>5, <1>6 DEF OrderInv

LEMMA OrderNext == ASSUME OpAssumption, LifeInv, OrderInv, [Next]_vars PROVE OrderInv'
<1>1. CASE UNCHANGED vars
  <2>1. UNCHANGED <<fde, refs, closer, kind, pc, active, result, pos, called, moved, rlock, wlock>>
    BY <1>1 DEF vars, imp, calls, locks
  <2>2. ResultTyped'
    BY <2>1 DEF OrderInv, ResultTyped
  <2>3. QED
    BY <2>1, <2>2, OrderFrame DEF Pending
<1>2. ASSUME NEW o \in Op, Started(o) \/ Resume(o)
      PROVE  OrderInv'
  BY <1>2, RunOrder DEF Started, Resume
<1>3. ASSUME NEW o \in Op, NEW k \in Kind, Call(o, k)
      PROVE  OrderInv'
  BY <1>3, CallTyped, CallOrder
<1>4. QED
  BY <1>1, <1>2, <1>3, WaitOrder, ImpOrder DEF Next

LEMMA OrderShown == ASSUME OpAssumption, LifeInv, OrderInv PROVE OperationsInOrder
<1>1. TypeOK
  <2>1. Cardinality(PendingOps) <= Cardinality(Op) /\ Cardinality(Op) \in Nat
    <3>1. PendingOps \subseteq Op
      BY DEF PendingOps
    <3>2. QED
      BY <3>1, FS_Subset, FS_CardinalityType DEF OpAssumption
  <2>2. weak \in 0 .. Cardinality(Op) + 1 /\ deleted \in 0 .. 2 /\ closes \in 0 .. 2
    BY <2>1, Count, Exact DEF LifeInv, Armed
  <2>3. rlock \in Seq(Op) /\ wlock \in Seq(Op)
    BY Disjoint DEF OrderInv, QueueInv, Lock
  <2>4. refs \in 0 .. MaxRefs
    BY DEF LifeInv, OrderInv, ResultTyped, OpAssumption
  <2>5. QED
    BY <2>2, <2>3, <2>4 DEF TypeOK, OrderInv, ResultTyped, LifeInv, Places
<1>2. ASSUME NEW o \in Op, NEW p \in Op, Before(o, p),
             {kind[o], kind[p]} \subseteq In \/ {kind[o], kind[p]} \subseteq Out,
             pc[p] = "done", result[p] # "EBADF"
      PROVE  ~Pending(o)
  <2>1. PICK d \in Dirs : kind[o] \in Class(d) /\ kind[p] \in Class(d)
    BY <1>2 DEF Dirs, Class
  <2>2. QED
    BY <1>2, <2>1 DEF OrderInv, AnsweredInv, Clear
<1>3. \A d \in {"in", "out"} : \A i, j \in DOMAIN moved[d] :
        i < j /\ kind[moved[d][i]] # "sendmsg" /\ kind[moved[d][j]] # "sendmsg"
          => ~Before(moved[d][j], moved[d][i])
  BY DEF OrderInv, MovedInv, Dirs
<1>4. InOrder
  BY <1>2, <1>3 DEF InOrder
<1>5. QED
  BY <1>1, <1>4 DEF OperationsInOrder

THEOREM OrderInductive == ASSUME OpAssumption PROVE Spec => [](LifeInv /\ OrderInv)
<1>1. Init => LifeInv /\ OrderInv
  BY LifeInit, OrderInit
<1>2. LifeInv /\ OrderInv /\ [Next]_vars => (LifeInv /\ OrderInv)'
  BY LifeNext, OrderNext
<1>3. QED
  BY <1>1, <1>2, PTL DEF Spec

\* The doc comment of class fd (tamer/fd.tcc): whatever calls are made, canceled, resumed
\* or cut short by a close, the bytes of two calls in one direction are not mixed,
\* and no call is answered while an earlier one in its direction is waiting.
THEOREM OperationsOrdered == ASSUME OpAssumption PROVE Spec => []OperationsInOrder
<1>1. LifeInv /\ OrderInv => OperationsInOrder
  BY OrderShown
<1>2. QED
  BY <1>1, OrderInductive, PTL

(***************************************************************************)
(* The descriptors of a child                                              *)
(***************************************************************************)

\* What entry n puts into the child's table.
Placed(n) ==
  IF Exec!Made(list[n]) THEN Exec!ChildEnd(n) ELSE <<"file", list[n].num>>

\* What a list for exec asks for: each number once, each descriptor once.
ListOK ==
  /\ Len(list) \in Nat /\ DOMAIN list = 1 .. Len(list)
  /\ \A n \in DOMAIN list :
       /\ list[n].child_fd \in Exec!Num
       /\ list[n].type \in {"newin", "newout", "share", "transfer"}
       /\ IF Exec!Made(list[n]) THEN list[n].num = -1 ELSE list[n].num \in Exec!Num
  /\ \A m, n \in DOMAIN list : m # n =>
       list[m].child_fd # list[n].child_fd /\ (list[m].num = list[n].num => Exec!Made(list[m]))

ExecTyped ==
  /\ DOMAIN outer = DOMAIN list /\ DOMAIN inner = DOMAIN list
  /\ DOMAIN before = Exec!Num /\ DOMAIN parent = Exec!Num /\ DOMAIN child = Exec!Num
  /\ at \in Nat /\ 1 <= at /\ at <= Len(list) + 1
  /\ epc \in {"pipes", "place", "running", "failed"}

\* The entries whose pipes have been made
Piped == {n \in DOMAIN list : Exec!Made(list[n]) /\ (epc = "pipes" => n < at)}

\* The caller's own files are in the list's places, and its pipes where it has
\* noted them; whatever else is new in its table is the child's end of a pipe.
CallerInv ==
  /\ \A k \in Exec!Num : before[k] \in {Exec!Closed, <<"file", k>>}
  /\ \A n \in DOMAIN list :
       ~Exec!Made(list[n]) => before[list[n].num] = <<"file", list[n].num>> /\ outer[n] = list[n].num
  /\ \A n \in DOMAIN list : Exec!Made(list[n]) /\ n \notin Piped => outer[n] = -1
  /\ \A n \in Piped : outer[n] \in Exec!Num /\ parent[outer[n]] = Exec!CallerEnd(n)
  /\ \A k \in Exec!Num :
       \/ parent[k] = before[k]
       \/ before[k] = Exec!Closed /\ \E n \in Piped : outer[n] = k
       \/ before[k] = Exec!Closed /\ \E n \in Piped : parent[k] = Exec!ChildEnd(n)

\* Before the fork the child's ends are where inner says, and nowhere else.
PipesInv ==
  \A n \in DOMAIN list :
    IF n < at
    THEN /\ inner[n] \in Exec!Num /\ parent[inner[n]] = Placed(n)
         /\ Exec!Made(list[n]) =>
              \A k \in Exec!Num : parent[k] = Exec!ChildEnd(n) => k = inner[n]
    ELSE inner[n] = -1

\* In the child, the entries that were placed are at their numbers, the others
\* where inner says, and no end of a pipe is the caller's.
ChildInv ==
  /\ \A n \in DOMAIN list :
       IF n < at THEN child[list[n].child_fd] = Placed(n)
       ELSE inner[n] \in Exec!Num /\ child[inner[n]] = Placed(n)
  /\ \A k \in Exec!Num, n \in DOMAIN list : child[k] # Exec!CallerEnd(n)

ExecInv ==
  /\ ListOK /\ ExecTyped
  /\ epc \in {"pipes", "place"} => CallerInv
  /\ epc = "pipes" => PipesInv
  /\ epc = "place" => ChildInv
  /\ ChildDescriptors

\* No two things that a table may hold are the same.
LEMMA EndsDiffer ==
  ASSUME ListOK, NEW m \in DOMAIN list, NEW n \in DOMAIN list
  PROVE  /\ Placed(m) = Placed(n) => m = n
         /\ Exec!ChildEnd(m) = Exec!ChildEnd(n) => m = n
         /\ Exec!CallerEnd(m) = Exec!CallerEnd(n) => m = n
         /\ Exec!ChildEnd(m) # Exec!CallerEnd(n) /\ Placed(m) # Exec!CallerEnd(n)
         /\ Placed(n) # Exec!Closed
         /\ Exec!ChildEnd(n) # Exec!Closed /\ Exec!CallerEnd(n) # Exec!Closed
         /\ \A k : Exec!ChildEnd(n) # <<"file", k>> /\ Exec!CallerEnd(n) # <<"file", k>>
         /\ \A k : Exec!Closed # <<"file", k>>
BY DEF ListOK, Placed, Exec!ChildEnd, Exec!CallerEnd, Exec!Closed, Exec!Made

\* The list stays, and with it what its entries stand for.
LEMMA ListStays ==
  ASSUME list' = list
  PROVE  /\ ListOK' <=> ListOK
         /\ \A n : Placed(n)' = Placed(n)
         /\ \A n : Exec!ChildEnd(n)' = Exec!ChildEnd(n) /\ Exec!CallerEnd(n)' = Exec!CallerEnd(n)
BY DEF ListOK, Placed, Exec!ChildEnd, Exec!CallerEnd, Exec!Made

LEMMA ExecStart == ASSUME Exec!ExecAssumption, Exec!Init PROVE ExecInv
<1>1. ListOK
  <2>1. /\ list \in Exec!Entries /\ MaxEntries \in Nat
        /\ Targets \subseteq Exec!Num /\ Given \subseteq Exec!Num /\ -1 \notin Exec!Num
    BY DEF Exec!Init, Exec!ExecAssumption, Exec!Num
  <2>2. PICK n \in 1 .. MaxEntries :
          list \in [1 .. n -> [child_fd : Targets, type : {"newin", "newout"}, num : {-1}]
                       \cup [child_fd : Targets, type : {"share", "transfer"}, num : Given]]
    BY <2>1 DEF Exec!Entries
  <2>3. n \in Nat /\ Len(list) = n /\ DOMAIN list = 1 .. n
    BY <2>1, <2>2
  <2>4. \A m \in DOMAIN list :
          \/ list[m] \in [child_fd : Targets, type : {"newin", "newout"}, num : {-1}]
          \/ list[m] \in [child_fd : Targets, type : {"share", "transfer"}, num : Given]
    BY <2>2, <2>3
  <2>5. \A m \in DOMAIN list :
          /\ list[m].child_fd \in Exec!Num
          /\ list[m].type \in {"newin", "newout", "share", "transfer"}
          /\ IF Exec!Made(list[m]) THEN list[m].num = -1 ELSE list[m].num \in Exec!Num
    BY <2>1, <2>4 DEF Exec!Made
  <2>6. QED
    BY <2>1, <2>3, <2>5 DEF ListOK, Exec!Entries
<1>2. ExecTyped
  BY <1>1 DEF Exec!Init, ExecTyped, ListOK
<1>3. CallerInv
  <2>1. at = 1 /\ epc = "pipes" /\ parent = before
    BY DEF Exec!Init
  <2>2. Piped = {}
    BY <1>1, <2>1 DEF Piped, ListOK
  <2>3. \A n \in DOMAIN list : outer[n] = list[n].num
    BY DEF Exec!Init
  <2>4. PICK rest \in InUse :
          before = [k \in Exec!Num |->
            IF k \in rest \cup {list[n].num : n \in DOMAIN list}
            THEN <<"file", k>> ELSE Exec!Closed]
    BY DEF Exec!Init
  <2>5. \A k \in Exec!Num : before[k] \in {Exec!Closed, <<"file", k>>}
    BY <2>4
  <2>6. \A n \in DOMAIN list :
          ~Exec!Made(list[n]) => before[list[n].num] = <<"file", list[n].num>>
    BY <1>1, <2>4 DEF ListOK
  <2>7. QED
    BY <1>1, <2>1, <2>2, <2>3, <2>5, <2>6 DEF CallerInv, ListOK
<1>4. PipesInv
  BY <1>1 DEF Exec!Init, PipesInv, ListOK
<1>5. QED
  BY <1>1, <1>2, <1>3, <1>4
     DEF ExecInv, Exec!Init, ChildDescriptors, Exec!ChildTable, Exec!NoDescriptorLeak

\* An entry that gives a descriptor finds it where the caller has it.
LEMMA GivenPlace ==
  ASSUME ListOK, CallerInv, NEW n \in DOMAIN list, ~Exec!Made(list[n])
  PROVE  parent[list[n].num] = Placed(n)
<1>1. list[n].num \in Exec!Num /\ before[list[n].num] = <<"file", list[n].num>>
  BY DEF ListOK, CallerInv
<1>2. before[list[n].num] # Exec!Closed
  BY <1>1, EndsDiffer
<1>3. parent[list[n].num] = before[list[n].num]
  BY <1>1, <1>2 DEF CallerInv
<1>4. QED
  BY <1>1, <1>3 DEF Placed

\* An entry of the list that asks for no pipe
LEMMA OpenGiven ==
  ASSUME ExecInv, Exec!OpenPipe, ~Exec!Made(list[at]) PROVE ExecInv'
<1>1. /\ epc = "pipes" /\ epc' = "pipes" /\ at <= Len(list) /\ at' = at + 1
      /\ list' = list /\ before' = before /\ child' = child
      /\ outer' = outer /\ parent' = parent
      /\ inner' = [inner EXCEPT ![at] = list[at].num]
  BY DEF Exec!OpenPipe
<1>2. ListOK /\ ExecTyped /\ CallerInv /\ PipesInv
  BY <1>1 DEF ExecInv
<1>3. at \in DOMAIN list /\ \A n \in DOMAIN list : n \in Int
  BY <1>1, <1>2 DEF ListOK, ExecTyped
<1>4. Piped' = Piped
  BY <1>1, <1>2, <1>3 DEF Piped, ExecTyped
<1>5. ListOK'
  BY <1>1, <1>2, ListStays
<1>6. ExecTyped'
  BY <1>1, <1>2, <1>3 DEF ExecTyped, ListOK
<1>7. CallerInv'
  BY <1>1, <1>2, <1>4, ListStays DEF CallerInv
<1>8. PipesInv'
  <2> SUFFICES ASSUME NEW n \in DOMAIN list
               PROVE  (IF n < at
                       THEN /\ inner[n] \in Exec!Num /\ parent[inner[n]] = Placed(n)
                            /\ Exec!Made(list[n]) =>
                                 \A k \in Exec!Num : parent[k] = Exec!ChildEnd(n) => k = inner[n]
                       ELSE inner[n] = -1)'
    BY <1>1 DEF PipesInv
  <2>1. CASE n = at
    <3>1. inner'[n] = list[at].num /\ list[at].num \in Exec!Num
      BY <1>1, <1>2, <1>3, <2>1 DEF ExecTyped, ListOK
    <3>2. parent[list[at].num] = Placed(n)
      BY <1>2, <1>3, <2>1, GivenPlace
    <3>3. n < at'
      BY <1>1, <1>3, <2>1
    <3>4. QED
      BY <1>1, <2>1, <3>1, <3>2, <3>3, ListStays
  <2>2. CASE n # at
    <3>1. inner'[n] = inner[n]
      BY <1>1, <1>2, <2>2 DEF ExecTyped
    <3>2. n < at' <=> n < at
      BY <1>1, <1>3, <2>2
    <3>3. QED
      BY <1>1, <1>2, <3>1, <3>2, ListStays DEF PipesInv
  <2>3. QED
    BY <2>1, <2>2
<1>9. QED
  BY <1>1, <1>5, <1>6, <1>7, <1>8
     DEF ExecInv, ChildDescriptors, Exec!ChildTable, Exec!NoDescriptorLeak

\* An entry for which a pipe is made
LEMMA OpenNew ==
  ASSUME ExecInv, Exec!OpenPipe, Exec!Made(list[at]) PROVE ExecInv'
<1>1. /\ epc = "pipes" /\ epc' = "pipes" /\ at <= Len(list) /\ at' = at + 1
      /\ list' = list /\ before' = before /\ child' = child
  BY DEF Exec!OpenPipe
<1>2. ListOK /\ ExecTyped /\ CallerInv /\ PipesInv
  BY <1>1 DEF ExecInv
<1>3. at \in DOMAIN list /\ \A n \in DOMAIN list : n \in Int
  BY <1>1, <1>2 DEF ListOK, ExecTyped
<1>4. PICK r \in Exec!Num, w \in Exec!Num :
        /\ r # w /\ parent[r] = Exec!Closed /\ parent[w] = Exec!Closed
        /\ inner' = [inner EXCEPT ![at] = IF list[at].type = "newin" THEN r ELSE w]
        /\ outer' = [outer EXCEPT ![at] = IF list[at].type = "newin" THEN w ELSE r]
        /\ parent' = [parent EXCEPT ![r] = <<"read end", at>>, ![w] = <<"write end", at>>]
  BY DEF Exec!OpenPipe, Exec!Least, Exec!Free
<1>5. PICK o \in Exec!Num, c \in Exec!Num :
        /\ o # c /\ parent[o] = Exec!Closed /\ parent[c] = Exec!Closed
        /\ \A n \in DOMAIN list : inner'[n] = IF n = at THEN c ELSE inner[n]
        /\ \A n \in DOMAIN list : outer'[n] = IF n = at THEN o ELSE outer[n]
        /\ \A k \in Exec!Num :
             parent'[k] = IF k = o THEN Exec!CallerEnd(at)
                          ELSE IF k = c THEN Exec!ChildEnd(at) ELSE parent[k]
  <2>1. CASE list[at].type = "newin"
    <3>1. Exec!CallerEnd(at) = <<"write end", at>> /\ Exec!ChildEnd(at) = <<"read end", at>>
      BY <2>1 DEF Exec!CallerEnd, Exec!ChildEnd
    <3>2. /\ \A n \in DOMAIN list : inner'[n] = IF n = at THEN r ELSE inner[n]
          /\ \A n \in DOMAIN list : outer'[n] = IF n = at THEN w ELSE outer[n]
          /\ \A k \in Exec!Num :
               parent'[k] = IF k = w THEN Exec!CallerEnd(at)
                            ELSE IF k = r THEN Exec!ChildEnd(at) ELSE parent[k]
      BY <1>2, <1>3, <1>4, <2>1, <3>1 DEF ExecTyped
    <3>3. QED
      BY <1>4, <3>2
  <2>2. CASE list[at].type # "newin"
    <3>1. Exec!CallerEnd(at) = <<"read end", at>> /\ Exec!ChildEnd(at) = <<"write end", at>>
      BY <2>2 DEF Exec!CallerEnd, Exec!ChildEnd
    <3>2. /\ \A n \in DOMAIN list : inner'[n] = IF n = at THEN w ELSE inner[n]
          /\ \A n \in DOMAIN list : outer'[n] = IF n = at THEN r ELSE outer[n]
          /\ \A k \in Exec!Num :
               parent'[k] = IF k = r THEN Exec!CallerEnd(at)
                            ELSE IF k = w THEN Exec!ChildEnd(at) ELSE parent[k]
      BY <1>2, <1>3, <1>4, <2>2, <3>1 DEF ExecTyped
    <3>3. QED
      BY <1>4, <3>2
  <2>3. QED
    BY <2>1, <2>2
<1>6. DOMAIN inner' = DOMAIN list /\ DOMAIN outer' = DOMAIN list /\ DOMAIN parent' = Exec!Num
  BY <1>2, <1>4 DEF ExecTyped
<1>7. Piped' = Piped \cup {at} /\ at \notin Piped /\ Piped \subseteq DOMAIN list
  BY <1>1, <1>2, <1>3 DEF Piped, ExecTyped
<1>8. before[o] = Exec!Closed /\ before[c] = Exec!Closed
  BY <1>2, <1>5 DEF CallerInv
<1>9. ListOK'
  BY <1>1, <1>2, ListStays
<1>10. ExecTyped'
  BY <1>1, <1>2, <1>3, <1>6 DEF ExecTyped, ListOK
<1>11. CallerInv'
  <2>1. \A n \in DOMAIN list : ~Exec!Made(list[n]) => n # at
    OBVIOUS
  <2>2. \A n \in Piped : outer[n] # o /\ outer[n] # c /\ n # at
    BY <1>2, <1>5, <1>7, EndsDiffer DEF CallerInv
  <2>3. \A n \in Piped' : outer'[n] \in Exec!Num /\ parent'[outer'[n]] = Exec!CallerEnd(n)
    BY <1>2, <1>3, <1>5, <1>7, <2>2 DEF CallerInv
  <2>4. ASSUME NEW k \in Exec!Num
        PROVE  \/ parent'[k] = before[k]
               \/ before[k] = Exec!Closed /\ \E n \in Piped' : outer'[n] = k
               \/ before[k] = Exec!Closed /\ \E n \in Piped' : parent'[k] = Exec!ChildEnd(n)
    <3>1. CASE k = o
      BY <1>3, <1>5, <1>7, <1>8, <3>1
    <3>2. CASE k = c
      BY <1>3, <1>5, <1>7, <1>8, <3>2
    <3>3. CASE k # o /\ k # c
      <4>1. parent'[k] = parent[k] /\ \A n \in Piped : outer'[n] = outer[n] /\ n \in Piped'
        BY <1>5, <1>7, <2>2, <3>3
      <4>2. QED
        BY <1>2, <4>1 DEF CallerInv
    <3>4. QED
      BY <3>1, <3>2, <3>3
  <2>5. \A n \in DOMAIN list : Exec!Made(list[n]) /\ n \notin Piped' => outer'[n] = -1
    BY <1>2, <1>5, <1>7 DEF CallerInv
  <2>6. \A n \in DOMAIN list : ~Exec!Made(list[n]) =>
          before[list[n].num] = <<"file", list[n].num>> /\ outer'[n] = list[n].num
    BY <1>2, <1>5, <2>1 DEF CallerInv
  <2>7. \A k \in Exec!Num : before[k] \in {Exec!Closed, <<"file", k>>}
    BY <1>2 DEF CallerInv
  <2>8. QED
    BY <1>1, <2>3, <2>4, <2>5, <2>6, <2>7, ListStays DEF CallerInv
<1>12. PipesInv'
  <2>1. ASSUME NEW k \in Exec!Num PROVE parent[k] # Exec!ChildEnd(at)
    BY <1>2, <1>3, <1>7, EndsDiffer DEF CallerInv
  <2> SUFFICES ASSUME NEW n \in DOMAIN list
               PROVE  (IF n < at
                       THEN /\ inner[n] \in Exec!Num /\ parent[inner[n]] = Placed(n)
                            /\ Exec!Made(list[n]) =>
                                 \A k \in Exec!Num : parent[k] = Exec!ChildEnd(n) => k = inner[n]
                       ELSE inner[n] = -1)'
    BY <1>1 DEF PipesInv
  <2>2. CASE n = at
    <3>1. Placed(n) = Exec!ChildEnd(n) /\ inner'[n] = c /\ parent'[c] = Exec!ChildEnd(n)
      BY <1>3, <1>5, <2>2 DEF Placed
    <3>2. \A k \in Exec!Num : parent'[k] = Exec!ChildEnd(n) => k = c
      BY <1>2, <1>3, <1>5, <2>1, <2>2, EndsDiffer
    <3>3. n < at'
      BY <1>1, <1>3, <2>2
    <3>4. QED
      BY <1>1, <3>1, <3>2, <3>3, ListStays
  <2>3. CASE n < at
    <3>1. inner'[n] = inner[n] /\ inner[n] \in Exec!Num /\ parent[inner[n]] = Placed(n)
      BY <1>2, <1>3, <1>5, <2>3 DEF PipesInv
    <3>2. inner[n] # o /\ inner[n] # c
      BY <1>2, <1>5, <3>1, EndsDiffer
    <3>3. parent'[inner'[n]] = Placed(n)
      BY <1>5, <3>1, <3>2
    <3>4. \A k \in Exec!Num :
            Exec!Made(list[n]) /\ parent'[k] = Exec!ChildEnd(n) => k = inner'[n]
      BY <1>2, <1>3, <1>5, <2>3, <3>1, EndsDiffer DEF PipesInv
    <3>5. n < at'
      BY <1>1, <1>3, <2>3
    <3>6. QED
      BY <1>1, <3>1, <3>3, <3>4, <3>5, ListStays
  <2>4. CASE n > at
    <3>1. inner'[n] = inner[n] /\ inner[n] = -1 /\ ~(n < at')
      BY <1>1, <1>2, <1>3, <1>5, <2>4 DEF PipesInv
    <3>2. QED
      BY <3>1
  <2>5. QED
    BY <1>3, <2>2, <2>3, <2>4
<1>13. QED
  BY <1>1, <1>9, <1>10, <1>11, <1>12
     DEF ExecInv, ChildDescriptors, Exec!ChildTable, Exec!NoDescriptorLeak

\* pipe or fork fails: every descriptor that was made is closed.
LEMMA ExecFails ==
  ASSUME ExecInv, Exec!Fail PROVE ExecInv'
<1>1. /\ epc = "pipes" /\ epc' = "failed" /\ at' = at /\ list' = list
      /\ before' = before /\ child' = child
      /\ outer' = [n \in DOMAIN list |-> -1] /\ inner' = inner
      /\ parent' = Exec!Killed(parent)
  BY DEF Exec!Fail
<1>2. ListOK /\ ExecTyped /\ CallerInv /\ PipesInv
  BY <1>1 DEF ExecInv
<1>3. ListOK'
  BY <1>1, <1>2, ListStays
<1>4. ExecTyped'
  BY <1>1, <1>2 DEF ExecTyped, Exec!Killed
<1>5. Piped \subseteq DOMAIN list /\ \A n \in Piped : Exec!Made(list[n]) /\ n < at
  BY <1>1 DEF Piped
<1>6. ASSUME NEW k \in Exec!Num
      PROVE  parent'[k] = IF \E n \in DOMAIN list : list[n].type = "transfer" /\ list[n].num = k
                          THEN Exec!Closed ELSE before[k]
  <2>1. parent'[k] = IF \E n \in DOMAIN list :
                          \/ k = outer[n] /\ list[n].type # "share"
                          \/ k = inner[n] /\ Exec!Made(list[n])
                     THEN Exec!Closed ELSE parent[k]
    BY <1>1 DEF Exec!Killed
  <2>2. CASE \E n \in DOMAIN list : list[n].type = "transfer" /\ list[n].num = k
    <3>1. PICK n \in DOMAIN list : list[n].type = "transfer" /\ list[n].num = k
      BY <2>2
    <3>2. outer[n] = k /\ list[n].type # "share"
      BY <1>2, <3>1 DEF CallerInv, Exec!Made
    <3>3. QED
      BY <2>1, <2>2, <3>2
  <2>3. CASE ~\E n \in DOMAIN list : list[n].type = "transfer" /\ list[n].num = k
    <3>1. CASE before[k] = Exec!Closed /\ \E n \in Piped : outer[n] = k
      <4>1. \A n \in Piped : list[n].type # "share"
        BY <1>5 DEF Exec!Made
      <4>2. QED
        BY <1>5, <2>1, <2>3, <3>1, <4>1
    <3>2. CASE before[k] = Exec!Closed /\ \E n \in Piped : parent[k] = Exec!ChildEnd(n)
      BY <1>2, <1>5, <2>1, <2>3, <3>2 DEF PipesInv
    <3>3. CASE parent[k] = before[k]
      <4>1. \A n \in DOMAIN list : ~(k = inner[n] /\ Exec!Made(list[n])) \/ before[k] = Exec!Closed
        <5>1. SUFFICES ASSUME NEW n \in DOMAIN list, k = inner[n], Exec!Made(list[n])
                       PROVE  before[k] = Exec!Closed
          OBVIOUS
        <5>2. k # -1
          BY DEF Exec!Num
        <5>3. parent[k] = Exec!ChildEnd(n)
          BY <1>2, <5>1, <5>2 DEF PipesInv, Placed
        <5>4. parent[k] # <<"file", k>>
          BY <1>2, <5>3, EndsDiffer
        <5>5. QED
          BY <1>2, <3>3, <5>4 DEF CallerInv
      <4>2. \A n \in DOMAIN list :
              ~(k = outer[n] /\ list[n].type # "share") \/ before[k] = Exec!Closed
        <5>1. SUFFICES ASSUME NEW n \in DOMAIN list, k = outer[n], list[n].type # "share"
                       PROVE  before[k] = Exec!Closed
          OBVIOUS
        <5>2. k # -1
          BY DEF Exec!Num
        <5>3. Exec!Made(list[n])
          BY <1>2, <2>3, <5>1 DEF CallerInv, ListOK, Exec!Made
        <5>4. n \in Piped
          BY <1>2, <5>1, <5>2, <5>3 DEF CallerInv
        <5>5. parent[k] = Exec!CallerEnd(n)
          BY <1>2, <5>1, <5>4 DEF CallerInv
        <5>6. parent[k] # <<"file", k>>
          BY <1>2, <5>5, EndsDiffer
        <5>7. QED
          BY <1>2, <3>3, <5>6 DEF CallerInv
      <4>3. QED
        BY <2>1, <2>3, <3>3, <4>1, <4>2
    <3>4. QED
      BY <1>2, <3>1, <3>2, <3>3 DEF CallerInv
  <2>4. QED
    BY <2>2, <2>3
<1>7. ChildDescriptors'
  BY <1>1, <1>6 DEF ChildDescriptors, Exec!ChildTable, Exec!NoDescriptorLeak
<1>8. QED
  BY <1>1, <1>3, <1>4, <1>7 DEF ExecInv

\* The child inherits what the list asks for, and none of the caller's ends.
LEMMA ExecForks ==
  ASSUME ExecInv, Exec!Fork PROVE ExecInv'
<1>1. /\ epc = "pipes" /\ epc' = "place" /\ at > Len(list) /\ at' = 1 /\ list' = list
      /\ before' = before /\ parent' = parent /\ outer' = outer /\ inner' = inner
      /\ child' = [k \in Exec!Num |->
           IF \E n \in DOMAIN list : Exec!Made(list[n]) /\ outer[n] = k
           THEN Exec!Closed ELSE parent[k]]
  BY DEF Exec!Fork
<1>2. ListOK /\ ExecTyped /\ CallerInv /\ PipesInv
  BY <1>1 DEF ExecInv
<1>3. \A n \in DOMAIN list : n \in Int /\ n < at /\ 1 <= n
  BY <1>1, <1>2 DEF ListOK, ExecTyped
<1>4. Piped' = Piped /\ \A n \in DOMAIN list : n \in Piped <=> Exec!Made(list[n])
  BY <1>1, <1>3 DEF Piped
<1>5. ListOK'
  BY <1>1, <1>2, ListStays
<1>6. ExecTyped'
  BY <1>1, <1>2 DEF ExecTyped, ListOK
<1>7. CallerInv'
  BY <1>1, <1>2, <1>4, ListStays DEF CallerInv
<1>8. \A n \in DOMAIN list : Exec!Made(list[n]) =>
        outer[n] \in Exec!Num /\ parent[outer[n]] = Exec!CallerEnd(n)
  BY <1>2, <1>4 DEF CallerInv
<1>9. ASSUME NEW n \in DOMAIN list
      PROVE  inner[n] \in Exec!Num /\ child'[inner[n]] = Placed(n)
  <2>1. inner[n] \in Exec!Num /\ parent[inner[n]] = Placed(n)
    BY <1>2, <1>3 DEF PipesInv
  <2>2. \A m \in DOMAIN list : Exec!Made(list[m]) => outer[m] # inner[n]
    BY <1>2, <1>8, <2>1, EndsDiffer
  <2>3. QED
    BY <1>1, <2>1, <2>2
<1>10. ASSUME NEW k \in Exec!Num, NEW n \in DOMAIN list PROVE child'[k] # Exec!CallerEnd(n)
  <2>1. CASE \E m \in DOMAIN list : Exec!Made(list[m]) /\ outer[m] = k
    BY <1>1, <1>2, <2>1, EndsDiffer
  <2>2. CASE ~\E m \in DOMAIN list : Exec!Made(list[m]) /\ outer[m] = k
    <3>1. child'[k] = parent[k]
      BY <1>1, <2>2
    <3>2. ~\E m \in Piped : outer[m] = k
      BY <1>4, <2>2 DEF Piped
    <3>3. parent[k] = before[k] \/ \E m \in DOMAIN list : parent[k] = Exec!ChildEnd(m)
      BY <1>2, <3>2 DEF CallerInv, Piped
    <3>4. QED
      BY <1>2, <3>1, <3>3, EndsDiffer DEF CallerInv
  <2>3. QED
    BY <2>1, <2>2
<1>11. ChildInv'
  <2>1. \A n \in DOMAIN list : ~(n < at')
    BY <1>1, <1>3
  <2>2. QED
    BY <1>1, <1>9, <1>10, <2>1, ListStays DEF ChildInv
<1>12. QED
  BY <1>1, <1>5, <1>6, <1>7, <1>11
     DEF ExecInv, ChildDescriptors, Exec!ChildTable, Exec!NoDescriptorLeak

\* What a round of the child's loop makes of its table: entry at is in its place,
\* the others where inner says.
LEMMA PlaceKeeps ==
  ASSUME ExecInv, Exec!Place,
         \A n \in DOMAIN list :
           \/ n < at /\ child'[list[n].child_fd] = child[list[n].child_fd]
           \/ n = at /\ child'[list[n].child_fd] = child[inner[n]]
           \/ n > at /\ inner'[n] \in Exec!Num /\ child'[inner'[n]] = child[inner[n]],
         \A k \in Exec!Num :
           child'[k] = Exec!Closed \/ \E l \in Exec!Num : child'[k] = child[l],
         DOMAIN inner' = DOMAIN list, DOMAIN child' = Exec!Num
  PROVE  ExecInv'
<1>1. /\ epc = "place" /\ epc' = "place" /\ at <= Len(list) /\ at' = at + 1 /\ list' = list
      /\ before' = before /\ parent' = parent /\ outer' = outer
  BY DEF Exec!Place
<1>2. ListOK /\ ExecTyped /\ CallerInv /\ ChildInv
  BY <1>1 DEF ExecInv
<1>3. at \in DOMAIN list /\ at \in Int /\ \A n \in DOMAIN list : n \in Int
  BY <1>1, <1>2 DEF ListOK, ExecTyped
<1>4. ListOK'
  BY <1>1, <1>2, ListStays
<1>5. ExecTyped'
  BY <1>1, <1>2, <1>3 DEF ExecTyped, ListOK
<1>6. Piped' = Piped
  BY <1>1 DEF Piped
<1>7. CallerInv'
  BY <1>1, <1>2, <1>6, ListStays DEF CallerInv
<1>8. ASSUME NEW n \in DOMAIN list
      PROVE  IF n < at' THEN child'[list[n].child_fd] = Placed(n)
             ELSE inner'[n] \in Exec!Num /\ child'[inner'[n]] = Placed(n)
  <2>1. n < at' <=> n < at \/ n = at
    BY <1>1, <1>3
  <2>2. IF n < at THEN child[list[n].child_fd] = Placed(n)
        ELSE inner[n] \in Exec!Num /\ child[inner[n]] = Placed(n)
    BY <1>2 DEF ChildInv
  <2>3. CASE n < at
    BY <1>3, <2>1, <2>2, <2>3
  <2>4. CASE n = at
    BY <1>3, <2>1, <2>2, <2>4
  <2>5. CASE n > at
    BY <1>3, <2>1, <2>2, <2>5
  <2>6. QED
    BY <1>3, <2>3, <2>4, <2>5
<1>9. \A k \in Exec!Num, n \in DOMAIN list : child'[k] # Exec!CallerEnd(n)
  BY <1>2, EndsDiffer DEF ChildInv
<1>10. ChildInv'
  BY <1>1, <1>8, <1>9, ListStays DEF ChildInv
<1>11. QED
  BY <1>1, <1>4, <1>5, <1>7, <1>10
     DEF ExecInv, ChildDescriptors, Exec!ChildTable, Exec!NoDescriptorLeak

\* One entry is moved into its place without harm to the others: what stands
\* there is of no use to the child, or is moved away first.
LEMMA ExecPlaces ==
  ASSUME ExecInv, Exec!Place PROVE ExecInv'
<1>1. epc = "place" /\ at <= Len(list) /\ list' = list
  BY DEF Exec!Place
<1>2. ListOK /\ ExecTyped /\ ChildInv
  BY <1>1 DEF ExecInv
<1>3. at \in DOMAIN list /\ at \in Int /\ \A n \in DOMAIN list : n \in Int /\ n <= Len(list)
  BY <1>1, <1>2 DEF ListOK, ExecTyped
<1>4. PICK from \in Exec!Num, to \in Exec!Num : from = inner[at] /\ to = list[at].child_fd
  BY <1>2, <1>3 DEF ChildInv, ListOK
<1>5. child[from] = Placed(at)
  BY <1>2, <1>3, <1>4 DEF ChildInv
\* Nothing else that was placed or is to be placed is in from.
<1>6. \A n \in DOMAIN list : n < at => /\ list[n].child_fd # from /\ list[n].child_fd # to
                                       /\ list[n].child_fd \in Exec!Num
                                       /\ child[list[n].child_fd] # Exec!Closed
  BY <1>2, <1>3, <1>4, <1>5, EndsDiffer DEF ChildInv, ListOK
<1>7. \A n \in DOMAIN list : n > at => inner[n] # from /\ inner[n] \in Exec!Num
                                       /\ child[inner[n]] # Exec!Closed
  BY <1>2, <1>3, <1>4, <1>5, EndsDiffer DEF ChildInv
<1>8. child[from] # Exec!Closed
  BY <1>2, <1>3, <1>5, EndsDiffer
<1>9. CASE from = to /\ inner' = inner /\ child' = child
  <2>1. \A n \in DOMAIN list :
           \/ n < at /\ child'[list[n].child_fd] = child[list[n].child_fd]
           \/ n = at /\ child'[list[n].child_fd] = child[inner[n]]
           \/ n > at /\ inner'[n] \in Exec!Num /\ child'[inner'[n]] = child[inner[n]]
    <3> SUFFICES ASSUME NEW n \in DOMAIN list
                 PROVE  \/ n < at /\ child'[list[n].child_fd] = child[list[n].child_fd]
                        \/ n = at /\ child'[list[n].child_fd] = child[inner[n]]
                        \/ n > at /\ inner'[n] \in Exec!Num /\ child'[inner'[n]] = child[inner[n]]
      OBVIOUS
    <3>1. inner'[n] = inner[n] /\ child' = child
      BY <1>9
    <3>2. n = at => list[n].child_fd = inner[n]
      BY <1>4, <1>9
    <3>3. n < at \/ n = at \/ n > at
      BY <1>3
    <3>4. QED
      BY <1>7, <3>1, <3>2, <3>3
  <2>2. \A k \in Exec!Num :
           child'[k] = Exec!Closed \/ \E l \in Exec!Num : child'[k] = child[l]
    BY <1>9
  <2>3. DOMAIN inner' = DOMAIN list /\ DOMAIN child' = Exec!Num
    BY <1>2, <1>9 DEF ExecTyped
  <2>4. QED
    BY <2>1, <2>2, <2>3, PlaceKeeps
<1>10. CASE /\ from # to /\ inner' = inner
            /\ {n \in at .. Len(list) : inner[n] = to} = {}
            /\ child' = [child EXCEPT ![to] = child[from], ![from] = Exec!Closed]
  <2>1. /\ DOMAIN child' = Exec!Num
        /\ \A k \in Exec!Num : child'[k] = IF k = from THEN Exec!Closed
                                           ELSE IF k = to THEN child[from] ELSE child[k]
    BY <1>2, <1>4, <1>10 DEF ExecTyped
  <2>2. \A n \in DOMAIN list : n > at => inner[n] # to
    BY <1>2, <1>3, <1>10 DEF ListOK
  <2>3. \A n \in DOMAIN list :
           \/ n < at /\ child'[list[n].child_fd] = child[list[n].child_fd]
           \/ n = at /\ child'[list[n].child_fd] = child[inner[n]]
           \/ n > at /\ inner'[n] \in Exec!Num /\ child'[inner'[n]] = child[inner[n]]
    BY <1>3, <1>4, <1>6, <1>7, <1>10, <2>1, <2>2
  <2>4. \A k \in Exec!Num :
           child'[k] = Exec!Closed \/ \E l \in Exec!Num : child'[k] = child[l]
    BY <2>1
  <2>5. DOMAIN inner' = DOMAIN list
    BY <1>2, <1>10 DEF ExecTyped
  <2>6. QED
    BY <2>1, <2>3, <2>4, <2>5, PlaceKeeps
<1>11. ASSUME from # to, NEW m \in DOMAIN list, m >= at, inner[m] = to,
              NEW spare \in Exec!Num, child[spare] = Exec!Closed,
              inner' = [inner EXCEPT ![m] = spare],
              child' = [child EXCEPT ![spare] = child[to], ![to] = child[from],
                                     ![from] = Exec!Closed]
       PROVE  ExecInv'
  <2>1. m # at /\ m > at /\ spare # from
    BY <1>3, <1>4, <1>8, <1>11
  <2>2. child[to] = Placed(m) /\ spare # to
    BY <1>2, <1>3, <1>11, <2>1, EndsDiffer DEF ChildInv
  <2>3. /\ DOMAIN child' = Exec!Num
        /\ \A k \in Exec!Num : child'[k] = IF k = from THEN Exec!Closed
                                           ELSE IF k = to THEN child[from]
                                           ELSE IF k = spare THEN child[to] ELSE child[k]
    BY <1>2, <1>4, <1>11 DEF ExecTyped
  <2>4. DOMAIN inner' = DOMAIN list
        /\ \A n \in DOMAIN list : inner'[n] = IF n = m THEN spare ELSE inner[n]
    BY <1>2, <1>11 DEF ExecTyped
  <2>5. \A n \in DOMAIN list : n > at /\ n # m => inner[n] # to /\ inner[n] # spare
    <3>1. \A n \in DOMAIN list : n > at => child[inner[n]] = Placed(n)
      BY <1>2, <1>3 DEF ChildInv
    <3>2. QED
      BY <1>2, <1>7, <1>11, <2>2, <3>1, EndsDiffer
  <2>6. \A n \in DOMAIN list :
           \/ n < at /\ child'[list[n].child_fd] = child[list[n].child_fd]
           \/ n = at /\ child'[list[n].child_fd] = child[inner[n]]
           \/ n > at /\ inner'[n] \in Exec!Num /\ child'[inner'[n]] = child[inner[n]]
    <3> SUFFICES ASSUME NEW n \in DOMAIN list
                 PROVE  \/ n < at /\ child'[list[n].child_fd] = child[list[n].child_fd]
                        \/ n = at /\ child'[list[n].child_fd] = child[inner[n]]
                        \/ n > at /\ inner'[n] \in Exec!Num /\ child'[inner'[n]] = child[inner[n]]
      OBVIOUS
    <3>1. CASE n < at
      BY <1>6, <1>11, <2>3, <3>1
    <3>2. CASE n = at
      BY <1>4, <1>11, <2>3, <3>2
    <3>3. CASE n = m
      BY <1>11, <2>1, <2>2, <2>3, <2>4, <3>3
    <3>4. CASE n > at /\ n # m
      BY <1>7, <2>3, <2>4, <2>5, <3>4
    <3>5. QED
      BY <1>3, <3>1, <3>2, <3>3, <3>4
  <2>7. \A k \in Exec!Num :
           child'[k] = Exec!Closed \/ \E l \in Exec!Num : child'[k] = child[l]
    BY <2>3
  <2>8. QED
    BY <2>3, <2>4, <2>6, <2>7, PlaceKeeps
<1>12. \/ from = to /\ inner' = inner /\ child' = child
       \/ /\ from # to /\ inner' = inner
          /\ {n \in at .. Len(list) : inner[n] = to} = {}
          /\ child' = [child EXCEPT ![to] = child[from], ![from] = Exec!Closed]
       \/ /\ from # to
          /\ \E m \in DOMAIN list, spare \in Exec!Num :
               /\ m >= at /\ inner[m] = to /\ child[spare] = Exec!Closed
               /\ inner' = [inner EXCEPT ![m] = spare]
               /\ child' = [child EXCEPT ![spare] = child[to], ![to] = child[from],
                                         ![from] = Exec!Closed]
  <2>1. at .. Len(list) \subseteq DOMAIN list /\ \A n \in at .. Len(list) : n >= at
    BY <1>2, <1>3 DEF ListOK
  <2>2. QED
    BY <1>4, <2>1 DEF Exec!Place, Exec!Least, Exec!Free
<1>13. QED
  BY <1>9, <1>10, <1>11, <1>12

\* The caller closes the ends that are the child's and what it gave away.
LEMMA ExecCloses ==
  ASSUME ExecInv, Exec!CloseRelevant PROVE ExecInv'
<1>1. /\ epc = "place" /\ epc' = "running" /\ at > Len(list) /\ at' = at /\ list' = list
      /\ before' = before /\ child' = child /\ outer' = outer /\ inner' = inner
      /\ parent' = [k \in Exec!Num |->
           IF \E n \in DOMAIN list :
                \/ Exec!Made(list[n]) /\ parent[k] = Exec!ChildEnd(n)
                \/ list[n].type = "transfer" /\ list[n].num = k
           THEN Exec!Closed ELSE parent[k]]
  BY DEF Exec!CloseRelevant
<1>2. ListOK /\ ExecTyped /\ CallerInv /\ ChildInv
  BY <1>1 DEF ExecInv
<1>3. \A n \in DOMAIN list : n \in Int /\ n < at
  BY <1>1, <1>2 DEF ListOK, ExecTyped
<1>4. \A n \in DOMAIN list : n \in Piped <=> Exec!Made(list[n])
  BY <1>1 DEF Piped
<1>5. ListOK'
  BY <1>1, <1>2, ListStays
<1>6. ExecTyped'
  BY <1>1, <1>2 DEF ExecTyped
<1>7. Exec!ChildTable'
  BY <1>1, <1>2, <1>3, ListStays DEF ChildInv, Exec!ChildTable, Placed
<1>8. ASSUME NEW k \in Exec!Num
      PROVE  parent'[k] =
        IF \E n \in DOMAIN list : list[n].type = "transfer" /\ list[n].num = k THEN Exec!Closed
        ELSE IF \E n \in DOMAIN list : Exec!Made(list[n]) /\ outer[n] = k
        THEN Exec!CallerEnd(CHOOSE n \in DOMAIN list : Exec!Made(list[n]) /\ outer[n] = k)
        ELSE before[k]
  <2>1. CASE \E n \in DOMAIN list : list[n].type = "transfer" /\ list[n].num = k
    BY <1>1, <2>1
  <2>2. CASE /\ ~\E n \in DOMAIN list : list[n].type = "transfer" /\ list[n].num = k
             /\ \E n \in DOMAIN list : Exec!Made(list[n]) /\ outer[n] = k
    <3>1. PICK c : c = CHOOSE n \in DOMAIN list : Exec!Made(list[n]) /\ outer[n] = k
      OBVIOUS
    <3>2. c \in DOMAIN list /\ Exec!Made(list[c]) /\ outer[c] = k
      BY <2>2, <3>1
    <3>3. parent[k] = Exec!CallerEnd(c)
      BY <1>2, <1>4, <3>2 DEF CallerInv
    <3>4. \A n \in DOMAIN list : parent[k] # Exec!ChildEnd(n)
      BY <1>2, <3>2, <3>3, EndsDiffer
    <3>5. parent'[k] = Exec!CallerEnd(c)
      BY <1>1, <2>2, <3>3, <3>4
    <3>6. QED
      BY <2>2, <3>1, <3>5
  <2>3. CASE /\ ~\E n \in DOMAIN list : list[n].type = "transfer" /\ list[n].num = k
             /\ ~\E n \in DOMAIN list : Exec!Made(list[n]) /\ outer[n] = k
    <3>1. \/ parent[k] = before[k]
          \/ before[k] = Exec!Closed /\ \E n \in Piped : parent[k] = Exec!ChildEnd(n)
      BY <1>2, <2>3 DEF CallerInv, Piped
    <3>2. CASE parent[k] = before[k]
      <4>1. \A n \in DOMAIN list : parent[k] # Exec!ChildEnd(n)
        BY <1>2, <3>2, EndsDiffer DEF CallerInv
      <4>2. QED
        BY <1>1, <2>3, <3>2, <4>1
    <3>3. CASE before[k] = Exec!Closed /\ \E n \in Piped : parent[k] = Exec!ChildEnd(n)
      BY <1>1, <2>3, <3>3 DEF Piped
    <3>4. QED
      BY <3>1, <3>2, <3>3
  <2>4. QED
    BY <2>1, <2>2, <2>3
<1>9. Exec!NoDescriptorLeak'
  BY <1>1, <1>8, ListStays DEF Exec!NoDescriptorLeak
<1>10. QED
  BY <1>1, <1>5, <1>6, <1>7, <1>9 DEF ExecInv, ChildDescriptors

LEMMA ExecNext ==
  ASSUME ExecInv, [Exec!Next]_(Exec!vars) PROVE ExecInv'
<1>1. CASE UNCHANGED Exec!vars
  <2>1. /\ list' = list /\ outer' = outer /\ inner' = inner /\ before' = before
        /\ parent' = parent /\ child' = child /\ at' = at /\ epc' = epc
    BY <1>1 DEF Exec!vars
  <2>2. Piped' = Piped /\ (ExecTyped' <=> ExecTyped)
    BY <2>1 DEF Piped, ExecTyped
  <2>3. (CallerInv' <=> CallerInv) /\ (PipesInv' <=> PipesInv) /\ (ChildInv' <=> ChildInv)
    BY <2>1, <2>2, ListStays DEF CallerInv, PipesInv, ChildInv
  <2>4. ASSUME ChildDescriptors PROVE ChildDescriptors'
    <3>1. Exec!ChildTable /\ Exec!NoDescriptorLeak
      BY <2>4 DEF ChildDescriptors
    <3>2. Exec!ChildTable'
      BY <2>1, <3>1, ListStays DEF Exec!ChildTable
    <3>3. Exec!NoDescriptorLeak'
      BY <2>1, <3>1, ListStays DEF Exec!NoDescriptorLeak
    <3>4. QED
      BY <3>2, <3>3 DEF ChildDescriptors
  <2>5. QED
    BY <2>1, <2>2, <2>3, <2>4, ListStays DEF ExecInv
<1>2. CASE Exec!Next
  BY <1>2, OpenGiven, OpenNew, ExecFails, ExecForks, ExecPlaces, ExecCloses DEF Exec!Next
<1>3. QED
  BY <1>1, <1>2

\* exec (tamer/fd.tcc): whatever numbers the pipes get and in whatever way the numbers
\* asked for overlap those in use, the child finds each descriptor at its number
\* and holds no end that is the caller's; the caller keeps exactly its own, also
\* when a pipe or the fork fails.
THEOREM ChildPlaced ==
  ASSUME Exec!ExecAssumption PROVE Exec!Spec => []ChildDescriptors
<1>1. Exec!Init => ExecInv
  BY ExecStart
<1>2. ExecInv /\ [Exec!Next]_(Exec!vars) => ExecInv'
  BY ExecNext
<1>3. ExecInv => ChildDescriptors
  BY DEF ExecInv
<1>4. QED
  BY <1>1, <1>2, <1>3, PTL DEF Exec!Spec

(***************************************************************************)
(* The pool of helper processes                                            *)
(***************************************************************************)

InList(x, q) == \E i \in DOMAIN q : q[i] = x
OnceEach(q) == \A i, j \in DOMAIN q : q[i] = q[j] => i = j

PoolSteps == {"idle", "waiting", "woken", "query", "reply", "rest", "done"}

Units == {"query", "data"} \X Request

PlaceTyped ==
  /\ count \in Pool!Helper
  /\ ready \in Seq(Pool!Helper) /\ waiting \in Seq(Request)
  /\ hpc \in [Request -> PoolSteps]
  /\ mine \in [Request -> {Pool!None} \cup Pool!Helper]

WireTyped ==
  /\ hkind \in [Request -> Kinds] /\ hpos \in [Request -> 0 .. DataSize]
  /\ got \in [Request -> SUBSET (Pool!Helper \X Request)]
  /\ query \in [Pool!Helper -> Seq(Units)] /\ reply \in [Pool!Helper -> Seq(Request)]
  /\ serving \in [Pool!Helper -> {Pool!Nobody} \cup Request \X Int]

\* Who has a helper, and who waits for one.
PlaceInv ==
  /\ OnceEach(ready) /\ OnceEach(waiting)
  /\ \A r \in Request : mine[r] # Pool!None <=> hpc[r] \in {"query", "reply", "rest"}
  /\ \A r, q \in Request : mine[r] = mine[q] /\ mine[r] # Pool!None => r = q
  /\ \A h \in Pool!Helper : InList(h, ready) => \A r \in Request : mine[r] # h
  /\ \A h \in 1 .. count : InList(h, ready) \/ \E r \in Request : mine[r] = h
  /\ \A r \in Request : InList(r, waiting) => hpc[r] = "waiting"

\* Helper h has nothing in its socket.
Silent(h) == query[h] = <<>> /\ reply[h] = <<>> /\ serving[h] = Pool!Nobody

\* Helper h writes for w, or will: the units still to come, those in the socket
\* and those written make up the file.
Writes(h, w) ==
  /\ hkind[w] = "write" /\ reply[h] = <<>>
  /\ \/ /\ serving[h] = Pool!Nobody /\ query[h] # <<>> /\ Head(query[h]) = Pool!Query(w)
        /\ Len(query[h]) = 1 + hpos[w]
     \/ /\ serving[h] # Pool!Nobody /\ serving[h][1] = w
        /\ serving[h][2] = DataSize - hpos[w] + Len(query[h])

\* Helper h answers r, one message or the units of a file, which may be fewer than
\* what is asked for.
Answers(h, r) ==
  /\ hkind[r] # "write"
  /\ \A i \in DOMAIN reply[h] : reply[h][i] = r
  /\ LET all == IF hkind[r] = "read" THEN DataSize ELSE 1
         rest == all - hpos[r] - Len(reply[h]) IN
     \/ serving[h] = Pool!Nobody /\ query[h] = <<Pool!Query(r)>> /\ rest = all
     \/ /\ serving[h] # Pool!Nobody /\ serving[h][1] = r /\ serving[h][2] <= rest
        /\ query[h] = <<>> /\ hkind[r] = "read"
     \/ /\ serving[h] = Pool!Nobody /\ query[h] = <<>>
        /\ rest = 0 \/ (rest >= 0 /\ hkind[r] = "read")

\* A helper whom nobody has asked is silent, or still writes what it has been sent
\* in full.
Idle(h) ==
  (\A r \in Request : mine[r] = h => hpc[r] = "query") =>
    \/ Silent(h)
    \/ \E w \in Request : Writes(h, w) /\ hpos[w] = DataSize /\ hpc[w] = "done"

\* When helper h serves a request, it counts what is left.
InCount(h) == serving[h] # Pool!Nobody => serving[h][2] \in 1 .. DataSize

Served(r) ==
  hpc[r] \in {"reply", "rest"} /\ mine[r] \notin astray
    => Writes(mine[r], r) \/ Answers(mine[r], r)

Counted(r) ==
  /\ \A p \in got[r] : p[2] = r \/ p[1] \in astray
  /\ hpc[r] \in {"idle", "waiting", "woken", "query"} => hpos[r] = 0
  /\ hpc[r] \in {"reply", "rest"} => hpos[r] < DataSize
  /\ hpc[r] = "reply" /\ hkind[r] \notin {"read", "write"} => hpos[r] = 0
  /\ hpc[r] = "rest" => hkind[r] \in {"read", "write"}

\* What is in the sockets of the helpers that have not gone astray, and what the
\* requests have moved.
WireInv ==
  /\ \A h \in Pool!Helper \ astray : Idle(h) /\ InCount(h)
  /\ \A r \in Request : Served(r) /\ Counted(r)

PoolInv == PlaceTyped /\ WireTyped /\ PlaceInv /\ WireInv

(* Lists *)

LEMMA ListAppend ==
  ASSUME NEW S, NEW q \in Seq(S), NEW x \in S
  PROVE  /\ Append(q, x) \in Seq(S)
         /\ \A y : InList(y, Append(q, x)) <=> (InList(y, q) \/ y = x)
         /\ OnceEach(q) /\ ~InList(x, q) => OnceEach(Append(q, x))
<1> DEFINE w == Append(q, x)
<1>1. /\ w \in Seq(S) /\ DOMAIN q = 1 .. Len(q) /\ DOMAIN w = 1 .. Len(q) + 1 /\ Len(q) \in Nat
      /\ \A i \in 1 .. Len(q) : w[i] = q[i]
      /\ w[Len(q) + 1] = x
  OBVIOUS
<1> HIDE DEF w
<1>2. ASSUME NEW y PROVE InList(y, w) <=> (InList(y, q) \/ y = x)
  <2>1. ASSUME InList(y, w) PROVE InList(y, q) \/ y = x
    BY <1>1, <2>1 DEF InList
  <2>2. ASSUME InList(y, q) PROVE InList(y, w)
    <3>1. PICK i \in 1 .. Len(q) : q[i] = y
      BY <1>1, <2>2 DEF InList
    <3>2. i \in DOMAIN w /\ w[i] = y
      BY <1>1, <3>1
    <3>3. QED
      BY <3>2 DEF InList
  <2>3. InList(x, w)
    <3>1. Len(q) + 1 \in DOMAIN w
      BY <1>1
    <3>2. QED
      BY <1>1, <3>1 DEF InList
  <2>4. QED
    BY <2>1, <2>2, <2>3
<1>3. OnceEach(q) /\ ~InList(x, q) => OnceEach(w)
  BY <1>1 DEF OnceEach, InList
<1>4. QED
  BY <1>1, <1>2, <1>3 DEF w

LEMMA ListTail ==
  ASSUME NEW S, NEW q \in Seq(S), q # <<>>
  PROVE  /\ Head(q) \in S /\ Tail(q) \in Seq(S) /\ InList(Head(q), q)
         /\ OnceEach(q) => /\ OnceEach(Tail(q))
                           /\ \A y : InList(y, Tail(q)) <=> (InList(y, q) /\ y # Head(q))
<1> DEFINE w == Tail(q)
<1>1. /\ w \in Seq(S) /\ DOMAIN q = 1 .. Len(q) /\ DOMAIN w = 1 .. Len(q) - 1
      /\ Len(q) \in Nat /\ Len(q) > 0 /\ Head(q) = q[1] /\ q[1] \in S
      /\ \A i \in 1 .. Len(q) - 1 : w[i] = q[i + 1]
  OBVIOUS
<1> HIDE DEF w
<1>2. InList(Head(q), q)
  BY <1>1 DEF InList
<1>3. ASSUME OnceEach(q) PROVE OnceEach(w)
  <2>1. SUFFICES ASSUME NEW i \in 1 .. Len(q) - 1, NEW j \in 1 .. Len(q) - 1, w[i] = w[j]
                 PROVE  i = j
    BY <1>1 DEF OnceEach
  <2>2. i + 1 \in DOMAIN q /\ j + 1 \in DOMAIN q /\ q[i + 1] = q[j + 1]
    BY <1>1, <2>1
  <2>3. i + 1 = j + 1
    BY <1>3, <2>2 DEF OnceEach
  <2>4. QED
    BY <2>3
<1>4. ASSUME OnceEach(q), NEW y PROVE InList(y, w) <=> (InList(y, q) /\ y # Head(q))
  <2>1. ASSUME InList(y, w) PROVE InList(y, q) /\ y # Head(q)
    <3>1. PICK i \in 1 .. Len(q) - 1 : q[i + 1] = y
      BY <1>1, <2>1 DEF InList
    <3>2. i + 1 \in DOMAIN q /\ 1 \in DOMAIN q /\ i + 1 # 1
      BY <1>1
    <3>3. QED
      BY <1>1, <1>4, <3>1, <3>2 DEF InList, OnceEach
  <2>2. ASSUME InList(y, q), y # Head(q) PROVE InList(y, w)
    <3>1. PICK i \in 1 .. Len(q) : q[i] = y
      BY <1>1, <2>2 DEF InList
    <3>2. i - 1 \in DOMAIN w /\ w[i - 1] = y
      BY <1>1, <2>2, <3>1
    <3>3. QED
      BY <3>2 DEF InList
  <2>3. QED
    BY <2>1, <2>2
<1>5. QED
  BY <1>1, <1>2, <1>3, <1>4 DEF w

(* The pool *)

LEMMA NoneNoHelper == Pool!None \notin Pool!Helper
BY DEF Pool!None, Pool!Helper

LEMMA PoolStart ==
  ASSUME Pool!PoolAssumption, Pool!Init PROVE PoolInv
<1> USE DEF Pool!Init
<1>1. /\ NHelper \in Nat /\ NHelper # 0 /\ DataSize \in Nat /\ DataSize # 0
      /\ count \in Pool!Helper /\ 1 .. count \subseteq Pool!Helper
  BY DEF Pool!PoolAssumption, Pool!Helper
<1>2. ready \in Seq(Pool!Helper) /\ DOMAIN ready = 1 .. count
  <2>1. ready = [h \in 1 .. count |-> h] /\ count \in Nat
    BY <1>1 DEF Pool!Helper
  <2>2. QED
    BY <1>1, <2>1
<1>3. PlaceTyped /\ WireTyped
  BY <1>1, <1>2 DEF PlaceTyped, WireTyped, PoolSteps
<1>4. PlaceInv
  <2>1. \A h \in 1 .. count : InList(h, ready)
    BY <1>2 DEF InList
  <2>2. OnceEach(ready) /\ OnceEach(waiting) /\ \A r : ~InList(r, waiting)
    BY <1>2 DEF OnceEach, InList
  <2>3. QED
    BY <2>1, <2>2, NoneNoHelper DEF PlaceInv
<1>5. WireInv
  BY <1>1 DEF WireInv, Idle, InCount, Served, Counted, Silent
<1>6. QED
  BY <1>3, <1>4, <1>5 DEF PoolInv

\* What a request in which nothing happens may notice: it is woken.
Bystander(q) ==
  /\ mine'[q] = mine[q]
  /\ hpc'[q] = hpc[q] \/ (hpc[q] = "waiting" /\ hpc'[q] = "woken")

\* put: the helper is ready again, and who waits first is woken.
LEMMA PutPlaces ==
  ASSUME PlaceTyped, PlaceInv, NEW r \in Request, hpc[r] \in {"query", "reply", "rest"},
         Pool!Put(r), count' = count
  PROVE  /\ PlaceTyped' /\ PlaceInv'
         /\ hpc'[r] = "done" /\ mine'[r] = Pool!None /\ mine[r] \in Pool!Helper
         /\ \A q \in Request \ {r} : Bystander(q) /\ mine[q] # mine[r]
<1>1. /\ mine[r] \in Pool!Helper /\ mine[r] # Pool!None
      /\ \A q \in Request \ {r} : mine[q] # mine[r]
  BY DEF PlaceTyped, PlaceInv
<1>2. /\ ready' = Append(ready, mine[r]) /\ ~InList(mine[r], ready)
      /\ ready \in Seq(Pool!Helper)
  BY <1>1 DEF Pool!Put, PlaceInv, PlaceTyped
<1>3. /\ ready' \in Seq(Pool!Helper) /\ OnceEach(ready')
      /\ \A h : InList(h, ready') <=> (InList(h, ready) \/ h = mine[r])
  BY <1>1, <1>2, ListAppend DEF PlaceInv
<1>4. /\ mine' \in [Request -> {Pool!None} \cup Pool!Helper]
      /\ mine'[r] = Pool!None /\ \A q \in Request \ {r} : mine'[q] = mine[q]
  BY DEF Pool!Put, PlaceTyped
<1>5. /\ waiting' \in Seq(Request) /\ OnceEach(waiting') /\ hpc' \in [Request -> PoolSteps]
      /\ hpc'[r] = "done"
      /\ \A q \in Request \ {r} :
           hpc'[q] = hpc[q] \/ (hpc[q] = "waiting" /\ hpc'[q] = "woken")
      /\ \A q \in Request : InList(q, waiting') => hpc'[q] = "waiting"
  <2>1. waiting \in Seq(Request) /\ OnceEach(waiting) /\ hpc \in [Request -> PoolSteps]
        /\ \A q \in Request : InList(q, waiting) => hpc[q] = "waiting"
    BY DEF PlaceTyped, PlaceInv
  <2>2. CASE waiting = <<>>
    <3>1. waiting' = waiting /\ hpc' = [hpc EXCEPT ![r] = "done"]
      BY <2>2 DEF Pool!Put
    <3>2. ~InList(r, waiting)
      BY <2>1
    <3>3. QED
      BY <2>1, <3>1, <3>2 DEF PoolSteps
  <2>3. CASE waiting # <<>>
    <3>1. PICK f \in Request : f = Head(waiting)
      BY <2>1, <2>3, ListTail
    <3>2. /\ waiting' = Tail(waiting)
          /\ hpc' = [hpc EXCEPT ![r] = "done", ![f] = "woken"]
      BY <2>3, <3>1 DEF Pool!Put
    <3>3. /\ InList(f, waiting) /\ waiting' \in Seq(Request) /\ OnceEach(waiting')
          /\ \A y : InList(y, waiting') <=> (InList(y, waiting) /\ y # f)
      BY <2>1, <2>3, <3>1, <3>2, ListTail
    <3>4. hpc[f] = "waiting" /\ f # r /\ ~InList(r, waiting)
      BY <2>1, <3>3
    <3>5. \A q \in Request :
            hpc'[q] = IF q = r THEN "done" ELSE IF q = f THEN "woken" ELSE hpc[q]
      BY <2>1, <3>2, <3>4
    <3>6. hpc' \in [Request -> PoolSteps]
      BY <2>1, <3>2 DEF PoolSteps
    <3>7. QED
      BY <2>1, <3>3, <3>4, <3>5, <3>6
  <2>4. QED
    BY <2>2, <2>3
<1>6. PlaceTyped'
  BY <1>3, <1>4, <1>5 DEF PlaceTyped
<1>7. PlaceInv'
  <2>1. \A q \in Request : mine'[q] # Pool!None <=> hpc'[q] \in {"query", "reply", "rest"}
    BY <1>4, <1>5 DEF PlaceInv
  <2>2. \A p, q \in Request : mine'[p] = mine'[q] /\ mine'[p] # Pool!None => p = q
    BY <1>4 DEF PlaceInv
  <2>3. \A h \in Pool!Helper : InList(h, ready') => \A q \in Request : mine'[q] # h
    BY <1>1, <1>3, <1>4, NoneNoHelper DEF PlaceInv
  <2>4. \A h \in 1 .. count' : InList(h, ready') \/ \E q \in Request : mine'[q] = h
    BY <1>1, <1>3, <1>4 DEF PlaceInv
  <2>5. QED
    BY <1>3, <1>5, <2>1, <2>2, <2>3, <2>4 DEF PlaceInv
<1>8. QED
  BY <1>1, <1>4, <1>5, <1>6, <1>7 DEF Bystander

\* get: the first ready helper is taken, or the request waits.
LEMMA GetPlaces ==
  ASSUME PlaceTyped, PlaceInv, NEW r \in Request, hpc[r] \in {"idle", "woken"},
         Pool!GetLoop(r), count' = count
  PROVE  /\ PlaceTyped' /\ PlaceInv'
         /\ mine[r] = Pool!None /\ hpc'[r] \in {"waiting", "query"}
         /\ \A q \in Request \ {r} : Bystander(q)
         /\ mine'[r] # Pool!None =>
              mine'[r] \in Pool!Helper /\ \A q \in Request : mine[q] # mine'[r]
<1>1. /\ mine[r] = Pool!None /\ ~InList(r, waiting)
      /\ ready \in Seq(Pool!Helper) /\ waiting \in Seq(Request)
      /\ hpc \in [Request -> PoolSteps] /\ OnceEach(waiting) /\ OnceEach(ready)
      /\ mine \in [Request -> {Pool!None} \cup Pool!Helper]
  BY DEF PlaceTyped, PlaceInv
<1>2. CASE ready = <<>> \/ waiting # <<>>
  <2>1. /\ waiting' = Append(waiting, r) /\ hpc' = [hpc EXCEPT ![r] = "waiting"]
        /\ ready' = ready /\ mine' = mine
    BY <1>2 DEF Pool!GetLoop
  <2>2. /\ waiting' \in Seq(Request) /\ OnceEach(waiting')
        /\ \A q : InList(q, waiting') <=> (InList(q, waiting) \/ q = r)
    BY <1>1, <2>1, ListAppend
  <2>3. hpc' \in [Request -> PoolSteps]
        /\ \A q \in Request : hpc'[q] = IF q = r THEN "waiting" ELSE hpc[q]
    BY <1>1, <2>1 DEF PoolSteps
  <2>4. PlaceTyped'
    BY <1>1, <2>1, <2>2, <2>3 DEF PlaceTyped
  <2>5. PlaceInv'
    BY <1>1, <2>1, <2>2, <2>3 DEF PlaceInv
  <2>6. QED
    BY <1>1, <2>1, <2>3, <2>4, <2>5 DEF Bystander
<1>3. CASE ready # <<>> /\ waiting = <<>>
  <2>1. PICK h \in Pool!Helper : h = Head(ready)
    BY <1>1, <1>3, ListTail
  <2>2. /\ mine' = [mine EXCEPT ![r] = h] /\ ready' = Tail(ready)
        /\ hpc' = [hpc EXCEPT ![r] = "query"] /\ waiting' = waiting
    BY <1>3, <2>1 DEF Pool!GetLoop
  <2>3. /\ ready' \in Seq(Pool!Helper) /\ OnceEach(ready') /\ InList(h, ready)
        /\ \A y : InList(y, ready') <=> (InList(y, ready) /\ y # h)
    BY <1>1, <1>3, <2>1, <2>2, ListTail
  <2>4. \A q \in Request : mine[q] # h
    BY <2>3 DEF PlaceInv
  <2>5. /\ hpc' \in [Request -> PoolSteps]
        /\ mine' \in [Request -> {Pool!None} \cup Pool!Helper]
        /\ \A q \in Request : hpc'[q] = IF q = r THEN "query" ELSE hpc[q]
        /\ \A q \in Request : mine'[q] = IF q = r THEN h ELSE mine[q]
    BY <1>1, <2>2 DEF PoolSteps
  <2>6. PlaceTyped'
    BY <1>1, <2>2, <2>3, <2>5 DEF PlaceTyped
  <2>7. PlaceInv'
    <3>1. \A q \in Request : mine'[q] # Pool!None <=> hpc'[q] \in {"query", "reply", "rest"}
      BY <2>5, NoneNoHelper DEF PlaceInv
    <3>2. \A p, q \in Request : mine'[p] = mine'[q] /\ mine'[p] # Pool!None => p = q
      BY <2>4, <2>5 DEF PlaceInv
    <3>3. \A g \in Pool!Helper : InList(g, ready') => \A q \in Request : mine'[q] # g
      BY <1>1, <2>3, <2>5, NoneNoHelper DEF PlaceInv
    <3>4. \A g \in 1 .. count' : InList(g, ready') \/ \E q \in Request : mine'[q] = g
      <4>1. ASSUME NEW g \in 1 .. count PROVE InList(g, ready') \/ \E q \in Request : mine'[q] = g
        <5>1. g # mine[r]
          BY <1>1 DEF PlaceTyped, Pool!Helper, Pool!None
        <5>2. InList(g, ready) \/ \E q \in Request \ {r} : mine[q] = g
          BY <5>1 DEF PlaceInv
        <5>3. QED
          BY <2>3, <2>5, <5>2
      <4>2. QED
        BY <4>1
    <3>5. \A q \in Request : InList(q, waiting') => hpc'[q] = "waiting"
      BY <1>3, <2>2 DEF InList
    <3>6. QED
      BY <1>1, <2>2, <2>3, <3>1, <3>2, <3>3, <3>4, <3>5 DEF PlaceInv
  <2>8. QED
    BY <1>1, <2>4, <2>5, <2>6, <2>7 DEF Bystander
<1>4. QED
  BY <1>2, <1>3

\* Nothing happens in the sockets but those of the helpers T, nor to the requests
\* but S, except that one may be woken.
Elsewhere(S, T) ==
  /\ hkind' = hkind
  /\ \A h \in Pool!Helper \ T :
       query'[h] = query[h] /\ reply'[h] = reply[h] /\ serving'[h] = serving[h]
  /\ \A q \in Request \ S :
       Bystander(q) /\ hpos'[q] = hpos[q] /\ got'[q] = got[q] /\ mine[q] \notin T
  /\ \A q \in S : /\ hpc[q] # "done" /\ mine[q] \in T \cup {Pool!None}
                  /\ mine'[q] \in T \cup {Pool!None}

LEMMA Untouched ==
  ASSUME PlaceTyped, PlaceInv, WireInv, astray \subseteq astray', NEW S \in SUBSET Request,
         NEW T \in SUBSET Pool!Helper, Elsewhere(S, T)
  PROVE  /\ \A h \in Pool!Helper \ (T \cup astray') : Idle(h)' /\ InCount(h)'
         /\ \A q \in Request \ S : Served(q)' /\ Counted(q)'
<1>1. ASSUME NEW h \in Pool!Helper \ (T \cup astray'),
             \A q \in Request : mine'[q] = h => hpc'[q] = "query"
      PROVE  Silent(h)' \/ \E w \in Request : Writes(h, w)' /\ hpos'[w] = DataSize /\ hpc'[w] = "done"
  <2>1. query'[h] = query[h] /\ reply'[h] = reply[h] /\ serving'[h] = serving[h]
    BY DEF Elsewhere
  <2>2. ASSUME NEW q \in Request, mine[q] = h PROVE hpc[q] = "query"
    <3>1. q \notin S
      BY <2>2, NoneNoHelper DEF Elsewhere
    <3>2. mine'[q] = h /\ (hpc'[q] = hpc[q] \/ hpc'[q] = "woken")
      BY <2>2, <3>1 DEF Elsewhere, Bystander
    <3>3. QED
      BY <1>1, <3>2
  <2>3. CASE Silent(h)
    BY <2>1, <2>3 DEF Silent
  <2>4. CASE \E w \in Request : Writes(h, w) /\ hpos[w] = DataSize /\ hpc[w] = "done"
    <3>1. PICK w \in Request : Writes(h, w) /\ hpos[w] = DataSize /\ hpc[w] = "done"
      BY <2>4
    <3>2. hpos'[w] = hpos[w] /\ hpc'[w] = "done" /\ hkind'[w] = hkind[w]
      BY <3>1 DEF Elsewhere, Bystander
    <3>3. Writes(h, w)'
      BY <2>1, <3>1, <3>2 DEF Writes
    <3>4. QED
      BY <3>1, <3>2, <3>3
  <2>5. Idle(h)
    BY <1>1 DEF WireInv
  <2>6. QED
    BY <2>2, <2>3, <2>4, <2>5 DEF Idle
<1>2. ASSUME NEW h \in Pool!Helper \ (T \cup astray') PROVE Idle(h)' /\ InCount(h)'
  <2>1. InCount(h) /\ serving'[h] = serving[h]
    BY DEF WireInv, Elsewhere
  <2>2. QED
    BY <1>1, <2>1 DEF Idle, InCount
<1>3. ASSUME NEW q \in Request \ S PROVE Served(q)' /\ Counted(q)'
  <2>1. /\ mine'[q] = mine[q] /\ hpos'[q] = hpos[q] /\ got'[q] = got[q]
        /\ mine[q] \notin T /\ hkind'[q] = hkind[q]
        /\ hpc'[q] = hpc[q] \/ (hpc[q] = "waiting" /\ hpc'[q] = "woken")
    BY DEF Elsewhere, Bystander
  <2>2. Served(q) /\ Counted(q)
    BY DEF WireInv
  <2>3. Counted(q)'
    BY <2>1, <2>2 DEF Counted
  <2>4. ASSUME hpc'[q] \in {"reply", "rest"}, mine'[q] \notin astray'
        PROVE  Writes(mine[q], q)' \/ Answers(mine[q], q)'
    <3>1. hpc[q] \in {"reply", "rest"} /\ mine[q] \in Pool!Helper \ T /\ mine[q] \notin astray
      BY <2>1, <2>4 DEF PlaceInv, PlaceTyped
    <3>2. PICK h \in Pool!Helper \ T : h = mine[q]
      BY <3>1
    <3>3. query'[h] = query[h] /\ reply'[h] = reply[h] /\ serving'[h] = serving[h]
      BY DEF Elsewhere
    <3>4. Writes(h, q) => Writes(h, q)'
      BY <2>1, <3>3 DEF Writes
    <3>5. Answers(h, q) => Answers(h, q)'
      BY <2>1, <3>3 DEF Answers
    <3>6. QED
      BY <2>1, <2>2, <3>1, <3>2, <3>4, <3>5 DEF Served
  <2>5. QED
    BY <2>1, <2>3, <2>4 DEF Served
<1>4. QED
  BY <1>2, <1>3

\* A step of a request that has a helper, and keeps it or puts it back.
LEMMA OwnerStep ==
  ASSUME PoolInv, NEW r \in Request, NEW h \in Pool!Helper, h = mine[r],
         mine'[r] \in {h, Pool!None}, PlaceTyped', PlaceInv', WireTyped',
         hkind' = hkind, astray \subseteq astray',
         \A g \in Pool!Helper \ {h} :
           query'[g] = query[g] /\ reply'[g] = reply[g] /\ serving'[g] = serving[g],
         \A q \in Request \ {r} : Bystander(q) /\ hpos'[q] = hpos[q] /\ got'[q] = got[q],
         h \notin astray' => (hpc'[r] \in {"reply", "rest"} \/ Idle(h)') /\ InCount(h)',
         Served(r)', Counted(r)'
  PROVE  PoolInv'
<1>1. PlaceTyped /\ PlaceInv /\ WireInv
  BY DEF PoolInv
<1>2. hpc[r] # "done" /\ \A q \in Request \ {r} : mine[q] # h
  BY <1>1, NoneNoHelper DEF PlaceInv
<1>3. Elsewhere({r}, {h})
  BY <1>2 DEF Elsewhere
<1>4. /\ \A g \in Pool!Helper \ ({h} \cup astray') : Idle(g)' /\ InCount(g)'
      /\ \A q \in Request \ {r} : Served(q)' /\ Counted(q)'
  BY <1>1, <1>3, Untouched
<1>5. ASSUME h \notin astray' PROVE Idle(h)' /\ InCount(h)'
  <2>1. CASE hpc'[r] \in {"reply", "rest"}
    <3>1. mine'[r] = h /\ hpc'[r] # "query"
      BY <2>1 DEF PlaceInv
    <3>2. QED
      BY <1>5, <3>1 DEF Idle
  <2>2. QED
    BY <1>5, <2>1
<1>6. WireInv'
  BY <1>4, <1>5 DEF WireInv
<1>7. QED
  BY <1>6 DEF PoolInv

LEMMA OwnerHelper ==
  ASSUME PoolInv, NEW r \in Request, hpc[r] \in {"query", "reply", "rest"}
  PROVE  \E h \in Pool!Helper : h = mine[r]
BY DEF PoolInv, PlaceTyped, PlaceInv

\* The loop of read and write: the request ends, or has less than all.
Goes(r, p) ==
  /\ hpos' \in [Request -> 0 .. DataSize]
  /\ \A q \in Request \ {r} : hpos'[q] = hpos[q]
  /\ \/ p = DataSize /\ hpos'[r] = p /\ hpc'[r] = "done" /\ mine'[r] = Pool!None
     \/ /\ p # DataSize /\ hpos'[r] < DataSize
        /\ hpc'[r] \in {"reply", "rest"} /\ mine'[r] = mine[r]
        /\ mine[r] \in astray' \/ hpos'[r] = p

LEMMA LoopGoes ==
  ASSUME Pool!PoolAssumption, PlaceTyped, PlaceInv, WireTyped, NEW r \in Request,
         hpc[r] \in {"query", "reply", "rest"}, count' = count,
         NEW p \in 0 .. DataSize, NEW early, Pool!Loop(r, p, early)
  PROVE  /\ PlaceTyped' /\ PlaceInv' /\ Goes(r, p)
         /\ astray \subseteq astray' /\ early \subseteq astray'
         /\ \A q \in Request \ {r} : Bystander(q)
<1>1. /\ DataSize \in Nat \ {0} /\ CrapSize \in Nat \ {0}
      /\ hpos \in [Request -> 0 .. DataSize] /\ hpc \in [Request -> PoolSteps]
      /\ mine[r] # Pool!None
  BY DEF Pool!PoolAssumption, WireTyped, PlaceTyped, PlaceInv
<1>2. CASE /\ p = DataSize
           /\ hpos' = [hpos EXCEPT ![r] = p]
           /\ astray' = astray \cup early
           /\ Pool!Put(r)
  <2>1. /\ PlaceTyped' /\ PlaceInv' /\ hpc'[r] = "done" /\ mine'[r] = Pool!None
        /\ \A q \in Request \ {r} : Bystander(q)
    BY <1>2, PutPlaces
  <2>2. QED
    BY <1>1, <1>2, <2>1 DEF Goes
<1>3. ASSUME ready' = ready, waiting' = waiting, mine' = mine, NEW b \in {"reply", "rest"},
             hpc' = [hpc EXCEPT ![r] = b]
      PROVE  PlaceTyped' /\ PlaceInv' /\ hpc'[r] = b /\ \A q \in Request \ {r} : Bystander(q)
  <2>1. /\ hpc' \in [Request -> PoolSteps] /\ hpc'[r] = b
        /\ \A q \in Request \ {r} : hpc'[q] = hpc[q]
    BY <1>1, <1>3 DEF PoolSteps
  <2>2. PlaceTyped'
    BY <1>3, <2>1 DEF PlaceTyped
  <2>3. PlaceInv'
    BY <1>1, <1>3, <2>1 DEF PlaceInv
  <2>4. QED
    BY <1>3, <2>1, <2>2, <2>3 DEF Bystander
<1>4. CASE /\ p < DataSize
           /\ hpos' = [hpos EXCEPT ![r] = p]
           /\ astray' = astray \cup early
           /\ hpc' = [hpc EXCEPT ![r] = IF @ = "rest" THEN @ ELSE "reply"]
           /\ ready' = ready /\ waiting' = waiting /\ mine' = mine
  <2>1. PICK b \in {"reply", "rest"} : b = IF hpc[r] = "rest" THEN hpc[r] ELSE "reply"
    OBVIOUS
  <2>2. PlaceTyped' /\ PlaceInv' /\ hpc'[r] = b /\ \A q \in Request \ {r} : Bystander(q)
    BY <1>3, <1>4, <2>1
  <2>3. QED
    BY <1>1, <1>4, <2>2 DEF Goes
<1>5. CASE /\ p < DataSize
           /\ hpos' = [hpos EXCEPT ![r] = DataSize - Pool!Least(CrapSize, DataSize - p)]
           /\ astray' = astray \cup early \cup {h \in {mine[r]} : CrapSize < DataSize - p}
           /\ hpc' = [hpc EXCEPT ![r] = "rest"]
           /\ ready' = ready /\ waiting' = waiting /\ mine' = mine
  <2>1. PlaceTyped' /\ PlaceInv' /\ hpc'[r] = "rest" /\ \A q \in Request \ {r} : Bystander(q)
    BY <1>3, <1>5
  <2>2. PICK n \in 0 .. DataSize :
          /\ n = DataSize - Pool!Least(CrapSize, DataSize - p)
          /\ n < DataSize /\ (n = p \/ CrapSize < DataSize - p)
    BY <1>1, <1>5 DEF Pool!Least
  <2>3. hpos' \in [Request -> 0 .. DataSize] /\ hpos'[r] = n
        /\ \A q \in Request \ {r} : hpos'[q] = hpos[q]
    BY <1>1, <1>5, <2>2
  <2>4. QED
    BY <1>5, <2>1, <2>2, <2>3 DEF Goes
<1>6. QED
  BY <1>2, <1>4, <1>5 DEF Pool!Loop

LEMMA GetStep ==
  ASSUME Pool!PoolAssumption, PoolInv, NEW r \in Request, Pool!Get(r)
  PROVE  PoolInv'
<1>1. PlaceTyped /\ PlaceInv /\ WireTyped /\ WireInv
  BY DEF PoolInv
<1>2. /\ hpc[r] \in {"idle", "woken"} /\ Pool!GetLoop(r) /\ count' = count
      /\ hkind' = hkind /\ hpos' = hpos /\ got' = got /\ astray' = astray
      /\ query' = query /\ reply' = reply /\ serving' = serving
  BY DEF Pool!Get, Pool!wire, Pool!history
<1>3. /\ PlaceTyped' /\ PlaceInv' /\ mine[r] = Pool!None /\ hpc'[r] \in {"waiting", "query"}
      /\ \A q \in Request \ {r} : Bystander(q)
      /\ mine'[r] # Pool!None =>
           mine'[r] \in Pool!Helper /\ \A q \in Request : mine[q] # mine'[r]
  BY <1>1, <1>2, GetPlaces
<1>4. PICK T \in SUBSET Pool!Helper : T = {mine'[r]} \ {Pool!None}
  BY <1>3
<1>5. Elsewhere({r}, T)
  BY <1>1, <1>2, <1>3, <1>4 DEF Elsewhere
<1>6. /\ \A g \in Pool!Helper \ (T \cup astray') : Idle(g)' /\ InCount(g)'
      /\ \A q \in Request \ {r} : Served(q)' /\ Counted(q)'
  BY <1>1, <1>2, <1>5, Untouched
<1>7. ASSUME NEW h \in T \ astray' PROVE Idle(h)' /\ InCount(h)'
  <2>1. h \in Pool!Helper \ astray /\ \A q \in Request : mine[q] # h
    BY <1>2, <1>3, <1>4
  <2>2. /\ Silent(h) \/ \E w \in Request : Writes(h, w) /\ hpos[w] = DataSize /\ hpc[w] = "done"
        /\ InCount(h)'
    BY <1>1, <1>2, <2>1 DEF WireInv, Idle, InCount
  <2>3. CASE Silent(h)
    BY <1>2, <2>2, <2>3 DEF Silent, Idle
  <2>4. CASE \E w \in Request : Writes(h, w) /\ hpos[w] = DataSize /\ hpc[w] = "done"
    <3>1. PICK w \in Request : Writes(h, w) /\ hpos[w] = DataSize /\ hpc[w] = "done"
      BY <2>4
    <3>2. hpc'[w] = "done"
      BY <1>2, <1>3, <3>1 DEF Bystander
    <3>3. Writes(h, w)'
      BY <1>2, <3>1 DEF Writes
    <3>4. QED
      BY <1>2, <2>2, <3>1, <3>2, <3>3 DEF Idle
  <2>5. QED
    BY <2>2, <2>3, <2>4
<1>8. Served(r)' /\ Counted(r)'
  <2>1. Counted(r)
    BY <1>1 DEF WireInv
  <2>2. QED
    BY <1>2, <1>3, <2>1 DEF Served, Counted
<1>9. WireTyped'
  BY <1>1, <1>2 DEF WireTyped
<1>10. WireInv'
  BY <1>6, <1>7, <1>8 DEF WireInv
<1>11. QED
  BY <1>3, <1>9, <1>10 DEF PoolInv

\* A helper that is handed out and not busy has nothing in its socket.
LEMMA HandedOut ==
  ASSUME PoolInv, NEW r \in Request, NEW h \in Pool!Helper \ astray, h = mine[r],
         hpc[r] = "query", ~Pool!Busy(h)
  PROVE  Silent(h)
<1>1. \A q \in Request : mine[q] = h => hpc[q] = "query"
  BY NoneNoHelper DEF PoolInv, PlaceInv
<1>2. Idle(h)
  BY DEF PoolInv, WireInv
<1>3. query[h] = <<>> /\ serving[h] = Pool!Nobody
  BY DEF Pool!Busy
<1>4. \A w : ~(Writes(h, w) /\ hpos[w] = DataSize /\ hpc[w] = "done")
  BY <1>3 DEF Writes
<1>5. QED
  BY <1>1, <1>2, <1>4 DEF Idle

\* A query in an empty socket: the helper answers, or writes, from the beginning.
LEMMA QueryBegins ==
  ASSUME DataSize \in Nat \ {0}, NEW r \in Request, NEW h \in Pool!Helper, Silent(h),
         query'[h] = <<Pool!Query(r)>>, reply' = reply, serving' = serving,
         hkind' = hkind, hpos'[r] = 0
  PROVE  Writes(h, r)' \/ Answers(h, r)'
<1>1. query[h] = <<>> /\ reply'[h] = <<>> /\ serving'[h] = Pool!Nobody
  BY DEF Silent
<1>2. PICK u : u = Pool!Query(r)
  OBVIOUS
<1>3. Len(<<u>>) = 1 /\ Head(<<u>>) = u /\ <<u>> # <<>> /\ Len(<<>>) = 0 /\ DOMAIN <<>> = {}
  OBVIOUS
<1>4. CASE hkind[r] = "write"
  BY <1>1, <1>2, <1>3, <1>4 DEF Writes
<1>5. CASE hkind[r] # "write"
  BY <1>1, <1>2, <1>3, <1>5 DEF Answers
<1>6. QED
  BY <1>4, <1>5

LEMMA SendStep ==
  ASSUME Pool!PoolAssumption, PoolInv, NEW r \in Request, Pool!Send(r)
  PROVE  PoolInv'
<1>1. /\ PlaceTyped /\ PlaceInv /\ WireTyped /\ WireInv /\ hpc[r] = "query"
      /\ DataSize \in Nat \ {0}
      /\ hkind' = hkind /\ got' = got /\ reply' = reply /\ serving' = serving /\ count' = count
  BY DEF PoolInv, Pool!Send, Pool!PoolAssumption
<1>2. PICK h \in Pool!Helper : h = mine[r]
  BY <1>1, OwnerHelper
<1>3. PICK early : /\ early = {g \in {h} : Pool!Busy(g)}
                   /\ IF hkind[r] \in {"read", "write"}
                      THEN Pool!Loop(r, 0, early)
                      ELSE /\ astray' = astray \cup early
                           /\ hpc' = [hpc EXCEPT ![r] = "reply"]
                           /\ ready' = ready /\ waiting' = waiting /\ mine' = mine
                           /\ hpos' = hpos
  BY <1>2 DEF Pool!Send
<1>4. Counted(r) /\ hpos[r] = 0
  BY <1>1 DEF WireInv, Counted
<1>5. /\ query' \in [Pool!Helper -> Seq(Units)]
      /\ \A g \in Pool!Helper \ {h} : query'[g] = query[g]
      /\ Silent(h) => query'[h] = <<Pool!Query(r)>>
  <2>1. PICK u \in Units : u = Pool!Query(r)
    BY DEF Units, Pool!Query
  <2>2. query \in [Pool!Helper -> Seq(Units)] /\ query' = [query EXCEPT ![h] = Append(@, u)]
    BY <1>1, <1>2, <2>1 DEF WireTyped, Pool!Send
  <2>3. PICK w \in Seq(Units) : w = Append(query[h], u) /\ (query[h] = <<>> => w = <<u>>)
    <3>1. PICK q \in Seq(Units) : q = query[h]
      BY <2>2
    <3>2. Append(q, u) \in Seq(Units) /\ Append(<<>>, u) = <<u>>
      OBVIOUS
    <3>3. QED
      BY <3>1, <3>2
  <2>4. query' = [query EXCEPT ![h] = w]
    BY <2>2, <2>3
  <2>5. query'[h] = w /\ query' \in [Pool!Helper -> Seq(Units)]
        /\ \A g \in Pool!Helper \ {h} : query'[g] = query[g]
    BY <2>2, <2>4
  <2>6. QED
    BY <2>1, <2>3, <2>5 DEF Silent
<1>6. /\ PlaceTyped' /\ PlaceInv' /\ astray \subseteq astray' /\ early \subseteq astray'
      /\ \A q \in Request \ {r} : Bystander(q) /\ hpos'[q] = hpos[q]
      /\ hpos' \in [Request -> 0 .. DataSize]
      /\ hpc'[r] \in {"reply", "rest"} /\ mine'[r] = h /\ hpos'[r] < DataSize
      /\ h \in astray' \/ hpos'[r] = 0
      /\ hpc'[r] = "rest" => hkind[r] \in {"read", "write"}
      /\ hkind[r] \notin {"read", "write"} => hpos'[r] = 0
  <2>1. CASE hkind[r] \in {"read", "write"}
    <3>1. PICK p \in 0 .. DataSize : p = 0
      BY <1>1
    <3>2. Pool!Loop(r, p, early)
      BY <1>3, <2>1, <3>1
    <3>3. /\ PlaceTyped' /\ PlaceInv' /\ Goes(r, p)
          /\ astray \subseteq astray' /\ early \subseteq astray'
          /\ \A q \in Request \ {r} : Bystander(q)
      BY <1>1, <3>2, LoopGoes
    <3>4. QED
      BY <1>1, <1>2, <2>1, <3>1, <3>3 DEF Goes
  <2>2. CASE hkind[r] \notin {"read", "write"}
    <3>1. /\ astray' = astray \cup early /\ hpc' = [hpc EXCEPT ![r] = "reply"]
          /\ ready' = ready /\ waiting' = waiting /\ mine' = mine /\ hpos' = hpos
      BY <1>3, <2>2
    <3>2. /\ hpc' \in [Request -> PoolSteps] /\ hpc'[r] = "reply"
          /\ \A q \in Request \ {r} : hpc'[q] = hpc[q]
      BY <1>1, <3>1 DEF PlaceTyped, PoolSteps
    <3>3. PlaceTyped'
      BY <1>1, <3>1, <3>2 DEF PlaceTyped
    <3>4. PlaceInv'
      BY <1>1, <3>1, <3>2 DEF PlaceInv
    <3>5. hpos \in [Request -> 0 .. DataSize]
      BY <1>1 DEF WireTyped
    <3>6. QED
      BY <1>1, <1>2, <1>4, <2>2, <3>1, <3>2, <3>3, <3>4, <3>5 DEF Bystander
  <2>3. QED
    BY <2>1, <2>2
<1>7. WireTyped'
  BY <1>1, <1>5, <1>6 DEF WireTyped
<1>8. ASSUME h \notin astray' PROVE Writes(h, r)' \/ Answers(h, r)'
  <2>1. Silent(h)
    BY <1>1, <1>2, <1>3, <1>6, <1>8, HandedOut
  <2>2. hpos'[r] = 0 /\ query'[h] = <<Pool!Query(r)>>
    BY <1>5, <1>6, <1>8, <2>1
  <2>3. QED
    BY <1>1, <2>1, <2>2, QueryBegins
<1>9. Served(r)'
  BY <1>6, <1>8 DEF Served
<1>10. Counted(r)'
  BY <1>1, <1>4, <1>6 DEF Counted
<1>11. h \notin astray' => InCount(h)'
  BY <1>1, <1>6 DEF WireInv, InCount
<1>12. QED
  BY <1>1, <1>2, <1>5, <1>6, <1>7, <1>9, <1>10, <1>11, OwnerStep

LEMMA SendFailsStep ==
  ASSUME Pool!PoolAssumption, PoolInv, NEW r \in Request, Pool!SendFails(r)
  PROVE  PoolInv'
<1>1. /\ PlaceTyped /\ PlaceInv /\ WireTyped /\ WireInv /\ hpc[r] = "query" /\ Pool!Put(r)
      /\ hkind' = hkind /\ hpos' = hpos /\ got' = got /\ astray' = astray
      /\ query' = query /\ reply' = reply /\ serving' = serving /\ count' = count
  BY DEF PoolInv, Pool!SendFails, Pool!wire, Pool!history
<1>2. PICK h \in Pool!Helper : h = mine[r]
  BY <1>1, OwnerHelper
<1>3. /\ PlaceTyped' /\ PlaceInv' /\ hpc'[r] = "done" /\ mine'[r] = Pool!None
      /\ \A q \in Request \ {r} : Bystander(q)
  BY <1>1, PutPlaces
<1>4. WireTyped'
  BY <1>1 DEF WireTyped
<1>5. Served(r)' /\ Counted(r)'
  BY <1>1, <1>3 DEF WireInv, Served, Counted
<1>6. ASSUME h \notin astray' PROVE Idle(h)' /\ InCount(h)'
  <2>1. \A q \in Request : mine[q] = h => hpc[q] = "query"
    BY <1>1, <1>2, NoneNoHelper DEF PlaceInv
  <2>2. Idle(h) /\ InCount(h)
    BY <1>1, <1>6 DEF WireInv
  <2>3. CASE Silent(h)
    BY <1>1, <2>2, <2>3 DEF Idle, InCount, Silent
  <2>4. CASE \E w \in Request : Writes(h, w) /\ hpos[w] = DataSize /\ hpc[w] = "done"
    <3>1. PICK w \in Request : Writes(h, w) /\ hpos[w] = DataSize /\ hpc[w] = "done"
      BY <2>4
    <3>2. hpc'[w] = "done"
      BY <1>3, <3>1 DEF Bystander
    <3>3. Writes(h, w)'
      BY <1>1, <3>1 DEF Writes
    <3>4. QED
      BY <1>1, <2>2, <3>1, <3>2, <3>3 DEF Idle, InCount
  <2>5. QED
    BY <2>1, <2>2, <2>3, <2>4 DEF Idle
<1>7. QED
  BY <1>1, <1>2, <1>3, <1>4, <1>5, <1>6, OwnerStep

LEMMA RecvStep ==
  ASSUME Pool!PoolAssumption, PoolInv, NEW r \in Request, Pool!Recv(r)
  PROVE  PoolInv'
<1>1. /\ PlaceTyped /\ PlaceInv /\ WireTyped /\ WireInv /\ DataSize \in Nat \ {0}
      /\ hpc[r] = "reply" /\ hkind[r] \in {"open", "fstat"} /\ Pool!Put(r)
      /\ hkind' = hkind /\ hpos' = hpos /\ query' = query /\ serving' = serving
      /\ count' = count /\ astray' = astray
  BY DEF PoolInv, Pool!Recv, Pool!PoolAssumption, Pool!history
<1>2. PICK h \in Pool!Helper : h = mine[r]
  BY <1>1, OwnerHelper
<1>3. PICK x \in Request, w \in Seq(Request) :
        /\ reply[h] # <<>> /\ reply[h] \in Seq(Request)
        /\ x = Head(reply[h]) /\ w = Tail(reply[h])
        /\ got' = [got EXCEPT ![r] = {<<h, x>>}]
        /\ reply' = [reply EXCEPT ![h] = w]
  <2>1. reply[h] # <<>> /\ reply[h] \in Seq(Request)
    BY <1>1, <1>2 DEF Pool!Recv, WireTyped
  <2>2. Head(reply[h]) \in Request /\ Tail(reply[h]) \in Seq(Request)
    BY <2>1, HeadTailProperties
  <2>3. /\ got' = [got EXCEPT ![r] = {<<h, Head(reply[h])>>}]
        /\ reply' = [reply EXCEPT ![h] = Tail(reply[h])]
    BY <1>2 DEF Pool!Recv
  <2>4. QED
    BY <2>1, <2>2, <2>3
<1>4. hpos[r] = 0
  BY <1>1 DEF WireInv, Counted
<1>5. ASSUME h \notin astray
      PROVE  serving[h] = Pool!Nobody /\ query[h] = <<>> /\ x = r /\ w = <<>>
  <2>1. Answers(h, r)
    BY <1>1, <1>2, <1>5 DEF WireInv, Served, Writes
  <2>2. PICK n \in Nat : n = Len(reply[h]) /\ n > 0 /\ 1 - hpos[r] - n = 1 - n
    BY <1>3, <1>4
  <2>3. x = reply[h][1] /\ 1 \in DOMAIN reply[h]
    BY <1>3, <2>2
  <2>4. x = r
    BY <2>1, <2>3 DEF Answers
  <2>5. \/ 1 - n = 1
        \/ serving[h] = Pool!Nobody /\ query[h] = <<>> /\ 1 - n = 0
    BY <1>1, <2>1, <2>2 DEF Answers
  <2>6. serving[h] = Pool!Nobody /\ query[h] = <<>> /\ n = 1
    BY <2>2, <2>5
  <2>7. Len(w) = 0
    <3>1. Len(reply[h]) = 1 /\ Len(Tail(reply[h])) = Len(reply[h]) - 1
      BY <1>3, <2>2, <2>6, HeadTailProperties
    <3>2. QED
      BY <1>3, <3>1
  <2>8. QED
    BY <1>3, <2>4, <2>6, <2>7, EmptySeq
<1>6. /\ reply'[h] = w /\ \A g \in Pool!Helper \ {h} : reply'[g] = reply[g]
      /\ reply' \in [Pool!Helper -> Seq(Request)]
      /\ got'[r] = {<<h, x>>} /\ \A q \in Request \ {r} : got'[q] = got[q]
      /\ got' \in [Request -> SUBSET (Pool!Helper \X Request)]
  BY <1>1, <1>3 DEF WireTyped
<1>7. /\ PlaceTyped' /\ PlaceInv' /\ hpc'[r] = "done" /\ mine'[r] = Pool!None
      /\ \A q \in Request \ {r} : Bystander(q)
  BY <1>1, PutPlaces
<1>8. WireTyped'
  BY <1>1, <1>6 DEF WireTyped
<1>9. h \notin astray' => Idle(h)' /\ InCount(h)'
  BY <1>1, <1>5, <1>6 DEF Idle, InCount, Silent
<1>10. Served(r)' /\ Counted(r)'
  BY <1>1, <1>5, <1>6, <1>7 DEF Served, Counted
<1>11. QED
  BY <1>1, <1>2, <1>6, <1>7, <1>8, <1>9, <1>10, OwnerStep

LEMMA ListRest ==
  ASSUME NEW S, NEW q \in Seq(S), NEW m \in Nat, m = Len(q), NEW n \in 1 .. m
  PROVE  /\ SubSeq(q, n + 1, m) \in Seq(S)
         /\ Len(SubSeq(q, n + 1, m)) = m - n
         /\ \A i \in 1 .. m - n : SubSeq(q, n + 1, m)[i] = q[n + i]
<1>1. m \in Int /\ n + 1 \in Int /\ n \in Nat /\ n <= m /\ \A i \in n + 1 .. m : q[i] \in S
  OBVIOUS
<1>2. /\ SubSeq(q, n + 1, m) \in Seq(S)
      /\ Len(SubSeq(q, n + 1, m)) = IF n + 1 <= m THEN m - (n + 1) + 1 ELSE 0
      /\ \A i \in 1 .. m - (n + 1) + 1 : SubSeq(q, n + 1, m)[i] = q[n + 1 + i - 1]
  BY <1>1, SubSeqProperties
<1>3. (IF n + 1 <= m THEN m - (n + 1) + 1 ELSE 0) = m - n
  BY <1>1
<1>4. Len(SubSeq(q, n + 1, m)) = m - n
  BY <1>2, <1>3, Zenon
<1>5. ASSUME NEW i \in 1 .. m - n PROVE SubSeq(q, n + 1, m)[i] = q[n + i]
  <2>1. i \in 1 .. m - (n + 1) + 1 /\ n + 1 + i - 1 = n + i
    BY <1>1
  <2>2. QED
    BY <1>2, <2>1
<1>6. QED
  BY <1>2, <1>4, <1>5

LEMMA ListFirst ==
  ASSUME NEW S, NEW q \in Seq(S), NEW m \in Nat, m = Len(q), NEW n \in 1 .. m
  PROVE  /\ SubSeq(q, 1, n) \in Seq(S) /\ Len(SubSeq(q, 1, n)) = n
         /\ \A i \in 1 .. n : SubSeq(q, 1, n)[i] = q[i]
<1>1. n \in Int /\ 1 \in Int /\ n \in Nat /\ n <= m /\ \A i \in 1 .. n : q[i] \in S
  OBVIOUS
<1>2. /\ SubSeq(q, 1, n) \in Seq(S)
      /\ Len(SubSeq(q, 1, n)) = IF 1 <= n THEN n - 1 + 1 ELSE 0
      /\ \A i \in 1 .. n - 1 + 1 : SubSeq(q, 1, n)[i] = q[1 + i - 1]
  BY <1>1, SubSeqProperties
<1>3. PICK k : k = Len(SubSeq(q, 1, n)) /\ k = IF 1 <= n THEN n - 1 + 1 ELSE 0
  BY <1>2
<1>4. Len(SubSeq(q, 1, n)) = n
  BY <1>1, <1>3
<1>5. ASSUME NEW i \in 1 .. n PROVE SubSeq(q, 1, n)[i] = q[i]
  <2>1. i \in 1 .. n - 1 + 1
    BY <1>1
  <2>3. 1 + i - 1 = i
    OBVIOUS
  <2>2. QED
    BY <1>2, <2>1, <2>3
<1>6. QED
  BY <1>2, <1>4, <1>5

AllAre(q, x) == \A i \in DOMAIN q : q[i] = x

LEMMA ListCut ==
  ASSUME NEW S, NEW q \in Seq(S), NEW m \in Nat, m = Len(q), NEW n \in 1 .. m,
         NEW x, AllAre(q, x)
  PROVE  AllAre(SubSeq(q, n + 1, m), x) /\ Pool!Elements(SubSeq(q, 1, n)) \subseteq {x}
<1>1. PICK w \in Seq(S) : w = SubSeq(q, n + 1, m) /\ DOMAIN w = 1 .. m - n
                          /\ \A i \in 1 .. m - n : w[i] = q[n + i]
  <2>1. /\ SubSeq(q, n + 1, m) \in Seq(S) /\ Len(SubSeq(q, n + 1, m)) = m - n
        /\ \A i \in 1 .. m - n : SubSeq(q, n + 1, m)[i] = q[n + i]
    BY ListRest
  <2>2. DOMAIN SubSeq(q, n + 1, m) = 1 .. m - n
    BY <2>1
  <2>3. QED
    BY <2>1, <2>2
<1>2. PICK v \in Seq(S) : v = SubSeq(q, 1, n) /\ DOMAIN v = 1 .. n
                          /\ \A i \in 1 .. n : v[i] = q[i]
  <2>1. /\ SubSeq(q, 1, n) \in Seq(S) /\ Len(SubSeq(q, 1, n)) = n
        /\ \A i \in 1 .. n : SubSeq(q, 1, n)[i] = q[i]
    BY ListFirst
  <2>2. DOMAIN SubSeq(q, 1, n) = 1 .. n
    BY <2>1
  <2>3. QED
    BY <2>1, <2>2
<1>3. \A i \in 1 .. m - n : n + i \in DOMAIN q
  OBVIOUS
<1>4. \A i \in 1 .. n : i \in DOMAIN q
  OBVIOUS
<1>5. Pool!Elements(v) \subseteq {x}
  BY <1>2, <1>4 DEF Pool!Elements, AllAre
<1>6. AllAre(w, x)
  BY <1>1, <1>3 DEF AllAre
<1>7. QED
  BY <1>1, <1>2, <1>5, <1>6

LEMMA ListJoin ==
  ASSUME NEW q \in Seq(Units), NEW x \in Request, NEW n \in Nat, n >= 1
  PROVE  /\ q \o Pool!Data(x, n) \in Seq(Units)
         /\ Len(q \o Pool!Data(x, n)) = Len(q) + n
         /\ q # <<>> => Head(q \o Pool!Data(x, n)) = Head(q)
         /\ q \o Pool!Data(x, n) # <<>>
<1>1. PICK d \in Seq(Units) : d = Pool!Data(x, n) /\ Len(d) = n
  <2>1. PICK u \in Units : u = <<"data", x>>
    BY DEF Units
  <2>2. [i \in 1 .. n |-> u] \in Seq(Units) /\ Len([i \in 1 .. n |-> u]) = n
    OBVIOUS
  <2>3. QED
    BY <2>1, <2>2 DEF Pool!Data
<1>2. q \o d \in Seq(Units) /\ Len(q \o d) = Len(q) + n /\ Len(q) \in Nat
  BY <1>1
<1>3. q # <<>> => Head(q \o d) = Head(q)
  <2>1. HAVE q # <<>>
  <2>2. Len(q) >= 1 /\ (q \o d)[1] = q[1] /\ Head(q) = q[1]
    BY <1>1, <2>1
  <2>3. Head(q \o d) = (q \o d)[1]
    BY <1>2, <2>2
  <2>4. QED
    BY <2>2, <2>3
<1>4. q \o d # <<>>
  BY <1>2, EmptySeq
<1>5. QED
  BY <1>1, <1>2, <1>3, <1>4

LEMMA ReadStep ==
  ASSUME Pool!PoolAssumption, PoolInv, NEW r \in Request, Pool!ReadData(r)
  PROVE  PoolInv'
<1>1. /\ PlaceTyped /\ PlaceInv /\ WireTyped /\ WireInv /\ DataSize \in Nat \ {0}
      /\ hpc[r] \in {"reply", "rest"} /\ hkind[r] = "read"
      /\ hkind' = hkind /\ query' = query /\ serving' = serving /\ count' = count
  BY DEF PoolInv, Pool!ReadData, Pool!PoolAssumption
<1>2. PICK h \in Pool!Helper : h = mine[r]
  BY <1>1, OwnerHelper
<1>3. /\ reply[h] \in Seq(Request) /\ hpos[r] \in 0 .. DataSize
      /\ reply \in [Pool!Helper -> Seq(Request)]
      /\ got \in [Request -> SUBSET (Pool!Helper \X Request)]
  BY <1>1 DEF WireTyped
<1>4. PICK n \in 1 .. Pool!Least(DataSize - hpos[r], Len(reply[h])) :
        /\ got' = IF hpc[r] = "reply"
                  THEN [got EXCEPT ![r] =
                          @ \cup ({h} \X Pool!Elements(SubSeq(reply[h], 1, n)))]
                  ELSE got
        /\ reply' = [reply EXCEPT ![h] = SubSeq(@, n + 1, Len(@))]
        /\ Pool!Loop(r, hpos[r] + n, {})
  BY <1>2 DEF Pool!ReadData
<1>5. PICK m \in Nat : m = Len(reply[h]) /\ n \in 1 .. m /\ n <= DataSize - hpos[r] /\ n \in Nat
  BY <1>1, <1>3, <1>4 DEF Pool!Least
<1>6. PICK p \in 0 .. DataSize : p = hpos[r] + n
  BY <1>1, <1>3, <1>5
<1>7. /\ PlaceTyped' /\ PlaceInv' /\ Goes(r, p) /\ astray \subseteq astray'
      /\ \A q \in Request \ {r} : Bystander(q)
  BY <1>1, <1>4, <1>6, LoopGoes
<1>8. PICK w \in Seq(Request), o \in SUBSET Request :
        /\ w = SubSeq(reply[h], n + 1, m) /\ Len(w) = m - n
        /\ o = Pool!Elements(SubSeq(reply[h], 1, n))
        /\ AllAre(reply[h], r) => AllAre(w, r) /\ o \subseteq {r}
  <2>1. PICK q \in Seq(Request) : q = reply[h] /\ m = Len(q)
    BY <1>3, <1>5
  <2>2. SubSeq(q, n + 1, m) \in Seq(Request) /\ Len(SubSeq(q, n + 1, m)) = m - n
    BY <1>5, <2>1, ListRest
  <2>3. AllAre(q, r) => AllAre(SubSeq(q, n + 1, m), r) /\ Pool!Elements(SubSeq(q, 1, n)) \subseteq {r}
    BY <1>5, <2>1, ListCut
  <2>4. PICK v \in Seq(Request) : v = SubSeq(q, 1, n)
    BY <1>5, <2>1, ListFirst
  <2>5. Pool!Elements(v) \subseteq Request
    BY DEF Pool!Elements
  <2>6. QED
    BY <2>1, <2>2, <2>3, <2>4, <2>5
<1>9. /\ reply'[h] = w /\ reply' \in [Pool!Helper -> Seq(Request)]
      /\ \A g \in Pool!Helper \ {h} : reply'[g] = reply[g]
  <2>1. reply' = [reply EXCEPT ![h] = w]
    BY <1>4, <1>5, <1>8
  <2>2. QED
    BY <1>3, <2>1
<1>10. /\ got' \in [Request -> SUBSET (Pool!Helper \X Request)]
       /\ got'[r] \subseteq got[r] \cup ({h} \X o)
       /\ \A q \in Request \ {r} : got'[q] = got[q]
  <2>1. CASE hpc[r] = "reply"
    <3>1. PICK d \in SUBSET (Pool!Helper \X Request) : d = got[r] \cup ({h} \X o)
      BY <1>3
    <3>2. got' = [got EXCEPT ![r] = d]
      BY <1>4, <1>8, <2>1, <3>1
    <3>3. QED
      BY <1>3, <3>1, <3>2
  <2>2. CASE hpc[r] # "reply"
    BY <1>3, <1>4, <2>2
  <2>3. QED
    BY <2>1, <2>2
<1>11. WireTyped'
  BY <1>1, <1>7, <1>9, <1>10 DEF WireTyped, Goes
<1>12. h \notin astray => Answers(h, r) /\ InCount(h) /\ AllAre(reply[h], r)
  BY <1>1, <1>2 DEF WireInv, Served, Writes, Answers, AllAre
<1>13. Counted(r)'
  <2>1. Counted(r)
    BY <1>1 DEF WireInv
  <2>2. \A x \in got'[r] : x[2] = r \/ x[1] \in astray'
    BY <1>7, <1>8, <1>10, <1>12, <2>1 DEF Counted
  <2>3. QED
    BY <1>1, <1>7, <2>2 DEF Counted, Goes
\* what is left to come, before and after
<1>14. ASSUME h \notin astray
       PROVE  \E k \in 0 .. DataSize :
                /\ k = DataSize - hpos[r] - m /\ query[h] = <<>>
                /\ \/ serving[h] = Pool!Nobody
                   \/ /\ serving[h] # Pool!Nobody /\ serving[h][1] = r
                      /\ serving[h][2] <= k /\ serving[h][2] \in 1 .. DataSize
  <2>1. /\ Answers(h, r) /\ InCount(h)
        /\ DataSize - hpos[r] - m # DataSize
    BY <1>1, <1>3, <1>5, <1>12, <1>14
  <2>2. \/ /\ serving[h] # Pool!Nobody /\ serving[h][1] = r
           /\ serving[h][2] <= DataSize - hpos[r] - m /\ query[h] = <<>>
        \/ /\ serving[h] = Pool!Nobody /\ query[h] = <<>>
           /\ DataSize - hpos[r] - m >= 0
    BY <1>1, <1>5, <2>1 DEF Answers
  <2>3. serving[h] # Pool!Nobody => serving[h][2] \in 1 .. DataSize
    BY <2>1 DEF InCount
  <2>4. DataSize - hpos[r] - m \in 0 .. DataSize
    BY <1>1, <1>3, <1>5, <2>2, <2>3
  <2>5. QED
    BY <2>2, <2>3, <2>4
<1>15. CASE p = DataSize
  <2>1. hpc'[r] = "done" /\ mine'[r] = Pool!None
    BY <1>7, <1>15 DEF Goes
  <2>2. ASSUME h \notin astray' PROVE Idle(h)' /\ InCount(h)'
    <3>1. PICK k \in 0 .. DataSize :
            /\ k = DataSize - hpos[r] - m /\ query[h] = <<>>
            /\ \/ serving[h] = Pool!Nobody
               \/ /\ serving[h] # Pool!Nobody /\ serving[h][1] = r
                  /\ serving[h][2] <= k /\ serving[h][2] \in 1 .. DataSize
      BY <1>7, <1>14, <2>2
    <3>2. k = 0 /\ m - n = 0
      BY <1>1, <1>3, <1>5, <1>6, <1>15, <3>1
    <3>3. serving[h] = Pool!Nobody
      BY <1>1, <3>1, <3>2
    <3>4. w = <<>>
      BY <1>8, <3>2, EmptySeq
    <3>5. QED
      BY <1>1, <1>9, <3>1, <3>3, <3>4 DEF Idle, Silent, InCount
  <2>3. Served(r)'
    BY <2>1 DEF Served
  <2>4. QED
    BY <1>1, <1>2, <1>7, <1>9, <1>10, <1>11, <1>13, <2>1, <2>2, <2>3, OwnerStep DEF Goes
<1>16. CASE p # DataSize
  <2>1. /\ hpc'[r] \in {"reply", "rest"} /\ mine'[r] = h
        /\ h \in astray' \/ hpos'[r] = p
    BY <1>2, <1>7, <1>16 DEF Goes
  <2>2. ASSUME h \notin astray' PROVE Answers(h, r)' /\ InCount(h)'
    <3>1. PICK k \in 0 .. DataSize :
            /\ k = DataSize - hpos[r] - m /\ query[h] = <<>>
            /\ \/ serving[h] = Pool!Nobody
               \/ /\ serving[h] # Pool!Nobody /\ serving[h][1] = r
                  /\ serving[h][2] <= k /\ serving[h][2] \in 1 .. DataSize
      BY <1>7, <1>14, <2>2
    <3>2. DataSize - hpos'[r] - Len(reply'[h]) = k
      <4>1. hpos'[r] = hpos[r] + n /\ Len(reply'[h]) = m - n /\ k = DataSize - hpos[r] - m
        BY <1>6, <1>8, <1>9, <2>1, <2>2, <3>1
      <4>2. DataSize \in Nat /\ hpos[r] \in Nat /\ n \in Nat /\ m \in Nat
        BY <1>1, <1>3, <1>5
      <4>3. QED
        BY <4>1, <4>2
    <3>3. \A i \in DOMAIN reply'[h] : reply'[h][i] = r
      BY <1>7, <1>8, <1>9, <1>12, <2>2 DEF AllAre
    <3>4. Answers(h, r)'
      BY <1>1, <3>1, <3>2, <3>3 DEF Answers
    <3>5. QED
      BY <1>1, <3>1, <3>4 DEF InCount
  <2>3. Served(r)'
    BY <2>1, <2>2 DEF Served
  <2>4. QED
    BY <1>1, <1>2, <1>7, <1>9, <1>10, <1>11, <1>13, <2>1, <2>2, <2>3, OwnerStep DEF Goes
<1>17. QED
  BY <1>15, <1>16

LEMMA WriteStep ==
  ASSUME Pool!PoolAssumption, PoolInv, NEW r \in Request, Pool!WriteData(r)
  PROVE  PoolInv'
<1>1. /\ PlaceTyped /\ PlaceInv /\ WireTyped /\ WireInv /\ DataSize \in Nat \ {0}
      /\ hpc[r] \in {"reply", "rest"} /\ hkind[r] = "write"
      /\ hkind' = hkind /\ got' = got /\ reply' = reply /\ serving' = serving /\ count' = count
  BY DEF PoolInv, Pool!WriteData, Pool!PoolAssumption
<1>2. PICK h \in Pool!Helper : h = mine[r]
  BY <1>1, OwnerHelper
<1>3. /\ query[h] \in Seq(Units) /\ query \in [Pool!Helper -> Seq(Units)]
      /\ hpos[r] \in 0 .. DataSize
  BY <1>1 DEF WireTyped
<1>4. PICK n \in 1 .. DataSize - hpos[r] :
        /\ query' = [query EXCEPT ![h] = @ \o Pool!Data(r, n)]
        /\ Pool!Loop(r, hpos[r] + n, {})
  BY <1>2 DEF Pool!WriteData
<1>5. n \in Nat /\ n >= 1 /\ n <= DataSize - hpos[r]
  BY <1>1, <1>3
<1>6. PICK p \in 0 .. DataSize : p = hpos[r] + n
  BY <1>1, <1>3, <1>5
<1>7. /\ PlaceTyped' /\ PlaceInv' /\ Goes(r, p) /\ astray \subseteq astray'
      /\ \A q \in Request \ {r} : Bystander(q)
  BY <1>1, <1>4, <1>6, LoopGoes
<1>8. PICK w \in Seq(Units) :
        /\ w = query[h] \o Pool!Data(r, n) /\ Len(w) = Len(query[h]) + n /\ w # <<>>
        /\ query[h] # <<>> => Head(w) = Head(query[h])
  <2>1. PICK q \in Seq(Units) : q = query[h]
    BY <1>3
  <2>2. /\ q \o Pool!Data(r, n) \in Seq(Units)
        /\ Len(q \o Pool!Data(r, n)) = Len(q) + n
        /\ q # <<>> => Head(q \o Pool!Data(r, n)) = Head(q)
        /\ q \o Pool!Data(r, n) # <<>>
    BY <1>5, ListJoin
  <2>3. QED
    BY <2>1, <2>2
<1>9. /\ query'[h] = w /\ query' \in [Pool!Helper -> Seq(Units)]
      /\ \A g \in Pool!Helper \ {h} : query'[g] = query[g]
  <2>1. query' = [query EXCEPT ![h] = w]
    BY <1>4, <1>8
  <2>2. QED
    BY <1>3, <2>1
<1>10. WireTyped'
  BY <1>1, <1>7, <1>9 DEF WireTyped, Goes
<1>11. Counted(r)'
  <2>1. Counted(r)
    BY <1>1 DEF WireInv
  <2>2. QED
    BY <1>1, <1>7, <2>1 DEF Counted, Goes
<1>12. ASSUME h \notin astray' PROVE hpos'[r] = p /\ Writes(h, r)' /\ InCount(h)'
  <2>1. h \notin astray /\ hpos'[r] = p
    BY <1>2, <1>7, <1>12 DEF Goes
  <2>2. Writes(h, r) /\ InCount(h)
    BY <1>1, <1>2, <2>1 DEF WireInv, Served, Answers
  <2>3. PICK m \in Nat : m = Len(query[h])
    BY <1>3
  <2>4. CASE serving[h] = Pool!Nobody
    <3>1. /\ query[h] # <<>> /\ Head(query[h]) = Pool!Query(r) /\ m = 1 + hpos[r]
          /\ reply[h] = <<>>
      BY <2>2, <2>3, <2>4 DEF Writes
    <3>2. Len(query'[h]) = 1 + hpos'[r]
      BY <1>3, <1>5, <1>6, <1>8, <1>9, <2>1, <2>3, <3>1
    <3>3. QED
      BY <1>1, <1>8, <1>9, <2>1, <2>4, <3>1, <3>2 DEF Writes, InCount
  <2>5. CASE serving[h] # Pool!Nobody
    <3>1. serving[h][1] = r /\ serving[h][2] = DataSize - hpos[r] + m /\ reply[h] = <<>>
      BY <2>2, <2>3, <2>5 DEF Writes
    <3>2. DataSize - hpos'[r] + Len(query'[h]) = DataSize - hpos[r] + m
      <4>1. Len(query'[h]) = m + n /\ hpos'[r] = hpos[r] + n
        BY <1>6, <1>8, <1>9, <2>1, <2>3
      <4>2. hpos[r] \in Nat /\ DataSize \in Nat
        BY <1>1, <1>3
      <4>3. QED
        BY <1>5, <4>1, <4>2
    <3>3. QED
      BY <1>1, <2>1, <2>2, <2>5, <3>1, <3>2 DEF Writes, InCount
  <2>6. QED
    BY <2>4, <2>5
<1>13. CASE p = DataSize
  <2>1. hpc'[r] = "done" /\ mine'[r] = Pool!None
    BY <1>7, <1>13 DEF Goes
  <2>2. h \notin astray' => Idle(h)' /\ InCount(h)'
    BY <1>12, <1>13, <2>1 DEF Idle
  <2>3. Served(r)'
    BY <2>1 DEF Served
  <2>4. QED
    BY <1>1, <1>2, <1>7, <1>9, <1>10, <1>11, <2>1, <2>2, <2>3, OwnerStep DEF Goes
<1>14. CASE p # DataSize
  <2>1. hpc'[r] \in {"reply", "rest"} /\ mine'[r] = h
    BY <1>2, <1>7, <1>14 DEF Goes
  <2>2. Served(r)'
    BY <1>12, <2>1 DEF Served
  <2>3. QED
    BY <1>1, <1>2, <1>7, <1>9, <1>10, <1>11, <1>12, <2>1, <2>2, OwnerStep DEF Goes
<1>15. QED
  BY <1>13, <1>14

(* The helper processes *)

\* A helper in order, with something in its socket, writes for a request, or
\* answers one.
LEMMA Occupied ==
  ASSUME PoolInv, NEW h \in Pool!Helper \ astray, ~Silent(h)
  PROVE  \E r \in Request : Writes(h, r) \/ Answers(h, r)
<1>1. CASE \A q \in Request : mine[q] = h => hpc[q] = "query"
  BY <1>1 DEF PoolInv, WireInv, Idle
<1>2. CASE \E q \in Request : mine[q] = h /\ hpc[q] # "query"
  <2>1. PICK q \in Request : mine[q] = h /\ hpc[q] # "query"
    BY <1>2
  <2>2. hpc[q] \in {"reply", "rest"}
    BY <2>1, NoneNoHelper DEF PoolInv, PlaceInv
  <2>3. QED
    BY <2>1, <2>2 DEF PoolInv, WireInv, Served
<1>3. QED
  BY <1>1, <1>2

\* Nothing happens to the requests and the pool.
Aside ==
  /\ count' = count /\ ready' = ready /\ waiting' = waiting /\ mine' = mine /\ hpc' = hpc
  /\ hkind' = hkind /\ hpos' = hpos /\ got' = got /\ astray' = astray

\* A step of helper h, if it is in order: what it does for a request goes on, or
\* is done.
LEMMA HelperStep ==
  ASSUME PoolInv, DataSize \in Nat, NEW h \in Pool!Helper, WireTyped', ~Silent(h), Aside,
         \A g \in Pool!Helper \ {h} :
           query'[g] = query[g] /\ reply'[g] = reply[g] /\ serving'[g] = serving[g],
         h \notin astray =>
           /\ \A w \in Request :
                Writes(h, w) => Writes(h, w)' \/ (Silent(h)' /\ hpos[w] = DataSize)
           /\ \A r \in Request : Answers(h, r) => Answers(h, r)'
           /\ InCount(h)'
  PROVE  PoolInv'
<1>1. /\ PlaceTyped /\ PlaceInv /\ WireInv
      /\ count' = count /\ ready' = ready /\ waiting' = waiting /\ mine' = mine /\ hpc' = hpc
      /\ hkind' = hkind /\ hpos' = hpos /\ got' = got /\ astray' = astray
  BY DEF PoolInv, Aside
<1>2. PICK S \in SUBSET Request : S = {q \in Request : mine[q] = h}
  OBVIOUS
<1>3. Elsewhere(S, {h})
  <2>1. \A q \in S : hpc[q] # "done" /\ mine[q] = h
    BY <1>1, <1>2, NoneNoHelper DEF PlaceInv
  <2>2. QED
    BY <1>1, <1>2, <2>1 DEF Elsewhere, Bystander
<1>4. /\ \A g \in Pool!Helper \ ({h} \cup astray') : Idle(g)' /\ InCount(g)'
      /\ \A q \in Request \ S : Served(q)' /\ Counted(q)'
  BY <1>1, <1>3, Untouched
<1>5. h \notin astray => Idle(h)'
  BY <1>1 DEF WireInv, Idle
<1>6. ASSUME NEW q \in S PROVE Served(q)' /\ Counted(q)'
  <2>1. Served(q) /\ Counted(q) /\ mine[q] = h
    BY <1>1, <1>2 DEF WireInv
  <2>2. Counted(q)'
    BY <1>1, <2>1 DEF Counted
  <2>3. ASSUME hpc'[q] \in {"reply", "rest"}, mine'[q] \notin astray'
        PROVE  Writes(mine[q], q)' \/ Answers(mine[q], q)'
    <3>1. hpc[q] \in {"reply", "rest"} /\ hpos[q] # DataSize /\ h \notin astray
      BY <1>1, <2>1, <2>3 DEF Counted
    <3>2. Writes(h, q) \/ Answers(h, q)
      BY <2>1, <3>1 DEF Served
    <3>3. mine'[q] = h
      BY <1>1, <2>1
    <3>4. QED
      BY <3>1, <3>2, <3>3
  <2>4. QED
    BY <2>2, <2>3 DEF Served
<1>7. WireInv'
  BY <1>1, <1>4, <1>5, <1>6 DEF WireInv
<1>8. PlaceTyped'
  BY <1>1 DEF PlaceTyped
<1>9. PlaceInv'
  BY <1>1 DEF PlaceInv
<1>10. QED
  BY <1>7, <1>8, <1>9 DEF PoolInv

LEMMA ServingPair ==
  ASSUME WireTyped, NEW h \in Pool!Helper, serving[h] # Pool!Nobody
  PROVE  \E r \in Request, n \in Int : serving[h] = <<r, n>>
<1>1. serving[h] \in Request \X Int
  BY DEF WireTyped
<1>2. PICK s \in Request \X Int : s = serving[h]
  BY <1>1
<1>3. PICK r \in Request, n \in Int : s = <<r, n>>
  OBVIOUS
<1>4. QED
  BY <1>2, <1>3

LEMMA AcceptStep ==
  ASSUME Pool!PoolAssumption, PoolInv, NEW h \in Pool!Helper, Pool!Accept(h)
  PROVE  PoolInv'
<1>1. /\ WireTyped /\ DataSize \in Nat \ {0} /\ Aside
      /\ serving[h] = Pool!Nobody /\ query[h] # <<>>
      /\ Kinds \subseteq {"open", "fstat", "read", "write"}
  BY DEF PoolInv, Pool!Accept, Pool!PoolAssumption, Pool!pool, Aside
<1>2. /\ query[h] \in Seq(Units) /\ query \in [Pool!Helper -> Seq(Units)]
      /\ reply[h] \in Seq(Request) /\ reply \in [Pool!Helper -> Seq(Request)]
      /\ serving \in [Pool!Helper -> {Pool!Nobody} \cup Request \X Int]
      /\ hpos \in [Request -> 0 .. DataSize] /\ hkind \in [Request -> Kinds]
  BY <1>1 DEF WireTyped
<1>3. PICK r \in Request :
        /\ Head(query[h]) = Pool!Query(r)
        /\ query' = [query EXCEPT ![h] = Tail(@)]
        /\ \/ /\ hkind[r] \in {"open", "fstat"}
              /\ reply' = [reply EXCEPT ![h] = Append(@, r)]
              /\ serving' = serving
           \/ /\ hkind[r] = "write"
              /\ serving' = [serving EXCEPT ![h] = <<r, DataSize>>]
              /\ reply' = reply
           \/ /\ hkind[r] = "read"
              /\ \E n \in 0 .. DataSize :
                   serving' = [serving EXCEPT ![h] = IF n = 0 THEN Pool!Nobody ELSE <<r, n>>]
              /\ reply' = reply
  BY DEF Pool!Accept
<1>4. PICK w \in Seq(Units) : w = Tail(query[h]) /\ Len(w) = Len(query[h]) - 1
  <2>1. Tail(query[h]) \in Seq(Units) /\ Len(Tail(query[h])) = Len(query[h]) - 1
    BY <1>1, <1>2, HeadTailProperties
  <2>2. QED
    BY <2>1
<1>5. /\ query'[h] = w /\ query' \in [Pool!Helper -> Seq(Units)]
      /\ \A g \in Pool!Helper \ {h} : query'[g] = query[g]
  BY <1>2, <1>3, <1>4
<1>6. ~Silent(h)
  BY <1>1 DEF Silent
\* a helper in order has the whole query of one request before it
<1>7. ASSUME NEW q \in Request, Writes(h, q)
      PROVE  q = r /\ hkind[q] = "write" /\ reply[h] = <<>> /\ Len(w) = hpos[q]
  <2>1. Pool!Query(q) = Pool!Query(r) /\ Len(query[h]) = 1 + hpos[q]
    BY <1>1, <1>3, <1>7 DEF Writes
  <2>2. q = r /\ Len(w) = hpos[q]
    BY <1>2, <1>4, <2>1 DEF Pool!Query
  <2>3. QED
    BY <1>7, <2>2 DEF Writes
<1>8. ASSUME NEW q \in Request, Answers(h, q)
      PROVE  q = r /\ hkind[q] # "write" /\ w = <<>> /\ hpos[q] = 0 /\ reply[h] = <<>>
  <2>1. PICK m \in Nat, p \in Nat : m = Len(reply[h]) /\ p = hpos[q]
    BY <1>2
  <2>2. PICK all \in Nat : all = IF hkind[q] = "read" THEN DataSize ELSE 1
    BY <1>1
  <2>3. hkind[q] # "write" /\ query[h] = <<Pool!Query(q)>> /\ all - p - m = all
    BY <1>1, <1>8, <2>1, <2>2 DEF Answers
  <2>4. m = 0 /\ p = 0
    BY <2>1, <2>2, <2>3
  <2>5. Head(<<Pool!Query(q)>>) = Pool!Query(q) /\ Tail(<<Pool!Query(q)>>) = <<>>
    OBVIOUS
  <2>6. Pool!Query(q) = Pool!Query(r) /\ w = <<>>
    BY <1>3, <1>4, <2>3, <2>5
  <2>7. reply[h] = <<>>
    BY <1>2, <2>1, <2>4, EmptySeq
  <2>8. QED
    BY <2>1, <2>3, <2>4, <2>6, <2>7 DEF Pool!Query
<1>9. CASE /\ hkind[r] \in {"open", "fstat"}
           /\ reply' = [reply EXCEPT ![h] = Append(@, r)]
           /\ serving' = serving
  <2>1. PICK v \in Seq(Request) : v = Append(reply[h], r) /\ (reply[h] = <<>> => v = <<r>>)
    <3>1. PICK q \in Seq(Request) : q = reply[h]
      BY <1>2
    <3>2. Append(q, r) \in Seq(Request) /\ Append(<<>>, r) = <<r>>
      OBVIOUS
    <3>3. QED
      BY <3>1, <3>2
  <2>2. reply' = [reply EXCEPT ![h] = v]
    BY <1>9, <2>1
  <2>3. /\ reply'[h] = v /\ reply' \in [Pool!Helper -> Seq(Request)]
        /\ \A g \in Pool!Helper \ {h} : reply'[g] = reply[g]
    BY <1>2, <2>2
  <2>4. WireTyped'
    BY <1>1, <1>5, <1>9, <2>3 DEF WireTyped, Aside
  <2>5. \A q \in Request : ~Writes(h, q)
    BY <1>7, <1>9
  <2>6. ASSUME NEW q \in Request, Answers(h, q) PROVE Answers(h, q)'
    <3>1. q = r /\ w = <<>> /\ hpos[q] = 0 /\ v = <<q>>
      BY <1>8, <2>1, <2>6
    <3>2. Len(<<q>>) = 1 /\ \A i \in DOMAIN <<q>> : <<q>>[i] = q
      OBVIOUS
    <3>3. reply'[h] = <<q>> /\ query'[h] = <<>> /\ serving'[h] = Pool!Nobody
          /\ hpos'[q] = 0 /\ hkind'[q] = hkind[q]
      BY <1>1, <1>5, <1>9, <2>3, <3>1 DEF Aside
    <3>4. 1 - hpos'[q] - Len(reply'[h]) = 0
      BY <3>2, <3>3
    <3>5. QED
      BY <1>9, <3>1, <3>2, <3>3, <3>4 DEF Answers
  <2>7. InCount(h)'
    BY <1>1, <1>9 DEF InCount
  <2>8. QED
    BY <1>1, <1>5, <1>6, <1>9, <2>3, <2>4, <2>5, <2>6, <2>7, HelperStep
<1>10. CASE /\ hkind[r] = "write"
            /\ serving' = [serving EXCEPT ![h] = <<r, DataSize>>]
            /\ reply' = reply
  <2>1. /\ serving'[h] = <<r, DataSize>> /\ serving'[h] # Pool!Nobody
        /\ serving' \in [Pool!Helper -> {Pool!Nobody} \cup Request \X Int]
        /\ \A g \in Pool!Helper \ {h} : serving'[g] = serving[g]
    BY <1>1, <1>2, <1>10 DEF Pool!Nobody
  <2>2. WireTyped'
    BY <1>1, <1>5, <1>10, <2>1 DEF WireTyped, Aside
  <2>3. ASSUME NEW q \in Request, Writes(h, q) PROVE Writes(h, q)'
    <3>1. q = r /\ hkind'[q] = "write" /\ reply'[h] = <<>> /\ hpos'[q] = hpos[q]
          /\ Len(query'[h]) = hpos[q] /\ hpos[q] \in Nat
      BY <1>1, <1>2, <1>5, <1>7, <1>10, <2>3 DEF Aside
    <3>2. DataSize - hpos'[q] + Len(query'[h]) = DataSize
      BY <1>1, <3>1
    <3>3. QED
      BY <2>1, <3>1, <3>2 DEF Writes
  <2>4. \A q \in Request : ~Answers(h, q)
    BY <1>8, <1>10
  <2>5. InCount(h)'
    BY <1>1, <2>1 DEF InCount
  <2>6. QED
    BY <1>1, <1>5, <1>6, <1>10, <2>1, <2>2, <2>3, <2>4, <2>5, HelperStep
<1>11. CASE /\ hkind[r] = "read"
            /\ \E n \in 0 .. DataSize :
                 serving' = [serving EXCEPT ![h] = IF n = 0 THEN Pool!Nobody ELSE <<r, n>>]
            /\ reply' = reply
  <2>1. PICK n \in 0 .. DataSize, s \in {Pool!Nobody} \cup Request \X Int :
          /\ serving' = [serving EXCEPT ![h] = s]
          /\ s = IF n = 0 THEN Pool!Nobody ELSE <<r, n>>
    <3>1. PICK n \in 0 .. DataSize :
            serving' = [serving EXCEPT ![h] = IF n = 0 THEN Pool!Nobody ELSE <<r, n>>]
      BY <1>11
    <3>2. (IF n = 0 THEN Pool!Nobody ELSE <<r, n>>) \in {Pool!Nobody} \cup Request \X Int
      OBVIOUS
    <3>3. QED
      BY <3>1, <3>2
  <2>2. /\ serving'[h] = s
        /\ serving' \in [Pool!Helper -> {Pool!Nobody} \cup Request \X Int]
        /\ \A g \in Pool!Helper \ {h} : serving'[g] = serving[g]
    BY <1>2, <2>1
  <2>3. WireTyped'
    BY <1>1, <1>5, <1>11, <2>2 DEF WireTyped, Aside
  <2>4. \A q \in Request : ~Writes(h, q)
    BY <1>7, <1>11
  <2>5. ASSUME NEW q \in Request, Answers(h, q) PROVE Answers(h, q)'
    <3>1. /\ q = r /\ hkind'[q] = "read" /\ reply'[h] = <<>> /\ query'[h] = <<>>
          /\ hpos'[q] = 0
      BY <1>1, <1>5, <1>8, <1>11, <2>5 DEF Aside
    <3>2. DataSize - hpos'[q] - Len(reply'[h]) = DataSize
      BY <1>1, <3>1
    <3>3. \A i \in DOMAIN reply'[h] : reply'[h][i] = q
      BY <3>1
    <3>4. CASE n = 0
      BY <1>1, <2>1, <2>2, <3>1, <3>2, <3>3, <3>4 DEF Answers
    <3>5. CASE n # 0
      <4>1. s = <<q, n>> /\ s # Pool!Nobody /\ n <= DataSize
        BY <1>1, <2>1, <3>1, <3>5 DEF Pool!Nobody
      <4>2. QED
        BY <2>2, <3>1, <3>2, <3>3, <4>1 DEF Answers
    <3>6. QED
      BY <3>4, <3>5
  <2>6. InCount(h)'
    BY <1>1, <2>1, <2>2 DEF InCount
  <2>7. QED
    BY <1>1, <1>5, <1>6, <1>11, <2>2, <2>3, <2>4, <2>5, <2>6, HelperStep
<1>12. QED
  BY <1>3, <1>9, <1>10, <1>11

LEMMA SendFileStep ==
  ASSUME Pool!PoolAssumption, PoolInv, NEW h \in Pool!Helper, Pool!SendFile(h)
  PROVE  PoolInv'
<1>1. /\ WireTyped /\ DataSize \in Nat \ {0} /\ Aside
      /\ serving[h] # Pool!Nobody /\ hkind[serving[h][1]] = "read" /\ query' = query
  BY DEF PoolInv, Pool!SendFile, Pool!PoolAssumption, Pool!pool, Pool!history, Aside
<1>2. /\ reply[h] \in Seq(Request) /\ reply \in [Pool!Helper -> Seq(Request)]
      /\ serving \in [Pool!Helper -> {Pool!Nobody} \cup Request \X Int]
      /\ hpos \in [Request -> 0 .. DataSize]
  BY <1>1 DEF WireTyped
<1>3. PICK r \in Request, n \in Int : serving[h] = <<r, n>>
  BY <1>1, ServingPair
<1>4. PICK w \in Seq(Request) :
        /\ w = Append(reply[h], r) /\ Len(w) = Len(reply[h]) + 1
        /\ (\A i \in DOMAIN reply[h] : reply[h][i] = r) => \A i \in DOMAIN w : w[i] = r
  <2>1. PICK q \in Seq(Request) : q = reply[h]
    BY <1>2
  <2>2. Append(q, r) \in Seq(Request) /\ Len(Append(q, r)) = Len(q) + 1
    OBVIOUS
  <2>3. (\A i \in DOMAIN q : q[i] = r) => \A i \in DOMAIN Append(q, r) : Append(q, r)[i] = r
    OBVIOUS
  <2>4. QED
    BY <2>1, <2>2, <2>3
<1>5. PICK s \in {Pool!Nobody} \cup Request \X Int :
        /\ s = IF n - 1 = 0 THEN Pool!Nobody ELSE <<r, n - 1>>
        /\ reply' = [reply EXCEPT ![h] = w]
        /\ serving' = [serving EXCEPT ![h] = s]
  <2>1. /\ reply' = [reply EXCEPT ![h] = w]
        /\ serving' = [serving EXCEPT ![h] = IF n - 1 = 0 THEN Pool!Nobody ELSE <<r, n - 1>>]
    BY <1>3, <1>4 DEF Pool!SendFile
  <2>2. (IF n - 1 = 0 THEN Pool!Nobody ELSE <<r, n - 1>>) \in {Pool!Nobody} \cup Request \X Int
    OBVIOUS
  <2>3. QED
    BY <2>1, <2>2
<1>6. /\ reply'[h] = w /\ reply' \in [Pool!Helper -> Seq(Request)]
      /\ \A g \in Pool!Helper \ {h} : reply'[g] = reply[g]
      /\ serving'[h] = s
      /\ serving' \in [Pool!Helper -> {Pool!Nobody} \cup Request \X Int]
      /\ \A g \in Pool!Helper \ {h} : serving'[g] = serving[g]
  BY <1>2, <1>4, <1>5
<1>7. ~Silent(h)
  BY <1>1 DEF Silent
<1>8. ASSUME NEW q \in Request, Writes(h, q) PROVE FALSE
  <2>1. serving[h][1] = q /\ hkind[q] = "write"
    BY <1>1, <1>8 DEF Writes
  <2>2. QED
    BY <1>1, <2>1
<1>9. ASSUME h \notin astray PROVE n \in 1 .. DataSize /\ InCount(h)'
  <2>1. n \in 1 .. DataSize
    <3>1. InCount(h) /\ serving[h][2] = n
      BY <1>3, <1>9 DEF PoolInv, WireInv
    <3>2. QED
      BY <1>1, <3>1 DEF InCount
  <2>2. n - 1 # 0 => n - 1 \in 1 .. DataSize
    BY <1>1, <2>1
  <2>3. QED
    BY <1>5, <1>6, <2>1, <2>2 DEF InCount
<1>10. ASSUME h \notin astray, NEW q \in Request, Answers(h, q) PROVE Answers(h, q)'
  <2>1. PICK m \in Nat, p \in Nat : m = Len(reply[h]) /\ p = hpos[q]
    BY <1>2
  <2>2. /\ hkind[q] = "read" /\ q = r /\ n <= DataSize - p - m /\ query[h] = <<>>
        /\ \A i \in DOMAIN reply[h] : reply[h][i] = q
    BY <1>1, <1>3, <1>10, <2>1 DEF Answers
  <2>3. PICK k \in Nat : k = DataSize - hpos'[q] - Len(reply'[h]) /\ n - 1 <= k
    <3>1. Len(reply'[h]) = m + 1 /\ hpos'[q] = p
      BY <1>1, <1>4, <1>6, <2>1 DEF Aside
    <3>2. n \in Nat /\ n >= 1 /\ DataSize \in Nat
      BY <1>1, <1>9, <1>10
    <3>3. DataSize - p - (m + 1) \in Nat /\ n - 1 <= DataSize - p - (m + 1)
      <4>1. n <= DataSize - p - m
        BY <2>2
      <4>2. QED
        BY <3>2, <4>1
    <3>4. QED
      BY <3>1, <3>3
  <2>4. \A i \in DOMAIN reply'[h] : reply'[h][i] = q
    BY <1>4, <1>6, <2>2
  <2>5. query'[h] = <<>> /\ hkind'[q] = "read"
    BY <1>1, <2>2 DEF Aside
  <2>6. CASE n - 1 = 0
    BY <1>5, <1>6, <2>3, <2>4, <2>5, <2>6 DEF Answers
  <2>7. CASE n - 1 # 0
    <3>1. s = <<q, n - 1>> /\ s # Pool!Nobody
      BY <1>5, <2>2, <2>7 DEF Pool!Nobody
    <3>2. QED
      BY <1>6, <2>3, <2>4, <2>5, <3>1 DEF Answers
  <2>8. QED
    BY <2>6, <2>7
<1>11. WireTyped'
  BY <1>1, <1>6 DEF WireTyped, Aside
<1>12. QED
  BY <1>1, <1>6, <1>7, <1>8, <1>9, <1>10, <1>11, HelperStep

LEMMA WriteFileStep ==
  ASSUME Pool!PoolAssumption, PoolInv, NEW h \in Pool!Helper, Pool!WriteFile(h)
  PROVE  PoolInv'
<1>1. /\ WireTyped /\ DataSize \in Nat \ {0} /\ Aside
      /\ serving[h] # Pool!Nobody /\ hkind[serving[h][1]] = "write" /\ query[h] # <<>>
      /\ reply' = reply /\ query' = [query EXCEPT ![h] = <<>>]
  BY DEF PoolInv, Pool!WriteFile, Pool!PoolAssumption, Pool!pool, Pool!history, Aside
<1>2. /\ query[h] \in Seq(Units) /\ query \in [Pool!Helper -> Seq(Units)]
      /\ serving \in [Pool!Helper -> {Pool!Nobody} \cup Request \X Int]
      /\ hpos \in [Request -> 0 .. DataSize]
  BY <1>1 DEF WireTyped
<1>3. PICK r \in Request, n \in Int : serving[h] = <<r, n>>
  BY <1>1, ServingPair
<1>4. ~Silent(h)
  BY <1>1 DEF Silent
<1>5. ASSUME NEW q \in Request, Answers(h, q) PROVE FALSE
  BY <1>1, <1>3, <1>5 DEF Answers
<1>6. PICK m \in Nat : m = Len(query[h]) /\ m > 0
  BY <1>2, <1>1
<1>7. PICK l \in Int, s \in {Pool!Nobody} \cup Request \X Int :
        /\ s = IF n - m = 0 THEN Pool!Nobody ELSE <<r, l>>
        /\ n - m >= 0 => l = n - m
        /\ serving' = [serving EXCEPT ![h] = s]
  <2>1. serving' = [serving EXCEPT ![h] =
          IF n - m = 0 THEN Pool!Nobody ELSE <<r, IF n - m < 0 THEN -1 ELSE n - m>>]
    BY <1>3, <1>6 DEF Pool!WriteFile
  <2>2. PICK k \in Int : k = IF n - m < 0 THEN -1 ELSE n - m
    OBVIOUS
  <2>3. PICK t \in {Pool!Nobody} \cup Request \X Int :
          t = IF n - m = 0 THEN Pool!Nobody ELSE <<r, k>>
    <3>1. <<r, k>> \in Request \X Int
      OBVIOUS
    <3>2. QED
      BY <3>1
  <2>4. serving' = [serving EXCEPT ![h] = t]
    BY <2>1, <2>2, <2>3
  <2>5. n - m >= 0 => k = n - m
    BY <2>2
  <2> WITNESS k \in Int, t \in {Pool!Nobody} \cup Request \X Int
  <2>6. QED
    BY <2>3, <2>4, <2>5
<1>8. /\ serving'[h] = s
      /\ serving' \in [Pool!Helper -> {Pool!Nobody} \cup Request \X Int]
      /\ \A g \in Pool!Helper \ {h} : serving'[g] = serving[g]
  BY <1>2, <1>7
<1>9. /\ query'[h] = <<>> /\ query' \in [Pool!Helper -> Seq(Units)]
      /\ \A g \in Pool!Helper \ {h} : query'[g] = query[g]
  <2>1. <<>> \in Seq(Units)
    OBVIOUS
  <2>2. QED
    BY <1>1, <1>2, <2>1
<1>10. WireTyped'
  BY <1>1, <1>8, <1>9 DEF WireTyped, Aside
\* a helper in order takes what its request has sent, and no more
<1>11. ASSUME h \notin astray
       PROVE  /\ \A q \in Request :
                   Writes(h, q) => Writes(h, q)' \/ (Silent(h)' /\ hpos[q] = DataSize)
              /\ InCount(h)'
  <2>1. Writes(h, r)
    <3>1. PICK q \in Request : Writes(h, q)
      BY <1>4, <1>5, <1>11, Occupied
    <3>2. q = r
      BY <1>1, <1>3, <3>1 DEF Writes
    <3>3. QED
      BY <3>1, <3>2
  <2>2. PICK p \in 0 .. DataSize : p = hpos[r]
    BY <1>2
  <2>3. n = DataSize - p + m /\ reply[h] = <<>> /\ hkind[r] = "write"
    BY <1>1, <1>3, <1>6, <2>1, <2>2 DEF Writes
  <2>4. n - m = DataSize - p /\ n - m \in 0 .. DataSize /\ l = n - m /\ p \in Nat
    <3>1. p \in Nat /\ p <= DataSize /\ DataSize \in Nat
      BY <1>1
    <3>2. QED
      BY <1>6, <1>7, <2>3, <3>1
  <2>5. ASSUME NEW q \in Request, Writes(h, q)
        PROVE  Writes(h, q)' \/ (Silent(h)' /\ hpos[q] = DataSize)
    <3>1. q = r
      BY <1>1, <1>3, <2>5 DEF Writes
    <3>2. CASE n - m = 0
      <4>1. hpos[q] = DataSize
        BY <1>1, <2>2, <2>4, <3>1, <3>2
      <4>2. Silent(h)'
        BY <1>1, <1>7, <1>8, <1>9, <2>3, <3>2 DEF Silent
      <4>3. QED
        BY <4>1, <4>2
    <3>3. CASE n - m # 0
      <4>1. serving'[h] = <<q, l>> /\ serving'[h] # Pool!Nobody
        BY <1>7, <1>8, <2>4, <3>1, <3>3 DEF Pool!Nobody
      <4>2. DataSize - hpos'[q] + Len(query'[h]) = l
        BY <1>1, <1>9, <2>2, <2>4, <3>1 DEF Aside
      <4>3. hkind'[q] = "write" /\ reply'[h] = <<>>
        BY <1>1, <2>3, <3>1 DEF Aside
      <4>4. QED
        BY <4>1, <4>2, <4>3 DEF Writes
    <3>4. QED
      BY <3>2, <3>3
  <2>6. InCount(h)'
    BY <1>1, <1>7, <1>8, <2>4 DEF InCount
  <2>7. QED
    BY <2>5, <2>6
<1>12. QED
  BY <1>1, <1>4, <1>5, <1>8, <1>9, <1>10, <1>11, HelperStep

LEMMA PoolKept ==
  ASSUME PoolInv, Aside, query' = query, reply' = reply, serving' = serving
  PROVE  PoolInv'
<1>1. /\ PlaceTyped /\ WireTyped /\ PlaceInv /\ WireInv
      /\ count' = count /\ ready' = ready /\ waiting' = waiting /\ mine' = mine /\ hpc' = hpc
      /\ hkind' = hkind /\ hpos' = hpos /\ got' = got /\ astray' = astray
  BY DEF PoolInv, Aside
<1>2. PlaceTyped' /\ WireTyped'
  BY <1>1 DEF PlaceTyped, WireTyped
<1>3. PlaceInv'
  BY <1>1 DEF PlaceInv
<1>4. PICK S \in SUBSET Request, T \in SUBSET Pool!Helper : S = {} /\ T = {}
  OBVIOUS
<1>5. Elsewhere(S, T)
  BY <1>1, <1>4 DEF Elsewhere, Bystander
<1>6. /\ \A g \in Pool!Helper \ (T \cup astray') : Idle(g)' /\ InCount(g)'
      /\ \A q \in Request \ S : Served(q)' /\ Counted(q)'
  BY <1>1, <1>5, Untouched
<1>7. WireInv'
  BY <1>4, <1>6 DEF WireInv
<1>8. QED
  BY <1>2, <1>3, <1>7 DEF PoolInv

LEMMA PoolStep ==
  ASSUME Pool!PoolAssumption, PoolInv, [Pool!Next]_(Pool!vars) PROVE PoolInv'
<1>1. CASE UNCHANGED Pool!vars
  <2>1. Aside /\ query' = query /\ reply' = reply /\ serving' = serving
    BY <1>1 DEF Pool!vars, Pool!pool, Pool!wire, Pool!history, Aside
  <2>2. QED
    BY <2>1, PoolKept
<1>2. CASE \E r \in Request : Pool!Cancel(r)
  <2>1. Aside /\ query' = query /\ reply' = reply /\ serving' = serving
    BY <1>2 DEF Pool!Cancel, Pool!pool, Pool!wire, Pool!history, Aside
  <2>2. QED
    BY <2>1, PoolKept
<1>3. CASE \E r \in Request : Pool!Move(r)
  BY <1>3, GetStep, SendStep, SendFailsStep, RecvStep, ReadStep, WriteStep DEF Pool!Move
<1>4. CASE \E h \in Pool!Helper : Pool!Serve(h)
  BY <1>4, AcceptStep, SendFileStep, WriteFileStep DEF Pool!Serve
<1>5. QED
  BY <1>1, <1>2, <1>3, <1>4 DEF Pool!Next, Pool!Moves, Pool!Serves

\* What PoolInv says of a helper, in the terms of the property.
LEMMA PoolInOrder ==
  ASSUME Pool!PoolAssumption, PoolInv PROVE HelperInOrder
<1>1. PlaceTyped /\ WireTyped /\ PlaceInv /\ WireInv /\ DataSize \in Nat /\ NHelper \in Nat
  BY DEF PoolInv, Pool!PoolAssumption
<1>2. ASSUME NEW h \in 1 .. count
      PROVE  \E p \in Pool!Places(h) : Pool!Places(h) = {p}
  <2>1. h \in Pool!Helper
    BY <1>1 DEF PlaceTyped, Pool!Helper
  <2>2. CASE InList(h, ready)
    <3>1. PICK i \in DOMAIN ready : ready[i] = h
      BY <2>2 DEF InList
    <3>2. \A j \in DOMAIN ready : ready[j] = h => j = i
      BY <1>1, <3>1 DEF PlaceInv, OnceEach
    <3>3. \A r \in Request : mine[r] # h
      BY <1>1, <2>1, <2>2 DEF PlaceInv
    <3>4. Pool!Places(h) = {<<"ready", i>>}
      BY <3>1, <3>2, <3>3 DEF Pool!Places
    <3>5. QED
      BY <3>4
  <2>3. CASE ~InList(h, ready)
    <3>1. PICK r \in Request : mine[r] = h
      BY <1>1, <2>3 DEF PlaceInv
    <3>2. \A q \in Request : mine[q] = h => q = r
      BY <1>1, <2>1, <3>1, NoneNoHelper DEF PlaceInv
    <3>3. \A j \in DOMAIN ready : ready[j] # h
      BY <2>3 DEF InList
    <3>4. Pool!Places(h) = {<<"taken", r>>}
      BY <3>1, <3>2, <3>3 DEF Pool!Places
    <3>5. QED
      BY <3>4
  <2>4. QED
    BY <2>2, <2>3
<1>3. ASSUME NEW h \in Pool!Elements(ready) \ astray PROVE reply[h] = <<>>
  <2>1. InList(h, ready) /\ h \in Pool!Helper
    BY <1>1 DEF Pool!Elements, InList, PlaceTyped
  <2>2. \A r \in Request : mine[r] # h
    BY <1>1, <2>1 DEF PlaceInv
  <2>3. Silent(h) \/ \E w \in Request : Writes(h, w)
    BY <1>1, <2>1, <2>2 DEF WireInv, Idle
  <2>4. QED
    BY <2>3 DEF Silent, Writes
<1>4. ASSUME NEW h \in Pool!Helper \ astray, serving[h] # Pool!Nobody PROVE serving[h][2] >= 0
  <2>1. serving[h][2] \in 1 .. DataSize
    BY <1>1, <1>4 DEF WireInv, InCount
  <2>2. QED
    BY <1>1, <2>1
<1>5. \A r \in Request : \A p \in got[r] : p[2] = r \/ p[1] \in astray
  BY <1>1 DEF WireInv, Counted
<1>6. QED
  BY <1>2, <1>3, <1>4, <1>5 DEF HelperInOrder, Pool!HelperPlaced, Pool!InSync, Pool!HelperCounts

\* The pool of fdhelper, for any number of helpers and requests and any sizes of the
\* files, of what is asked for and of crapbuf: a helper is ready once or in the hands
\* of one request.  And until the code itself takes a helper out of step, with a
\* query behind data that is still on its way or with more left over than crapbuf
\* holds, a request gets its own reply and nothing else from that helper, the helper
\* is handed on with nothing to read in its socket, and its count of what is still
\* to be written never goes round.
THEOREM HelpersInOrder ==
  ASSUME Pool!PoolAssumption PROVE Pool!Spec => []HelperInOrder
<1>1. Pool!Init => PoolInv
  BY PoolStart
<1>2. PoolInv /\ [Pool!Next]_(Pool!vars) => PoolInv'
  BY PoolStep
<1>3. PoolInv => HelperInOrder
  BY PoolInOrder
<1>4. QED
  BY <1>1, <1>2, <1>3, PTL DEF Pool!Spec

(***************************************************************************)
(* The input buffer                                                        *)
(***************************************************************************)

\* Where the k-th place behind h is in a ring of s places.
Wrapped(h, k, s) == IF h + k < s THEN h + k ELSE h + k - s

LEMMA ModIs ==
  ASSUME NEW a \in Nat, NEW s \in Nat \ {0}
  PROVE  \E p \in Int, x \in 0 .. s - 1 : a = s * p + x /\ x = a % s
<1>1. a % s \in 0 .. s - 1
  OBVIOUS
<1>2. a \div s \in Int
  OBVIOUS
<1>3. s * (a \div s) + (a % s) = a
  <2>1. a \in Int /\ s \in Int /\ s > 0
    OBVIOUS
  <2> QED
      BY <2>1, Z3
<1> QED
  BY <1>1, <1>2, <1>3

LEMMA MulLess ==
  ASSUME NEW s \in Nat \ {0}, NEW p \in Int, NEW q \in Int, p > q
  PROVE s * p >= s * q + s
<1>1. s * p = s * q + s * (p - q)
  OBVIOUS
<1>2. p - q >= 1 /\ p - q \in Nat
  OBVIOUS
<1>3. s * (p - q) >= s
  BY <1>2
<1> QED
  BY <1>1, <1>3

LEMMA ModUnique ==
  ASSUME NEW s \in Nat \ {0}, NEW p \in Int, NEW q \in Int, NEW x \in 0 .. s - 1, NEW y \in 0 .. s - 1,
         s * p + x = s * q + y
  PROVE  x = y
<1>1. CASE p > q
  <2>1. s * p >= s * q + s
    BY <1>1, MulLess
  <2>2. s * p \in Int /\ s * q \in Int
    OBVIOUS
  <2> QED
      BY <2>1, <2>2
<1>2. CASE q > p
  <2>1. s * q >= s * p + s
    BY <1>2, MulLess
  <2>2. s * p \in Int /\ s * q \in Int
    OBVIOUS
  <2> QED
      BY <2>1, <2>2
<1>3. CASE p = q
  <2>2. s * p \in Int /\ s * q \in Int /\ s * p = s * q
    BY <1>3
  <2> QED
      BY <1>3, <2>2
<1> QED
      BY <1>1, <1>2, <1>3

\* The index wraps at most once.
LEMMA ModAdd ==
  ASSUME NEW a \in Nat, NEW s \in Nat \ {0}, NEW k \in 0 .. s
  PROVE  a % s \in 0 .. s - 1 /\ (a + k) % s = Wrapped(a % s, k, s)
<1>1. PICK p \in Int, x \in 0 .. s - 1 : a = s * p + x /\ x = a % s
  BY ModIs
<1>2. PICK q \in Int, y \in 0 .. s - 1 : a + k = s * q + y /\ y = (a + k) % s
  <2>1. a + k \in Nat
    OBVIOUS
  <2> QED
      BY <2>1, ModIs
<1>3. Wrapped(x, k, s) \in 0 .. s - 1
  BY DEF Wrapped
<1>4. CASE x + k < s
  <2>1. s * p + (x + k) = s * q + y /\ x + k \in 0 .. s - 1
    <3>1. s * p \in Int /\ s * q \in Int
      OBVIOUS
    <3> QED
      BY <1>1, <1>2, <1>4, <3>1
  <2> QED
      BY <1>1, <1>2, <1>4, <2>1, ModUnique DEF Wrapped
<1>5. CASE x + k >= s
  <2>1. s * (p + 1) + (x + k - s) = s * q + y /\ x + k - s \in 0 .. s - 1 /\ p + 1 \in Int
    <3>1. s * p \in Int /\ s * q \in Int /\ s * (p + 1) = s * p + s
      OBVIOUS
    <3> QED
      BY <1>1, <1>2, <1>5, <3>1
  <2>2. x + k - s = y
    BY <2>1, ModUnique
  <2>3. Wrapped(x, k, s) = x + k - s
    BY <1>5 DEF Wrapped
  <2> QED
      BY <1>1, <1>2, <2>2, <2>3
<1> QED
      BY <1>4, <1>5

BufSteps == {"idle", "scan", "polling", "over"}

BufTyped ==
  /\ input \in [1 .. MaxInput -> Buffer!Char] /\ arrived \in 0 .. MaxInput
  /\ head \in Nat /\ tail \in Nat /\ bpos \in Nat /\ bpc \in BufSteps
  /\ taken \in Seq(Seq(Buffer!Char)) /\ cuts \in Seq(Nat) /\ Len(taken) = Len(cuts)

\* How much of the input was handed out
Handed == Buffer!Cut(Len(cuts))

\* The ring b of s places holds, from h up to t, what came in behind the first n up to
\* the first a.
Ring(b, s, h, t, n, a) ==
  /\ s \in Nat \ {0} /\ h \in Nat /\ t \in Nat /\ h <= t /\ t <= h + s
  /\ b \in [0 .. s - 1 -> Buffer!Char]
  /\ n + (t - h) = a
  /\ \A j \in 0 .. t - h - 1 : b[(h + j) % s] = input[n + j + 1]

\* No delimiter in what came in behind the first n, up to m more
Clean(n, m) == \A j \in 0 .. m - 1 : input[n + j + 1] # Buffer!Delimiter

LineOK(k) ==
  /\ Buffer!Ends(taken[k]) = {Len(taken[k])} /\ Len(taken[k]) <= MaxSize
  /\ taken[k] = Buffer!Piece(Buffer!Cut(k - 1), Buffer!Cut(k))

BufInv ==
  /\ BufTyped
  /\ Handed \in Nat /\ Ring(buf, size, head, tail, Handed, arrived)
  /\ head <= bpos /\ bpos <= tail /\ Clean(Handed, bpos - head)
  /\ \A k \in 1 .. Len(taken) : LineOK(k)

LEMMA BufStart ==
  ASSUME Buffer!BufferAssumption, Buffer!Init PROVE BufInv
<1> USE DEF Buffer!Init
<1>1. MaxInput \in Nat /\ size \in Nat \ {0}
  BY DEF Buffer!BufferAssumption
<1>2. Len(cuts) = 0 /\ Len(taken) = 0 /\ Handed = 0
  BY DEF Handed, Buffer!Cut
<1>3. BufTyped
  BY <1>1, <1>2 DEF BufTyped, BufSteps
<1>4. Ring(buf, size, head, tail, Handed, arrived)
  BY <1>1, <1>2 DEF Ring, Buffer!Char
<1>5. QED
  BY <1>2, <1>3, <1>4 DEF BufInv, Clean

\* What take_until copies is what the ring holds, in order.
LEMMA BetweenIs ==
  ASSUME NEW S, size \in Nat \ {0}, buf \in [0 .. size - 1 -> S],
         NEW a \in Nat, NEW n \in 1 .. size
  PROVE  /\ Buffer!Between(a, n) \in Seq(S) /\ Len(Buffer!Between(a, n)) = n
         /\ \A k \in 1 .. n : Buffer!Between(a, n)[k] = buf[(a + k - 1) % size]
<1>0. PICK s \in Nat \ {0} : s = size
  OBVIOUS
<1>1a. PICK x \in 0 .. s - 1 : x = a % s
  <2>1. 0 \in 0 .. s /\ a % s \in 0 .. s - 1
    BY ModAdd
  <2>2. QED
    BY <2>1
<1>1. s = size /\ x = a % s
  BY <1>0, <1>1a
<1>2. \A k \in 0 .. s : (a + k) % s = Wrapped(x, k, s)
  BY <1>1, ModAdd
<1>3. PICK y \in 0 .. s - 1 : y = (a + n) % s /\ y = Wrapped(x, n, s)
  <2>1. Wrapped(x, n, s) \in 0 .. s - 1
    BY <1>1 DEF Wrapped
  <2>2. QED
    BY <1>1, <1>2, <2>1
<1> DEFINE part(i, j) == [k \in 1 .. j - i |-> buf[i + k - 1]]
<1>4. ASSUME NEW i \in 0 .. s, NEW j \in i .. s
      PROVE  /\ part(i, j) \in Seq(S) /\ Len(part(i, j)) = j - i
             /\ \A k \in 1 .. j - i : part(i, j)[k] = buf[i + k - 1]
  <2>1. j - i \in Nat /\ \A k \in 1 .. j - i : buf[i + k - 1] \in S
    BY <1>1
  <2>2. QED
    BY <2>1
<1>5. \A k \in 1 .. n : (a + k - 1) % s = Wrapped(x, k - 1, s)
  <2>1. SUFFICES ASSUME NEW k \in 1 .. n PROVE (a + k - 1) % s = Wrapped(x, k - 1, s)
    OBVIOUS
  <2>2. k - 1 \in 0 .. s /\ a + k - 1 = a + (k - 1)
    BY <1>1
  <2>3. QED
    BY <1>2, <2>2
<1>6. Buffer!Between(a, n) = IF x < y THEN part(x, y) ELSE part(x, s) \o part(0, y)
  BY <1>1, <1>3 DEF Buffer!Between
<1> HIDE DEF part
<1>7. CASE x + n < s
  <2>1. y = x + n /\ x < y /\ y \in x .. s
    BY <1>1, <1>3, <1>7 DEF Wrapped
  <2>2. Buffer!Between(a, n) = part(x, y)
    BY <1>6, <2>1
  <2>3. part(x, y) \in Seq(S) /\ Len(part(x, y)) = n
        /\ \A k \in 1 .. n : part(x, y)[k] = buf[x + k - 1]
    <3>1. y - x = n /\ x \in 0 .. s
      BY <1>1, <2>1
    <3>2. /\ part(x, y) \in Seq(S) /\ Len(part(x, y)) = y - x
          /\ \A k \in 1 .. y - x : part(x, y)[k] = buf[x + k - 1]
      BY <1>4, <2>1, <3>1
    <3>3. QED
      BY <3>1, <3>2
  <2>4. \A k \in 1 .. n : Wrapped(x, k - 1, s) = x + k - 1
    BY <1>1, <1>7 DEF Wrapped
  <2>5. ASSUME NEW k \in 1 .. n PROVE part(x, y)[k] = buf[(a + k - 1) % size]
    <3>1. part(x, y)[k] = buf[x + k - 1] /\ Wrapped(x, k - 1, s) = x + k - 1
      BY <2>3, <2>4
    <3>2. (a + k - 1) % s = Wrapped(x, k - 1, s)
      BY <1>5
    <3>3. QED
      BY <1>1, <3>1, <3>2
  <2>6. QED
    BY <2>2, <2>3, <2>5
<1>8. CASE x + n >= s
  <2>1. y = x + n - s /\ ~(x < y) /\ y \in 0 .. s /\ x \in 0 .. s
    BY <1>1, <1>3, <1>8 DEF Wrapped
  <2>2. PICK v \in Seq(S) : v = part(x, s) /\ Len(v) = s - x
                            /\ \A k \in 1 .. s - x : v[k] = buf[x + k - 1]
    <3>1. s \in x .. s
      BY <2>1
    <3>2. /\ part(x, s) \in Seq(S) /\ Len(part(x, s)) = s - x
          /\ \A k \in 1 .. s - x : part(x, s)[k] = buf[x + k - 1]
      BY <1>4, <2>1, <3>1
    <3>3. QED
      BY <3>2
  <2>3. PICK w \in Seq(S) : w = part(0, y) /\ Len(w) = y /\ \A k \in 1 .. y : w[k] = buf[k - 1]
    <3>1. y - 0 = y /\ y \in 0 .. s /\ 0 \in 0 .. s /\ \A k \in 1 .. y : 0 + k - 1 = k - 1
      BY <2>1
    <3>2. /\ part(0, y) \in Seq(S) /\ Len(part(0, y)) = y - 0
          /\ \A k \in 1 .. y - 0 : part(0, y)[k] = buf[0 + k - 1]
      BY <1>4, <3>1
    <3>3. /\ part(0, y) \in Seq(S) /\ Len(part(0, y)) = y
          /\ \A k \in 1 .. y : part(0, y)[k] = buf[k - 1]
      BY <3>1, <3>2
    <3>4. QED
      BY <3>3
  <2>4. PICK z : z = v \o w /\ z = Buffer!Between(a, n)
    BY <1>6, <2>1, <2>2, <2>3
  <2>5. /\ z \in Seq(S) /\ Len(z) = n
        /\ \A k \in 1 .. s - x : z[k] = v[k]
        /\ \A m \in 1 .. y : z[s - x + m] = w[m]
    <3>1. (s - x) + y = n /\ s - x \in Nat /\ y \in Nat
      BY <1>1, <2>1
    <3>2. /\ z \in Seq(S) /\ Len(z) = Len(v) + Len(w)
          /\ \A k \in 1 .. Len(v) : z[k] = v[k]
          /\ \A m \in 1 .. Len(w) : z[Len(v) + m] = w[m]
      <4>1. v \o w \in Seq(S) /\ Len(v \o w) = Len(v) + Len(w)
        BY SMT
      <4>2. ASSUME NEW k \in 1 .. Len(v) PROVE (v \o w)[k] = v[k]
        BY SMT
      <4>3. ASSUME NEW m \in 1 .. Len(w) PROVE (v \o w)[Len(v) + m] = w[m]
        BY SMT
      <4>4. QED
        BY <2>4, <4>1, <4>2, <4>3
    <3>3. QED
      BY <2>2, <2>3, <3>1, <3>2
  <2>6. ASSUME NEW k \in 1 .. n PROVE z[k] = buf[Wrapped(x, k - 1, s)]
    <3> k \in Int /\ s - x \in Int /\ n \in Int
      BY <1>1
    <3>1. CASE k <= s - x
      <4>1. z[k] = v[k] /\ v[k] = buf[x + k - 1]
        BY <2>2, <2>5, <3>1
      <4>2. Wrapped(x, k - 1, s) = x + k - 1
        BY <1>1, <3>1 DEF Wrapped
      <4>3. QED
        BY <4>1, <4>2
    <3>2. CASE k > s - x
      <4>1. k - (s - x) \in 1 .. y /\ k = s - x + (k - (s - x))
        BY <1>1, <2>1, <3>2
      <4>2. PICK m \in 1 .. y : m = k - (s - x) /\ k = s - x + m
        BY <4>1
      <4>3. z[k] = w[m] /\ w[m] = buf[m - 1]
        BY <2>3, <2>5, <4>2
      <4>4. Wrapped(x, k - 1, s) = m - 1
        BY <1>1, <3>2, <4>2 DEF Wrapped
      <4>5. QED
        BY <4>3, <4>4
    <3>3. QED
      BY <3>1, <3>2
  <2>7. ASSUME NEW k \in 1 .. n PROVE z[k] = buf[(a + k - 1) % size]
    <3>1. (a + k - 1) % s = Wrapped(x, k - 1, s)
      BY <1>5
    <3>2. QED
      BY <1>1, <2>6, <3>1
  <2>8. QED
    BY <2>4, <2>5, <2>7
<1>9. QED
  BY <1>1, <1>7, <1>8

\* What stays as it is when a string is handed out, and when nothing is.
LEMMA LinesKept ==
  ASSUME BufInv, NEW k \in 1 .. Len(taken), input' = input, Len(cuts') >= Len(cuts),
         taken'[k] = taken[k], \A i \in 1 .. Len(cuts) : cuts'[i] = cuts[i]
  PROVE  LineOK(k)'
<1>1. k \in Nat /\ k - 1 \in Nat /\ Len(taken) = Len(cuts) /\ Len(cuts) \in Nat
  BY DEF BufInv, BufTyped
<1>2. Buffer!Cut(k)' = Buffer!Cut(k) /\ Buffer!Cut(k - 1)' = Buffer!Cut(k - 1)
  BY <1>1 DEF Buffer!Cut
<1>3. LineOK(k)
  BY DEF BufInv
<1>4. QED
  BY <1>2, <1>3 DEF LineOK, Buffer!Piece, Buffer!Ends

\* A step that hands nothing out.
LEMMA NoLineStep ==
  ASSUME BufInv, NEW b, NEW s, NEW h, NEW t,
         input' = input, taken' = taken, cuts' = cuts,
         buf' = b, size' = s, head' = h, tail' = t, arrived' \in 0 .. MaxInput,
         Ring(b, s, h, t, Handed, arrived)', bpos' \in Nat, bpc' \in BufSteps,
         h <= bpos', bpos' <= t, Clean(Handed, bpos' - h)
  PROVE  BufInv'
<1>1. Handed' = Handed /\ Handed \in Nat
  BY DEF Handed, Buffer!Cut, BufInv
<1>2. BufTyped'
  BY DEF BufInv, BufTyped, Ring
<1>3. \A k \in 1 .. Len(taken) : LineOK(k)'
  BY LinesKept DEF BufInv, BufTyped
<1>4. Clean(Handed, bpos - head)'
  BY <1>1 DEF Clean
<1>5. QED
  BY <1>1, <1>2, <1>3, <1>4 DEF BufInv

\* What is looked at is what came in.
LEMMA LookedAt ==
  ASSUME BufInv, NEW p \in head .. tail - 1
  PROVE  Buffer!At(buf, size, p) = input[Handed + (p - head) + 1]
<1>1. PICK j \in 0 .. tail - head - 1 : j = p - head /\ head + j = p
  BY DEF BufInv, BufTyped
<1>2. buf[(head + j) % size] = input[Handed + j + 1]
  BY DEF BufInv, Ring
<1>3. QED
  BY <1>1, <1>2 DEF Buffer!At

LEMMA DeliverStep ==
  ASSUME BufInv, MaxSize \in Nat, Buffer!Deliver PROVE BufInv'
<1>1. PICK p \in Buffer!Found :
        /\ \A o \in Buffer!Found : p <= o
        /\ taken' = Append(taken, Buffer!Between(head, p + 1 - head))
        /\ cuts' = Append(cuts, Handed + (p + 1 - head))
        /\ head' = head + (p + 1 - head) /\ bpos' = p + 1
  BY DEF Buffer!Deliver, Handed
<1>2. /\ input' = input /\ arrived' = arrived /\ buf' = buf /\ size' = size /\ tail' = tail
      /\ bpc' = "idle"
  BY DEF Buffer!Deliver
<1>3. /\ head \in Nat /\ tail \in Nat /\ bpos \in Nat /\ size \in Nat \ {0} /\ Handed \in Nat
      /\ head <= bpos /\ bpos <= tail /\ tail <= head + size
      /\ taken \in Seq(Seq(Buffer!Char)) /\ cuts \in Seq(Nat) /\ Len(taken) = Len(cuts)
      /\ buf \in [0 .. size - 1 -> Buffer!Char] /\ Handed + (tail - head) = arrived
  BY DEF BufInv, BufTyped, Ring
<1>4. p \in bpos .. tail - 1 /\ p < head + MaxSize /\ Buffer!At(buf, size, p) = Buffer!Delimiter
  BY DEF Buffer!Found
<1>5. PICK n \in 1 .. size :
        n = p + 1 - head /\ head + n = p + 1 /\ n <= MaxSize /\ n <= tail - head
  BY <1>3, <1>4
<1>6. PICK line \in Seq(Buffer!Char) :
        /\ line = Buffer!Between(head, n) /\ Len(line) = n
        /\ \A k \in 1 .. n : line[k] = buf[(head + k - 1) % size]
  BY <1>3, BetweenIs
<1>7. \A k \in 1 .. n : line[k] = input[Handed + k]
  <2>1. SUFFICES ASSUME NEW k \in 1 .. n PROVE buf[(head + k - 1) % size] = input[Handed + k]
    BY <1>6
  <2>2. PICK j \in 0 .. tail - head - 1 : j = k - 1 /\ head + j = head + k - 1
                                          /\ Handed + j + 1 = Handed + k
    BY <1>3, <1>5
  <2>3. buf[(head + j) % size] = input[Handed + j + 1]
    BY DEF BufInv, Ring
  <2>4. QED
    BY <2>2, <2>3
<1>8. Buffer!Ends(line) = {n}
  <2>1. line[n] = Buffer!Delimiter
    <3>1. p \in head .. tail - 1 /\ Handed + (p - head) + 1 = Handed + n
      BY <1>3, <1>4, <1>5
    <3>2. QED
      BY <1>4, <1>5, <1>7, <3>1, LookedAt
  <2>2. ASSUME NEW k \in 1 .. n, k # n PROVE line[k] # Buffer!Delimiter
    <3>1. CASE head + k - 1 < bpos
      <4>1. k - 1 \in 0 .. bpos - head - 1 /\ Handed + (k - 1) + 1 = Handed + k
        BY <1>3, <1>5, <3>1
      <4>2. QED
        BY <1>7, <4>1 DEF BufInv, Clean
    <3>2. CASE head + k - 1 >= bpos
      <4>1. PICK o \in bpos .. tail - 1 :
              /\ o = head + k - 1 /\ o < p /\ o < head + MaxSize /\ ~(p <= o)
              /\ o \in head .. tail - 1 /\ Handed + (o - head) + 1 = Handed + k
        BY <1>3, <1>4, <1>5, <2>2, <3>2
      <4>2. o \notin Buffer!Found
        BY <1>1, <4>1
      <4>3. Buffer!At(buf, size, o) # Buffer!Delimiter
        BY <4>1, <4>2 DEF Buffer!Found
      <4>4. QED
        BY <1>7, <4>1, <4>3, LookedAt
    <3>3. QED
      BY <1>3, <3>1, <3>2
  <2>3. DOMAIN line = 1 .. n /\ n \in 1 .. n
    BY <1>5, <1>6
  <2>4. QED
    BY <2>1, <2>2, <2>3 DEF Buffer!Ends
<1>9. PICK m \in Nat : m = Len(taken) /\ m = Len(cuts)
  BY <1>3
<1>10. /\ taken' = Append(taken, line) /\ cuts' = Append(cuts, Handed + n)
       /\ head' = head + n /\ bpos' = head + n /\ Handed + n \in Nat
  BY <1>1, <1>3, <1>5, <1>6
<1>11. /\ Len(taken') = m + 1 /\ taken'[m + 1] = line /\ taken' \in Seq(Seq(Buffer!Char))
       /\ \A k \in 1 .. m : taken'[k] = taken[k]
  BY <1>3, <1>9, <1>10
<1>12. /\ Len(cuts') = m + 1 /\ cuts'[m + 1] = Handed + n /\ cuts' \in Seq(Nat)
       /\ \A k \in 1 .. m : cuts'[k] = cuts[k]
  BY <1>3, <1>9, <1>10
<1>13. Handed' = Handed + n
  BY <1>9, <1>12 DEF Handed, Buffer!Cut
<1>14. ASSUME NEW k \in 1 .. Len(taken') PROVE LineOK(k)'
  <2>1. CASE k \in 1 .. m
    <3>1. /\ k \in 1 .. Len(taken) /\ input' = input /\ taken'[k] = taken[k]
          /\ \A i \in 1 .. Len(cuts) : cuts'[i] = cuts[i]
      BY <1>2, <1>9, <1>11, <1>12, <2>1
    <3>2. Len(cuts') >= Len(cuts)
      BY <1>9, <1>12
    <3>3. QED
      BY <3>1, <3>2, LinesKept
  <2>2. CASE k = m + 1
    <3>1. Buffer!Cut(k)' = Handed + n
      BY <1>9, <1>12, <2>2 DEF Buffer!Cut
    <3>2. Buffer!Cut(k - 1)' = Handed
      <4>1. k - 1 = m
        BY <2>2
      <4>2. Buffer!Cut(m)' = Buffer!Cut(m)
        BY <1>9, <1>12 DEF Buffer!Cut
      <4>3. QED
        BY <1>9, <4>1, <4>2 DEF Handed
    <3>3. PICK f \in Nat, g \in Nat : f = Handed /\ g = Handed + n
      BY <1>3, <1>10
    <3>4. taken'[k] = line /\ Len(line) = n
      BY <1>6, <1>11, <2>2
    <3>5. line = [i \in 1 .. g - f |-> input[f + i]]
      <4>1. g - f = n
        BY <1>3, <1>5, <3>3
      <4>2. line = [i \in 1 .. n |-> input[f + i]]
        BY <1>6, <1>7, <3>3
      <4>3. QED
        BY <4>1, <4>2
    <3>6. (Buffer!Ends(taken[k]) = {Len(taken[k])})'
      BY <1>8, <3>4 DEF Buffer!Ends
    <3>7. Buffer!Piece(f, g)' = line
      BY <1>2, <3>5 DEF Buffer!Piece
    <3>8. Buffer!Piece(Buffer!Cut(k - 1), Buffer!Cut(k))' = Buffer!Piece(f, g)'
      BY <3>1, <3>2, <3>3 DEF Buffer!Piece
    <3>9. MaxSize' = MaxSize /\ (Len(taken[k]) <= MaxSize)'
      BY <1>5, <3>4
    <3>10. QED
      BY <3>4, <3>6, <3>7, <3>8, <3>9 DEF LineOK
  <2>3. QED
    BY <1>9, <1>11, <2>1, <2>2
<1>15. Ring(buf, size, head, tail, Handed, arrived)'
  <2>1. ASSUME NEW j \in 0 .. tail - (head + n) - 1
        PROVE  buf[(head + n + j) % size] = input[Handed + n + j + 1]
    <3>0. n + j \in 0 .. tail - head - 1
      <4>1. n \in Int /\ head \in Int /\ tail \in Int /\ n >= 1
        BY <1>3, <1>5
      <4>2. j \in Int /\ 0 <= j /\ j <= tail - (head + n) - 1
        BY <4>1
      <4>3. QED
        BY <4>1, <4>2
    <3>1. PICK i \in 0 .. tail - head - 1 : i = n + j /\ head + i = head + n + j
                                           /\ Handed + i + 1 = Handed + n + j + 1
      BY <1>3, <3>0
    <3>2. buf[(head + i) % size] = input[Handed + i + 1]
      BY DEF BufInv, Ring
    <3>3. QED
      BY <3>1, <3>2
  <2>2. Handed + n + (tail - (head + n)) = arrived /\ head + n \in Nat /\ head + n <= tail
        /\ tail <= head + n + size
    BY <1>3, <1>5
  <2>3. QED
    BY <1>2, <1>3, <1>10, <1>13, <2>1, <2>2 DEF Ring
<1>16. BufTyped'
  <2>1. input' \in [1 .. MaxInput -> Buffer!Char]' /\ arrived' \in 0 .. MaxInput
    BY <1>2 DEF BufInv, BufTyped, Buffer!Char
  <2>2. head' \in Nat /\ tail' \in Nat /\ bpos' \in Nat /\ bpc' \in BufSteps
    <3>1. head + n \in Nat
      BY <1>3, <1>5
    <3>2. QED
      BY <1>2, <1>3, <1>10, <3>1 DEF BufSteps
  <2>3. taken' \in Seq(Seq(Buffer!Char)) /\ cuts' \in Seq(Nat) /\ Len(taken') = Len(cuts')
    BY <1>11, <1>12
  <2>4. QED
    BY <2>1, <2>2, <2>3 DEF BufTyped
<1>17. Clean(Handed, bpos - head)' /\ head' <= bpos' /\ bpos' <= tail'
  <2>1. head + n \in Int /\ head + n <= tail /\ tail \in Int
    <3>1. n \in Int /\ head \in Int /\ tail \in Int
      BY <1>3, <1>5
    <3>2. QED
      BY <1>5, <3>1
  <2>2. bpos' - head' = 0 /\ head' <= bpos' /\ bpos' <= tail'
    BY <1>2, <1>10, <2>1
  <2>3. QED
    BY <2>2 DEF Clean
<1>18. QED
  BY <1>10, <1>13, <1>14, <1>15, <1>16, <1>17 DEF BufInv

LEMMA ModSmall ==
  ASSUME NEW s \in Nat \ {0}, NEW a \in 0 .. s - 1
  PROVE  a % s = a
<1>1. PICK p \in Int, x \in 0 .. s - 1 : a = s * p + x /\ x = a % s
  <2>1. a \in Nat
    OBVIOUS
  <2>2. QED
    BY <2>1, ModIs
<1>2. s * p + x = s * 0 + a
  BY <1>1
<1>3. x = a
  BY <1>2, ModUnique
<1>4. QED
  BY <1>1, <1>3

\* A ring that has grown holds the same from its first place on.
LEMMA GrownRing ==
  ASSUME BufInv, head + size = tail
  PROVE  Ring(Buffer!Grown.buf, 2 * size, 0, size, Handed, arrived)
<1>1. PICK s \in Nat \ {0} : s = size /\ 2 * s \in Nat \ {0}
  BY DEF BufInv, Ring
<1>2. head \in Nat /\ tail - head = s /\ buf \in [0 .. s - 1 -> Buffer!Char]
      /\ Handed + s = arrived
  BY <1>1 DEF BufInv, BufTyped, Ring
<1>3. PICK x \in 0 .. s - 1 : x = head % s
  BY <1>1, <1>2, ModAdd, 0 \in 0 .. s
<1>4. PICK G : G = Buffer!Grown.buf
  OBVIOUS
<1>5. G = [i \in 0 .. 2 * s - 1 |->
             IF i < s - x THEN buf[x + i] ELSE IF i < s THEN buf[i - (s - x)] ELSE "a"]
  BY <1>1, <1>3, <1>4 DEF Buffer!Grown
<1>6. \A j \in 0 .. s - 1 : G[j] = buf[Wrapped(x, j, s)]
  <2>1. SUFFICES ASSUME NEW j \in 0 .. s - 1 PROVE G[j] = buf[Wrapped(x, j, s)]
    OBVIOUS
  <2>2. G[j] = IF j < s - x THEN buf[x + j] ELSE buf[j - (s - x)]
    BY <1>5
  <2>3. CASE j < s - x
    BY <2>2, <2>3 DEF Wrapped
  <2>4. CASE ~(j < s - x)
    <3>1. j - (s - x) = x + j - s /\ ~(x + j < s)
      BY <2>4
    <3>2. QED
      BY <2>2, <2>4, <3>1 DEF Wrapped
  <2>5. QED
    BY <2>3, <2>4
<1>7. G \in [0 .. 2 * s - 1 -> Buffer!Char]
  <2>1. ASSUME NEW i \in 0 .. 2 * s - 1 PROVE G[i] \in Buffer!Char
    <3>1. CASE i < s - x
      <4>1. x + i \in 0 .. s - 1
        BY <3>1
      <4>2. QED
        BY <1>2, <1>5, <3>1, <4>1
    <3>2. CASE ~(i < s - x) /\ i < s
      <4>1. i - (s - x) \in 0 .. s - 1
        BY <3>2
      <4>2. QED
        BY <1>2, <1>5, <3>2, <4>1
    <3>3. CASE ~(i < s - x) /\ ~(i < s)
      BY <1>5, <3>3 DEF Buffer!Char
    <3>4. QED
      BY <3>1, <3>2, <3>3
  <2>2. QED
    BY <1>5, <2>1
<1>8. ASSUME NEW j \in 0 .. s - 1 PROVE G[(0 + j) % (2 * s)] = input[Handed + j + 1]
  <2>1. (0 + j) % (2 * s) = j
    <3>1. j \in 0 .. 2 * s - 1 /\ 0 + j = j
      OBVIOUS
    <3>2. QED
      BY <1>1, <3>1, ModSmall
  <2>2. buf[(head + j) % s] = input[Handed + j + 1]
    BY <1>1, <1>2 DEF BufInv, Ring
  <2>3. (head + j) % s = Wrapped(x, j, s)
    BY <1>2, <1>3, ModAdd, j \in 0 .. s
  <2>4. QED
    BY <1>6, <2>1, <2>2, <2>3
<1>9. s - 0 = s /\ 0 <= s /\ s <= 0 + 2 * s /\ 0 \in Nat /\ s \in Nat
  OBVIOUS
<1>10. QED
  BY <1>1, <1>2, <1>4, <1>7, <1>8, <1>9 DEF Ring

\* There is room for n behind y, up to the end of the ring or to x.
Fits(n, x, y, s) == n <= IF x <= y THEN s - y ELSE x - y

\* The n places from y on are those behind the first d, and none of these.
Behind(n, x, d, y, s) ==
  /\ y \in 0 .. s - 1 /\ y + n <= s /\ d + n <= s
  /\ \A j \in 0 .. d - 1 : Wrapped(x, j, s) \notin y .. y + n - 1
  /\ \A i \in 0 .. n - 1 : Wrapped(x, d + i, s) = y + i

\* What is read goes behind the tail, where nothing is that is still wanted.
LEMMA RoomIs ==
  ASSUME NEW s \in Nat \ {0}, NEW x \in 0 .. s - 1, NEW d \in 0 .. s - 1, NEW n \in Nat,
         NEW y \in Int, y = Wrapped(x, d, s), Fits(n, x, y, s)
  PROVE  Behind(n, x, d, y, s)
<1> USE DEF Behind
<1>1. CASE x + d < s
  <2>1. y = x + d /\ n <= s - y
    BY <1>1 DEF Wrapped, Fits
  <2>2. QED
    BY <1>1, <2>1 DEF Wrapped
<1>2. CASE ~(x + d < s)
  <2>1. y = x + d - s /\ n <= x - y
    BY <1>2 DEF Wrapped, Fits
  <2>2. QED
    BY <1>2, <2>1 DEF Wrapped
<1>3. QED
  BY <1>1, <1>2

LEMMA RingRead ==
  ASSUME NEW b, NEW s, NEW h, NEW t, NEW f \in Nat, NEW a \in Nat, NEW n \in Nat, NEW c,
         Ring(b, s, h, t, f, a), t < h + s, a + n <= MaxInput,
         input \in [1 .. MaxInput -> Buffer!Char], MaxInput \in Nat,
         n <= Buffer!Room([buf |-> b, size |-> s, head |-> h, tail |-> t]),
         c = [i \in 0 .. s - 1 |->
               IF i \in (t % s) .. (t % s) + n - 1 THEN input[a + i - (t % s) + 1] ELSE b[i]]
  PROVE  Ring(c, s, h, t + n, f, a + n)
<1>1. /\ s \in Nat \ {0} /\ h \in Nat /\ t \in Nat /\ h <= t
      /\ b \in [0 .. s - 1 -> Buffer!Char] /\ f + (t - h) = a
  BY DEF Ring
<1>2. PICK d \in 0 .. s - 1 : d = t - h /\ t = h + d
  <2>1. t - h \in 0 .. s - 1 /\ t = h + (t - h)
    BY <1>1
  <2>2. QED
    BY <2>1
<1>3. PICK x \in 0 .. s - 1 : x = h % s
  BY <1>1, ModAdd, 0 \in 0 .. s
<1>4. ASSUME NEW j \in 0 .. s PROVE (h + j) % s = Wrapped(x, j, s)
  BY <1>1, <1>3, ModAdd
<1>5. PICK y \in Int : y = t % s /\ y = Wrapped(x, d, s)
  <2>1. Wrapped(x, d, s) \in Int /\ d \in 0 .. s
    BY <1>1 DEF Wrapped
  <2>2. QED
    BY <1>2, <1>4, <2>1
<1>6. Fits(n, x, y, s)
  BY <1>3, <1>5 DEF Buffer!Room, Fits
<1>7. /\ y \in 0 .. s - 1 /\ y + n <= s /\ d + n <= s
      /\ \A j \in 0 .. d - 1 : Wrapped(x, j, s) \notin y .. y + n - 1
      /\ \A i \in 0 .. n - 1 : Wrapped(x, d + i, s) = y + i
  <2>1. /\ s \in Nat \ {0} /\ y = Wrapped(x, d, s) /\ y \in Int
        /\ x \in 0 .. s - 1 /\ d \in 0 .. s - 1
    BY <1>1, <1>2, <1>3, <1>5
  <2>2. Behind(n, x, d, y, s)
    BY <1>6, <2>1, RoomIs
  <2>3. QED
    BY <2>2 DEF Behind
<1>8. /\ \A i \in y .. y + n - 1 : i \in 0 .. s - 1 /\ c[i] = input[a + i - y + 1]
      /\ \A i \in 0 .. s - 1 : i \notin y .. y + n - 1 => c[i] = b[i]
  BY <1>1, <1>5, <1>7
<1>9. c \in [0 .. s - 1 -> Buffer!Char]
  <2>1. ASSUME NEW i \in 0 .. s - 1 PROVE c[i] \in Buffer!Char
    <3>1. CASE i \in y .. y + n - 1
      <4>1. a + i - y + 1 \in 1 .. MaxInput
        BY <1>7, <3>1
      <4>2. QED
        BY <1>8, <3>1, <4>1
    <3>2. CASE i \notin y .. y + n - 1
      BY <1>1, <1>8, <3>2
    <3>3. QED
      BY <3>1, <3>2
  <2>2. QED
    BY <2>1
<1>10. ASSUME NEW j \in 0 .. d + n - 1 PROVE c[(h + j) % s] = input[f + j + 1]
  <2>1. (h + j) % s = Wrapped(x, j, s) /\ Wrapped(x, j, s) \in 0 .. s - 1
    <3>1. j \in 0 .. s /\ j < s
      BY <1>1, <1>7
    <3>2. Wrapped(x, j, s) \in 0 .. s - 1
      BY <1>1, <3>1 DEF Wrapped
    <3>3. QED
      BY <1>4, <3>1, <3>2
  <2>2. CASE j < d
    <3>1. j \in 0 .. t - h - 1 /\ j \in 0 .. d - 1
      BY <1>1, <1>2, <2>2
    <3>2. b[(h + j) % s] = input[f + j + 1]
      BY <3>1 DEF Ring
    <3>3. Wrapped(x, j, s) \notin y .. y + n - 1
      BY <1>7, <3>1
    <3>4. QED
      BY <1>8, <2>1, <3>2, <3>3
  <2>3. CASE ~(j < d)
    <3>1. j - d \in 0 .. n - 1 /\ j = d + (j - d) /\ f + j + 1 = a + (j - d) + 1
      BY <1>1, <1>2, <2>3
    <3>2. PICK i \in 0 .. n - 1 : j = d + i /\ f + j + 1 = a + i + 1
      BY <3>1
    <3>3. Wrapped(x, j, s) = y + i
      BY <1>7, <3>2
    <3>4. y + i \in y .. y + n - 1 /\ a + (y + i) - y + 1 = a + i + 1
      BY <1>7
    <3>5. QED
      <4>1. c[y + i] = input[a + (y + i) - y + 1]
        BY <1>8, <3>4
      <4>2. QED
        BY <2>1, <3>2, <3>3, <3>4, <4>1
  <2>4. QED
    BY <2>2, <2>3
<1>11. /\ t + n - h = d + n /\ f + (d + n) = a + n /\ t + n \in Nat /\ h <= t + n
       /\ t + n <= h + s
  <2>1. h \in Int /\ s \in Int /\ f \in Int /\ a = f + d /\ t = h + d /\ d + n <= s
    BY <1>1, <1>2, <1>7
  <2>2. QED
    BY <1>1, <2>1
<1>12. \A j \in 0 .. (t + n) - h - 1 : c[(h + j) % s] = input[f + j + 1]
  <2>1. (t + n) - h - 1 = d + n - 1
    BY <1>1, <1>2
  <2>2. QED
    BY <1>10, <2>1
<1>13. f + ((t + n) - h) = a + n
  BY <1>1, <1>2
<1>14. QED
  BY <1>1, <1>9, <1>11, <1>12, <1>13 DEF Ring

LEMMA CleanToTail ==
  ASSUME BufInv, MaxSize \in Nat, Buffer!Found = {}, tail <= head + MaxSize
  PROVE  Clean(Handed, tail - head)
<1>1. head \in Nat /\ tail \in Nat /\ bpos \in Nat
  BY DEF BufInv, BufTyped
<1>2. ASSUME NEW j \in 0 .. tail - head - 1 PROVE input[Handed + j + 1] # Buffer!Delimiter
  <2>1. CASE head + j < bpos
    <3>1. j \in 0 .. bpos - head - 1
      BY <1>1, <2>1
    <3>2. QED
      BY <3>1 DEF BufInv, Clean
  <2>2. CASE head + j >= bpos
    <3>1. /\ head + j \in bpos .. tail - 1 /\ head + j \in head .. tail - 1
          /\ head + j < head + MaxSize /\ head + j - head = j
      BY <1>1, <2>2
    <3>2. PICK o : o = head + j
      OBVIOUS
    <3>3. Buffer!At(buf, size, o) # Buffer!Delimiter
      BY <3>1, <3>2 DEF Buffer!Found
    <3>4. Buffer!At(buf, size, o) = input[Handed + (o - head) + 1]
      BY <3>1, <3>2, LookedAt
    <3>5. o - head = j
      BY <1>1, <3>2
    <3>6. QED
      BY <3>3, <3>4, <3>5
  <2>3. QED
    BY <1>1, <2>1, <2>2
<1>3. QED
  BY <1>2 DEF Clean

LEMMA FillStep ==
  ASSUME BufInv, MaxInput \in Nat, MaxSize \in Nat, Buffer!FillMore PROVE BufInv'
<1>1. /\ Buffer!Found = {} /\ tail < head + MaxSize
      /\ input' = input /\ taken' = taken /\ cuts' = cuts
  BY DEF Buffer!FillMore
<1>2. PICK b :
        /\ b = IF head + size = tail THEN Buffer!Grown
               ELSE [buf |-> buf, size |-> size, head |-> head, tail |-> tail]
        /\ size' = b.size /\ head' = b.head /\ bpos' = b.tail
        /\ \/ \E n \in 1 .. Buffer!Room(b) :
                /\ arrived + n <= Len(input)
                /\ buf' = [i \in DOMAIN b.buf |->
                     IF i \in (b.tail % b.size) .. (b.tail % b.size) + n - 1
                     THEN input[arrived + i - (b.tail % b.size) + 1] ELSE b.buf[i]]
                /\ arrived' = arrived + n /\ tail' = b.tail + n /\ bpc' = bpc
           \/ /\ bpc' = IF arrived = Len(input) THEN "over" ELSE "polling"
              /\ buf' = b.buf /\ tail' = b.tail /\ arrived' = arrived
  BY DEF Buffer!FillMore
<1>3. /\ head \in Nat /\ tail \in Nat /\ size \in Nat \ {0} /\ Handed \in Nat
      /\ head <= tail /\ tail <= head + size /\ arrived \in 0 .. MaxInput /\ bpc \in BufSteps
      /\ input \in [1 .. MaxInput -> Buffer!Char]
  BY DEF BufInv, BufTyped, Ring
<1>4. PICK B, s, h, t :
        /\ b = [buf |-> B, size |-> s, head |-> h, tail |-> t]
        /\ Ring(B, s, h, t, Handed, arrived) /\ t < h + s /\ t - h = tail - head
  <2>1. CASE head + size = tail
    <3>1. Ring(Buffer!Grown.buf, 2 * size, 0, size, Handed, arrived)
      BY <2>1, GrownRing
    <3>2. b = [buf |-> Buffer!Grown.buf, size |-> 2 * size, head |-> 0, tail |-> size]
      BY <1>2, <2>1 DEF Buffer!Grown
    <3>3. size < 0 + 2 * size /\ size - 0 = tail - head
      BY <1>3, <2>1
    <3>4. QED
      BY <3>1, <3>2, <3>3
  <2>2. CASE head + size # tail
    <3>1. Ring(buf, size, head, tail, Handed, arrived) /\ tail < head + size
      BY <1>3, <2>2 DEF BufInv
    <3>2. b = [buf |-> buf, size |-> size, head |-> head, tail |-> tail]
      BY <1>2, <2>2
    <3>3. QED
      BY <3>1, <3>2
  <2>3. QED
    BY <2>1, <2>2
<1>5. b.buf = B /\ b.size = s /\ b.head = h /\ b.tail = t
  BY <1>4
<1>6. /\ s \in Nat \ {0} /\ h \in Nat /\ t \in Nat /\ h <= t /\ DOMAIN B = 0 .. s - 1
  BY <1>4 DEF Ring
<1>7. Clean(Handed, t - h)
  BY <1>1, <1>3, <1>4, CleanToTail
<1>8. Handed' = Handed
  BY <1>1 DEF Handed, Buffer!Cut
<1>9. Len(input) = MaxInput
  BY <1>3
<1>10. CASE \E n \in 1 .. Buffer!Room(b) :
              /\ arrived + n <= Len(input)
              /\ buf' = [i \in DOMAIN b.buf |->
                   IF i \in (b.tail % b.size) .. (b.tail % b.size) + n - 1
                   THEN input[arrived + i - (b.tail % b.size) + 1] ELSE b.buf[i]]
              /\ arrived' = arrived + n /\ tail' = b.tail + n /\ bpc' = bpc
  <2>1. PICK n \in 1 .. Buffer!Room(b) :
              /\ arrived + n <= Len(input)
              /\ buf' = [i \in DOMAIN b.buf |->
                   IF i \in (b.tail % b.size) .. (b.tail % b.size) + n - 1
                   THEN input[arrived + i - (b.tail % b.size) + 1] ELSE b.buf[i]]
              /\ arrived' = arrived + n /\ tail' = b.tail + n /\ bpc' = bpc
    BY <1>10
  <2>2. PICK c : /\ buf' = c
                 /\ c = [i \in 0 .. s - 1 |->
                      IF i \in (t % s) .. (t % s) + n - 1
                      THEN input[arrived + i - (t % s) + 1] ELSE B[i]]
    BY <1>5, <1>6, <2>1
  <2>3. Buffer!Room(b) \in Int
    <3>1. h % s \in Int /\ t % s \in Int
      BY <1>6
    <3>2. QED
      BY <1>5, <1>6, <3>1 DEF Buffer!Room
  <2>4. n \in Nat /\ n <= Buffer!Room(b)
    BY <2>1, <2>3
  <2>5. Ring(c, s, h, t + n, Handed, arrived + n)
    <3>1. arrived \in Nat /\ arrived + n <= MaxInput
      BY <1>3, <1>9, <2>1
    <3>2. n <= Buffer!Room([buf |-> B, size |-> s, head |-> h, tail |-> t])
      BY <1>4, <2>4
    <3>3. QED
      BY <1>3, <1>4, <2>2, <2>4, <3>1, <3>2, RingRead
  <2>6. PICK u : u = t + n /\ u \in Nat /\ tail' = u /\ t <= u
    BY <1>5, <1>6, <2>1, <2>4
  <2>7. Ring(c, s, h, u, Handed, arrived)'
    BY <1>1, <1>8, <2>1, <2>5, <2>6 DEF Ring
  <2>8. /\ arrived' \in 0 .. MaxInput /\ bpos' = t /\ bpos' \in Nat /\ bpc' \in BufSteps
        /\ size' = s /\ head' = h /\ h <= bpos' /\ bpos' <= u
    <3>1. arrived' \in 0 .. MaxInput
      BY <1>3, <1>9, <2>1, <2>4
    <3>2. bpos' = t /\ bpc' = bpc /\ size' = s /\ head' = h
      BY <1>2, <1>5, <2>1
    <3>3. QED
      BY <1>3, <1>6, <2>6, <3>1, <3>2
  <2>9. Clean(Handed, bpos' - h)
    BY <1>7, <2>8
  <2>10. QED
    BY <1>1, <2>2, <2>6, <2>7, <2>8, <2>9, NoLineStep
<1>11. CASE /\ bpc' = IF arrived = Len(input) THEN "over" ELSE "polling"
            /\ buf' = b.buf /\ tail' = b.tail /\ arrived' = arrived
  <2>1. Ring(B, s, h, t, Handed, arrived)'
    BY <1>1, <1>4, <1>8, <1>11 DEF Ring
  <2>2. /\ arrived' \in 0 .. MaxInput /\ bpos' = t /\ bpos' \in Nat /\ bpc' \in BufSteps
        /\ size' = s /\ head' = h /\ h <= bpos' /\ bpos' <= t /\ buf' = B /\ tail' = t
    BY <1>2, <1>3, <1>5, <1>6, <1>11 DEF BufSteps
  <2>3. Clean(Handed, bpos' - h)
    BY <1>7, <2>2
  <2>4. QED
    BY <1>1, <2>1, <2>2, <2>3, NoLineStep
<1>12. QED
  BY <1>2, <1>10, <1>11

\* The ring and what was handed out stay as they are.
LEMMA MarkStep ==
  ASSUME BufInv, input' = input, arrived' = arrived, buf' = buf, size' = size, head' = head,
         tail' = tail, taken' = taken, cuts' = cuts,
         bpos' \in Nat, bpc' \in BufSteps, head <= bpos', bpos' <= tail,
         Clean(Handed, bpos' - head)
  PROVE  BufInv'
<1>1. PICK b, s, h, t : b = buf /\ s = size /\ h = head /\ t = tail
  OBVIOUS
<1>2. Handed' = Handed /\ arrived' \in 0 .. MaxInput
  BY DEF Handed, Buffer!Cut, BufInv, BufTyped
<1>3. Ring(b, s, h, t, Handed, arrived)'
  <2>1. Ring(b, s, h, t, Handed, arrived)
    BY <1>1 DEF BufInv
  <2>2. QED
    BY <1>2, <2>1 DEF Ring
<1>4. QED
  BY <1>1, <1>2, <1>3, NoLineStep

LEMMA BufStep ==
  ASSUME Buffer!BufferAssumption, BufInv, [Buffer!Next]_Buffer!vars
  PROVE  BufInv'
<1>1. MaxInput \in Nat /\ MaxSize \in Nat
  BY DEF Buffer!BufferAssumption
<1>2. /\ head \in Nat /\ tail \in Nat /\ bpos \in Nat /\ head <= bpos /\ bpos <= tail
      /\ Clean(Handed, bpos - head) /\ bpc \in BufSteps
  BY DEF BufInv, BufTyped
<1>3. CASE Buffer!TakeUntil
  <2>1. bpos' = head /\ bpc' = "scan" /\ head - head = 0
    BY <1>2, <1>3 DEF Buffer!TakeUntil
  <2>2. Clean(Handed, bpos' - head)
    BY <2>1 DEF Clean
  <2>3. bpos' \in Nat /\ bpc' \in BufSteps /\ head <= bpos' /\ bpos' <= tail
    BY <1>2, <2>1 DEF BufSteps
  <2>4. QED
    BY <1>3, <2>2, <2>3, MarkStep DEF Buffer!TakeUntil
<1>4. CASE Buffer!Deliver
  BY <1>1, <1>4, DeliverStep
<1>5. CASE Buffer!TooBig
  <2>1. /\ bpos' = head + MaxSize /\ bpc' = "over" /\ Buffer!Found = {}
        /\ tail >= head + MaxSize
    BY <1>5 DEF Buffer!TooBig
  <2>2. Clean(Handed, bpos' - head)
    <3>1. ASSUME NEW j \in 0 .. MaxSize - 1 PROVE input[Handed + j + 1] # Buffer!Delimiter
      <4>1. CASE head + j < bpos
        <5>1. j \in 0 .. bpos - head - 1
          BY <1>2, <4>1
        <5>2. QED
          BY <1>2, <5>1 DEF Clean
      <4>2. CASE head + j >= bpos
        <5>1. /\ head + j \in bpos .. tail - 1 /\ head + j \in head .. tail - 1
              /\ head + j < head + MaxSize /\ head + j - head = j
          BY <1>1, <1>2, <2>1, <4>2
        <5>2. PICK o : o = head + j
          OBVIOUS
        <5>3. Buffer!At(buf, size, o) # Buffer!Delimiter
          BY <2>1, <5>1, <5>2 DEF Buffer!Found
        <5>4. Buffer!At(buf, size, o) = input[Handed + (o - head) + 1]
          BY <5>1, <5>2, LookedAt
        <5>5. o - head = j
          BY <1>1, <1>2, <5>2
        <5>6. QED
          BY <5>3, <5>4, <5>5
      <4>3. QED
        BY <1>2, <4>1, <4>2
    <3>2. bpos' - head = MaxSize
      BY <1>1, <1>2, <2>1
    <3>3. QED
      BY <3>1, <3>2 DEF Clean
  <2>3. bpos' \in Nat /\ bpc' \in BufSteps /\ head <= bpos' /\ bpos' <= tail
    BY <1>1, <1>2, <2>1 DEF BufSteps
  <2>4. QED
    BY <1>5, <2>2, <2>3, MarkStep DEF Buffer!TooBig
<1>6. CASE Buffer!FillMore
  BY <1>1, <1>6, FillStep
<1>7. CASE Buffer!Ready
  <2>1. bpos' = bpos /\ bpc' = "scan"
    BY <1>7 DEF Buffer!Ready
  <2>2. bpos' \in Nat /\ bpc' \in BufSteps /\ head <= bpos' /\ bpos' <= tail
        /\ Clean(Handed, bpos' - head)
    BY <1>2, <2>1 DEF BufSteps
  <2>3. QED
    BY <1>7, <2>2, MarkStep DEF Buffer!Ready
<1>8. CASE Buffer!Cancel
  <2>1. bpos' = bpos /\ bpc' = "idle"
    BY <1>8 DEF Buffer!Cancel
  <2>2. bpos' \in Nat /\ bpc' \in BufSteps /\ head <= bpos' /\ bpos' <= tail
        /\ Clean(Handed, bpos' - head)
    BY <1>2, <2>1 DEF BufSteps
  <2>3. QED
    BY <1>8, <2>2, MarkStep DEF Buffer!Cancel
<1>9. CASE UNCHANGED Buffer!vars
  <2>1. bpos' = bpos /\ bpc' = bpc
    BY <1>9 DEF Buffer!vars
  <2>2. QED
    BY <1>2, <1>9, <2>1, MarkStep DEF Buffer!vars
<1>10. QED
  BY <1>3, <1>4, <1>5, <1>6, <1>7, <1>8, <1>9 DEF Buffer!Next

LEMMA BufSafe ==
  ASSUME Buffer!BufferAssumption, BufInv PROVE LinesExact
<1>1. /\ head \in Nat /\ tail \in Nat /\ bpos \in Nat /\ head <= bpos /\ bpos <= tail
      /\ Handed \in Nat /\ Handed + (tail - head) = arrived /\ tail <= head + size
      /\ size \in Nat \ {0} /\ Len(taken) = Len(cuts) /\ arrived \in Nat
      /\ taken \in Seq(Seq(Buffer!Char))
  BY DEF BufInv, BufTyped, Ring, Buffer!BufferAssumption
<1>2. \A k \in DOMAIN taken :
        /\ Buffer!Ends(taken[k]) = {Len(taken[k])} /\ Len(taken[k]) <= MaxSize
        /\ taken[k] = Buffer!Piece(Buffer!Cut(k - 1), Buffer!Cut(k))
  <2>1. DOMAIN taken = 1 .. Len(taken)
    BY <1>1
  <2>2. QED
    BY <2>1 DEF BufInv, LineOK
<1>3. [k \in 1 .. tail - head |-> Buffer!At(buf, size, head + k - 1)]
        = Buffer!Piece(Buffer!Cut(Len(cuts)), arrived)
  <2>1. arrived - Handed = tail - head
    BY <1>1
  <2>2. ASSUME NEW k \in 1 .. tail - head
        PROVE  Buffer!At(buf, size, head + k - 1) = input[Handed + k]
    <3>1. PICK p \in head .. tail - 1 : p = head + k - 1 /\ Handed + (p - head) + 1 = Handed + k
      <4>1. head + k - 1 \in head .. tail - 1
            /\ Handed + ((head + k - 1) - head) + 1 = Handed + k
        BY <1>1
      <4>2. QED
        BY <4>1
    <3>2. Buffer!At(buf, size, p) = input[Handed + (p - head) + 1]
      BY <3>1, LookedAt
    <3>3. QED
      BY <3>1, <3>2
  <2>3. Buffer!Piece(Handed, arrived) = [k \in 1 .. tail - head |-> input[Handed + k]]
    BY <2>1 DEF Buffer!Piece
  <2>4. QED
    BY <2>2, <2>3 DEF Handed
<1>4. tail - head \in 0 .. size /\ bpos \in head .. tail
  BY <1>1
<1>5. ASSUME NEW p \in head .. bpos - 1
      PROVE  Buffer!At(buf, size, p) # Buffer!Delimiter
  <2>1. p \in head .. tail - 1 /\ p - head \in 0 .. bpos - head - 1
    BY <1>1
  <2>2. input[Handed + (p - head) + 1] # Buffer!Delimiter
    BY <2>1 DEF BufInv, Clean
  <2>3. QED
    BY <2>1, <2>2, LookedAt
<1>6. QED
  BY <1>1, <1>2, <1>3, <1>4, <1>5
     DEF LinesExact, Buffer!LinesExact, Buffer!NothingOverlooked

\* take_until hands out exactly the input, cut after each delimiter, and never
\* holds a line back, whatever the input, the sizes and the way it arrives.
THEOREM LinesTaken == ASSUME Buffer!BufferAssumption PROVE Buffer!Spec => []LinesExact
<1>1. Buffer!Init => BufInv
  BY BufStart
<1>2. BufInv /\ [Buffer!Next]_Buffer!vars => BufInv'
  BY BufStep
<1>3. BufInv => LinesExact
  BY BufSafe
<1>4. QED
  BY <1>1, <1>2, <1>3, PTL DEF Buffer!Spec
==============================================================================
