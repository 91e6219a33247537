---------------------------------- MODULE Fd ----------------------------------
(***************************************************************************)
(* One descriptor object, tamer::fd::fdimp, with the wrappers and the       *)
(* operations that refer to it.  An operation is a call of one of the tamed *)
(* functions of fd.tcc; it holds a weak fdref, takes its turn in the read   *)
(* or the write lock, tries the system call and waits for readiness, as     *)
(* often as it takes.  A lock is the queue of the calls that asked for it; the *)
(* first one holds it, which is what FairMutex promises of requests that   *)
(* exclude each other.                                                     *)
(***************************************************************************)
EXTENDS Integers, Sequences, FiniteSets

CONSTANTS
  Op,                 \* calls, each made once
  Size,               \* bytes that read and write are asked for
  MaxRefs,            \* bound on the wrappers at one time
  CloseOnConnect      \* whether the descriptor may be closed under a connect

VARIABLES
  fde,        \* fde_: "open" (0) or the error
  refs,       \* ref_count_: wrappers
  weak,       \* weak_count_: operations in progress, and the closer
  deleted,    \* how often the object was deleted
  closes,     \* how often the descriptor number was given to close(2)
  closer,     \* the event of closer(): "none", "armed" or "gone"
  torn,       \* whether deref closed the object under its last weak reference
  kind,       \* the operation that each call asks for
  pc,         \* "idle", "called", "locking", "polling", "woken", "linked", "done"
  active,     \* calls whose done event is active
  result,     \* what done was triggered with
  pos,        \* bytes moved so far
  called,     \* the calls in order
  moved,      \* for each direction, the call each byte was moved for
  rlock, wlock   \* rlock_ and wlock_: who asked for it, in order

locks == <<rlock, wlock>>
calls == <<kind, pc, active, result, pos, called, moved>>
imp == <<fde, refs, weak, deleted, closes, closer, torn>>
vars == <<imp, calls, locks>>

\* The calls that wait for input and for output.  Every overload, with a buffer,
\* a vector or a string, with or without a count or an error, forwards to these.
In == {"read", "read_once", "accept"}
Out == {"write", "write_once", "connect", "tcp_connect"}
Kind == In \cup Out \cup {"sendmsg", "direct"}
\* fd(f) of a number that is open
Init ==
  /\ fde = "open"
  /\ refs = 1
  /\ weak = 0
  /\ deleted = 0
  /\ closes = 0
  /\ closer = "none"
  /\ torn = FALSE
  /\ kind = [o \in Op |-> "read"]
  /\ pc = [o \in Op |-> "idle"]
  /\ active = {}
  /\ result = [o \in Op |-> "none"]
  /\ pos = [o \in Op |-> 0]
  /\ called = <<>>
  /\ moved = [d \in {"in", "out"} |-> <<>>]
  /\ rlock = <<>> /\ wlock = <<>>

Open == fde = "open"
Holds(q, o) == q # <<>> /\ Head(q) = o
Connects(o) == kind[o] \in {"connect", "tcp_connect"}

\* tcp_connect makes a descriptor that nobody else knows until it has ended;
\* udp_connect and unix_stream_connect are the same in this.
Linking == \E o \in Op : kind[o] = "tcp_connect" /\ pc[o] \notin {"idle", "done"}

\* A tamed function runs until it waits; nothing comes between.
Quiet == \A o \in Op : pc[o] # "called"
Free == Quiet /\ ~Linking

(* The object. *)

\* kill_fd triggers the readiness events of the number.
Woken == [o \in Op |-> IF pc[o] = "polling" THEN "woken" ELSE pc[o]]

\* fdimp::close with error err, which may be replaced by that of close(2).
\* _at_close is triggered; the closer's function finds the object closed.
CloseImp(err) ==
  IF Open
  THEN /\ fde' \in IF err = "EBADF" THEN {"EBADF", "error"} ELSE {err}
       /\ closes' = closes + 1
       /\ pc' = Woken
       /\ closer' = IF closer = "armed" THEN "gone" ELSE closer
  ELSE /\ fde' = IF err # "EBADF" THEN err ELSE fde
       /\ UNCHANGED <<closes, pc, closer>>

\* What weak_deref leaves of the count, for references that are gone.
WeakDeref(n) ==
  /\ weak' = weak - n
  /\ deleted' = IF n > 0 /\ weak = n /\ refs' = 0 THEN deleted + 1 ELSE deleted

MayClose == Free /\ (CloseOnConnect \/ \A o \in Op : Connects(o) => pc[o] \in {"idle", "done"})

BugCloseForgetsPollers(err) ==
  /\ MayClose /\ refs > 0
  /\ UNCHANGED <<refs, torn, kind, pc, active, result, pos, called, moved, rlock, wlock>>
  /\ fde' = IF Open \/ err # "EBADF" THEN err ELSE fde
  /\ closes' = IF Open THEN closes + 1 ELSE closes
  /\ closer' = IF Open /\ closer = "armed" THEN "gone" ELSE closer
  /\ WeakDeref(IF closer # closer' THEN 1 ELSE 0)

\* close() and close(errcode) through a wrapper
Close(err) ==
  /\ MayClose /\ refs > 0
  /\ UNCHANGED <<refs, torn>>
  /\ CloseImp(err)
  /\ WeakDeref(IF closer # closer' THEN 1 ELSE 0)
  /\ UNCHANGED <<kind, active, result, pos, called, moved, locks>>

\* Copying a wrapper; assignment copies and then drops.
Copy ==
  /\ Free /\ refs \in 1 .. MaxRefs - 1
  /\ refs' = refs + 1
  /\ UNCHANGED <<fde, weak, deleted, closes, closer, torn, calls, locks>>

\* Only a closer is left that is not a wrapper: it goes away, and the object with
\* it, in the close() of the last wrapper.
Tears == refs = 1 /\ closer = "armed" /\ weak = 1

BugDropForgetsWeak ==
  /\ Free /\ refs > 0 /\ (refs = 1 => MayClose)
  /\ refs' = refs - 1
  /\ torn' = (torn \/ Tears)
  /\ IF refs = 1 THEN CloseImp("EBADF") ELSE UNCHANGED <<fde, closes, pc, closer>>
  /\ weak' = IF closer # closer' THEN weak - 1 ELSE weak
  /\ deleted' = IF refs # 1 THEN deleted ELSE IF Tears THEN deleted + 2 ELSE deleted + 1
  /\ UNCHANGED <<kind, active, result, pos, called, moved, locks>>

\* deref: the last wrapper closes, and deletes the object if nothing weak is
\* left.  A closer that goes away during close(), as the last weak reference, has
\* deleted it already; deref finds the counts of the freed object at 0.
Drop ==
  /\ Free /\ refs > 0 /\ (refs = 1 => MayClose)
  /\ refs' = refs - 1
  /\ torn' = (torn \/ Tears)
  /\ IF refs = 1 THEN CloseImp("EBADF") ELSE UNCHANGED <<fde, closes, pc, closer>>
  /\ LET gone == IF closer # closer' THEN 1 ELSE 0 IN
       /\ weak' = weak - gone
       /\ deleted' = IF refs = 1 /\ weak = gone THEN deleted + 1 + gone ELSE deleted
  /\ UNCHANGED <<kind, active, result, pos, called, moved, locks>>

\* closer(): an event whose function closes; it is also triggered on close.
MakeCloser ==
  /\ Free /\ refs > 0 /\ Open /\ closer = "none"
  /\ closer' = "armed"
  /\ weak' = weak + 1
  /\ UNCHANGED <<fde, refs, deleted, closes, torn, calls, locks>>

\* The program triggers the closer.
TriggerCloser ==
  /\ MayClose /\ closer = "armed"
  /\ UNCHANGED <<refs, torn>>
  /\ CloseImp("EBADF")
  /\ WeakDeref(1)
  /\ UNCHANGED <<kind, active, result, pos, called, moved, locks>>

(* The operations.  What a resumed function may do until it waits or ends is  *)
(* a set of pairs: the bytes moved in the end, and how it stops; "again" is   *)
(* EAGAIN, so that it waits for readiness.  EINTR is tried again at once.     *)

Going(o) == o \in active /\ Open

\* read: until all is there, or end of file
ReadLoop(o) ==
  IF ~Going(o) THEN {<<pos[o], IF Open THEN "ok" ELSE "ECANCELED">>}
  ELSE {s \in (pos[o] .. Size) \X {"again", "ok", "error"} : s[1] = Size => s[2] = "ok"}

WriteLoop(o) ==
  IF ~Going(o) THEN {<<pos[o], IF Open THEN "ok" ELSE "ECANCELED">>}
  ELSE {s \in (pos[o] .. Size) \X {"again", "ok", "error"} : s[1] = Size => s[2] = "ok"}

\* read_once and write_once: the first success; also "ok" if it was closed
ReadOnceLoop(o) ==
  IF ~Going(o) THEN {<<0, "ok">>}
  ELSE {<<0, "again">>, <<0, "error">>} \cup (0 .. Size) \X {"ok"}

WriteOnceLoop(o) ==
  IF ~Going(o) THEN {<<0, "ok">>}
  ELSE {<<0, "again">>, <<0, "error">>} \cup (0 .. Size) \X {"ok"}

\* sendmsg takes no lock.
SendmsgLoop(o) ==
  IF ~Going(o) THEN {<<0, IF Open THEN "ok" ELSE "ECANCELED">>}
  ELSE {<<0, "again">>, <<0, "error">>, <<1, "ok">>}

AcceptLoop(o) ==
  IF ~Going(o) THEN {<<0, "ECANCELED">>}
  ELSE {<<0, "again">>, <<0, "error">>, <<1, "ok">>}

\* connect asks for the number whether or not the object was closed, which
\* fails the assertion of fdnum; after the wait it looks at done first.
ConnectStep(o) ==
  IF pc[o] = "woken" /\ pos[o] = 1
  THEN IF o \notin active THEN {<<1, "ECANCELED">>}
       ELSE IF ~Open THEN {<<1, "abort">>} ELSE {<<1, "ok">>, <<1, "error">>}
  ELSE IF ~Open THEN {<<0, "abort">>}
       ELSE {<<1, "again">>, <<0, "ok">>, <<0, "error">>}

Step(o) ==
  CASE kind[o] = "read"       -> ReadLoop(o)
    [] kind[o] = "write"      -> WriteLoop(o)
    [] kind[o] = "read_once"  -> ReadOnceLoop(o)
    [] kind[o] = "write_once" -> WriteOnceLoop(o)
    [] kind[o] = "sendmsg"    -> SendmsgLoop(o)
    [] kind[o] = "accept"     -> AcceptLoop(o)
    [] Connects(o)            -> ConnectStep(o)

Direction(o) == IF kind[o] \in In THEN "in" ELSE "out"

\* ~fdref: release the lock, then the weak reference.
Unlock(o) ==
  /\ rlock' = IF Holds(rlock, o) THEN Tail(rlock) ELSE rlock
  /\ wlock' = IF Holds(wlock, o) THEN Tail(wlock) ELSE wlock

BugUnlockOnWait(o) ==
  \E s \in Step(o) :
    /\ UNCHANGED <<fde, refs, closes, closer, torn, kind, called>>
    /\ pos' = [pos EXCEPT ![o] = s[1]]
    /\ moved' = IF Connects(o) THEN moved
                ELSE [moved EXCEPT ![Direction(o)] = @ \o [i \in 1 .. s[1] - pos[o] |-> o]]
    /\ Unlock(o)
    /\ IF s[2] = "again"
       THEN /\ pc' = [pc EXCEPT ![o] = "polling"]
            /\ UNCHANGED <<active, result, weak, deleted>>
       ELSE /\ pc' = [pc EXCEPT ![o] = IF kind[o] = "tcp_connect" THEN "linked" ELSE "done"]
            /\ result' = [result EXCEPT ![o] = IF o \in active THEN s[2] ELSE @]
            /\ active' = active \ {o}
            /\ WeakDeref(1)

\* One resumption of an operation that has its lock.
Run(o) ==
  \E s \in Step(o) :
    /\ UNCHANGED <<fde, refs, closes, closer, torn, kind, called>>
    /\ pos' = [pos EXCEPT ![o] = s[1]]
    /\ moved' = IF Connects(o) THEN moved
                ELSE [moved EXCEPT ![Direction(o)] = @ \o [i \in 1 .. s[1] - pos[o] |-> o]]
    /\ IF s[2] = "again"
       THEN /\ pc' = [pc EXCEPT ![o] = "polling"]
            /\ UNCHANGED <<active, result, weak, deleted, locks>>
       ELSE /\ pc' = [pc EXCEPT ![o] = IF kind[o] = "tcp_connect" THEN "linked" ELSE "done"]
            /\ result' = [result EXCEPT ![o] = IF o \in active THEN s[2] ELSE @]
            /\ active' = active \ {o}
            /\ Unlock(o)
            /\ WeakDeref(1)

\* acquire_read and acquire_write
Ask(o, k) ==
  /\ rlock' = IF k \in In THEN Append(rlock, o) ELSE rlock
  /\ wlock' = IF k \in Out THEN Append(wlock, o) ELSE wlock

\* Calls such as direct_read, listen and bind are answered at once.
DirectResult == IF Open THEN {"ok", "error"} ELSE {"EBADF"}

\* A call on a closed descriptor is answered at once; otherwise it takes a weak
\* reference and asks for its lock.
Call(o, k) ==
  /\ Free /\ refs > 0 /\ pc[o] = "idle"
  /\ k = "tcp_connect" => called = <<>> /\ refs = 1 /\ closer = "none"
  /\ kind' = [kind EXCEPT ![o] = k]
  /\ called' = Append(called, o)
  /\ IF ~Open \/ k = "direct"
     THEN /\ pc' = [pc EXCEPT ![o] = "done"]
          /\ \E x \in DirectResult : result' = [result EXCEPT ![o] = x]
          /\ UNCHANGED <<weak, active, locks>>
     ELSE /\ weak' = weak + 1
          /\ active' = active \cup {o}
          /\ Ask(o, k)
          /\ pc' = [pc EXCEPT ![o] =
                IF k = "sendmsg" \/ Holds(rlock', o) \/ Holds(wlock', o)
                THEN "called" ELSE "locking"]
          /\ UNCHANGED result
  /\ UNCHANGED <<fde, refs, deleted, closes, closer, torn, pos, moved>>

Started(o) == pc[o] = "called" /\ Run(o)
Resume(o) == Quiet /\ pc[o] = "woken" /\ Run(o)

\* The mutex hands the lock on; the operation's closure is unblocked.
Grant(o) ==
  /\ Quiet /\ pc[o] = "locking" /\ (Holds(rlock, o) \/ Holds(wlock, o))
  /\ pc' = [pc EXCEPT ![o] = "woken"]
  /\ UNCHANGED <<imp, kind, active, result, pos, called, moved, locks>>

\* tcp_connect goes on after connect: a failure closes, with the error.  Then
\* the caller gets the descriptor.
TcpConnected(o) ==
  /\ Quiet /\ pc[o] = "linked"
  /\ fde' = IF result[o] = "ok" THEN fde ELSE "error"
  /\ closes' = IF result[o] = "ok" THEN closes ELSE closes + 1
  /\ pc' = [pc EXCEPT ![o] = "done"]
  /\ UNCHANGED <<refs, weak, deleted, closer, torn, kind, active, result, pos, called, moved, locks>>

\* The caller's done event is triggered by somebody else, such as a timeout.
Cancel(o) ==
  /\ Free /\ o \in active
  /\ active' = active \ {o}
  /\ UNCHANGED <<imp, kind, pc, result, pos, called, moved, locks>>

\* The kernel finds the descriptor ready.
Ready(o) ==
  /\ Quiet /\ pc[o] = "polling"
  /\ pc' = [pc EXCEPT ![o] = "woken"]
  /\ UNCHANGED <<imp, kind, active, result, pos, called, moved, locks>>

Next ==
  \/ \E o \in Op : Started(o) \/ Resume(o) \/ Grant(o) \/ TcpConnected(o) \/ Cancel(o) \/ Ready(o)
  \/ \E o \in Op, k \in Kind : Call(o, k)
  \/ \E err \in {"EBADF", "error"} : Close(err)
  \/ Copy \/ Drop \/ MakeCloser \/ TriggerCloser

\* The driver resumes what was unblocked, and the locks are passed on.
Moves == \E o \in Op : Started(o) \/ Resume(o) \/ Grant(o)
Spec ==
  Init /\ [][Next]_vars /\ WF_vars(Moves)

(* Properties *)

Errors == {"EBADF", "error", "ECANCELED", "abort"}

\* Every variable has its type.
TypeOK ==
  /\ fde \in {"open", "EBADF", "error"}
  /\ refs \in 0 .. MaxRefs
  /\ weak \in 0 .. Cardinality(Op) + 1
  /\ deleted \in 0 .. 2
  /\ closes \in 0 .. 2
  /\ closer \in {"none", "armed", "gone"}
  /\ torn \in BOOLEAN
  /\ kind \in [Op -> Kind]
  /\ pc \in [Op -> {"idle", "called", "locking", "polling", "woken", "linked", "done"}]
  /\ active \subseteq Op
  /\ result \in [Op -> {"none", "ok"} \cup Errors]
  /\ pos \in [Op -> 0 .. Size]
  /\ rlock \in Seq(Op) /\ wlock \in Seq(Op)

Pending(o) == pc[o] \in {"called", "locking", "polling", "woken"}

\* The object is deleted when the last wrapper, operation and closer is gone, and
\* never under one of them: once, unless the last wrapper went away while an
\* armed closer was the only weak reference, when deref deletes what the closer
\* has deleted.  The number is closed once, and not later than the last wrapper
\* goes away.
DescriptorLifetime ==
  /\ weak = Cardinality({o \in Op : Pending(o)}) + (IF closer = "armed" THEN 1 ELSE 0)
  /\ deleted = (IF refs = 0 /\ weak = 0 THEN IF torn THEN 2 ELSE 1 ELSE 0)
  /\ closes = (IF Open THEN 0 ELSE 1)
  /\ refs = 0 => ~Open

Before(o, p) ==
  \E i, j \in DOMAIN called : i < j /\ called[i] = o /\ called[j] = p

\* "reads complete in the order they are called, and similarly for writes": the
\* bytes of different calls are not mixed, and no call is answered while an
\* earlier one in the same direction is waiting.
InOrder ==
  /\ \A d \in {"in", "out"} : \A i, j \in DOMAIN moved[d] :
       i < j /\ kind[moved[d][i]] # "sendmsg" /\ kind[moved[d][j]] # "sendmsg"
         => ~Before(moved[d][j], moved[d][i])
  /\ \A o, p \in Op :
       /\ Before(o, p)
       /\ \/ {kind[o], kind[p]} \subseteq In
          \/ {kind[o], kind[p]} \subseteq Out
       /\ pc[p] = "done" /\ result[p] # "EBADF"
       => ~Pending(o)

\* Reads do not mix with reads, nor writes with writes, and end in order.
OperationsInOrder == TypeOK /\ InOrder

\* Closing the descriptor ends every operation on it, whatever it waits for; and
\* as it stays closed there is a time when none is left.
CloseEndsAll == []<>(Open \/ \A o \in Op : ~Pending(o))

\* The doc comment of class fd: when a descriptor is closed, pending operations
\* terminate with ECANCELED.
CanceledByClose ==
  [][\A o \in Op : (Pending(o) /\ ~Open /\ o \in active /\ ~Pending(o)')
       => result'[o] \in {"ECANCELED", "none"}]_vars
===============================================================================
