------------------------------ MODULE HelperPool ------------------------------
(***************************************************************************)
(* The pool of helper processes of tamer::fdhelper, which do the file       *)
(* operations that would block.  A request takes a ready helper, or waits   *)
(* for one, sends its query down the helper's socket, and puts the helper   *)
(* back when its reply is complete.  A socket is a stream: units of two     *)
(* requests are told apart only by counting, and the count fails in three   *)
(* ways that the model takes and marks: a query that is sent while data of  *)
(* the write before it is still on its way (astray), a canceled request     *)
(* with more left than crapbuf holds (astray), and a file that ends before  *)
(* what was asked for (short).                                              *)
(***************************************************************************)
EXTENDS Integers, Sequences

CONSTANTS
  Request,    \* requests, each made once
  NHelper,    \* _min: how many helper processes the pool tries to make
  Kinds,      \* what is asked for: a subset of open, fstat, read, write
  Size,       \* units of data of a read or a write
  CrapSize    \* units that a canceled read or write makes up for

\* What the constants must satisfy; each instance assumes it.
PoolAssumption ==
  /\ {NHelper, Size, CrapSize} \subseteq Nat \ {0}
  /\ Kinds \subseteq {"open", "fstat", "read", "write"}

Helper == 1 .. NHelper

VARIABLES
  count,            \* _count: how many helpers were made
  ready, waiting,   \* _ready and _waiting
  kind,             \* what each request is
  pc,               \* "idle", "waiting", "woken", "query", "reply", "rest", "done"
  mine,             \* the helper that get() gave, or 0
  pos,              \* units of data moved
  active,           \* requests whose done event is active
  got,              \* what each request was given: pairs of a helper and an owner
  query, reply,     \* for each helper, the units in its socket in either direction
  serving,          \* for each helper, <<request, units left>>, or Nobody
  astray,           \* history: helpers whose socket was used before it was in order
  short             \* history: reads of a file that is shorter than they ask for

pool == <<count, ready, waiting>>
wire == <<query, reply, serving>>
history == <<astray, short>>
vars == <<pool, kind, pc, mine, pos, active, got, wire, history>>

None == 0
Nobody == <<"none", 0>>

\* The pool is made with its helpers ready: those that could be made, at least one.
Init ==
  /\ count \in Helper
  /\ ready = [h \in 1 .. count |-> h]
  /\ waiting = <<>>
  /\ kind \in [Request -> Kinds]
  /\ pc = [r \in Request |-> "idle"]
  /\ mine = [r \in Request |-> None]
  /\ pos = [r \in Request |-> 0]
  /\ active = Request
  /\ got = [r \in Request |-> {}]
  /\ query = [h \in Helper |-> <<>>]
  /\ reply = [h \in Helper |-> <<>>]
  /\ serving = [h \in Helper |-> Nobody]
  /\ astray = {} /\ short = {}

\* A unit in a socket belongs to a request; towards the helper it is the query
\* itself or a unit of the data that follows the query of a write.
Elements(s) == {s[i] : i \in DOMAIN s}
Query(r) == <<"query", r>>
Data(r, n) == [i \in 1 .. n |-> <<"data", r>>]

(* The pool. *)

\* get(), called or resumed: whoever finds others waiting waits behind them.
GetLoop(r) ==
  IF ready = <<>> \/ waiting # <<>>
  THEN /\ waiting' = Append(waiting, r)
       /\ pc' = [pc EXCEPT ![r] = "waiting"]
       /\ UNCHANGED <<ready, mine>>
  ELSE /\ mine' = [mine EXCEPT ![r] = Head(ready)]
       /\ ready' = Tail(ready)
       /\ pc' = [pc EXCEPT ![r] = "query"]
       /\ UNCHANGED waiting

BugPutWakesNobody(r) ==
  /\ ready' = Append(ready, mine[r])
  /\ pc' = [pc EXCEPT ![r] = "done"]
  /\ mine' = [mine EXCEPT ![r] = None]
  /\ UNCHANGED waiting

\* put(h) by request r, which ends
Put(r) ==
  /\ ready' = Append(ready, mine[r])
  /\ mine' = [mine EXCEPT ![r] = None]
  /\ IF waiting = <<>>
     THEN pc' = [pc EXCEPT ![r] = "done"] /\ UNCHANGED waiting
     ELSE /\ pc' = [pc EXCEPT ![r] = "done", ![Head(waiting)] = "woken"]
          /\ waiting' = Tail(waiting)

Get(r) ==
  /\ pc[r] \in {"idle", "woken"}
  /\ GetLoop(r)
  /\ UNCHANGED <<count, kind, pos, active, got, wire, history>>

(* The requests.  A read or write that was canceled goes on moving data that  *)
(* nobody wants, so that the socket is left in order.                         *)

Least(a, b) == IF a < b THEN a ELSE b

BugLeaveRest(r, p, early) ==
  /\ pos' = [pos EXCEPT ![r] = p]
  /\ astray' = astray \cup early
  /\ IF p < Size /\ (r \in active \/ pc[r] = "rest")
     THEN /\ pc' = [pc EXCEPT ![r] = IF @ = "rest" THEN @ ELSE "reply"]
          /\ UNCHANGED <<ready, waiting, mine>>
     ELSE Put(r)

\* The loop of read and write with p units moved: all, and the helper is put
\* back; or not all; or not all, but done was canceled, and then what is missing
\* is still moved, to or from crapbuf and no more than that holds.
Loop(r, p, early) ==
  \/ /\ p = Size
     /\ pos' = [pos EXCEPT ![r] = p]
     /\ astray' = astray \cup early
     /\ Put(r)
  \/ /\ p < Size /\ (r \in active \/ pc[r] = "rest")
     /\ pos' = [pos EXCEPT ![r] = p]
     /\ astray' = astray \cup early
     /\ pc' = [pc EXCEPT ![r] = IF @ = "rest" THEN @ ELSE "reply"]
     /\ UNCHANGED <<ready, waiting, mine>>
  \/ /\ p < Size /\ r \notin active /\ pc[r] # "rest"
     /\ pos' = [pos EXCEPT ![r] = Size - Least(CrapSize, Size - p)]
     /\ astray' = astray \cup early \cup {h \in {mine[r]} : CrapSize < Size - p}
     /\ pc' = [pc EXCEPT ![r] = "rest"]
     /\ UNCHANGED <<ready, waiting, mine>>

\* A helper whose queries, or whose write, are not yet out of its socket.
Busy(h) == query[h] # <<>> \/ serving[h] # Nobody

\* send: one message, whatever the helper is doing.
Send(r) ==
  /\ pc[r] = "query"
  /\ LET early == {h \in {mine[r]} : Busy(h)} IN
     IF kind[r] \in {"read", "write"}
     THEN Loop(r, 0, early)
     ELSE /\ astray' = astray \cup early
          /\ pc' = [pc EXCEPT ![r] = "reply"]
          /\ UNCHANGED <<ready, waiting, mine, pos>>
  /\ query' = [query EXCEPT ![mine[r]] = Append(@, Query(r))]
  /\ UNCHANGED <<count, kind, active, got, reply, serving, short>>

SendFails(r) ==
  /\ pc[r] = "query"
  /\ Put(r)
  /\ UNCHANGED <<count, kind, pos, active, got, wire, history>>

\* open and fstat: recv takes one message.
Recv(r) ==
  /\ pc[r] = "reply" /\ kind[r] \in {"open", "fstat"}
  /\ reply[mine[r]] # <<>>
  /\ got' = [got EXCEPT ![r] = {<<mine[r], Head(reply[mine[r]])>>}]
  /\ reply' = [reply EXCEPT ![mine[r]] = Tail(@)]
  /\ Put(r)
  /\ UNCHANGED <<count, kind, pos, active, query, serving, history>>

\* read_once takes what there is, but no more than is still asked for; the rest,
\* after a cancellation, is read into crapbuf.
ReadData(r) ==
  /\ pc[r] \in {"reply", "rest"} /\ kind[r] = "read"
  /\ \E n \in 1 .. Least(Size - pos[r], Len(reply[mine[r]])) :
       LET h == mine[r] IN
       /\ got' = IF pc[r] = "reply"
                 THEN [got EXCEPT ![r] = @ \cup ({h} \X Elements(SubSeq(reply[h], 1, n)))]
                 ELSE got
       /\ reply' = [reply EXCEPT ![h] = SubSeq(@, n + 1, Len(@))]
       /\ Loop(r, pos[r] + n, {})
  /\ UNCHANGED <<count, kind, active, query, serving, short>>

WriteData(r) ==
  /\ pc[r] \in {"reply", "rest"} /\ kind[r] = "write"
  /\ \E n \in 1 .. Size - pos[r] :
       /\ query' = [query EXCEPT ![mine[r]] = @ \o Data(r, n)]
       /\ Loop(r, pos[r] + n, {})
  /\ UNCHANGED <<count, kind, active, got, reply, serving, short>>

Cancel(r) ==
  /\ r \in active /\ pc[r] # "done"
  /\ active' = active \ {r}
  /\ UNCHANGED <<pool, kind, pc, mine, pos, got, wire, history>>

(* The helper process. *)

\* recvmsg of a query; open and fstat are answered at once, and the file of a
\* read has some number of units.  A helper that finds data where a query should
\* be has gone astray: it exits, and here it takes no further step.
Accept(h) ==
  /\ serving[h] = Nobody /\ query[h] # <<>>
  /\ \E r \in Request :
       /\ Head(query[h]) = Query(r)
       /\ query' = [query EXCEPT ![h] = Tail(@)]
       /\ \/ /\ kind[r] \in {"open", "fstat"}
             /\ reply' = [reply EXCEPT ![h] = Append(@, r)]
             /\ UNCHANGED <<serving, short>>
          \/ /\ kind[r] = "write"
             /\ serving' = [serving EXCEPT ![h] = <<r, Size>>]
             /\ UNCHANGED <<reply, short>>
          \/ /\ kind[r] = "read"
             /\ \E n \in 0 .. Size :
                  /\ serving' = [serving EXCEPT ![h] = IF n = 0 THEN Nobody ELSE <<r, n>>]
                  /\ short' = short \cup {q \in {r} : n < Size}
             /\ UNCHANGED reply
  /\ UNCHANGED <<pool, kind, pc, mine, pos, active, got, astray>>

\* sendfile, a unit at a time, up to the end of the file
SendFile(h) ==
  /\ serving[h] # Nobody /\ kind[serving[h][1]] = "read"
  /\ LET r == serving[h][1]
         left == serving[h][2] - 1 IN
       /\ reply' = [reply EXCEPT ![h] = Append(@, r)]
       /\ serving' = [serving EXCEPT ![h] = IF left = 0 THEN Nobody ELSE <<r, left>>]
  /\ UNCHANGED <<pool, kind, pc, mine, pos, active, got, query, history>>

\* read(0) takes all there is, whoever sent it; the count goes on below zero,
\* round a size_t, and never ends.
WriteFile(h) ==
  /\ serving[h] # Nobody /\ kind[serving[h][1]] = "write" /\ query[h] # <<>>
  /\ LET r == serving[h][1]
         left == serving[h][2] - Len(query[h]) IN
       /\ query' = [query EXCEPT ![h] = <<>>]
       /\ serving' = [serving EXCEPT ![h] =
            IF left = 0 THEN Nobody ELSE <<r, IF left < 0 THEN -1 ELSE left>>]
  /\ UNCHANGED <<pool, kind, pc, mine, pos, active, got, reply, history>>

Move(r) == Get(r) \/ Send(r) \/ SendFails(r) \/ Recv(r) \/ ReadData(r) \/ WriteData(r)
Serve(h) == Accept(h) \/ SendFile(h) \/ WriteFile(h)

Moves == \E r \in Request : Move(r)
Serves == \E h \in Helper : Serve(h)

Next == Moves \/ Serves \/ \E r \in Request : Cancel(r)

\* Closures that can go on are resumed, and helper processes run.
Spec == Init /\ [][Next]_vars /\ WF_vars(Moves) /\ WF_vars(Serves)

(* Properties *)

\* Where helper h is: in the list of ready helpers, or in the hands of a request.
Places(h) ==
  {<<"ready", i>> : i \in {i \in DOMAIN ready : ready[i] = h}}
    \cup {<<"taken", r>> : r \in {r \in Request : mine[r] = h}}

\* Every helper is either ready, once, or in the hands of one request: a woken
\* request that finds the helper taken by a newcomer waits again and takes none.
HelperPlaced ==
  \A h \in 1 .. count : \E p \in Places(h) : Places(h) = {p}

\* "lest the fd get out of sync": a request is answered with its own reply, and
\* a helper that is ready has nothing in its socket that the next request could
\* take for its own, also after a read that was canceled in the middle; as far as
\* the helper has not gone astray, for then the comment does not hold.
InSync ==
  /\ \A r \in Request : \A p \in got[r] : p[2] = r \/ p[1] \in astray
  /\ \A h \in Elements(ready) \ astray : reply[h] = <<>>

\* The helper writes to the file what the request sent, and no part of the next
\* query (the comment of write: the amount must be correct lest the descriptor
\* get out of sync); as far as the helper has not gone astray.
HelperCounts ==
  \A h \in Helper \ astray : serving[h] # Nobody => serving[h][2] >= 0

\* Every request that is made is answered, although a helper may be taken by
\* somebody else between the wake-up and the resumption, provided that never two
\* wait at once: a woken request that finds another one waiting queues again,
\* although a helper is ready, and then nobody wakes either.  A helper that has
\* gone astray, and a file that ends early, may leave a request without its end.
\* As each request is made once, all are answered means that there is a time when
\* none is left.
EveryRequestEnds ==
  [](Len(waiting) <= 1 /\ astray = {} /\ short = {})
    => []<>(\A r \in Request : pc[r] \in {"idle", "done"})
===============================================================================
