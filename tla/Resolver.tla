------------------------------- MODULE Resolver -------------------------------
(***************************************************************************)
(* The DNS resolver: a request asks its name servers over a network that   *)
(* loses, repeats and delays datagrams, asks again when time is up, and    *)
(* takes a server that does not answer out of service until a probe of it  *)
(* is answered.  Replies find their request by the transaction number,     *)
(* which is drawn anew for each question, at random among all that are not *)
(* in the table; that two draws give the same number is left out.          *)
(***************************************************************************)
EXTENDS Integers, Sequences, FiniteSetsExt

CONSTANTS
  Query,            \* calls of resolve(), each made once
  Server,           \* name servers, numbers that stand for their addresses
  Names,            \* how many names a request may try: its own and its domains
  First, Later,     \* the servers of resolv.conf, and what it may change to
  MaxRetransmits, MaxTimeouts, MaxInflight   \* _max_retransmits, ...

ASSUME ResolverAssumption ==
  /\ IsFiniteSet(Query)
  /\ Server \subseteq Nat \ {0} /\ First \subseteq Server /\ First # {}
  /\ Later \subseteq SUBSET Server
  /\ Names \in [Query -> Nat \ {0}]
  /\ MaxRetransmits \in Nat \ {0} /\ MaxTimeouts \in Nat \ {0}
  /\ MaxInflight \in Nat

VARIABLES
  pc,         \* where resolve() is; "idle" before the call, "done" after
  active,     \* requests whose event e is active
  left,       \* names not tried yet
  bad,        \* requests whose next name was too long: _err
  tx,         \* _tx_count
  id,         \* the request's questions so far; the last has number id[q]
  tcp,        \* requests that ask by TCP
  ns,         \* the server asked
  reply,      \* the reply that resolve() was resumed with
  requests,   \* _requests: questions that a reply is looked up in
  armed,      \* questions whose event is active on the request's rendezvous
  inflight, window,                    \* _reqs_inflight and the queue l
  servers, failed, nsindex,            \* _nameservers, _failed and _nsindex
  timeouts, ready, received, probe,    \* of each server; probe of failed_nameserver
  asked,      \* what was sent to each server and may be answered
  parsed,     \* resolv.conf has changed
  stopped     \* "no", or how the program stopped

callVars == <<pc, active, left, bad, tx, id, tcp, ns, reply>>
tableVars == <<requests, armed>>
windowVars == <<inflight, window>>
serverVars == <<servers, failed, nsindex, timeouts, ready, received, probe>>
vars == <<callVars, tableVars, windowVars, serverVars, asked, parsed, stopped>>

End == 0         \* _nameservers.end()
Dangling == -1   \* an iterator to a server that was erased

\* All questions whose number has left the table: nothing tells their replies apart.
Late == <<"late", 0>>
Aged(S, old) == (S \ old) \cup IF S \cap old = {} THEN {} ELSE {Late}

Begin(S) == IF S = {} THEN End ELSE Min(S)
After(s, S) == Begin({t \in S : t > s})

Init ==
  /\ pc = [q \in Query |-> "idle"]
  /\ active = Query
  /\ left = Names
  /\ bad = {}
  /\ tx = [q \in Query |-> 0]
  /\ id = [q \in Query |-> 0]
  /\ tcp = {}
  /\ ns = [q \in Query |-> End]
  /\ reply = [q \in Query |-> "none"]
  /\ requests = {} /\ armed = {}
  /\ inflight = 0 /\ window = <<>>
  /\ servers = First /\ failed = {} /\ nsindex = Begin(First)
  /\ timeouts = [s \in Server |-> 0]
  /\ ready = [s \in Server |-> IF s \in First THEN "handler" ELSE "none"]
  /\ received = [s \in Server |-> {}]
  /\ probe = [s \in Server |-> "none"]
  /\ asked = [s \in Server |-> {}]
  /\ parsed = FALSE
  /\ stopped = "no"

\* resolve() goes on without waiting at these places.
Running == \E q \in Query : pc[q] \in {"pick", "send", "end"}
Runs == stopped = "no" /\ ~Running

\* The driver has run all closures: it takes the next datagram or timer.  When it
\* takes both at once the request is resumed before the reader has read.
Quiet ==
  /\ Runs
  /\ \A q \in Query : pc[q] \notin {"woken", "replied"}
  /\ \A s \in Server : ready[s] # "replies" /\ ~(probe[s] = "query" /\ ready[s] = "answered")

Goto(q, place) == pc' = [pc EXCEPT ![q] = place]
Answer(q) == active' = active \ {q}

(* resolve() *)

\* request_a::next and request_ptr::next: the next name, under a new number.
\* Names made with a domain that are too long are passed over; when nothing is
\* left behind them the request is in error.
NextName(q) ==
  /\ id' = [id EXCEPT ![q] = @ + 1]
  /\ \/ /\ \E n \in 0 .. left[q] - 1 : left' = [left EXCEPT ![q] = n]
        /\ tx' = [tx EXCEPT ![q] = 1]
        /\ UNCHANGED bad
     \/ /\ left[q] < Names[q]
        /\ left' = [left EXCEPT ![q] = 0]
        /\ tx' = [tx EXCEPT ![q] = 0]
        /\ bad' = bad \cup {q}

\* request_imp::reissue: the same name under a new number.
Reissue(q) ==
  /\ id' = [id EXCEPT ![q] = @ + 1]
  /\ tx' = [tx EXCEPT ![q] = @ + 1]
  /\ UNCHANGED <<left, bad>>

\* The call.  With nobody to ask it is answered at once; with more than
\* MaxInflight requests in progress it waits.
Resolve(q) ==
  /\ Runs /\ pc[q] = "idle"
  /\ IF servers = {}
     THEN /\ Answer(q)
          /\ Goto(q, "done")
          /\ UNCHANGED <<left, bad, tx, id, windowVars>>
     ELSE IF inflight > MaxInflight
     THEN /\ window' = Append(window, q)
          /\ Goto(q, "window")
          /\ UNCHANGED <<active, left, bad, tx, id, inflight>>
     ELSE /\ inflight' = inflight + 1
          /\ NextName(q)
          /\ Goto(q, "pick")
          /\ UNCHANGED <<active, window>>
  /\ UNCHANGED <<tcp, ns, reply, tableVars, serverVars, asked, parsed, stopped>>

\* One that waited goes on, without looking at the servers again.
Admitted(q) ==
  /\ Runs /\ pc[q] = "woken"
  /\ inflight' = inflight + 1
  /\ NextName(q)
  /\ Goto(q, "pick")
  /\ UNCHANGED <<active, tcp, ns, reply, window, tableVars, serverVars, asked,
                 parsed, stopped>>

\* next_nameserver, which asserts that there is one
NextNameserver(q) ==
  /\ pc[q] = "pick" /\ stopped = "no"
  /\ IF servers = {} \/ nsindex = Dangling
     THEN \* To use an iterator to what was erased is undefined: the model stops.
          /\ stopped' = IF servers = {} THEN "assertion" ELSE "undefined"
          /\ UNCHANGED <<pc, ns, nsindex>>
     ELSE LET s == IF nsindex = End THEN Begin(servers) ELSE nsindex IN
          /\ ns' = [ns EXCEPT ![q] = s]
          /\ nsindex' = After(s, servers)
          /\ Goto(q, "send")
          /\ UNCHANGED stopped
  /\ UNCHANGED <<active, left, bad, tx, id, tcp, reply, tableVars, windowVars,
                 servers, failed, timeouts, ready, received, probe, asked, parsed>>

\* The head of the send loop, which a canceled request leaves.
Send(q) ==
  /\ pc[q] = "send" /\ stopped = "no"
  /\ IF q \in active \ bad
     THEN /\ requests' = requests \cup {<<q, id[q]>>}
          /\ armed' = armed \cup {<<q, id[q]>>}
          /\ asked' = [asked EXCEPT ![ns[q]] = @ \cup {<<q, id[q]>>}]
          /\ Goto(q, "sent")
          /\ UNCHANGED active
     ELSE /\ Answer(q)
          /\ Goto(q, "end")
          /\ UNCHANGED <<tableVars, asked>>
  /\ UNCHANGED <<left, bad, tx, id, tcp, ns, reply, windowVars, serverVars, parsed, stopped>>

Forgotten(q) ==
  /\ left' = [left EXCEPT ![q] = 0]
  /\ bad' = bad \ {q}
  /\ tx' = [tx EXCEPT ![q] = 0]
  /\ id' = [id EXCEPT ![q] = 0]
  /\ tcp' = tcp \ {q}
  /\ ns' = [ns EXCEPT ![q] = End]
  /\ reply' = [reply EXCEPT ![q] = "none"]

BugEndWakesNobody(q) ==
  /\ pc[q] = "end" /\ stopped = "no"
  /\ inflight' = inflight - 1
  /\ Goto(q, "done")
  /\ Forgotten(q)
  /\ UNCHANGED <<window, active, tableVars, serverVars, asked, parsed, stopped>>

\* The end of resolve: one that waits for the window goes on.  The variables of
\* the call are gone.
EndResolve(q) ==
  /\ pc[q] = "end" /\ stopped = "no"
  /\ inflight' = inflight - 1
  /\ IF window = <<>>
     THEN Goto(q, "done") /\ UNCHANGED window
     ELSE /\ pc' = [pc EXCEPT ![q] = "done", ![Head(window)] = "woken"]
          /\ window' = Tail(window)
  /\ Forgotten(q)
  /\ UNCHANGED <<active, tableVars, serverVars, asked, parsed, stopped>>

\* The reply is there.  One that could not be parsed has an error that the code does
\* not expect.
Replied(q) ==
  /\ Runs /\ pc[q] = "replied"
  /\ stopped' = IF reply[q] = "malformed" THEN "unexpected" ELSE "no"
  /\ \/ /\ reply[q] = "malformed"
        /\ UNCHANGED <<pc, active, left, bad, tx, id, tcp>>
     \/ /\ reply[q] = "none" \/ (reply[q] = "notexist" /\ left[q] = 0)
        /\ Answer(q)
        /\ tcp' = tcp \ {q}
        /\ Goto(q, "pick")
        /\ UNCHANGED <<left, bad, tx, id>>
     \/ /\ reply[q] = "notexist" /\ left[q] > 0
        /\ NextName(q)
        /\ Goto(q, "send")
        /\ UNCHANGED <<active, tcp>>
     \/ /\ reply[q] = "truncated" /\ q \notin tcp
        /\ Reissue(q)
        /\ tcp' = tcp \cup {q}
        /\ Goto(q, "send")
        /\ UNCHANGED active
     \/ /\ reply[q] = "refused" /\ tx[q] < MaxRetransmits
        /\ Reissue(q)
        /\ tcp' = tcp \ {q}
        /\ Goto(q, "pick")
        /\ UNCHANGED active
     \/ /\ \/ reply[q] = "truncated" /\ q \in tcp
           \/ reply[q] = "refused" /\ tx[q] >= MaxRetransmits
        /\ Answer(q)
        /\ tcp' = tcp \ {q}
        /\ Goto(q, "pick")
        /\ UNCHANGED <<left, bad, tx, id>>
  /\ reply' = [reply EXCEPT ![q] = "none"]
  /\ UNCHANGED <<ns, tableVars, windowVars, serverVars, asked, parsed>>

\* failed_nameserver(s) up to its first wait: MaxTimeouts questions in a row have
\* gone unanswered.  The handler's event is triggered, and it ends.
Fails(s) == s \in servers /\ timeouts[s] + 1 >= MaxTimeouts
FailedNameserver(s) ==
  /\ timeouts' = [timeouts EXCEPT ![s] = IF s \in servers THEN @ + 1 ELSE @]
  /\ IF Fails(s)
     THEN /\ servers' = servers \ {s}
          /\ failed' = failed \cup {s}
          /\ nsindex' = IF nsindex = s THEN Dangling ELSE nsindex
          /\ ready' = [ready EXCEPT ![s] = "probe"]
          /\ probe' = [probe EXCEPT ![s] = "delay"]
     ELSE UNCHANGED <<servers, failed, nsindex, ready, probe>>

BugErasesNewNumber(q) ==
  /\ requests' = requests \ {<<q, id'[q]>>}
  /\ armed' = armed \ {<<q, id[q]>>}
  /\ asked' = [s \in Server |-> Aged(asked[s], {<<q, id[q]>>})]

\* r.clear() and _requests.erase(u)
Forget(q) ==
  /\ requests' = requests \ {<<q, id[q]>>}
  /\ armed' = armed \ {<<q, id[q]>>}
  /\ asked' = [s \in Server |-> Aged(asked[s], {<<q, id[q]>>})]

\* The time is up.
TimeOut(q) ==
  /\ Quiet /\ pc[q] = "sent"
  /\ FailedNameserver(ns[q])
  /\ IF servers' # {} /\ tx[q] < MaxRetransmits
     THEN /\ Reissue(q)
          /\ Goto(q, "pick")
          /\ UNCHANGED <<active, tcp>>
     ELSE /\ Answer(q)
          /\ tcp' = IF q \in active THEN tcp ELSE tcp \ {q}
          /\ Goto(q, IF q \in active THEN "end" ELSE "pick")
          /\ UNCHANGED <<left, bad, tx, id>>
  /\ Forget(q)
  /\ UNCHANGED <<ns, reply, windowVars, received, parsed, stopped>>

\* The caller gives up: its event is triggered by somebody else.
Cancel(q) ==
  /\ Runs /\ q \in active /\ pc[q] \notin {"idle", "done"}
  /\ active' = active \ {q}
  /\ UNCHANGED <<pc, left, bad, tx, id, tcp, ns, reply, tableVars, windowVars,
                 serverVars, asked, parsed, stopped>>

(* The servers. *)

Errors == {"none", "notexist", "truncated", "refused", "malformed"}

\* nameserver_imp::init and init_tcp: a reply to something that was asked, at any
\* time and any number of times.  One that nobody waits for is kept.
Receive(s) ==
  /\ Quiet
  /\ ready[s] \in {"handler", "probe", "answered"}
  /\ \E m \in asked[s] : received' = [received EXCEPT ![s] = @ \cup {m}]
  /\ ready' = [ready EXCEPT ![s] = IF @ = "handler" THEN "replies" ELSE "answered"]
  /\ UNCHANGED <<callVars, tableVars, windowVars, servers, failed, nsindex, timeouts, probe,
                 asked, parsed, stopped>>

\* handle_nameserver: the first reply to each question that is in the table.
HandleNameserver(s) ==
  /\ Runs /\ ready[s] = "replies"
  /\ LET found == received[s] \cap requests
         Q == {m[1] : m \in found \cap armed} IN
     /\ requests' = requests \ found
     /\ armed' = armed \ found
     /\ asked' = [t \in Server |-> Aged(asked[t], found)]
     /\ pc' = [q \in Query |-> IF q \in Q THEN "replied" ELSE pc[q]]
     /\ \E err \in [Q -> Errors] :
          reply' = [q \in Query |-> IF q \in Q THEN err[q] ELSE reply[q]]
  /\ received' = [received EXCEPT ![s] = {}]
  /\ ready' = [ready EXCEPT ![s] = "handler"]
  /\ UNCHANGED <<active, left, bad, tx, id, tcp, ns, windowVars, servers, failed,
                 nsindex, timeouts, probe, parsed, stopped>>

\* The loop of failed_nameserver: it waits, asks, and waits for an answer.
Probe(s) ==
  /\ Quiet /\ probe[s] = "delay"
  /\ probe' = [probe EXCEPT ![s] = "query"]
  /\ asked' = [asked EXCEPT ![s] = @ \cup {Late}]
  /\ UNCHANGED <<callVars, tableVars, windowVars, servers, failed, nsindex, timeouts, ready,
                 received, parsed, stopped>>

\* No answer.  The loop asks again, unless i, which nothing has been assigned to,
\* happens to be -1: then it ends as if the resolver were being destroyed.
ProbeTimesOut(s) ==
  /\ Quiet /\ probe[s] = "query"
  /\ \/ probe' = [probe EXCEPT ![s] = "delay"] /\ UNCHANGED <<failed, ready>>
     \/ /\ probe' = [probe EXCEPT ![s] = "none"]
        /\ failed' = failed \ {s}
        /\ ready' = [ready EXCEPT ![s] = "none"]
  /\ UNCHANGED <<callVars, tableVars, windowVars, servers, nsindex, timeouts,
                 received, asked, parsed, stopped>>

BugNoHandler(s) ==
  /\ Runs /\ probe[s] = "query" /\ ready[s] = "answered"
  /\ probe' = [probe EXCEPT ![s] = "none"]
  /\ failed' = failed \ {s}
  /\ servers' = servers \cup {s}
  /\ timeouts' = [timeouts EXCEPT ![s] = 0]
  /\ UNCHANGED <<callVars, tableVars, windowVars, nsindex, ready, received, asked, parsed, stopped>>

\* The server has answered, by whatever datagram, and is in service again.
Recover(s) ==
  /\ Runs /\ probe[s] = "query" /\ ready[s] = "answered"
  /\ probe' = [probe EXCEPT ![s] = "none"]
  /\ timeouts' = [timeouts EXCEPT ![s] = 0]
  /\ ready' = [ready EXCEPT ![s] = "handler"]
  /\ failed' = failed \ {s}
  /\ servers' = servers \cup {s}
  /\ UNCHANGED <<callVars, tableVars, windowVars, nsindex, received, asked, parsed, stopped>>

\* add_nameservers: resolv.conf has changed.  A new server may fail to connect; the
\* event of one that is gone is triggered with -1, which ends its handler or probe.
AddNameservers(nss) ==
  /\ Quiet /\ ~parsed
  /\ parsed' = TRUE
  /\ LET new == nss \ (servers \cup failed)
         old == (servers \cup failed) \ nss
         killed == {s \in old : ready[s] \in {"handler", "probe"}} IN
     \E up \in SUBSET new :
       /\ servers' = (nss \cap servers) \cup up
       /\ failed' = nss \cap failed
       /\ nsindex' = Begin(servers')
       /\ ready' = [s \in Server |-> IF s \in up THEN "handler"
                                     ELSE IF s \in killed THEN "none" ELSE ready[s]]
       /\ probe' = [s \in Server |-> IF s \in killed \cup up THEN "none" ELSE probe[s]]
       /\ timeouts' = [s \in Server |-> IF s \in up THEN 0 ELSE timeouts[s]]
       /\ received' = [s \in Server |-> IF s \in up THEN {} ELSE received[s]]
       /\ asked' = [s \in Server |-> IF s \in up THEN {} ELSE asked[s]]
  /\ UNCHANGED <<callVars, tableVars, windowVars, stopped>>

Closures(q) == Admitted(q) \/ NextNameserver(q) \/ Send(q) \/ EndResolve(q) \/ Replied(q)
Moves ==
  \/ \E q \in Query : Closures(q)
  \/ \E s \in Server : HandleNameserver(s) \/ Recover(s)

Next ==
  \/ Moves
  \/ \E q \in Query : Resolve(q) \/ TimeOut(q) \/ Cancel(q)
  \/ \E s \in Server : Receive(s) \/ Probe(s) \/ ProbeTimesOut(s)
  \/ \E nss \in Later : AddNameservers(nss)

\* Closures are run, and timers fire however many datagrams come in between.
Spec ==
  /\ Init /\ [][Next]_vars
  /\ WF_vars(Moves)
  /\ \A q \in Query : SF_vars(TimeOut(q))

(* Properties *)

Waiting == {<<q, id[q]>> : q \in {p \in Query : pc[p] = "sent"}}
InFlight == {q \in Query : pc[q] \in {"pick", "send", "sent", "replied", "end"}}
Woken == {q \in Query : pc[q] = "woken"}

\* Whatever arrives, late or twice, the table holds the questions that are waited
\* for and no other, so that no reply reaches a request that has gone on and no
\* number stays taken.
TableExact == requests = Waiting /\ armed = Waiting

\* Requests in flight are counted, and whoever waits for the window is behind some
\* that will wake it.
WindowExact ==
  /\ inflight = Cardinality(InFlight)
  /\ window # <<>> => inflight + Cardinality(Woken) > MaxInflight

\* Both: what resolve() leaves behind at each of its exits.
RequestsExact == TableExact /\ WindowExact

\* Replies of a server that is asked are handled, and one that is out of service
\* is being probed, so that it can come back.
ServersHandled ==
  /\ servers \cap failed = {}
  /\ \A s \in servers :
       ready[s] \in {"handler", "replies"} /\ probe[s] = "none" /\ timeouts[s] < MaxTimeouts
  /\ \A s \in failed : ready[s] \in {"probe", "answered"} /\ probe[s] # "none"

\* Every request is answered though all datagrams may be lost, unless the program
\* stops: as each is made once, there is a time when none is left.
EveryRequestAnswered ==
  []<>(stopped # "no" \/ \A q \in Query : pc[q] \in {"idle", "done"})
===============================================================================
