-------------------------------- MODULE FdWatch --------------------------------
(***************************************************************************)
(* How the tamer driver comes to watch file descriptors (tamer/dtamer.cc,  *)
(* tamer/dinternal.hh): the events of each descriptor (driver_fd), the     *)
(* linked list of descriptors that changed, the poll set (xpollfds) and    *)
(* the registrations with epoll.  The kernel's part is external: a         *)
(* registration belongs to an open file, and close() drops it.             *)
(* Definitions named Bug... are seeded faults that the properties notice.  *)
(***************************************************************************)
EXTENDS Naturals, Sequences, FiniteSets

CONSTANTS
  MaxFd,       \* bound: descriptors are 0 .. MaxFd
  MaxErrors,   \* EPOLL_MAX_ERRCOUNT, 32 in the code
  EarlyReuse   \* descriptors whose number the kernel may hand out again before
               \* the driver has looked at its list of changes

\* What the constants must satisfy; each instance assumes it.
FdAssumption ==
  /\ MaxFd \in Nat /\ MaxErrors \in Nat \ {0}
  /\ EarlyReuse \subseteq 0 .. MaxFd

VARIABLES
  open,     \* descriptors of the process that are open
  want,     \* actions whose event x.e[action] is active
  nfds,     \* nfds_: descriptors with a driver_fd
  changes,  \* [head |-> changedfd1_, next |-> next_changedfd1 of each descriptor]
  pfds,     \* pfds_ of xpollfds: the sequence of [fd, events]
  fdmap,    \* fdmap_: 0, or the place of a descriptor in pfds
  reg,      \* events the kernel watches for a descriptor, {} when unregistered
  epoll,    \* epollfd_ is valid
  errors,   \* epoll_errcount_
  share,    \* what other processes have of this one: nothing ("alone"), its open
            \* "files", the epoll "set" as well, or it is the "parent"'s set, and
            \* epoll_pid_ is not getpid()
  phase     \* user code "outside" of loop() or in "closures" that it runs, before
            \* the first round or after a wait; "update" (update_fds) or "wait"

vars == <<open, want, nfds, changes, pfds, fdmap, reg, epoll, errors, share, phase>>
epollVars  == <<reg, epoll, errors, share>>
driverVars == <<pfds, fdmap, epollVars>>

\* When user code runs
User == {"outside", "closures"}

Fd     == 0 .. MaxFd
Action == {"read", "write", "hangup"}
Bit    == {"IN", "OUT", "RDHUP"}

\* poll_events and epoll_events
PollEvents(actions) ==
  (IF "read" \in actions THEN {"IN", "RDHUP"} ELSE {})
  \cup (IF "write" \in actions THEN {"OUT"} ELSE {})
  \cup (IF "hangup" \in actions THEN {"RDHUP"} ELSE {})

\* With init_no_epoll, or when epoll_create1 fails, there is no epoll.
Init ==
  /\ open = {}
  /\ want = [fd \in Fd |-> {}]
  /\ nfds = 0
  /\ changes = [head |-> 0, next |-> [fd \in Fd |-> 0]]
  /\ pfds = <<>>
  /\ fdmap = [fd \in Fd |-> 0]
  /\ reg = [fd \in Fd |-> {}]
  /\ epoll \in BOOLEAN
  /\ errors = IF epoll THEN 0 ELSE MaxErrors
  /\ share = "alone"
  /\ phase = "outside"

(***************************************************************************)
(* The list of changes.  Its last element has next 0 like one that is not  *)
(* on the list, so that it can be pushed again and the list close a cycle. *)
(***************************************************************************)
PushChange(list, fd) ==
  IF list.next[fd] # 0 THEN list
  ELSE [head |-> fd + 1, next |-> [list.next EXCEPT ![fd] = list.head]]

BugPopKeepsNext(list) == [list EXCEPT !.head = list.next[list.head - 1]]

PopChange(list) ==
  LET fd == list.head - 1 IN
  [head |-> list.next[fd], next |-> [list.next EXCEPT ![fd] = 0]]

\* Each active event that is triggered calls fd_disinterest.
Disinterest(list, fd, actions) ==
  IF Cardinality(actions) = 0 THEN list
  ELSE IF Cardinality(actions) = 1 THEN PushChange(list, fd)
  ELSE PushChange(PushChange(list, fd), fd)

Expand(n, fd) == IF fd >= n THEN fd + 1 ELSE n

(***************************************************************************)
(* User code, in closures or outside of loop().                            *)
(***************************************************************************)

\* open, accept, socket, ...: the kernel chooses a free number.
Open(fd) ==
  /\ phase \in User
  /\ fd \notin open
  /\ fd \in EarlyReuse \/ fdmap[fd] = 0
  /\ open' = open \cup {fd}
  /\ UNCHANGED <<want, nfds, changes, driverVars, phase>>

AtFd(fd, action) ==
  /\ phase \in User
  /\ fd \in open
  /\ nfds' = Expand(nfds, fd)
  /\ want' = [want EXCEPT ![fd] = @ \cup {action}]
  /\ changes' = PushChange(changes, fd)
  /\ UNCHANGED <<open, driverVars, phase>>

\* The caller triggers or clears the event.
Cancel(fd, action) ==
  /\ phase \in User
  /\ action \in want[fd]
  /\ want' = [want EXCEPT ![fd] = @ \ {action}]
  /\ changes' = Disinterest(changes, fd, {action})
  /\ UNCHANGED <<open, nfds, driverVars, phase>>

\* fd::close: close(), which drops the registration, and then kill_fd.
Close(fd) ==
  /\ phase \in User
  /\ fd \in open
  /\ open' = open \ {fd}
  /\ reg' = [reg EXCEPT ![fd] = {}]
  /\ want' = [want EXCEPT ![fd] = {}]
  /\ changes' = IF fd >= nfds THEN changes
                ELSE PushChange(Disinterest(changes, fd, want[fd]), fd)
  /\ UNCHANGED <<nfds, pfds, fdmap, epoll, errors, share, phase>>

\* Two processes change the same registrations, which this model then does not
\* know any more; it keeps reg empty.
SetShared(s) == s \in {"set", "parent"}

\* The process forks, and the model follows the child or the parent.  The child has
\* the epoll set of its parent, which goes on changing it.  The child does so, too,
\* when it is in a running loop; outside, it looks at the pid before.  With only the
\* files shared, close() leaves registrations behind, whose reports are spurious.
Fork ==
  /\ phase \in User
  /\ share' \in IF ~epoll THEN {"files"}
                ELSE IF share = "parent" THEN {"parent"}
                ELSE {"parent", IF phase # "outside" \/ share = "set" THEN "set" ELSE "files"}
  /\ reg' = IF SetShared(share') THEN [fd \in Fd |-> {}] ELSE reg
  /\ UNCHANGED <<open, want, nfds, changes, pfds, fdmap, epoll, errors, phase>>

\* The epoll descriptor is closed; the files stay shared.
LeaveEpoll ==
  /\ epoll' = FALSE
  /\ reg' = [fd \in Fd |-> {}]
  /\ share' = IF share = "alone" THEN "alone" ELSE "files"

\* loop() is called: a child leaves the epoll set to its parent.
Enter ==
  /\ phase = "outside"
  /\ phase' = "closures"
  /\ IF epoll /\ share = "parent" THEN LeaveEpoll /\ UNCHANGED errors
     ELSE UNCHANGED epollVars
  /\ UNCHANGED <<open, want, nfds, changes, pfds, fdmap>>

\* The first round, or "goto again", which does not look at the pid
BeginUpdate ==
  /\ phase = "closures"
  /\ phase' = "update"
  /\ UNCHANGED <<open, want, nfds, changes, driverVars>>

\* loop() returns after a round (or before the first one, which does no harm), or
\* when no descriptor is waited for.
Return ==
  /\ \/ phase = "closures"
     \/ phase = "update" /\ changes.head = 0 /\ pfds = <<>>
  /\ phase' = "outside"
  /\ UNCHANGED <<open, want, nfds, changes, driverVars>>

(***************************************************************************)
(* update_fds                                                              *)
(***************************************************************************)

\* xpollfds::events
Events(fd) == IF fdmap[fd] = 0 THEN {} ELSE pfds[fdmap[fd]].events

BugSwapForgetsMap(fd, events) ==
  IF fdmap[fd] = 0
  THEN [pfds |-> Append(pfds, [fd |-> fd, events |-> events]),
        map  |-> [fdmap EXCEPT ![fd] = Len(pfds) + 1]]
  ELSE IF events # {}
  THEN [pfds |-> [pfds EXCEPT ![fdmap[fd]].events = events], map |-> fdmap]
  ELSE [pfds |-> [i \in 1 .. Len(pfds) - 1 |->
                    IF i = fdmap[fd] THEN pfds[Len(pfds)] ELSE pfds[i]],
        map  |-> [fdmap EXCEPT ![fd] = 0]]

\* xpollfds::set_events, for events that differ: add at the end, change in
\* place, or remove and move the last element into the gap.
SetEvents(fd, events) ==
  IF fdmap[fd] = 0
  THEN [pfds |-> Append(pfds, [fd |-> fd, events |-> events]),
        map  |-> [fdmap EXCEPT ![fd] = Len(pfds) + 1]]
  ELSE IF events # {}
  THEN [pfds |-> [pfds EXCEPT ![fdmap[fd]].events = events], map |-> fdmap]
  ELSE LET last == pfds[Len(pfds)].fd IN
       [pfds |-> [i \in 1 .. Len(pfds) - 1 |->
                    IF i = fdmap[fd] THEN pfds[Len(pfds)] ELSE pfds[i]],
        map  |-> [fdmap EXCEPT ![last] = fdmap[fd], ![fd] = 0]]

BugNoModify(fd, waspresent, events) ==
  IF ~epoll \/ waspresent \/ SetShared(share) THEN UNCHANGED epollVars
  ELSE /\ reg' = [reg EXCEPT ![fd] = events]
       /\ UNCHANGED <<epoll, errors, share>>

\* mark_epoll and the kernel's answer: ADD needs an unregistered file, MOD a
\* registered one, and an error of DEL is ignored.  After any other error the
\* epoll descriptor is given up.  In a shared set either may happen.
MarkEpoll(fd, waspresent, events) ==
  LET fails == fd \notin open \/ (waspresent <=> reg[fd] = {}) IN
  \/ ~epoll /\ UNCHANGED epollVars
  \/ epoll /\ SetShared(share) /\ UNCHANGED epollVars
  \/ /\ epoll /\ events # {} /\ (fails \/ SetShared(share))
     /\ errors' = errors + 1
     /\ LeaveEpoll
  \/ /\ epoll /\ ~SetShared(share) /\ (events = {} \/ ~fails)
     /\ reg' = [reg EXCEPT ![fd] = events]
     /\ UNCHANGED <<epoll, errors, share>>

UpdateFd ==
  /\ phase = "update"
  /\ changes.head # 0
  /\ changes' = PopChange(changes)
  /\ LET fd  == changes.head - 1
         new == PollEvents(want[fd])
     IN IF Events(fd) = new THEN UNCHANGED driverVars
        ELSE /\ pfds' = SetEvents(fd, new).pfds
             /\ fdmap' = SetEvents(fd, new).map
             /\ MarkEpoll(fd, Events(fd) # {}, new)
  /\ UNCHANGED <<open, want, nfds, phase>>

(***************************************************************************)
(* The wait for the kernel.                                                *)
(***************************************************************************)

BeginWait ==
  /\ phase = "update"
  /\ changes.head = 0
  /\ epoll \/ errors >= MaxErrors
  /\ phase' = "wait"
  /\ UNCHANGED <<open, want, nfds, changes, driverVars>>

\* epoll_recreate registers the poll set anew, or, when epoll_create1 fails, the
\* driver uses poll this time.  The descriptors of the poll set are open
\* (PollSetOpen), so that no ADD fails.
Recreate ==
  /\ phase = "update"
  /\ changes.head = 0
  /\ ~epoll /\ errors < MaxErrors
  /\ phase' = "wait"
  /\ \/ /\ epoll' = TRUE
        /\ reg' = [fd \in Fd |-> IF fdmap[fd] = 0 THEN {} ELSE PollEvents(want[fd])]
     \/ UNCHANGED <<epoll, reg>>
  /\ UNCHANGED <<open, want, nfds, changes, pfds, fdmap, errors, share>>

\* What the kernel looks for while the driver waits
Watched(fd) == IF epoll THEN reg[fd] ELSE Events(fd)

\* The actions the loop triggers on the bits that the kernel reports; an error
\* or a hang-up is reported unasked.
Triggered(bits) ==
  (IF bits \cap {"IN", "RDHUP", "ERR"} # {} THEN {"read"} ELSE {})
  \cup (IF bits \cap {"OUT", "ERR"} # {} THEN {"write"} ELSE {})
  \cup (IF bits \cap {"RDHUP", "ERR"} # {} THEN {"hangup"} ELSE {})

\* A report is of what is watched, or spurious when the registration is of a file
\* that only another process has open, or of another process's.  (That may be for a
\* descriptor which this one has no driver_fd for: fds_[fd] is then undefined, and
\* not followed.)
Deliver(fd, bits) ==
  /\ phase = "wait"
  /\ \/ Watched(fd) # {} /\ bits \subseteq Watched(fd) \cup {"ERR"}
     \/ epoll /\ share # "alone" /\ fd < nfds
  /\ LET actions == want[fd] \cap Triggered(bits) IN
       /\ actions # {}
       /\ want' = [want EXCEPT ![fd] = @ \ actions]
       /\ changes' = Disinterest(changes, fd, actions)
  /\ UNCHANGED <<open, nfds, driverVars, phase>>

\* The call returns and closures run.
EndWait ==
  /\ phase = "wait"
  /\ phase' = "closures"
  /\ UNCHANGED <<open, want, nfds, changes, driverVars>>

Next ==
  \/ \E fd \in Fd : Open(fd) \/ Close(fd)
  \/ \E fd \in Fd, action \in Action : AtFd(fd, action) \/ Cancel(fd, action)
  \/ \E fd \in Fd, bits \in SUBSET (Bit \cup {"ERR"}) : Deliver(fd, bits)
  \/ Fork \/ Enter \/ BeginUpdate \/ UpdateFd \/ BeginWait \/ Recreate \/ EndWait
  \/ Return

Spec == Init /\ [][Next]_vars /\ WF_vars(UpdateFd) /\ WF_vars(BeginWait \/ Recreate)

(* Properties *)

\* Every variable has its type; in particular only descriptors with a driver_fd
\* are on the list of changes, as push_change asserts.
TypeOK ==
  /\ open \subseteq Fd
  /\ want \in [Fd -> SUBSET Action]
  /\ nfds \in 0 .. MaxFd + 1
  /\ changes \in [head : 0 .. nfds, next : [Fd -> 0 .. nfds]]
  /\ pfds \in Seq([fd : Fd, events : SUBSET Bit])
  /\ fdmap \in [Fd -> 0 .. MaxFd + 1]
  /\ reg \in [Fd -> SUBSET Bit]
  /\ epoll \in BOOLEAN
  /\ errors \in 0 .. MaxErrors
  /\ share \in {"alone", "files", "set", "parent"}
  /\ phase \in User \cup {"update", "wait"}

\* The debug assertion of xpollfds: the map and the array of the poll set agree,
\* however elements are moved into gaps.
MapCoherent ==
  /\ \A fd \in Fd : fdmap[fd] # 0 =>
       fdmap[fd] \in DOMAIN pfds /\ pfds[fdmap[fd]].fd = fd /\ pfds[fdmap[fd]].events # {}
  /\ \A i \in DOMAIN pfds : fdmap[pfds[i].fd] = i

\* A descriptor whose events are not what the poll set says is on the list.
OnList(fd) == changes.head = fd + 1 \/ \E g \in Fd : changes.next[g] = fd + 1
ChangesNoticed == \A fd \in Fd : Events(fd) # PollEvents(want[fd]) => OnList(fd)

\* While the driver waits the poll set names open descriptors only: poll would
\* otherwise return POLLNVAL for ever, and epoll would fail to register them.
PollSetOpen == phase = "wait" => \A i \in DOMAIN pfds : pfds[i].fd \in open

\* The poll set, its map and the list of changes agree with what is wanted.
PollSetCoherent == TypeOK /\ MapCoherent /\ ChangesNoticed /\ PollSetOpen

\* "Triggers e when fd becomes readable" (tamer/driver.hh:115): when the driver
\* begins to wait the kernel watches what somebody waits for, and nothing else.
\* With epoll this needs that the number of a closed descriptor is not reused
\* before update_fds has seen the close, and that the epoll set is this process's:
\* it is after a fork outside of loop(), for the parent and for the child, and not
\* after one in a closure of a running loop, until either has called loop() again
\* or lost its set.
KernelWatches ==
  phase = "wait" /\ changes.head = 0 /\ ~(epoll /\ SetShared(share)) =>
    \A fd \in open : (epoll /\ fd \in EarlyReuse) \/ Watched(fd) = PollEvents(want[fd])

\* The same without the proviso on numbers.
KernelWatchesAll ==
  phase = "wait" /\ changes.head = 0 /\ ~(epoll /\ SetShared(share)) =>
    \A fd \in open : Watched(fd) = PollEvents(want[fd])

\* update_fds comes to an end, although the list may be a cycle.
UpdateEnds == phase = "update" ~> phase # "update"
===============================================================================
