# A verification project for Tamer

Tamer extends C++ with *tamed* functions: functions that can stop at a `twait`
and go on when an event they wait for has been triggered.  The repository holds
a preprocessor (`compiler/`) that turns tamed functions into closures, and a
runtime library (`tamer/`) with events, rendezvous, drivers (event loops) and
services built on them: mutexes, channels, file descriptors, buffered input,
helper processes, HTTP, WebSocket and DNS.

This directory holds TLA+ models of that code, the TLC configurations that check
them on small instances, and TLAPS proofs of the central theorems.

## 1. Inventory

All of it runs in one thread.  There are no data races; what is hard is
*re-entry* (triggering an event runs hooks and, for functional rendezvous, user
code, before the trigger returns), *deferral* (an unblocked closure runs later,
when the world may have changed), and the *outside* (kernel readiness, signals,
forked helpers, peers).

| part | state | operations | interacts with | hard behaviour | what makes it correct |
|---|---|---|---|---|---|
| events, rendezvous, closures (`xbase.*`, `rendezvous.hh`, `event.hh`) | per event `_r`, `_refcount`, hook; per rendezvous `waiting_`, `ready_`, `blocked_closure_`; per closure its block position and driver | make, copy, drop, trigger, `at_trigger`, `join`, `clear`, `twait`, destroy an object | everything | hooks and destructors re-enter the runtime in the middle of a trigger or a sweep | counts are exact, nothing deleted is used, no wake-up is lost or false, an empty event's hook has fired |
| distributed events (`rendezvous.hh` `distribute_rendezvous`, `hard_at_trigger`) | children, `outstanding_` | `operator+`, second `at_trigger` | events | children triggered, cleared and dropped in any order; the object deletes itself | all children follow the parent; it empties when its children have; freed once |
| generated code (`compiler/processor.cc`) | the closure: block position, rendezvous, owner | start, twait, return | rendezvous, driver | the function body is re-entered at a label; the closure is freed on each way out except a block | the closure is freed exactly once, and never while it is blocked or queued |
| `simple_driver` (`xbase.*`) | slots, free list, queue | `add_blocked`, `make_unblocked`, `pop_unblocked` | closures | index links through a growing array | no slot lost; first in, first out |
| tamer driver loop (`dtamer.cc`) | preblock and asap queues, timers, signal and fd sets, loop flag | `loop`, `break_loop`, `at_*`, `kill_fd` | timers, kernel, closures | what is decided before the kernel call may be stale after it | nothing that is due is slept over |
| `driver_fdset`, `xpollfds` (`dinternal.hh`, `dtamer.cc`) | per fd three events, the change list; the poll set and its map; the epoll registration | `at_fd`, `kill_fd`, `update_fds` | kernel | fd numbers are reused; the change list is intrusive | the kernel watches exactly what somebody waits for |
| timers and asap queue (`dinternal.*`) | a 4-ary heap with insertion order; a ring buffer | `push`, `cull`, `pop_trigger` | events | `push` from within `pop_trigger`; lazy deletion; wrapping order numbers | timers fire once, in order of time and then of arrival |
| signals (`dsignal.cc`) | handler flags, blocked mask, pipe | `at_signal`, handler, `dispatch_signals` | kernel, events | the handler interrupts anything | a delivered signal is dispatched |
| time (`dinternal.cc`) | `recent`, virtual offset | `now`, `set_time_type`, `at_delay` | timers | microsecond carry | normalised, monotone in virtual time |
| mutex (`lock.*`) | lock word, list of waiters | acquire, release, cancel | events | cancellation while queued, wake-ups that are passed on | exclusion, order of arrival, no lost wake-up |
| channel (`channel.hh`) | queue of values, queue of waiting events | push, pop | events | a waiting pop may have been canceled | every value is delivered once, in order |
| fd (`fd.hh`, `fd.tcc`) | shared `fdimp` with locks, error, close events | open, read, write, accept, close, ... | driver, mutex, helper | close or destruction in the middle of an operation | every operation completes, with an error after close |
| adapters (`adapter.hh`, `xadapter.*`) | functional rendezvous | `with_timeout`, `with_helper`, `fun_event`, ... | events, driver | two causes race to complete one event | exactly one outcome is reported |
| buffered input (`bufferedio.*`) | ring buffer | `fill_more`, `take_until` | fd | two readers, cancellation | bytes are taken once, in order |
| helper processes (`fdh.*`, `fdhelp.cc`, `fdhmsg.*`) | pool of helpers | open, fstat, read, write | fd, kernel | pool at its limit, dead helper | every request is answered |
| reference counts (`ref.hh`) | strong and weak counts | `ref_ptr`, `passive_ref_ptr` | | weak references outlive the object | deleted once |
| DNS resolver (`dns.hh`, `dns.tt`) | table of questions, window of requests in flight, name servers in service and failed | `resolve`, reply handlers, probes, change of `resolv.conf` | fd, timers, adapters | datagrams are lost, late or repeated; servers fail and come back; callers give up | the table holds what is waited for; every request is answered; every server is listened to or probed |
| HTTP, WebSocket (`http.*`, `websocket.*`) | parsers, connections | | fd, buffers | protocol input | |
| libevent and libev drivers (`dlibevent.cc`, `dlibev.cc`) | the queues of the tamer driver, the count of watched descriptors, a timer of the library | `loop`, `at_*`, `kill_fd`, `break_loop` | external libraries | what the library is told lags behind; its timer lives in a stack frame | it blocks only with nothing to do, returns only with nothing to expect |
| preprocessor front end (`compiler/parse.yy`, `scan.ll`, `tame.*`, `output.cc`) | a parse tree | translate a file | | none, a sequential filter | |

`PROJECT.json` lists the parts with their status, and the hazards at the lines
where they bite.

## 2. The modules and how they build on each other

The order follows the dependencies of the code.  Everything rests on events and
closures, so that the runtime came first; then the driver, which decides when
closures run; then the services that are written as tamed functions.

| modules | what | abstract specification | checked by | proved |
|---|---|---|---|---|
| `Rendezvous` | events, rendezvous, closures, generated code | - | `events`, `closures`, `rendezvous_clear` | `RendezvousProofs`, `RendezvousMemory` |
| `Results` | the objects `event<T...>`, `preevent` and the results they fill in | - | `events` | `HandleProofs` |
| `Refs` | the counted references of `ref.hh` | - | `events` | `HandleProofs` |
| `Distribute` | distributed events | all summands follow the sum | `library` | |
| `Adapters` | cancel and value adapters | both or neither | `library`, `adapters_freed` | `ResolverProofs` |
| `SimpleDriver` | slots of closures | `RunQueue` | `closures` | |
| `TimerSet` | heap of timers | `TimerQueue` | `queues` | `ChannelProofs` |
| `AsapRing` | ring of asap events | `EventQueue` | `queues` | `ChannelProofs` |
| `FdWatch` | what the kernel watches | - | `watches`, `fds_stale` | `WatchProofs` |
| `Signals` | handler, pipe, dispatch | - | `watches`, `signals_hot` | `WatchProofs` |
| `ExecFds` | descriptors of a child | - | `files` | `FdProofs` |
| `DriverLoop` | the loop, over `RunQueue` and `TimerQueue` | - | `loops` | `LoopProofs` |
| `ForeignLoop` | the loops over libev and libevent | - | `watches` | `WatchProofs` |
| `Mutex` | the lock | `FairMutex` | `loops` | `LoopProofs` |
| `Fd` | a descriptor and its operations, over what `FairMutex` promises | - | `files`, `fd_closed` | `FdProofs` |
| `HelperPool` | helper processes and their sockets | - | `files` | `FdProofs` |
| `InputBuffer` | buffered input | the input, cut into lines | `files` | `FdProofs` |
| `Channel` | channel | first come, first served | `queues` | `ChannelProofs` |
| `Resolver` | the DNS resolver | - | `library` | `ResolverProofs` |

`Watches` (`FdWatch`, `Signals`, `ForeignLoop`), `Loops` (`Mutex`, `DriverLoop`),
`Files` (`Fd`, `ExecFds`, `HelperPool`, `InputBuffer`), `Queues` (`Channel`,
`AsapRing`, `TimerSet`), `Library` (`Resolver`, `Adapters`) and `Handles` (`Results`,
`Refs`) put models of one layer side by side, with the constants left open: what a run
checks of them and what a theorem says of them is then one definition.

`PROJECT.json` names the properties of each run, the hazards they are about, and
for each of them a plausible mistake in the code that the run detects.

## 3. How the modules correspond to the code

`PROJECT.json`, under `map`, gives the source lines of each definition.

### Rendezvous

One process, one thread.  What the model keeps is the C++ call stack, because
re-entry is where this code is hard.  Each frame is a function of the runtime
that may be interrupted by a call to something else: `simple_trigger` before it
begins (`"trigger"`) and when the hook of a functional rendezvous has returned
(`"finish"`), `hard_remove_waiting` in front of an event of the list (`"visit"`)
and behind its hook (`"next"`), the delete of a closure (`"free"`), the body of
a tamed function (`"run"`), the function inside the generated `twait` code
(`"twait"`), and user code called by a hook (`"user"`).  An empty stack is the
driver loop between two calls.  Runtime frames have one possible continuation
each (`Runtime`); where user code runs (`UserCode`) it may do anything its
variables allow: make, copy, drop, trigger, set hooks, clear, `twait`, return,
call another tamed function, destroy an object.

- `refs` is `_refcount`; `handles` counts the `event<>` objects of the program,
  so that `RefcountExact` compares the code's count with what there is to count.
- `life` tells whether the memory of an event has been released.
- `hook` is the event named by `at_trigger`; the model has the hook that triggers
  another event, which is what `make_event` given to `at_trigger` produces.
- `waiting`, `ready`, `blockedClosure` are the fields of the rendezvous.
- `status`, `position`, `linked` are the closure: its block position, whether
  the tamed_class still lists it, and where it is between its allocation and
  its delete.  `twait` tests the rendezvous before it blocks and after it is
  resumed, as the generated code does.
- `runq` is the driver's queue.  Closures leave it from the front.

What is assumed of user code: each tamed_class object has one function in
progress; a hook does not touch the explicit
rendezvous of a function (they are local variables); the handle through which an
event is being triggered is not used again during that trigger; an object is
destroyed while its functions are blocked or queued and not while one of them
runs.  `delete` is immediate in the model while the code defers it to the end of
`simple_trigger` (`to_delete`): nothing runs in between that could tell.

### Results

The `event<T0, ...>` of the program: `se` and `sv` are `se_` and what `sv_` points to,
`ev` the `simple_event` behind them (`on` is `_r`, `refs` is `_refcount`), `ids` the
copies of identifiers that `make_rid` has allocated and nobody has freed.  An
operation that triggers an event with a hook stops while the hook runs (`calls`), and
other operations go on meanwhile: `Return` does what was left, where an assignment
reads its source again.  Each result variable is given to one event (`bound`) and
belongs to a call (`Home`), which ends by `Leave` or, at any point, by `Destroy`;
`value` changes with each write.  One hook per event: a second makes a distributed
event.  `clear()` is modelled for events without hooks; its hooks are in `Rendezvous`.

### Refs

`use`, `weak` and `at` are `_use_count`, `_weak_count` and `_t`; `frames` is the call
stack of releases, of `full_release`, in which the program does anything its variables
allow, and of assignments that have still to read their source.  An object has one
`ref_ptr` as a member, which its destructor releases, so that lists and cycles of
objects come up.  A variable is assigned from a variable or a member.  If the object of
that member was deleted by the release that came first, `wild` is set, the behaviour
ends, and `ReferencesExact` says no more.

### SimpleDriver and RunQueue

`cs` is the slot array with its two index-linked lists.  Slot 0 is null.
`AddBlocked`, `MakeUnblocked` and `PopUnblocked` are `add_blocked`,
`make_unblocked` and `pop_unblocked`, with `grow` inside them.  `trace`
distinguishes builds in which a closure takes its slot on blocking from those in
which it does on unblocking.  `RunQueue` is a set of blocked closures and a
sequence; the mapping follows the links.

### Mutex and FairMutex

A request is a suspended call of `acquire`; `wait` is the list of `struct wait`,
`armed` the requests whose `w.e` is active, `active` those whose `done` is,
`ready` what its rendezvous has to join, `runq` the closures to resume.
`ResumeCanceled`, `ResumeObtained` and `ResumeRetries` are the three branches of
the loop, each with all that the function does until it waits again or returns,
the `wake` of the next waiter included.  `FairMutex` has the holders, the requests
that wait, and for each of these the ones ahead of it; it grants a request that has
nobody ahead.  The mapping takes `active` for those that wait and their order from
`wait`: a canceled request is gone at once, and leaves the list only when resumed.
An immediate request that the list serves looks like one that goes away.

### TimerSet and TimerQueue

`ts` is the heap as an array from 0.  `Push` appends and sifts up; it sets
`probing`, and `Probe` is one round of the loop that looks for empty events at a
random place.  `Cull`, `PopTrigger` and `PopRemove` are `cull` and the two halves
of `hard_cull(-1)`, between which user code runs.  `order` wraps at
`2 * HalfRange`.  `TimerQueue` is the list of active timers in the order in which
they should fire, and what is firing; `Due` maps the heap to it by sorting the
active records by time and age.  A sift is stated by the way of the record: `Rises`
and `Sinks` are the positions that it passes, `SiftUp` and `SiftDown` move what is
on the way by one and put the record at its end.

### FdWatch

`want` holds the active events of each descriptor; `changes` the intrusive list
(`changedfd1_`, `next_changedfd1`), in which the last element cannot be told from
one that is absent, so that an element may be pushed a second time and close a
cycle; `pfds` and `fdmap` the poll set; `reg` what the kernel watches through
epoll; `epoll` and `errors` the fallback.  `phase` runs from user code to
`update_fds` and to the kernel's wait.  The kernel is external: `close` drops a
registration, `ADD` fails on a registered file and `MOD` on an unregistered one.

`Fork` goes on with the child or with the parent.  `Enter` compares the pid, as only
the entry of `loop()` does (`tamer/dtamer.cc:413`), and not `goto again`.  A child that
was forked outside of `loop()` leaves the epoll set of its parent to it before it
touches it; one forked in a closure of a running loop goes on using the set, and so
does its parent (`share = "set"`, `"parent"`).  From then on either changes what the
other is told: `mark_epoll` may fail or not, any report may come, and `reg` is not
known.  `KernelWatches` makes no claim about such a set; the rest holds.  After any
fork the files are shared, so that `close` leaves registrations behind and reports may
be spurious (`Deliver`).

### Signals

The handler (`Handle`) may interrupt between any two steps, and the loop up to
the end of `dispatch_signals` is one action per statement that the handler could
separate.  `joined` is the distributed event that `sig_handlers[s] += ...` makes.

### DriverLoop

`driver_tamer::loop`, one action per event triggered and per statement that
decides.  Closures run for as long as they like in the four calls of
`run_unblocked`; when they block again they ask for an asap, preblock, timer or
descriptor event or wait for another closure.  The run queue and the timers are
`RunQueue` and `TimerQueue`, which steps 2 and 4 show to be implemented; to fire
a timer is one step here.  Two clocks are kept: `clock`, which goes on by itself,
and `recent`, what the loop has last read.

`BlockMs` is the conversion of line 451: the time left, with 250 microseconds added
(`Round`), is divided by a millisecond (`PerMs`) and cut to an int (`AsInt`).  The
driver may wake up early and poll again, or up to 250 microseconds late; and when
more than 2^31 milliseconds are left the number is negative, or a small one, and a
negative one means no timeout to `poll` and `epoll_wait`.  `NoOversleep` bounds the
one and names the other (`TooFar`); `EventsServed` promises a timer, unless the loop
sleeps without a timeout.  The wait begins at the decision: what the machine adds
between `now()` and the kernel call is not modelled.

### Distribute

`e1 + e2`, `e += f` and the second `at_trigger` hook make a
`distribute_rendezvous`.  A sum is one event on a node of its own; `es` are its
summands, `outstanding` is `outstanding_`, `node` the memory of the rendezvous,
which frees itself.  As in `Rendezvous` the C++ stack is kept, since the hook of a
summand runs in the middle of that summand's trigger.  `Sum`, `Add` and the hooks
are `make`, `hard_make`, `add`, `hook` and `clear_hook`.  A hook for `clear_hook` is
set only on summands that somebody else can still trigger; `quiet` is a history
variable that remembers the others.  That `es_` grows is left out: it is a set of
positions in a sequence.

### Adapters

One target and adapters on it or on each other: `bind`, `with_helper`, `map` and
`fun_event`, which `add_timeout`, `with_timeout`, `add_signal` and `with_signal` are
made of.  `holds` says whether the adapter's rendezvous has its target in an
`event<>`, which keeps it alive, or as a bare pointer.  `slot` tells who has set the
value of the event, `result` what the result variable says, and `why` is a history
variable: who ended the event in fact.

### AsapRing and EventQueue

`ses`, `head`, `tail` and `capmask` are the members of `driver_asapset`; `head` and
`tail` wrap at `Width`.  `EventQueue` is a sequence.

### ExecFds

`exec` from the checks of its arguments to the call of `execv`: the pipes, the
fork, and the loops in the child that move each descriptor to its place.  Tables of
descriptors say what each number refers to.  The caller closes what it gave away.
`list` is any list that `exec_fd` can be asked for: `Targets` are the numbers in the
child, `Given` those of the descriptors given to it, `InUse` what the caller may have
open besides.  The kernel gives out the lowest unused number (`Least(Free(...))`).

### ForeignLoop

`loop()` of the two drivers differs in where the timer lives and how often the
library is asked, which the variable `lib` distinguishes.  `fdactive` is the count
that the code keeps and corrects in `update_fds`; `signal` is one signal that closures
ask for, in the foreground or not, and the loop may return only in the second case.  The library is external: it
reports a descriptor only if it watches it, and its timer only if it was set.

### Fd

One `fdimp` with its wrappers (`refs`), the operations that hold weak references
(`weak`) and two locks.  A lock is the queue of the calls that asked for it, of which
the first holds it: this is what `FairMutex` promises of requests that exclude
one another.  `pc` is where a call is: waiting for its lock, for readiness, woken, or
done.  All overloads of `read`, `write`, ... forward to the one that is modelled.

### HelperPool

`get` and `put` are those of `fdhelper`, and `pc` goes through the body of `open`,
`fstat`, `read` and `write`.  A socket is a sequence of units, each of which knows
its request, so that a unit taken for another request's is seen.  `Loop` is the loop of
`read` and `write`: a canceled one moves the units that are left, but no more than
`crapbuf` holds (`CrapSize`), as the code does.  The helpers are the numbers
`1 .. count`, made ready in this order, as many of `NHelper` as could be made.  `Send`
asks nothing of the helper, since the code does not: it may still be in the loop that
reads the data of the write before.  Two history variables say what the code has
brought upon itself: `astray` holds the helpers to which a query was sent while
something was on its way to them or that were put back with more left over than
`crapbuf` holds, `short` the reads whose file ends before what they ask for, so that
`sendfile` sends less.  A helper that finds data where a query should be exits; in the
model it takes no further step.

### InputBuffer

`head`, `tail`, `size` and `pos` are the code's; positions grow and are taken modulo the
size.  `FillMore` first doubles a ring that is full, copying it from the head on, and
then reads what is there, waits, or meets the end.  `Deliver` is a call that finds its
delimiter, `TooBig` one that gives up on a line that is too long, and `Cancel` one whose
caller no longer waits.  `cuts` is a history variable: how much of the input each
string that was handed out ends at.

### Channel

`Push` and `Pop` at either end.  Events that are no longer active are passed over.
The function of an `Eager` receiver runs within the trigger.  Its event, or its value,
is then still in the deque, since the code triggers first and pops the deque afterwards
(`channel.hh:61-62`, `81-82`): `Push` and `Pop` end in the middle, `pending` says what
each such call will remove, any operation may follow, and `Return` lets the innermost
call go on.  It removes whatever is at its end by then; of an empty deque that is
undefined, and the model has no such step.  `crossed` is a history variable: a function
has pushed within a push, or has taken within a pop the value that this pop is about
to remove, or put another in its place.

### Resolver

One action for each part of `resolver::resolve` between two points where it may
wait, one for each way a datagram is treated (`Receive` and the functions behind
it), and the handlers of servers: `HandleNameserver`, `Recover`, `Probe`.  `id` counts the
questions of a request: each has a transaction number of its own.  `requests` is the
table in which a reply is looked up; `armed` are the questions whose event can still
resume the request.  Questions that have left the table are all alike, and a reply
to one of them is the reply `Late`.  The network is `asked`: what a server was
sent it may answer, any number of times, at any time, or never.  `stopped` records
that the program has stopped at an assertion, at a reply it does not expect or at an
iterator to a server that was erased.

## 4. Runs

Each passing run brings several models together that do not
interact: a variable `comp` picks one in the initial state, and the others stay as
they began, so that the numbers of states add up and do not multiply.  A property
of an instance says which model it is about (`comp = "heap" => ...`); the model that
the module extends keeps the names of its definitions and properties, which are
those the theorems of section 6 are about.  Fairness is stated for the actions of
each.

| run | question | instance |
|---|---|---|
| `events` | do counts, memory, lists and wake-ups survive re-entry; are counts of handles and of counted references exact, and results written in time? | 2 symmetric events, 2 tamed functions, 1 explicit and 1 functional rendezvous, 2 handles per event; 2 occurrences, 2 handles, 1 `event<>`, 2 preevents, 1 result and rendezvous of two of the three kinds at a time; 3 objects, 2 with a `full_release`, 2 variables, 2 passive references |
| `closures` | are all hooks called and do destroyed functions go away; is a slot of the driver ever lost? | the same with 1 function; 4 closures in slots that grow from 2 to 8, both builds |
| `queues` | do the heap with lazy deletion and the ring implement queues; does the heap keep its order; does a channel lose a value, or serve out of order? | 3 timers, 2 times, order numbers modulo 16, probing from 3 records, timers set from within a trigger; all heaps of 8 with distinct times, a ninth pushed, probing until nothing is empty; a ring with counters modulo 32 that grows from 2 slots, up to 5 events; 3 values and 4 receivers, two of them eager, so that two calls may be nested in another |
| `watches` | does the kernel watch what is wanted; is a signal lost; do the loops over libev and libevent block with work to do? | 2 descriptors, one of whose numbers is reused at once and of which one is not asked for hang-ups, 2 errors before epoll is given up, forks at any time; 2 signals, 3 events; libev and libevent, 2 descriptors, 2 timers, one background |
| `loops` | does the loop sleep over work, return too early or starve anybody; does the mutex it resumes lose a wake-up? | 2 closures, one background; timers for the times 2 and 5 of 6, with 3 units to a millisecond, one added, and ints of 4 values, so that waits are too short, too long and too far; 4 requests for the mutex, one of which releases at once |
| `files` | are the descriptor, the pool and the buffer coherent under cancellation and closing, and is everybody answered; does the child of `exec` get its descriptors? | 2 calls of any kind on a descriptor, 2 bytes, 2 wrappers; lists of up to 3 descriptors for a child at the numbers 0 to 2; 3 requests of 2 units to 1 or 2 helpers, a `crapbuf` of 1 unit, files of 0 to 2; all inputs of 6 characters in a buffer of 2, lines of up to 4 |
| `library` | do sums and adapters follow their events and own their memory; is the table of questions exact, is every server handled or probed, is everybody answered? | 2 leaves and 2 sums; 2 adapters of any kind on one event, one of which may be on the other; 2 requests with 2 names each, one in flight at a time (and one more, see section 7), 3 servers of which `resolv.conf` names two and then one or two others, 2 tries and 2 timeouts |
| `rendezvous_clear` | does `clear()` keep every event until its hook has been called? (no) | 1 function, 3 events, 1 handle |
| `fds_stale` | the question of `watches` with every number of a closed descriptor reused at once (no) | 2 descriptors |
| `signals_hot` | is a responder always protected? (no) | 2 signals, 2 events |
| `fd_closed` | does every operation report that its descriptor was closed? (no) | 1 call |
| `adapters_freed` | does `with_timeout` always find its event? (no) | 2 adapters |

Why the bounds are enough.  Two events on one rendezvous are what it takes for
one to trigger while the other is waiting, hooked to it, or in a sweep; the
second function lets a trigger unblock a closure other than the one running.  Two
sums give a sum of sums, and a summand common to both.  Two adapters on one event
meet in its hooks, and one on the other makes a chain.  Four closures fill an array
of two slots twice, so that slots are freed in between in every order.  The mutex
needs a holder, a woken waiter, a canceled one and a newcomer.  A 4-ary heap of three
records has one level, which is enough for counts and for stability; sifting
up in the middle of a removal needs nine records, hence the second heap in `queues`.  Two
handles and an `event<>` are source and target of an assignment and somebody who interferes;
three objects make a chain of releases with a `full_release` at its end or in the middle.  Two
descriptors give the cyclic change list and the swap in the poll set.  Two signals
are needed for the one that arrives while the other is dispatched.  Three entries
of `exec` are enough for a cycle of descriptors and for a pipe in between.  Two calls
on a descriptor are in the same lock or in different ones; two bytes let a call be
interrupted by a wait in the middle.  Three requests for one helper let one wait while
another holds it and the third comes in between the wake-up and the resumption; with
two helpers a write can end and its helper be asked again; a `crapbuf` of one unit is
enough after one of two was moved, and not before; six characters in a ring of two make it grow twice and wrap.  Two requests
compete for a window of one, and three servers let one fail, one answer and one
come from the next `resolv.conf`.

`CHECK_DEADLOCK FALSE` stands where a program may stop: all functions have
returned (`events`, `closures`) or freed memory was read (`events`), the heap has nothing left to be probed or the ring
cannot wrap further (`queues`), every request has been answered or the program has
stopped (`library`, `fd_closed`, `adapters_freed`, `rendezvous_clear`).

### Restrictions

Some inputs are left out by a named constant or a guard, since the code does not
treat them; section 7 says what happens.

| restriction | where | what is left out |
|---|---|---|
| `Immediate` | `Mutex` | exclusive waiters that release within their own trigger |
| `HookPush` guard of `Push` | `TimerSet` | pushes from a trigger that displace the record that is firing |
| `EarlyReuse` | `FdWatch` | descriptors whose number is reused before the next `update_fds` |
| `CancelHot` | `Signals` | canceling the only responder of a signal that has arrived |
| `CloseOnConnect` | `Fd` | closing while a `connect` waits for its lock |
| `Entries` | `ExecFds` | one descriptor given to a child twice |
| `Misuse` | `Results` | `"operands"`: using a handle that an unfinished operation is about to write; `"moved"`: triggering, copying or moving a handle that was moved from; `"preevents"`: leaving a call for which a preevent was made that is still kept |

## 5. Fairness

- `Rendezvous!Fairness` (run `closures`): a call on the stack goes on, the driver
  runs its queue, and code that was called returns or waits.  The last is an
  assumption on the program: a tamed function that spins starves everything in one
  thread.
- `Mutex!LiveSpec`: the driver resumes unblocked closures, and holders release.
- `TimerSet!Spec`: the loop comes round again whatever user code does in between,
  hence strong fairness of `Pops` and `Tick`; `push` finishes probing.
- `FdWatch!Spec`, `Signals!Spec`, `DriverLoop!Spec`: the loop goes on; nothing is
  assumed of the kernel beyond the pipe waking a sleeper and of time beyond
  going on.  In `DriverLoop` a closure wakes only later ones, or two closures
  could wake one another for ever within one call of `run_unblocked`.
- `Fd!Spec`: calls that can go on do.  Readiness of the descriptor is not assumed:
  `CloseEndsAll` is about descriptors that are closed, where nothing but the
  driver is needed.
- `HelperPool!Spec`: the driver resumes requests, and helper processes serve what is
  in their sockets.
- `Resolver!Spec`: weak fairness of the driver's part (`Moves`), strong fairness of
  each request's timer, which fires however many datagrams come first.  Nothing is
  assumed of the network and the servers: all of them may be silent for ever.

## 6. Proofs

`RendezvousProofs` proves, for every set of events, closures and rendezvous and
every bound on handles satisfying `ConstantsAssumption`:

- `TypeCorrect`: `Spec => []TypeOK`
- `WakeupNotLost`: `Spec => []NoLostWakeup`
- `WakeupNotFalse`: `Spec => []WakeupHolds`
- `QueueExact`: `Spec => []QueuedOnce`

None of the last three is inductive.  That a closure is not left blocked depends
on which rendezvous names it, and this on who may be on the call stack: a
rendezvous whose events are being swept must not be one that a blocked closure
waits for.  `WakeInv` says so:

- `StackOK`: each frame fits on those below it.  A function on the stack is
  running and is there once; a sweep belongs to a closure that is going away or
  to a body that is deeper on the stack.
- `Awaits(c)`: a running function is named by none of its rendezvous; a blocked
  one by exactly the one it waits on, which cannot be joined; a queued one by
  none, and the one it waited on can be joined.
- `InQueue`: the queue holds the queued closures, each once.

The first part of the module proves that every action preserves the types, with a
lemma for each operator (`TriggerType`, `CallHookType`, ...).  Then come
lemmas on the stack (`PopOK`, `PushOK`, `FreeFrames`), on changes of status
(`StatusOK`), on `Unblock` and `simple_trigger` (`UnblockRdvOK`, `TriggerOK`), and
then one lemma for each kind of step (`RuntimeWake`, `RunUnblockedWake`,
`UserWake`), with one case for each action.  `Inductive` puts them together.

`RendezvousMemory` proves, under the same assumptions and over `WakeInv`,
`MemoryExact`: `Spec => []EventMemoryExact`.  The invariant has two layers, so that
most steps need no counting.  `ListInv` says where an event can be found: on the
list of the rendezvous it names and nowhere else, and once; a list that is being swept
names events that are empty already; who has triggered names no rendezvous.
`CountInv` says that `_refcount` is the number of handles, hooks, unfinished triggers
and ready lists that refer to the event, and that a live event without references has
a frame on the stack that is about to delete it.

`HandleProofs` proves about the two models of `Handles`:

- `ReferencesAreExact`: `Counted!Spec => []ReferencesExact`, for any objects, variables
  and passive references, finitely many of them, until an assignment reads its source in
  a deleted object (`wild`).  `SourcesKept` is why this is all that can go wrong: the
  source of an unfinished assignment has what it had, for which the assignment already
  counts, unless it is a member and its object is gone.  Between
  two calls the counts are those of the pointers.  While a release is under way they
  are ahead, since a pointer changes after the count or before it: `WellStacked` says
  which frames may lie on which, `CountedIn` counts pointers together with what the
  stack still owes, and `Ledger` says what was released and deleted from the counts
  alone.  The three are proved for sets of frames and functions as parameters
  (`StackPush`, `StackPop`, `Redirected`, `Retargeted`, `LedgerDeleted`, ...), since
  each action moves several at a time.
- `ResultsWrittenInTime`: `Values!Spec => ResultsInTime`, for any occurrences, handles,
  preevents, rendezvous and results.  `Misuse` may contain `"operands"`: results are
  written in time even if the program touches the operands of an operation that is
  calling a hook.  It contains neither `"moved"` nor `"preevents"`; TLC violates the
  property with either.  `ResultsInv` says that a handle that was not moved from has
  results made for its own occurrence (`OwnResults`), and that what waits does so in
  the call of its results, which goes on (`OccsAtHome`, `PresAtHome`).  Any number of
  operations may be interrupted by hooks: what they do afterwards only passes on what
  some handle knew (`Shift`), while occurrences only become empty (`Quiet`).
- `HandlesAreExact`: `Values!Spec => []HandlesExact`, for a program that keeps all three
  rules (`Misuse = {}`).  `HandlesInv` says of each occurrence what its counters are by
  the set of those who refer to it (`Exact`).  For this no two unfinished operations may
  share an operand or an occurrence (`CallsApart`), and what is ready is ready once and
  empty (`ReadyOnce`).  A trigger under way has taken its own reference off the count
  already, and an assignment has already put its source's on: `Lent` and `Repaid` say what
  the counters owe before `unuse` and before `simple_trigger`, `UnuseCounts` and
  `TriggerCounts` that both settle it, whether a hook is called or not, and `ReturnCounts`
  that the operation which goes on after the hook changes nobody's count.

`LoopProofs` proves, for every finite set of requests (`RequestAssumption`):

- `MutexTyped`: `Spec => []TypeOK`
- `MutexExcludes`: `Spec => []Exclusion`
- `FirstWaiterWoken`: `Spec => []FirstIsWoken`
- `MutexServesInOrder`: `Spec => Ordered!Safety`, the safety part of `FairMutex`

The inductive invariant is `WaitInv`.  That the first waiter is woken is not
inductive, because the waiter may lose its wake-up later: when a canceled request
leaves the list, when an earlier request takes the lock, or when the woken one
tries in vain.  `Stands(r)` accounts for every wake-up: a waiting request has one
event to join for each of its two events that has triggered, its closure is in the
driver's queue exactly if it has one, and only the first waiter's `w.e` has been
triggered.  `Awake` says that this is so whenever the first waiter could have the
lock.  From the two it follows that this waiter's closure is queued.  `Stands` also
says why `ResumeObtained` may clear the rendezvous: nothing but `w.e` has triggered.
There are lemmas for the operations on lists (`WithoutOK`, `TailOK`, `AppendOK`,
`UnblockOK`), for `wake` (`WakeOK`) and for the lock word (`EnterOK`, `LeaveOK`,
`StayOK`), and one for each action.  TLC agreed with `WaitInv` on a small
instance before the proof was begun.

`StepMaps` shows that each step is one of `FairMutex`, or changes nothing there.
`Before` relates two requests of `wait`; joining puts a request after all others
(`BeforeAppend`) and leaving keeps the order of the rest (`BeforeWithout`).  A grant
goes to one who has nobody ahead because a waiter with `done` active is resumed only
if its `w.e` was triggered, which by `Stands` makes it the head of the list
(`MapObtained`); that the test of `acquire` is compatibility with the holders is
`FreeCompatible`, from `Exclusion`.

The same module proves of the tamer driver's loop (`Tamer!LoopAssumption`: any number
of closures, any times, units and width of an int) `LoopSleepsRight`:
`Tamer!Spec => []NoOversleep`.  `BlockMsBounds` is what the conversion to milliseconds
does to any time; `LoopInv`
adds to it that the timers are in order (`InOrder`) and, in `TurnInv`, which parts of
the loop leave the queue of closures empty and that the timeout that was computed
stands until `poll` ends, since only the outside moves in between.

`ResolverProofs` proves, for every finite set of requests, any servers, any
changes of `resolv.conf` and any limits (`ResolverAssumption`):

- `ResolverExact`: `Spec => []RequestsExact`
- `ServersCovered`: `Spec => []ServersHandled`

`RequestsExact` is made inductive by the types of the places and numbers of
requests and by `Queued`: who is in the queue of the window stands at that `twait`
and is there once.  That the window is exact is about cardinalities; `OneMoves` says
what one request's step does to the sets that are counted, and `Enters`, `Leaves`
and `GoesOn` what follows for the window.  `ServersHandled` is inductive together
with the types of the servers' variables.  Both proofs have one lemma for each
action.

The same module proves of the adapters (`Wraps!AdapterAssumption`: finitely many, of any
kinds, each `with_helper` with a result variable of its own) `AdaptersSafe`:
`Wraps!Spec => []AdaptersAgree`.  Triggers nest to any depth, and every frame of the C++
stack still owes something, so that the property, which speaks of the time between calls,
says nothing of most states.  `WrapInv` says what is owed, in terms of six sets of events
that are gathered from the stack: whose hook, deletion or second half of a trigger is still
to come, whose reference a trigger will give up, who is in a list of hooks that is being
called, and whose trigger has not ended.  `Turns` says what one frame more or less changes in
them; the rest is proved for sets in place of stacks.  `Calls` says that an adapter and its
target differ only while one of them is about to be told, `Values` and `Outcomes` that a value
and a result variable agree with who ended the event, `Counts` and `Nodes` that each
reference is held by a handle, an adapter, a hook or the stack.  Each takes as a parameter
the event whose trigger is about to begin, so that `SimpleKeeps` and `UnuseKeeps` serve all
hooks and operations, whatever they do before the call.  Stacks and hooks may be of any
length: `MaxHandles`, `MaxHooks` and `Kinds` are arbitrary.

`WatchProofs` proves, for any number of descriptors and any positive limit on the
errors of epoll (`FdAssumption`):

- `WatchTyped`: `Spec => []TypeOK`
- `PollSetFollows`: `Spec => []PollSetCoherent`
- `WatchesWhatIsWanted`: `Spec => []KernelWatches`

The inductive invariant is `WatchInv`.  `KernelWatches` speaks of the moment when the
list of changes is empty; `Registered` is what holds before that too: epoll
watches what the poll set says, and `ChangesNoticed` keeps on the list whoever's
entry of the poll set is not what is wanted.  It claims nothing of a set that two
processes change (`SetShared`).
The list itself is the difficulty.  A descriptor that pushes itself again while it is
the last one on the list becomes its own successor, so the list may end in a cycle,
and the proof cannot suppose that it ends at all.  `Walk` therefore says that it
passes through its elements once each and then ends or comes back to one of them,
and that nobody else has a successor; `PushKeeps` and the lemmas about popping show
that a change is never lost from such a list.  That the poll set never grows past
the number of descriptors is a pigeonhole argument on the map (`MapCoherent`).
There is one lemma for what `update_fds` does with one descriptor, and one for each
action.

The same module proves about `Signals` and `ForeignLoop`:

- `SignalsSafe`: `Sigs!Spec => []SignalSafety`, for any number of signals and responders,
  if nobody cancels the only responder of a signal that has come (`CancelHot = FALSE`;
  run `signals_hot` shows what happens otherwise).  The handler may run between any two
  statements.  `DispatchInv` says that what is being dispatched is blocked and has its
  handler until the reset; `MarkInv` that a mark which the dispatch under way does not
  see has left its trace in the flag and the pipe.
- `ForeignSleepsRight` and `ForeignReturnsRight`: `Foreign!Spec => []ForeignNoOversleep`
  and `Foreign!Spec => []ForeignReturnsIdle`, for any finite sets of descriptors and
  timers, both libraries, and a signal that is waited for in the foreground or not.  `FdsInv` says that what is not watched as wanted is on the
  list of changes and that `fdactive_` counts the rest; `DecisionInv` that the decision
  to wait or to return holds until the library has run.

`FdProofs` proves, for any finite set of operations and any number of copies,
`LifetimeExact`: `Spec => []DescriptorLifetime`.  That includes the count of deletions
when the last wrapper goes while an armed event of `closer()` is the only weak
reference: it is 2, and exactly then (`torn`; the end of section 7 tells why).
`LifeInv` strengthens it by what excludes a second close: an event of `closer()` is
armed only while the number is open, and while a call such as `tcp_connect` makes
the descriptor nobody else has it.  The weak count is the cardinality of the
operations in progress, plus one for an armed closer; `Count` and `CloseImpOK` say
how both move.

`OperationsOrdered`: `Spec => []OperationsInOrder` is proved over `LifeInv` from
`OrderInv`: for each direction the lock's queue holds the pending calls in the order in
which they were made (`QueueInv`), whoever was answered has nobody before it that is
pending (`AnsweredInv`), and whoever has moved bytes is at its turn or was
(`MovedInv`).  `sendmsg`, which takes no lock, is left out of the order, as in the
property.

`ChildPlaced`: `Exec!Spec => []ChildDescriptors`, for any tables, lists of descriptors and
numbers in use.  `ExecInv` says who holds which number: in the caller and in each
entry that was opened its two ends and nothing else (`CallerInv`, `PipesInv`); in the
child (`ChildInv`) the entries that were placed are at their numbers and the others
where `inner` says, so that an entry in the way of another is found in the rest of
the list before it is overwritten.

`HelpersInOrder`: `Pool!Spec => []HelperInOrder`, for any number of helpers, requests and
units of data, and any size of `crapbuf`.  That a helper has one place is proved of all
of them, what is said of the sockets for those that have not gone astray; section 7
tells what happens to the others.  `PlaceInv` says where each helper and each request
is, `WireInv` what is in the sockets of the helpers in order: a helper whom nobody has
asked is silent or still writes what it was sent in full (`Idle`), the units that are
moved, in the socket and still to come make up what was asked for, or less of a file
that ends early (`Writes`, `Answers`), and a helper counts from what was asked for down
to nothing (`InCount`).  `LoopGoes` says what the loop of `read` and `write` does to
all of this, `HandedOut` that a helper with nothing on its way to it is silent.

`LinesTaken`: `Buffer!Spec => []LinesExact`, for any input, initial size and limit on a
line, and however the input arrives.  `BufInv` says that the ring holds, from the head
up to the tail, what came in behind the strings that were handed out (`Ring`), and that
no delimiter lies between the head and `pos` (`Clean`).  The indices wrap: `ModAdd`
turns the code's remainder into one comparison (`Wrapped`), `RoomIs` shows that what is
read overwrites nothing that is still wanted, `GrownRing` that a ring which has grown
holds the same, and `BetweenIs` that the two pieces which `take_until` puts together are
the string.  No step uses that the size is a power of two; that the first size is
positive is taken from `BufferAssumption`, which TLC evaluates, since the prover knows
nothing of powers.

`ChannelProofs` proves, for any values and receivers, if "no value" is not a value:

- `NothingWaits`: `Spec => []NothingWaitsForNothing`
- `OrderKept`: `Spec => ServedInOrder`

The invariant `ChannelInv` replaces the counts of `NothingWaitsForNothing` by places:
each value has one place in the queue or one receiver (`Once`), each receiver one
place in the line, or none (`Line`).  `PassedOK` shows that `Passed`, a CHOOSE, has a
value, from the least number of events to drop; it cites that the order of the
numbers is well-founded.  `Calm` is what holds until something is crossed: no two calls
that are under way remove the same thing, one that removes a waiter is alone, and the
counts are of what lies between the ends that are about to be removed (`Kept`, `Inner`).
That the line itself is kept (`Line`), and so the order of service, needs no such
condition.

- `RingIsQueue`: `Ring!Spec => ImplementsEventQueue`, the ring of asap events

The ring is a queue for any width of the indices and any first size, under
`RingAssumption`: each capacity divides the width (`Fits`), as it does in the code,
where both are powers of two, and memory ends before the capacity reaches the width.
`RingInv` says that the slots are as many as the mask has values, that no more of them
are taken than there are, and that what is in the ring (`InRing`) are events.  It
replaces the cut to the index's width by the plain remainder: `ModMod` is where the
division is needed, `ModAdd` and `ModGap` say that an index wraps at most once.
`PushPlain`, `ExpandSame` and `RingPop` are the three steps of the queue.

- `TimersOwned`: `Timers!Spec => []HeapOwns`, memory of the heap of timers
- `TimersInOrder`: `Timers!Spec => []HeapOrder`
- `EarliestFires`: `Timers!Spec => [][EarliestOnly]_vars`, what a heap is for: an event
  begins to fire only when it is due, and before every other in the heap, by time and
  then by the order in which they were set (`FrontLeast`)

They hold under `TimerAssumption`, for any arity above one, any number of timers and any
`HalfRange` above one.  `TimersInv` says that `ts` is a heap of some number of records
(`HeapIs`), which of them hold references (`Owned`), and that the record whose event
fires stays in front while hooks set timers (`InFront`), which is why `PopRemove` takes
out the right one.  How far a record rises or sinks is a recursive function of its
position.  The provers have no induction over it, but need none: `WayExists` and
`WayReaches` take a least position for which the claim fails, which exists since every
nonempty set of numbers has a least element, and find a lower one.  `Reached` is what the
rest of the proof knows of a way; from it follow that a sift is a permutation (`MovedPlaces`) and that it repairs a
heap that is wrong at one place (`UpHeap`, `DownHeap`), and so that the record which
fills the gap in `hard_cull` may go either way (`WithoutReheaps`).  The code compares
order numbers by their signed difference, which is no order of all the numbers; it is
one of those in the heap because all are less than half the range old and no two are
equally old (`Aged`, `Older`, `RankedRecords`), and `NextOrder` and `Ages` keep that as
the counter wraps.

What is proved and what is only model-checked:

- Liveness and fairness, and everything that speaks of ENABLED, is out of the
  prover's reach: `RuntimeSettles`, `EveryTimerFires`, `KernelWorkEnds`, `EventsServed`,
  `EveryoneServed`, `CloseEndsAll`, `EveryRequestEnds`, `EveryRequestAnswered` are
  model-checked.
- So are the refinements `ImplementsRunQueue` and `ImplementsTimerQueue`: they contain
  fairness, and the mappings select from or sort sequences, by recursion or by counting.  Of `ImplementsFairMutex` the safety
  part is proved (`MutexServesInOrder`); its fairness is model-checked.
- Safety that is model-checked only: `SumsExact`.  It equates the counts of events and of
  distributed nodes with sums over all the lists that name them (`Total`, a fold over
  a set that each step changes at a point): how such a sum changes with one summand is
  an induction over the set, which the provers at hand cannot do.

## 7. Findings

Five runs show a disagreement between the code and its documentation or
comments.

- **A swept event may be deleted before its hook is called** (`rendezvous_clear`,
  `tamer/xbase.cc:182`).  `hard_remove_waiting` empties all events first; a hook
  that then drops the last handle of another one deletes it at once, though the
  walk has still to read it.
- **A reused descriptor number may go unwatched** (`fds_stale`,
  `tamer/dtamer.cc:355`).  With epoll, closing and reopening a descriptor with the
  same events between two calls of `update_fds` leaves the kernel without a
  registration.
- **A handler may be missing while a responder waits** (`signals_hot`,
  `tamer/dsignal.cc:105`).  If the event of a signal that has arrived is canceled
  before the dispatch, the handler is reset; a closure that registers for that
  signal during the dispatch is left with the default action.
- **A canceled read reports end of file** (`fd_closed`, `tamer/fd.tcc:370`).
  `read_once` and `write_once` answer 0 when the descriptor was closed while they
  waited; the other operations answer `-ECANCELED`, as the comment of the class says.
- **with_timeout may read an event that was deleted** (`adapters_freed`,
  `tamer/xadapter.cc:25`).  It keeps a pointer without a reference; when `bind` or
  `map` on the same event goes first and gives back the last reference, the event is
  deleted while its hooks are still being called.

Behaviour that the models leave out by a restriction (section 4):

- `hard_cull(-1)` triggers the event in front while its record is still there.  A
  trigger that pushes an earlier timer, or pushes the 32nd and has the random probe
  hit the front, makes it remove another record.
- A waiter for an exclusive lock whose `done` releases the mutex within its
  trigger leaves the next waiter asleep, because it is itself still in front of
  the list (`tamer/lock.tcc:120`).
- `connect` that waited for the write lock uses the descriptor number without asking
  whether the descriptor was closed, and stops at the assertion of `fdnum`
  (`tamer/fd.tcc:823`).
- One descriptor given to a child under two numbers is closed by the first `dup2`
  (`tamer/fd.tcc:1102`).

Behaviour that the models include and a reader should know of:

- An event made by `closer()` holds a weak reference, and is triggered by `close`.
  When the last wrapper goes while such an event is armed and no operation is in
  progress, `deref` calls `close`, the event gives its weak reference back, which
  deletes the object, and `deref` then reads the counts of the freed object and
  deletes it again (`tamer/fd.hh:145`).  `Drop` has this step; `torn` marks it and
  `DescriptorLifetime` says that the object is deleted twice then and only then.
- `list = list->next` with the last reference to the first node reads `next` after the
  node was deleted: `ref_ptr::operator=` releases what it has before it reads its
  argument again (`tamer/ref.hh:187`).  `AssignEnds` has this step and marks it `wild`.
- A timer more than about 24.8 days ahead makes `blockms` overflow
  (`tamer/dtamer.cc:451`): when it is the first timer and the int turns out negative, the
  driver waits for descriptors and signals only, and the timer fires when one of these
  next wakes it after its time.
- A child that is forked by a closure and stays in the running loop, or runs until it
  returns, uses the epoll set of its parent: the pid is compared only when `loop()` is
  called (`tamer/dtamer.cc:413`).  Each then changes what the other is told, and a report
  about a descriptor that only the other has a `driver_fd` for makes line 499 index
  `fds_` out of range.
- A channel triggers an event before it removes what it took (`tamer/channel.hh:61`,
  `81`).  A function that runs in the trigger of a push and pushes itself removes the
  event that is being triggered, whose reference is then released twice, and the outer
  push removes the next waiter, unserved, or pops an empty deque; one that runs in the
  trigger of a pop and pops the same end is given the same value again, and another is
  lost.  No comment forbids either; both channel properties hold up to there.
- With two events on one signal, both canceled, the cancellation hook runs before
  the distributed event notices, so that the handler stays installed
  (`tamer/dsignal.cc:61`).  It does no harm while the signal is ignored.
- `loop()` that returns for want of events leaves `loop_state_` set
  (`tamer/dtamer.cc:442`, `457`), so that a later `once()` loops.  `break_loop()` from
  a closure that runs at line 424 still blocks in the kernel call once.  A preblock
  event registered there is triggered only after the kernel call.
- A helper is put back as soon as the data of a write is in its socket
  (`tamer/fdh.tt:254`), while it may not have read them, and the next request sends its
  query without asking (`tamer/fdh.tt:125`).  A helper that is still in its loop takes
  the query for data (`tamer/fdhelp.cc:158`): it is written to the file, and the count
  of what is left, a `size_t`, wraps around, so that the loop never ends.
- When a read or write of a helper is canceled with more than 2048 bytes left, `crapbuf`
  takes only so many of them (`tamer/fdh.tt:206`, `250`): the rest stays in the socket
  and is taken for the next request's, or the helper waits for data that nobody sends,
  although the comments say that the rest must be read and the amount be correct.
  `HelperInOrder` holds for a helper until one of the two happens to it.
- A read of a file that is shorter than what it asks for never ends: `sendfile` sends
  what there is (`tamer/fdhelp.cc:144`), and the request waits for the rest
  (`tamer/fdh.tt:194`), even when its caller cancels it.
- The pool of helpers stalls when two requests wait: `get` queues again behind the
  other waiter although a helper is ready, and nobody wakes either
  (`tamer/fdh.tt:46`).  `EveryRequestEnds` is about behaviours in which never two wait,
  no helper goes astray and no file is too short.
- `sendmsg` takes no lock, and may come between the parts of a `write`.
- Two adapters that share a result variable overwrite each other's outcome; the run
  gives each its own.  A `bind` and a `map` of which one is the other's target keep each
  other alive when the target's variable is moved.  Clearing a sum whose event was
  deleted by a hook is the first finding again.
- A canceled `fill_until` leaves a reference to a variable of a frame that is gone; it
  is written only by a reader that is resumed, so that one reader does no harm.
- A name server that failed goes back into service with its event already triggered
  when `resolv.conf` is read again at that moment; its handler then finds the event
  empty and fails it once more.  The window admits one request more than
  `_max_inflight`, since it is tested with `>` before the count goes up.
- `next_nameserver` stops at its assertion (`tamer/dns.hh:670`) when the last server
  fails while a request whose caller gave up goes round its loop (`tamer/dns.tt:539`), or
  when a request leaves the window and finds no server.  `_nsindex` may be an iterator
  to a server that was erased (`tamer/dns.tt:390`), and `i` is read at `tamer/dns.tt:405`
  before it is set.  The model has these steps (`stopped`, and a free choice).
- A reply that cannot be parsed, or is no reply, has the error -1
  (`tamer/dns.tt:41`, `69`, `99`), which ends in `assert(false)` under "This can not
  happen" (`tamer/dns.tt:533`).  `Replied` stops there.
- `evtimer_del` is called for a timer that was never set when libevent's loop does
  not wait (`tamer/dlibevent.cc:231`).

## 8. Not modelled

- Of the core: what the values of `event<T...>` are (that and when they are written
  is in `Results`), descriptions and locations, the wording of messages, failing allocation; destruction
  of an object whose function is running.
- Of the driver: virtual time and `now`, `next_wake`, `driver::clear`,
  `clear_unblocked`, the immediate driver, failure of `pipe` for signals, `close(2)`
  behind the driver's back.
- Of descriptors: the branches for `HAVE_TAMER_FDHELPER`, which do not compile;
  `open`, `fstat`, `listen` and `bind` are single calls without a wait; a second
  reader of one buffer; creation and loss of helper processes and the passing of
  descriptors to them.
- `rebind`, `push_back_event` and `output_event` only rename or store values.
- Of the resolver: packets and their parsing (a reply has one of five outcomes, and is late or not), files,
  connections over TCP beyond their outcome, two questions that draw the same
  number by chance, the destruction of a resolver, and more than one
  change of `resolv.conf`.  A reply and a timer that come in one round of the loop
  are taken in the order in which the driver triggers them.
- HTTP and WebSocket: formatters and parsers (one of them third-party code) over the
  descriptor operations, sequential and with unbounded data.
- The front end of the preprocessor: a sequential filter that parses and prints C++;
  the skeleton of the code it generates is in `Rendezvous`.
- libev, libevent and the kernel: external, modelled by what the code relies on.
