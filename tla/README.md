# A verification development for luv

luv binds libuv to Lua. Lua code runs in *states*: the main state of an OS
thread, and the fibers (coroutines) created in it. Calls that would block
suspend the calling state; a scheduler in the thread resumes the ready ones and
otherwise runs libuv's event loop, whose callbacks make states ready again.
Everything in luv that is hard to get right hangs on that: who is in which
queue, which callback wakes whom, and what is on the stack of a state when it
goes on. Sources are in `src/src/`.

## Parts and modules

| Part | State | Hard behaviour | Module |
|---|---|---|---|
| fibers, `luv_fiber.c` | flags, join queue, Lua stack | joins of fibers in any phase; errors | `LuvSched` |
| scheduler, `luv_thread.c`, `luv_state.c` | ready queue, `curr`, async handle | order of wake-ups; loop blocking with work queued; starvation | `LuvSched`, `LuvStates`, `LuvLoop` |
| conditions, `luv_cond.c` | queue of waiting states | node linked twice; waiters left over | `LuvSched`, `LuvObject` |
| timers, idle, `luv.sleep` | handle active, repeat | stale links and timers | `LuvSched` |
| intrusive queues, `ngx-queue.h` | `prev`, `next` | coinciding cells; inserting a linked node | `NgxQueue` |
| objects, `luv_object.c` | flags, waiters | one waiter signalled of many | `LuvObject` |
| streams, `luv_stream.c`, connect of `luv_net.c` and `luv_pipe.c` | flags, saved buffer, waiters, request | all kinds of waiters in one queue; close twice | `LuvStream` |
| listen and accept, `luv_stream.c` | count of connections, `OWAITING` | reports before, during and after accept | `LuvServer` |
| getaddrinfo, `luv_net.c` | the request of a state | shares the request with streams | `LuvNet` |
| 0MQ, `luv_zmq.c` | flags, two queues | bits shared with objects; messages announced once | `LuvZmq` |
| OS threads, `luv_thread.c` | two schedulers | flags written across threads; joining blocks the loop | `LuvThread` |
| codec, `luv_codec.c` | table of seen objects | numbering of shared references | `LuvCodec` |
| codec buffer, `luv_codec.c` | buffer, varints | growing; sizes at the boundaries | `LuvBuf` |
| file system, `luv_fs.c` | one request per state, descriptors | requests that fail to start; results in any order | `LuvFs` |
| processes, `luv_process.c` | handle, spawner | exit during another call | `LuvProcess` |
| `luv.c` otherwise, `luv.h`, build files | none | none | no |

The modules build on each other as the code does:

```
LuvStates   <-- implemented by --  LuvSched      NgxQueue  LuvThread  LuvCodec  LuvBuf
    |
 LuvLoop ---- LuvFs -----------.
    |                           LuvProcess
 LuvObject --+-----------------'
             +-- LuvStream -- LuvNet
             +-- LuvServer
             +-- LuvZmq
```

**`LuvSched`** is the scheduler with fibers, timers, idle watchers and
`luv.sleep`. One party runs at a time, so the control state is one variable:

| `pc` | who runs |
|---|---|
| `lua` | the Lua code of `curr`; every luv call is one action |
| `once` | `luvL_thread_loop` / `luvL_thread_once` |
| `exit` | the loop in `luvL_thread_once` that readies the joining states of the fiber `drain` |
| `poll` | libuv in `uv_run_once` (external) |
| `rouse` | `luvL_cond_broadcast` on the object `drain` |
| `broken` | a node was linked while it was linked; nothing is claimed after that |

`flags`, `queue`, `joinq`, `condq` and `curr` are the fields of the C structures
(`state->flags`, `thread->rouse`, `fiber->rouse`, `object->rouse`,
`thread->curr`). `async` is the `uv_async_t` of the thread: whether a send is
outstanding and whether the handle is referenced. `call` is where in luv a
state is suspended, and `stack` what its call will return; of values only their
origin is kept. `fired` remembers which callbacks the current `uv_run_once` has
run. The wake-up loops take one step per element.

Resuming a state follows the code's paths: a fiber that yields is queued again
if it still has `FREADY`; one that returns has its joining states readied and is
closed; one that fails is closed and its error is raised in Main out of
`luvL_thread_suspend`, which leaves Main without `FREADY`.

`Risks` says what the Lua program may do beyond ordinary use:

* `poke`: it readies or joins a fiber that is blocked in another call;
* `error`: fibers raise errors, which Main catches with `pcall`;
* `stray`: Main waits for an inactive object when nothing keeps the loop alive.

**`LuvStates`** is the abstract specification: a state is unborn, parked, ready,
running or dead, and moves between these in the allowed ways only, one running
at a time. `LuvSched` implements it under `StatusOf`.

**`NgxQueue`** is the queue at the level of pointers: any number of rings and
nodes, with the macros' assignments in their order. `elems` is a history of
what was inserted and removed; the properties say the pointers agree with it.
Detached nodes hold pointers left over from earlier use. `LuvSched` uses
sequences where the code uses these rings, and `NgxQueue` justifies that as
long as no linked node is linked again; for that case, see the theorems
`RelinkSticks` and `StuckForever`.

**`LuvLoop`** is the thread as an object that waits for I/O sees it: states
move as `LuvStates` says, so the detail that `LuvSched` is shown to implement is
not repeated. A state calls luv while it runs; a callback runs only while the
thread polls, which is when no fiber is ready; then Main goes on if it is ready,
the fibers otherwise. `call` is the luv call a state is suspended in and `ret`
the values on its Lua stack, which that call will return, so "the call returned
somebody else's values" can be said. `risks` is explained below.

**`LuvObject`** adds the flags and the one queue `rouse` of an object, with
`luvL_cond_wait`, `luvL_cond_signal`, `luvL_object_close` and its callback.

**`LuvStream`** is a connected stream. `wire` is what libuv will report (chunks
numbered by the peer, then an end or an error), `buf` the chunk `_read_cb` saves
when nobody waits, `sized` whether the allocation callback has a length, `pend`
the requests of a state that libuv holds: the code has one per state, so a
second one overwrites the first. `_read_cb` is two actions, for somebody
waiting and nobody waiting.

**`LuvNet`** extends `LuvStream` with `getaddrinfo`, which uses the same request
of the state: the composition is checked, not each alone. Its option chains are
modelled as written: the first of the six comparisons tests for equality, the
other five hold when the strings differ.

**`LuvServer`** is a listening stream: the counter of reported connections, the
connection libuv holds, `OWAITING`. A report may fail (`MaxFault`). `client` is
the connection that was put into the stream a state passed to accept, and `given`
how often accept has returned each connection.

**`LuvZmq`** has the two queues of a socket and the 0MQ side that makes it hard:
the descriptor becomes readable once for a command (`posted`), and any look at
the socket uses it up. `WSEND` and `WRECV` are the flag bits of `luv.h`, which
coincide with `OWAITING` and `OCLOSING`. Messages are numbered, `got` and `told`
are what recv and send have returned, and with the risk `fail` every operation of
0MQ whose result the code tests may fail, in a call and in the callback.

**`LuvThread`** has two OS threads. They share the child's flags, which both
change without a lock, so a compound assignment is a read and a later write.

**`LuvFs`** is `LUV_FS_CALL` and `luv_fs_result`: Main's calls are synchronous,
a fiber's go through its request, the thread pool and the callback. The kernel
is the table of descriptors. Operations with the same results are one operation.
**`LuvProcess`** puts `spawn`, `kill` and the exit callback beside it, on the
same states.

**`LuvCodec`** has encoder and decoder as recursive functions over a heap of
objects; the reference definition is `Isomorphic`. The length of a table with nil
entries is any of its borders, as Lua says. **`LuvBuf`** is the buffer
and the variable-length integers below it, byte by byte.

Modules named `MC...` are what TLC runs. Definitions headed `Mutated` are
altered forms that show each property is sensitive to the code; nothing uses
them otherwise.

## Risks

Much of what can go wrong depends on what the Lua program does. A *risk* is a
kind of use that guards of the model look at: with it the program may do more.
In `LuvSched` the set is the constant `Risks`. In the other modules it is the
variable `risks`, which takes any of the constant `Cases` at the start and never
changes, so one run covers disciplined and careless programs together. A property
that does not survive a risk says so with `Avoids({...})`; every risk not named
there is one it does survive: in the cases of the run and, where it is proved, in
every combination.

| Module | Risk | The program, or the outside |
|---|---|---|
| streams | `share` | waits for a stream another state waits for |
| | `again` | uses a stream after its end or its close, or shuts down one that was never connected |
| | `failed` | closes a stream whose read failed, as the example in `src/README.md` does |
| | `shutdown` | shuts down a stream that is being read from |
| | `start` | calls `stream:start` and `stream:stop` itself |
| | `pipe` | uses `pipe:connect`, which does not wait |
| | `fail` | (LuvNet) the resolver refuses a request or finds nothing |
| server | `share`, `again` | several states accept; use after close |
| 0MQ | `share`, `duplex`, `close` | several states in one direction; both directions at once; close while a state waits |
| | `fail` | an operation of 0MQ fails |
| threads | `fibers`, `infiber`, `fail` | the joining thread has readied a fiber; a fiber joins; the function fails |
| files | `closed`, `temp`, `sendfile` | uses a closed file; writes a string nothing else refers to; calls sendfile |
| | `fail`, `start` | an operation fails; libuv does not accept a request |
| processes | `detach` | spawns without waiting |
| codec | `hook`, `nil` | a hooked table holds an object; an upvalue is nil |

Which risk breaks which property of a stream (`x`: TLC finds a violation with that
risk alone when the guard is taken away; blank: it finds none. For the last three
rows the run `net` has the risk `fail` only, and the others take longer than a run
that is kept):

| | `share` | `again` | `failed` | `shutdown` | `start` | `pipe` |
|---|---|---|---|---|---|---|
| `NothingLost`, order of reads | | | | | | |
| `NothingLost`, no chunk lost | x | | | x | x | x |
| `ReaderListens` | x | x | | | x | |
| `WaitersExact`, waiting states are linked | | | | | | |
| `WaitersExact`, linked states wait | | | | | | x |
| `OneRequest` | x | | | x | x | x |
| `OwnResult`, values | x | x | | x | x | x |
| `OwnResult`, close returns closed | x | | | x | x | x |
| `ReadEnds` | x | x | | | x | |
| `RequestEnds` | x | | | x | x | x |
| `CloseEnds` | x | x | x | | | |

## Runs

| Run | Instance | Checks |
|---|---|---|
| `sched` | two fibers, a timer, one sleep per state, no risks, fairness | `WaitLinksExact`, `NeverRelinked`: a state is in a queue exactly while it waits there, and is never linked twice. `OnlyItsCause`: it goes on for the cause it waits for. `MainJoinValues`. `QueuedFiberRuns`, `BlockedEnds`: it does go on. |
| `sched_risks` | two fibers, an idle watcher, all risks | `ReadyQueueExact` and refinement of `LuvStates` (`ImplementsStates`) survive any program. |
| `queue` | two queues, three nodes | `RingsExact`: pointers agree with contents. |
| `stream` | Main, a fiber, one stream, two chunks; no risk, each one, all | `NothingLost`, `ReaderListens`, `WaitersExact`, `OneRequest`, `OwnResult`. |
| `net` | the same with getaddrinfo, one chunk; resolver may fail; fairness | `OwnAddress`: each state gets its own answer. `RequestEnds`, `ReadEnds`, `CloseEnds`. |
| `server` | Main, two fibers, three connections, one failed report, all sets of risks, fairness | `ConnsOnce`: what accept returns. `HeldIsCounted`, `AcceptEnds`. |
| `zmq` | Main, a fiber, two messages, a high-water mark of one, five sets of risks, fairness | `MessagesInOrder`, `SentIsAccepted`, `CloseCloses`, `WaitersServed`. |
| `thread` | two threads, four waits of the child, two handles of the other, all sets of risks, fairness | `ChildCanSuspend`, `CutShortByJoinOnly`, `WaitEnds`, `JoinEnds`. |
| `process` | Main, a fiber, two files on one descriptor, a process; no risk and each one, fairness | `RightFile`, `FdsAccounted`, `BuffersFreed`, `OwnResults`, `CallsEnd`. |
| `codec` | all heaps of up to three objects in one value, of up to two in three values | `RoundTrip`: what is decoded is what was encoded, but for upvalues after a nil one. `ReadsToEnd`: with any risk, the decoder stops where the encoder did. |
| `buf` | lengths and integers at the boundaries | `InBounds`, `ReadBack`, `NeedEnds`. |
| `error_joiner` | two fibers, risk `error`; a violation is expected | `NoJoinerOfDead` fails: a fiber that ends with an error leaves the states that join it waiting. |

The modules also state their types (`TypeOK`). It is not in the configurations;
add `INVARIANT TypeOK` to check it (for streams with `MCStream.cfg`). It is proved
for `LuvSched` (`TypeCorrect`); the other proofs carry the part they need.

**Deadlock** is checked in `queue`, `process` and `codec`. In the others it is
not: a program may end, or block for ever in the event loop with nothing to come,
in a join (`fibers` in `LuvThread`), or after the model's bounds are used up, and
these are behaviours of luv that leave the model without a next step.

**Bounds.** Two fibers and Main are three parties for each queue of the
scheduler: a fiber can join one that joins or waits, both can wait with Main for
one object, and two can join the third. One object is enough for a run, for
objects do not interact, except that with the risk `pipe` two streams meet in the
request of a state; the proofs are for any number of objects. `MaxSleep` bounds
how many `luv.sleep` timers of one state are
alive; more than one needs a state woken out of a sleep, which takes the risk
`poke`, and with all risks sleeps are left out. Three nodes in two rings give
the empty queue, the only node, both ends and the middle. For streams, sockets
and files two states are the smallest number that can be in each other's way;
Main is one of them because it resumes by another path. Two chunks (`MaxSent`)
are what it takes to reorder or overwrite one; `net` has one, for liveness needs
only that something is there. Accepting has three connections and three states,
so that one is held, one counted and one waited for. A high-water mark of one
makes senders wait. `MaxFd = 1` with two files forces the kernel to reuse the
descriptor. The run `process` has one fiber, so one request is in the thread pool
at a time, beside a process; with two fibers and no risk the invariants and
`OwnResults` hold as well (about 100,000 states), but with the risks and `CallsEnd`
the run is too long to be kept. That requests of several fibers are not mixed up is
proved for any number. `MaxWaits = 4` lets a join fall into, between and after waits. A
heap of three objects has cycles, sharing and objects behind objects; for
tuples two objects are enough to be shared. `MCValues` has the integers on both
sides of each length up to the largest TLC computes with; the proof covers the
rest.

**Fairness.** The scheduler and the wake-up loops are C code that runs on: weak
fairness. The send of an async handle is seen by the next poll: weak fairness.
A timer falls due after its time, and libuv runs it in one of the iterations
after that; in between the loop may leave `poll`, so its callback needs strong
fairness. A fiber gives up the processor sooner or later, as cooperative
scheduling requires, but perhaps only to yield, and for ever: nothing is assumed
against that, and what needs the event loop is stated in `BlockedEnds` for
executions in which the loop is reached again and again (see the first entry of
the next section). Nothing is assumed of Main there either. In the
I/O modules a running state sooner or later waits (weak fairness of some state
sleeping), a ready state gets its turn because the ready queue is first in,
first out (strong fairness of each resumption), and libuv calls back for what
has happened (strong fairness of each callback, which is enabled only while
the thread polls). Of the outside it is assumed that the resolver answers,
connecting succeeds or fails, the thread pool works, processes end and the 0MQ
peer reads; of stream peers nothing. So the callback of a write is fair only where
no peer is needed, when the connection was refused or is being closed (`OwnCb`),
and `RequestEnds` claims the end of a write only there, and that of a shutdown
only if nothing stays to be written. In `LuvThread` both threads are scheduled;
that the other handles of the joining thread end is not assumed, and `JoinEnds`
names them, and the async handle, as the two things that can keep it waiting.

## Where the code and its documentation differ

`error_joiner` is checked as a run. The others were found the same way and can
be seen again by taking the guard off the property named, or by adding the risk
named to `Risks` or `Cases`. Lines without a file name are of `src/README.md`.

| Code | Documentation | To see it |
|---|---|---|
| `luv_thread.c:162` runs fibers until the ready queue is empty, and a fiber that yields is queued again, so one that keeps yielding keeps the event loop out | line 79: once all fibers had a chance to run, "the event loop kicks in" | take the condition `[]<>(pc = "poll")` off `BlockedEnds` |
| `luv_thread.c:73` references the async handle and nothing takes that back; Main with nothing left to wait for is not resumed | `luv_thread.c:37`: "nothing left to do, back in main" | `LoopActive` once `async.ref` holds |
| `luv_thread.c:140` pushes the values of a join on the arguments a joining fiber still has | line 129: "Returns any values returned by the fiber" | `MainJoinValues` with a fiber for Main |
| `luv_thread.c:155` leaves Main without `FREADY` when it catches a fiber's error; its next suspend returns at once | line 96: suspending is running the event loop | `Risks = {"error"}`, `OnlyItsCause` |
| `luv_fiber.c:111` readies a fiber whatever it waits for | line 165: timer:wait resumes "when the timer fires" | `Risks = {"poke"}`, `OnlyItsCause` |
| `luv_thread.c:38` leaves Main linked when nothing was left; a later join ends early | line 128: join suspends "until the fiber exits" | `Risks = {"stray"}`, `OnlyItsCause` |
| `luv_stream.c:295` waits for a close callback that may have run | lines 57-62, an example that does this | `failed`, `CloseEnds` |
| `luv_stream.c:262` ignores the result of `uv_shutdown`; on a stream whose connect was refused, which connect does not tell the program, the state may wait for ever | line 463: "Shutdown the socket" | `RequestEnds` with `In` for `Requested` |
| `luv_object.c:19` signals the head of the queue, whatever it waits for | line 444: read returns the data | `share`, `OwnResult` |
| `luv_stream.c:31` takes a state in shutdown for a reader | line 444 | `shutdown`, `NothingLost` |
| `luv_pipe.c:47` does not wait, so the request is used twice | line 484: pipes are like TCP | `pipe`, `OneRequest` |
| `luv_stream.c:6` allocates no bytes before the first read | line 471: start is a call of its own | `start`: `OSTARTED` without `sized` |
| `luv_zmq.c:27` may use up the announcement a receiver waits for | line 677: like other watchers | `duplex`, `WaitersServed` |
| `luv_zmq.c:213` does nothing while a state receives, as `WRECV` is `OCLOSING` | line 731: "Close the ØMQ socket." | `close`, `CloseCloses` |
| `luv_thread.c:282` suspends the joining thread, which nobody readies once it has readied a fiber | line 542: "Wait for the thread to finish." | `fibers`, `JoinEnds` |
| `luv_thread.c:281` ends the wait the joined thread is in | line 165 | `early = {}` |
| `luv_thread.c:217` puts a boolean before the values of a thread | line 542: returns the values | `jret` |
| `luv_fs.c:82` reports a failure in a fiber as nil and a number | line 254: `false` and a message | `luv_fs_result` |
| `luv_fs.c:188` suspends a fiber whose request was not accepted | line 254 | `start`, `CallsEnd` |
| `luv_fs.c:81` frees the buffer of a read only if it succeeded | `luv_fs.c:390`: "free ... in cb" | `fail`, `BuffersFreed` |
| `luv_fs.c:403` writes from a string that is off the stack | line 348: writes the data | `temp`, `RightFile` |
| `luv_fs.c:149` raises an error for a sendfile that succeeded, in a callback | line 295 | `sendfile`, `CallsEnd` |
| `luv_process.c:12` pushes exit values onto whatever call the spawner is in | line 342: what file:read returns | `detach`, `OwnResults` |
| `luv_net.c:71` rejects INET6 and takes every other name for it; so do the next four comparisons for socket types and protocols | `luv_net.c:75`: "unsupported family" | `family` |
| `luv_codec.c:172` numbers a hooked table before what its hook returns, the decoder after | line 625: "any serializable value" | `hook`, `RoundTrip` |
| `luv_codec.c:225` asserts a length that nil upvalues change, and `luv_codec.c:365` stops at it | the assertion | `nil`: `pc = "abort"`; `RoundTrip` without `AfterNil` |

## Proofs

Every invariant and every action property that a passing run checks is proved,
except those of the codec. A theorem holds for any number of states, objects,
messages and so on, and for every set of risks, with the guards its property
states; only `WakesForItsCause` and `JoinGivesValues`, whose properties have no
guard, assume `Risks = {}`, as the run `sched` does. The other assumptions are
those named in the modules, which TLC evaluates on the runs:

* `LuvSched`: names of states and objects are distinct (`StateAssumption`,
  `ObjectAssumption`), the risks are known (`RisksAssumption`), the bound is a
  number (`MaxSleepAssumption`);
* `NgxQueue`: heads and nodes are different cells (`CellAssumption`);
* `LuvBuf`: the integers fit in 32 bits (`BufAssumption`);
* the others: the risks are known and the bounds are numbers (`...Assumption`,
  `...RisksAssumption`, `...BoundsAssumption`); there is a server or a socket;
  `NoFile` is no file (`FileAssumption`); "unset" is not an option string
  (`NetAssumption`).

Each module states its inductive invariant first, then what its kinds of steps
do, then that each layer of the invariant is kept, and ends with the theorems.

**`LuvSched_proof`**: `TypeCorrect`, then `ReadyQueueCorrect`. `ReadyQueueExact`
is inductive together with the types. The argument is that `FREADY` is a lock on
the `queue` node of a fiber: the running, the queued and the ended fiber have it,
so only a parked one can be inserted. One lemma each for the ways the flags and
the queue change together (`QueueReady`, `QueueSuspend`, `QueueJoin`,
`QueueUnchanged`); every action is a case of one of them.
`SchedulerImplementsStates` is the refinement of `LuvStates`, for every program.
It needs `BornInv` besides: nothing refers to a fiber before it is created, or
creating it could make a queued or linked one run.

**`LuvWait_proof`**: `WaitLinksCorrect`. The claim is about fibers that are
blocked, and is not inductive: removing the head of a queue unlinks a fiber only
if the queue holds it once, and a fiber that starts to wait must not be in another
call. `WaitInv` adds that the queues hold no state twice, that a fiber sleeps on
one timer at most, that the running fiber is in no call, and the invariant of
`LuvSched_proof`. With no risk taken the same is shown of Main, and from it
`NoNodeTwice`, `WakesForItsCause` and `JoinGivesValues`. Main is harder than a
fiber, because it also goes on when the loop has run out of work, and is then
still linked. `AliveInv` says why that does not happen: as long as Main is
blocked, the async handle is referenced (for good, since the first fiber was
readied), or Main's sleep timer is pending, or what Main waits for is active or
being broadcast. `JoinInv` and `ValueInv` say that who is ready in a join has
joined a fiber that has ended, and that this fiber still has its values.

**`LuvData_proof`**, about `NgxQueue` and `LuvBuf`. `RingsCorrect` comes from one
inductive invariant: rings are disjoint and adjacent elements point at each other. `RelinkSticks`: inserting the only node of a queue
again makes the node its own predecessor. `StuckForever`: removing the head of
such a queue changes nothing, so the loop of `luvL_cond_broadcast` does not end.
`BufInBounds` and `UlebReadBack` come from `IInv`. `BufInv` says that the room
`luvL_buf_need` made is there until it is used: in the middle of an integer, enough
for the bytes still to come. `WriteInv` says that the bytes written so far and what
is left of the integer make up the integer, and every byte so far has its flag;
`ReadInv` the same of the bytes read, and that a last byte without the flag lies
ahead. Neither theorem is inductive alone: reading is right only because of how
the bytes were written.

**`LuvThread_proof`**: `ChildSuspends`, `OnlyJoinCutsShort`, `JoinReturnsValues`.
The joining thread reads the child's flags and writes them back later, so it may
undo what the child did in between. `ReadyInv` holds nevertheless because the
joining thread always writes `FREADY`: it can undo the child clearing that flag,
which ends a wait early, never the child setting it. `UncutInv` says that
before the join all earlier waits have had their callbacks, so no late one can
end the current wait.

**`LuvServer_proof`**: `AcceptsOnce`, `CountCoversHeld` and `ListenFindsWaiter`.
`ConnsOnce` speaks of what accept returns, and a state that waited returns whatever
is in its stream when it is resumed. So `QueueInv` and `ClientInv` say that the
stream of a linked state is empty and that one with a connection belongs to a state
about to return it, `ServedInv` that who left the queue has a connection or an
error, and `PlaceInv` where each connection is. `_listen_cb` takes the head of the
queue without looking whether there is one. `WaitingInv` says that there is: while
the server is open, `OWAITING` implies a waiter, also after some of several waiters
have left.

**`LuvZmq_proof`**: `ReceivedInOrder`, `SendReportsAccepted`, `CloseDoesClose` and
`PollFindsWaiter`. `FlagsInv` is the like of `WaitingInv` for `WRECV` and `WSEND`;
since `WRECV` is also the bit of `OCLOSING`, it is claimed only while the socket is
open. A message passes from 0MQ to the stack of a suspended state and from there to
the program, and the other way round for send. `InboxInv`, `GotInv` and `OnceInv`
follow it on the way in: each message 0MQ has given away is with exactly one state,
and is later than all that state has got before. `SendInv` says that the message on
the stack of a sender is accepted if the sender is ready, and not while it waits:
the callback must either send it or take it off the stack.

**`LuvStream_proof`**, about `LuvStream` and `LuvNet`. The invariant is built in
layers, each proved with the help of those before:

| Layer | Says | Needed because |
|---|---|---|
| `QueueInv` | queues hold nobody twice; who waits is linked | taking the head must unlink it |
| `WakeInv` | who is linked, or has a connect or write under way, waits in that call | a callback must find its own call |
| `NotReading` | a stream with a state in shutdown does not read | `_read_cb` takes any head for a reader |
| `OwnRequest` | the request libuv holds is that of the current call | all calls of a state share `state->req` |
| `ReaderListens` | who waits in read is listened for | a theorem, and used below |
| `ReadInv`, `OrderInv` | nothing is saved behind a reader; pieces are in order | a saved chunk would be overtaken |
| `KeepInv`, `LossInv` | saving does not overwrite; ends come last | every chunk sent is somewhere |
| `ClosedInv`, `OpenInv`, `ArgsInv`, `AnswerInv` | what is on the stack of who is ready | `OwnResult` |

The theorems are `WaitersAreExact`, `ReadersAreServed`, `RequestsOnce`,
`ChunksAreKept` and `ResultsAreOwn`. For `LuvNet`, `ResolveInv` extends `WakeInv`
to requests of the resolver and `AddressInv` says that who is ready in getaddrinfo
has the address of its own hints. A step of getaddrinfo leaves the streams alone
(`Resolves`) and keeps the layers up to `LossInv`; a step of the streams wakes
nobody out of getaddrinfo. This gives `AddressesAreOwn` and `StreamsBesideNet`: the
streams keep their invariants with getaddrinfo on the same request.

**`LuvProcess_proof`**, about `LuvFs` and `LuvProcess`. The base is that a request
is in use only while its fiber is suspended in the call that uses it (`ReqInv`),
and that only the spawner waits for a process (`LinkInv`). `DescriptorsKept` adds
`OpenInv`: a file is opened once, so storing the new descriptor overwrites none.
`OperatesOnItsFile` adds `FileInv` for programs that leave closed files alone: who
opens or closes a file is alone with it, hence a request that names a descriptor
names that of its file until it is done, although the kernel reuses numbers.
`DatumInv` says the same of the string of a write. `ReadsFreeBuffers` adds
`FailInv`: where nothing fails by itself, only open fails, for want of descriptors.
`ResultsAreOwn` and `CallbacksDoNotRaise` add `ResultInv` and `SpawnInv`: the stack
of a suspended call is as the call left it until its own callback.

**Only model-checked.** All liveness properties (`QueuedFiberRuns`, `BlockedEnds`,
`RequestEnds`, `ReadEnds`, `CloseEnds`, `AcceptEnds`, `WaitersServed`, `WaitEnds`,
`JoinEnds`, `CallsEnd`, `NeedEnds`), because the prover has no reasoning about
fairness. `RoundTrip` and `ReadsToEnd` of the codec, because what a recursive
definition computes needs an induction over the heap, and the prover takes neither
recursive operators nor the induction.

## Not modelled

* Garbage collection: states and objects that are waited for are kept, and the
  `__gc` methods, which close what is still open, do not run. (Only the string
  of `file:write` can be collected.) What libuv does with a handle whose object
  was collected needs a model of freed memory.
* Time: an active timer may fire at any poll.
* The UDP class and the Lua class for conditions: written but never registered,
  so no program can reach them.
* `luv.c` apart from `luv.sleep`: registration and read-only queries of the
  system. In the other files, calls that hand one value to libuv, 0MQ or the
  kernel and return: socket options, bind, names, `cwd`, contexts.
* The initialisation of a pipe, which leaves the flags and queues of the object
  as the memory was (`luv_pipe.c:4`): any value is possible and no property would
  hold. The stream model starts from an initialised object.
* Arguments, environment and standard streams of a process, ports of addresses,
  and the scalars of the codec (strings, numbers, light userdata): plain data
  that no property tells apart.
* What happens after Lua panics, after a null pointer
  is followed (`_getaddrinfo_cb_null`) or after a linked node is linked again:
  the model stops there.

Lua programs are arbitrary sequences of calls, within the risks; a fiber calls
luv only from its own Lua code.
