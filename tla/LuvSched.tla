------------------------------ MODULE LuvSched ------------------------------
(***************************************************************************)
(* The fiber scheduler of luv: one OS thread, its Lua state (Main), the    *)
(* fibers created in it, and the objects (timers, idle watchers, luv.sleep)*)
(* they wait for.  Models luv_fiber.c, luv_state.c, luv_cond.c, luv_timer.c*)
(* luv_idle.c, the scheduling half of luv_thread.c and luv_sleep of luv.c. *)
(*                                                                         *)
(* Only one party runs at a time (pc): the Lua code of curr, the scheduler *)
(* in luvL_thread_once, a loop that readies waiting states, or libuv in    *)
(* uv_run_once.  A call into luv is one action up to the point where it    *)
(* returns to Lua or gives up the processor.                               *)
(*                                                                         *)
(* A state is linked into a wait queue through a node it owns (join, cond) *)
(* so it can be in one queue of each kind.  Linking a node a second time   *)
(* destroys both queues: pc becomes "broken" and the model stops; NgxQueue  *)
(* shows what the pointers do then.                                        *)
(***************************************************************************)
EXTENDS Naturals, Sequences, Functions

CONSTANTS
  Fiber,     \* the fibers a program may create
  Main,      \* the Lua state of the thread itself
  Timer,     \* luv.timer objects
  Idle,      \* luv.idle objects
  Risks,     \* what the Lua program may do; see the action guards
  MaxSleep   \* bound: luv.sleep timers of one state alive at a time

State == Fiber \cup {Main}
Object == Timer \cup Idle

ASSUME StateAssumption == Main \notin Fiber
ASSUME ObjectAssumption == Timer \cap Idle = {} /\ State \cap Object = {}
ASSUME RisksAssumption == Risks \subseteq {"poke", "error", "stray"}
ASSUME MaxSleepAssumption == MaxSleep \in Nat

VARIABLES
  fibers,    \* fibers that have been created
  flags,     \* state->flags
  queue,     \* thread->rouse, the ready queue
  joinq,     \* fiber->rouse, the states joining a fiber
  condq,     \* object->rouse, the states waiting for an object
  pc,        \* who runs: "lua", "once", "exit", "poll", "rouse"; "broken"
  curr,      \* thread->curr
  drain,     \* the fiber or object whose queue a wake-up loop empties
  call,      \* the luv call a state is inside of
  stack,     \* the values on state->L that the call will return
  async,     \* the thread's uv_async_t: sent and not yet seen; referenced
  armed,     \* the uv handle of an object is active
  rep,       \* the timer has a repeat interval
  sleeping,  \* luv.sleep timers pending for a state
  fired      \* owners of the callbacks this uv_run_once has run

luaVars   == <<fibers, call, stack>>
linkVars  == <<joinq, condq>>
readyVars == <<flags, queue, async>>
ctlVars   == <<pc, curr, drain>>
loopVars  == <<armed, rep, sleeping, fired>>
vars == <<luaVars, linkVars, readyVars, ctlVars, loopVars>>

Flag == {"FSTART", "FREADY", "FDEAD"}

NoCall    == [op |-> "none", on |-> Main]
Wait(o)   == [op |-> "wait", on |-> o]
Join(f)   == [op |-> "join", on |-> f]
Sleep     == [op |-> "sleep", on |-> Main]
Call == {NoCall, Sleep} \cup {Wait(o) : o \in Object} \cup {Join(f) : f \in Fiber}

\* Values: "args" stands for the arguments the call was made with, "status"
\* for the integer a libuv callback pushes, a fiber for what it returned.
Value == {"args", "status", "error"} \cup Fiber

IsReady(s) == "FREADY" \in flags[s]
IsDead(s)  == "FDEAD" \in flags[s]
Running(s) == pc \in {"lua", "broken"} /\ curr = s

\* Suspended inside a luv call and not yet made ready.
Blocked(s) == call[s] # NoCall /\ ~IsReady(s)

CondLinked(s) == \E o \in Object : s \in Range(condq[o])
JoinLinked(s) == \E f \in Fiber : s \in Range(joinq[f])

Init ==
  /\ fibers = {}
  /\ flags = [s \in State |-> IF s = Main THEN {"FREADY"} ELSE {}]
  /\ queue = <<>>
  /\ joinq = [f \in Fiber |-> <<>>]
  /\ condq = [o \in Object |-> <<>>]
  /\ pc = "lua"
  /\ curr = Main
  /\ drain = Main
  /\ call = [s \in State |-> NoCall]
  /\ stack = [s \in State |-> <<>>]
  /\ async = [sent |-> FALSE, ref |-> FALSE]
  /\ armed = [o \in Object |-> FALSE]
  /\ rep = [t \in Timer |-> FALSE]
  /\ sleeping = [s \in State |-> 0]
  /\ fired = {}

-----------------------------------------------------------------------------
(* Readying and suspending *)

\* Mutated: FREADY does not guard.
luvL_thread_enqueue_always(s) == IF s \in Fiber THEN Append(queue, s) ELSE queue

\* The ready queue after luvL_state_ready(s): FREADY guards the insertion.
luvL_thread_enqueue(s) ==
  IF s \in Fiber /\ ~IsReady(s) THEN Append(queue, s) ELSE queue

\* Mutated: the handle is sent but not referenced.
uv_async_send_unref(s) ==
  IF IsReady(s) \/ (s # Main /\ queue # <<>>)
    THEN async ELSE [async EXCEPT !.sent = TRUE]

\* The async handle after luvL_state_ready(s): sent for a thread, and for
\* the first fiber of an empty queue, which references the handle as well.
uv_async_send(s) ==
  CASE IsReady(s) -> async
    [] ~IsReady(s) /\ s = Main -> [async EXCEPT !.sent = TRUE]
    [] ~IsReady(s) /\ s # Main /\ queue = <<>> -> [sent |-> TRUE, ref |-> TRUE]
    [] OTHER -> async

luvL_state_ready(s) ==
  /\ flags' = [flags EXCEPT ![s] = @ \cup {"FREADY"}]
  /\ queue' = luvL_thread_enqueue(s)
  /\ async' = uv_async_send(s)

\* luvL_state_suspend(curr), but for FREADY, which the caller clears: a state
\* with FREADY gives way to the scheduler, one without returns to Lua at once.
luvL_state_suspend(c) ==
  /\ IF IsReady(curr)
       THEN /\ call' = [call EXCEPT ![curr] = c]
            /\ pc' = "once"
            /\ curr' = Main
       ELSE UNCHANGED <<call, pc, curr>>
  /\ UNCHANGED drain

-----------------------------------------------------------------------------
(* Calls of the running Lua code *)

\* luv.fiber.create
luv_new_fiber(f) ==
  /\ pc = "lua"
  /\ f \in Fiber \ fibers
  /\ fibers' = fibers \cup {f}
  /\ stack' = [stack EXCEPT ![f] = <<"args">>]
  /\ UNCHANGED <<call, linkVars, readyVars, ctlVars, loopVars>>

\* fiber:ready.  Risk "poke": the program also readies blocked fibers.
luv_fiber_ready(f) ==
  /\ pc = "lua"
  /\ f \in fibers
  /\ Blocked(f) => "poke" \in Risks
  /\ luvL_state_ready(f)
  /\ UNCHANGED <<luaVars, linkVars, ctlVars, loopVars>>

\* fiber:join of a fiber that has ended: its values are copied at once.
luv_fiber_join_dead(f) ==
  /\ pc = "lua"
  /\ f \in fibers /\ IsDead(f)
  /\ stack' = [stack EXCEPT ![curr] = stack[f]]
  /\ UNCHANGED <<fibers, call, linkVars, readyVars, ctlVars, loopVars>>

\* What fiber:join and wait ask for before they link the node of curr.  The
\* assertion self # curr of luv_fiber_join is a guard.  Risk "poke": the
\* program also joins blocked fibers.  Risk "stray": Main also waits for an
\* object that is not active while nothing keeps the event loop alive.
MayJoin(f) ==
  /\ pc = "lua"
  /\ f \in fibers /\ ~IsDead(f) /\ f # curr
  /\ Blocked(f) => "poke" \in Risks

MayWait(o) ==
  /\ pc = "lua"
  /\ curr = Main /\ ~armed[o] /\ ~async.ref => "stray" \in Risks

\* fiber:join of a live fiber: link, ready the fiber, suspend.  A thread that
\* finds FREADY cleared does not wait and copies what the fiber's stack holds.
luv_fiber_join(f) ==
  /\ MayJoin(f)
  /\ ~JoinLinked(curr)
  /\ joinq' = [joinq EXCEPT ![f] = Append(@, curr)]
  /\ flags' = [flags EXCEPT ![f] = @ \cup {"FREADY"}, ![curr] = @ \ {"FREADY"}]
  /\ queue' = luvL_thread_enqueue(f)
  /\ async' = uv_async_send(f)
  /\ luvL_state_suspend(Join(f))
  /\ stack' = [stack EXCEPT ![curr] =
                 IF curr = Main /\ ~IsReady(curr) THEN stack[f] ELSE <<"args">>]
  /\ UNCHANGED <<fibers, condq, loopVars>>

\* timer:wait and idle:wait
luvL_cond_wait(o) ==
  /\ MayWait(o)
  /\ ~CondLinked(curr)
  /\ condq' = [condq EXCEPT ![o] = Append(@, curr)]
  /\ flags' = [flags EXCEPT ![curr] = @ \ {"FREADY"}]
  /\ luvL_state_suspend(Wait(o))
  /\ stack' = [stack EXCEPT ![curr] = <<"args">>]
  /\ UNCHANGED <<fibers, joinq, queue, async, loopVars>>

\* Both calls insert the node without looking whether it is linked already.
Relink ==
  /\ \/ JoinLinked(curr) /\ \E f \in Fiber : MayJoin(f)
     \/ CondLinked(curr) /\ \E o \in Object : MayWait(o)
  /\ pc' = "broken"
  /\ UNCHANGED <<luaVars, linkVars, readyVars, curr, drain, loopVars>>

\* luv.sleep: a timer of its own for every call.
luv_sleep ==
  /\ pc = "lua"
  /\ sleeping[curr] < MaxSleep
  /\ sleeping' = [sleeping EXCEPT ![curr] = @ + 1]
  /\ flags' = [flags EXCEPT ![curr] = @ \ {"FREADY"}]
  /\ luvL_state_suspend(Sleep)
  /\ stack' = [stack EXCEPT ![curr] = <<"args">>]
  /\ UNCHANGED <<fibers, linkVars, queue, async, armed, rep, fired>>

\* timer:start with and without a repeat interval; timer:again; the stops.
luv_timer_start(t, r) ==
  /\ pc = "lua"
  /\ armed' = [armed EXCEPT ![t] = TRUE]
  /\ rep' = [rep EXCEPT ![t] = r]
  /\ UNCHANGED <<luaVars, linkVars, readyVars, ctlVars, sleeping, fired>>

luv_timer_again(t) ==
  /\ pc = "lua"
  /\ rep[t]
  /\ armed' = [armed EXCEPT ![t] = TRUE]
  /\ UNCHANGED <<luaVars, linkVars, readyVars, ctlVars, rep, sleeping, fired>>

luv_idle_start(i) ==
  /\ pc = "lua"
  /\ armed' = [armed EXCEPT ![i] = TRUE]
  /\ UNCHANGED <<luaVars, linkVars, readyVars, ctlVars, rep, sleeping, fired>>

luv_object_stop(o) ==
  /\ pc = "lua"
  /\ armed' = [armed EXCEPT ![o] = FALSE]
  /\ UNCHANGED <<luaVars, linkVars, readyVars, ctlVars, rep, sleeping, fired>>

-----------------------------------------------------------------------------
(* How a running fiber gives up the processor without a luv call *)

\* coroutine.yield: lua_resume returns LUA_YIELD with FREADY still set.
FiberYield ==
  /\ pc = "lua" /\ curr \in Fiber
  /\ queue' = IF IsReady(curr) THEN Append(queue, curr) ELSE queue
  /\ pc' = "once"
  /\ curr' = Main
  /\ UNCHANGED <<luaVars, linkVars, flags, async, drain, loopVars>>

\* The fiber's function returns: lua_resume returns 0.
FiberExit ==
  /\ pc = "lua" /\ curr \in Fiber
  /\ stack' = [stack EXCEPT ![curr] = <<curr>>]
  /\ pc' = "exit"
  /\ drain' = curr
  /\ curr' = Main
  /\ UNCHANGED <<fibers, call, linkVars, readyVars, loopVars>>

\* The fiber raises an error: it is closed and the error is raised again in
\* Main, out of luvL_thread_suspend.  Risk "error": fibers raise errors, and
\* Main catches them (pcall) and goes on.
FiberError ==
  /\ "error" \in Risks
  /\ pc = "lua" /\ curr \in Fiber
  /\ flags' = [flags EXCEPT ![curr] = @ \cup {"FDEAD"}]
  /\ stack' = [stack EXCEPT ![curr] = <<"error">>, ![Main] = <<"error">>]
  /\ call' = [call EXCEPT ![Main] = NoCall]
  /\ curr' = Main
  /\ UNCHANGED <<fibers, linkVars, queue, async, pc, drain, loopVars>>

-----------------------------------------------------------------------------
(* The scheduler: luvL_thread_suspend, luvL_thread_loop, luvL_thread_once *)

\* Pop the head of the ready queue and resume it.  Resuming a dead fiber is
\* an error raised in Main.
luvL_thread_once ==
  /\ pc = "once" /\ queue # <<>>
  /\ queue' = Tail(queue)
  /\ pc' = "lua"
  /\ IF IsDead(Head(queue))
       THEN /\ stack' = [stack EXCEPT ![Main] = <<"error">>]
            /\ call' = [call EXCEPT ![Main] = NoCall]
            /\ UNCHANGED <<flags, curr>>
       ELSE /\ flags' = [flags EXCEPT ![Head(queue)] = @ \cup {"FSTART"}]
            /\ call' = [call EXCEPT ![Head(queue)] = NoCall]
            /\ curr' = Head(queue)
            /\ UNCHANGED stack
  /\ UNCHANGED <<fibers, linkVars, async, drain, loopVars>>

\* Mutated: the queue is not run until it is empty.
luvL_thread_loop_leaves ==
  /\ pc = "once"
  /\ pc' = "poll"
  /\ fired' = {}
  /\ UNCHANGED <<luaVars, linkVars, readyVars, curr, drain, armed, rep, sleeping>>

\* luvL_thread_loop returns and uv_run_once is called.
luvL_thread_loop ==
  /\ pc = "once" /\ queue = <<>>
  /\ pc' = "poll"
  /\ fired' = {}
  /\ UNCHANGED <<luaVars, linkVars, readyVars, curr, drain, armed, rep, sleeping>>

\* A fiber has returned: ready the joining states one by one, in order; a
\* fiber gets the values pushed on its stack.
JoinersRoused ==
  /\ pc = "exit" /\ joinq[drain] # <<>>
  /\ LET s == Head(joinq[drain]) IN
       /\ luvL_state_ready(s)
       /\ stack' = IF s \in Fiber THEN [stack EXCEPT ![s] = @ \o stack[drain]]
                                  ELSE stack
  /\ joinq' = [joinq EXCEPT ![drain] = Tail(@)]
  /\ UNCHANGED <<fibers, call, condq, ctlVars, loopVars>>

\* Mutated: FDEAD is not set.

luvL_fiber_close_forgets ==
  /\ pc = "exit" /\ joinq[drain] = <<>>
  /\ pc' = "once"
  /\ UNCHANGED <<luaVars, linkVars, readyVars, curr, drain, loopVars>>

\* ... and when no joining state is left, close the fiber.
luvL_fiber_close ==
  /\ pc = "exit" /\ joinq[drain] = <<>>
  /\ flags' = [flags EXCEPT ![drain] = @ \cup {"FDEAD"}]
  /\ pc' = "once"
  /\ UNCHANGED <<luaVars, linkVars, queue, async, curr, drain, loopVars>>

-----------------------------------------------------------------------------
(* libuv, inside uv_run_once.  A handle's callback runs at most once.      *)

\* What uv_run_once returns: something referenced is active.
LoopActive ==
  \/ async.ref
  \/ \E o \in Object : armed[o]
  \/ \E s \in State : sleeping[s] > 0

\* timer_cb and idle_cb: every waiting state gets the status, then the
\* queue is broadcast.
ObjectCb(o) ==
  /\ pc = "poll"
  /\ armed[o] /\ o \notin fired
  /\ armed' = [armed EXCEPT ![o] = o \in Idle \/ rep[o]]
  /\ fired' = fired \cup {o}
  /\ stack' = [s \in State |->
                 IF s \in Range(condq[o]) THEN <<"status">> ELSE stack[s]]
  /\ pc' = "rouse"
  /\ drain' = o
  /\ UNCHANGED <<fibers, call, linkVars, readyVars, curr, rep, sleeping>>

\* Mutated: the node of the readied state stays in the queue.
luvL_cond_broadcast_keeps ==
  /\ pc = "rouse" /\ condq[drain] # <<>>
  /\ luvL_state_ready(Head(condq[drain]))
  /\ UNCHANGED <<luaVars, linkVars, ctlVars, loopVars>>

luvL_cond_broadcast ==
  /\ pc = "rouse" /\ condq[drain] # <<>>
  /\ luvL_state_ready(Head(condq[drain]))
  /\ condq' = [condq EXCEPT ![drain] = Tail(@)]
  /\ UNCHANGED <<luaVars, joinq, ctlVars, loopVars>>

\* Mutated: the loop ends with states left in the queue.
BroadcastDone_early ==
  /\ pc = "rouse"
  /\ pc' = "poll"
  /\ UNCHANGED <<luaVars, linkVars, readyVars, curr, drain, loopVars>>

BroadcastDone ==
  /\ pc = "rouse" /\ condq[drain] = <<>>
  /\ pc' = "poll"
  /\ UNCHANGED <<luaVars, linkVars, readyVars, curr, drain, loopVars>>

sleep_cb(s) ==
  /\ pc = "poll"
  /\ sleeping[s] > 0
  /\ sleeping' = [sleeping EXCEPT ![s] = @ - 1]
  /\ fired' = fired \cup {s}
  /\ luvL_state_ready(s)
  /\ UNCHANGED <<luaVars, linkVars, ctlVars, armed, rep>>

async_cb ==
  /\ pc = "poll"
  /\ async.sent
  /\ async' = [async EXCEPT !.sent = FALSE]
  /\ fired' = fired \cup {Main}
  /\ UNCHANGED <<luaVars, linkVars, flags, queue, ctlVars, armed, rep, sleeping>>

\* uv_run_once comes back when it has run a callback, has nothing to wait
\* for, or may not block because an idle handle is active.
UvReturns ==
  /\ pc = "poll"
  /\ fired # {} \/ ~LoopActive \/ \E i \in Idle : armed[i]

\* luvL_thread_suspend goes round again ...
LoopAgain ==
  /\ UvReturns
  /\ ~IsReady(Main) /\ LoopActive
  /\ pc' = "once"
  /\ UNCHANGED <<luaVars, linkVars, readyVars, curr, drain, loopVars>>

\* Mutated: one uv_run_once is enough, as in luvL_thread_yield; the values of
\* a joined fiber are not copied.
BackInMain_once ==
  /\ UvReturns
  /\ pc' = "lua"
  /\ call' = [call EXCEPT ![Main] = NoCall]
  /\ UNCHANGED <<fibers, stack, linkVars, readyVars, curr, drain, loopVars>>

BackInMain_nocopy ==
  /\ UvReturns
  /\ IsReady(Main) \/ ~LoopActive
  /\ flags' = [flags EXCEPT ![Main] = @ \cup {"FREADY"}]
  /\ pc' = "lua"
  /\ call' = [call EXCEPT ![Main] = NoCall]
  /\ UNCHANGED <<fibers, stack, linkVars, queue, async, curr, drain, loopVars>>

\* ... or leaves: Main is ready or nothing is left to do.  After a join the
\* fiber's stack is copied.
BackInMain ==
  /\ UvReturns
  /\ IsReady(Main) \/ ~LoopActive
  /\ flags' = [flags EXCEPT ![Main] = @ \cup {"FREADY"}]
  /\ pc' = "lua"
  /\ call' = [call EXCEPT ![Main] = NoCall]
  /\ stack' = IF call[Main].op = "join"
                THEN [stack EXCEPT ![Main] = stack[call[Main].on]] ELSE stack
  /\ UNCHANGED <<fibers, linkVars, queue, async, curr, drain, loopVars>>

-----------------------------------------------------------------------------
\* A step of the Lua code that keeps the processor, and one that may give it up.
LuaKeeps ==
  \/ \E f \in Fiber : \/ luv_new_fiber(f)
                      \/ luv_fiber_ready(f)
                      \/ luv_fiber_join_dead(f)
  \/ \E t \in Timer, r \in BOOLEAN : luv_timer_start(t, r)
  \/ \E t \in Timer : luv_timer_again(t)
  \/ \E i \in Idle : luv_idle_start(i)
  \/ \E o \in Object : luv_object_stop(o)
  \/ Relink

LuaWaits ==
  \/ \E f \in Fiber : luv_fiber_join(f)
  \/ \E o \in Object : luvL_cond_wait(o)
  \/ luv_sleep

Scheduler ==
  \/ luvL_thread_once \/ luvL_thread_loop
  \/ JoinersRoused \/ luvL_fiber_close
  \/ LoopAgain \/ BackInMain

Callbacks ==
  \/ \E o \in Object : ObjectCb(o)
  \/ \E s \in State : sleep_cb(s)
  \/ luvL_cond_broadcast \/ BroadcastDone
  \/ async_cb

Next ==
  \/ LuaKeeps \/ LuaWaits \/ FiberYield \/ FiberExit \/ FiberError
  \/ Scheduler \/ Callbacks

Spec == Init /\ [][Next]_vars

\* Fairness.  C code and libuv run on; an active timer falls due, so its
\* callback runs in one of the coming iterations; Lua code of a fiber sooner
\* or later waits, yields or ends (cooperative scheduling).  Nothing is assumed
\* of Main, nor that fibers do more than yield.
GivesUp == LuaWaits \/ FiberYield \/ FiberExit

FairSpec ==
  /\ Spec
  /\ WF_vars(Scheduler)
  /\ WF_vars(luvL_cond_broadcast \/ BroadcastDone)
  /\ WF_vars(async_cb)
  /\ \A o \in Object : SF_vars(ObjectCb(o))
  /\ \A f \in Fiber : WF_vars(curr = f /\ GivesUp)

-----------------------------------------------------------------------------
(* Safety *)

Exiting(f) == pc = "exit" /\ drain = f

\* The types of the variables.
TypeOK ==
  /\ fibers \subseteq Fiber
  /\ flags \in [State -> SUBSET Flag]
  /\ queue \in Seq(Fiber)
  /\ joinq \in [Fiber -> Seq(State)]
  /\ condq \in [Object -> Seq(State)]
  /\ pc \in {"lua", "once", "exit", "poll", "rouse", "broken"}
  /\ curr \in State
  /\ drain \in State \cup Object
  /\ call \in [State -> Call]
  /\ stack \in [State -> Seq(Value)]
  /\ async \in [sent : BOOLEAN, ref : BOOLEAN]
  /\ armed \in [Object -> BOOLEAN]
  /\ rep \in [Timer -> BOOLEAN]
  /\ sleeping \in [State -> 0 .. MaxSleep]
  /\ fired \subseteq State \cup Object

\* FREADY and the ready queue agree.  The queue holds a fiber at most once,
\* and holds exactly the fibers that are ready, alive and not being run; the
\* fiber that runs has FREADY set, so its next suspend does yield and readying
\* it does not queue it; a fiber that has ended keeps FREADY, so nothing can
\* queue it again.  Hence luvL_thread_once never finds a dead fiber.
ReadyQueueExact ==
  /\ IsInjective(queue)
  /\ \A f \in Fiber :
       /\ f \in Range(queue) <=> /\ IsReady(f) /\ ~IsDead(f)
                                 /\ ~Running(f) /\ ~Exiting(f)
       /\ Running(f) \/ Exiting(f) => IsReady(f) /\ ~IsDead(f)
       /\ IsDead(f) => IsReady(f)

\* If the program readies and joins no blocked fiber, a fiber is linked in a
\* wait queue exactly while it is blocked in the call that linked it there: a
\* fiber that runs has left nothing behind that could wake it later.
WaitLinksExact ==
  "poke" \notin Risks =>
    \A f \in Fiber :
      /\ \A o \in Object :
           f \in Range(condq[o]) <=> Blocked(f) /\ call[f] = Wait(o)
      /\ \A g \in Fiber :
           f \in Range(joinq[g]) <=> Blocked(f) /\ call[f] = Join(g)
      /\ sleeping[f] > 0 <=> Blocked(f) /\ call[f] = Sleep

\* A program that readies or joins no blocked fiber, catches no error of a
\* fiber and waits for nothing that cannot happen never links a linked node,
\* in Main or in a fiber.
NeverRelinked == Risks = {} => pc # "broken"

\* No state is left waiting for a fiber that has ended.
NoJoinerOfDead ==
  \A s \in State, f \in Fiber :
    Blocked(s) /\ call[s] = Join(f) => ~IsDead(f)

\* A suspended state goes on for the cause it waits for and no other: from
\* timer:wait and idle:wait when the callback of that object readies it, from
\* fiber:join when the fiber has ended, from luv.sleep when the timer of this
\* very call has fired.
OnlyItsCause ==
  [][\A s \in State :
       /\ \A o \in Object : Blocked(s) /\ call[s] = Wait(o) /\ ~Blocked(s)'
                              => pc = "rouse" /\ drain = o
       /\ \A f \in Fiber : call[s] = Join(f) /\ call'[s] # Join(f) => IsDead(f)
       /\ call[s] = Sleep /\ call'[s] # Sleep => sleeping[s] = 0]_vars

\* fiber:join called by Main returns what the fiber returned, and a fiber that
\* has ended keeps its values for those who join it later.
MainJoinValues ==
  [][\A f \in Fiber :
       /\ call[Main] = Join(f) /\ call'[Main] = NoCall => stack'[Main] = <<f>>
       /\ IsDead(f) => stack'[f] = stack[f]]_vars

-----------------------------------------------------------------------------
(* What the scheduler promises of states *)

StatusOf(s) ==
  IF s \in Fiber \ fibers          THEN "unborn"
  ELSE IF IsDead(s) \/ Exiting(s)  THEN "dead"
  ELSE IF Running(s)               THEN "running"
  ELSE IF IsReady(s)               THEN "ready"
  ELSE                                  "parked"

States == INSTANCE LuvStates WITH status <- [s \in State |-> StatusOf(s)]

\* The scheduler implements the abstract life of a state.
ImplementsStates == States!Spec

-----------------------------------------------------------------------------
(* Liveness *)

\* A fiber in the ready queue is run, unless Main gets to run first.
QueuedFiberRuns ==
  \A f \in Fiber : f \in Range(queue) ~> Running(f) \/ Running(Main)

\* A wait ends when its event comes.  An active timer or idle watcher fires,
\* unless it is stopped; when it has fired, every state that waits for it is
\* readied before the callback is over, also if the timer is not active any more;
\* and Main comes back from joining a fiber that has ended.  All but the second
\* need the event loop to run again and again, which fibers that do nothing but
\* yield can prevent.
BlockedEnds ==
  /\ \A s \in State, o \in Object :
       /\ []<>(pc = "poll") =>
            (Blocked(s) /\ call[s] = Wait(o) /\ armed[o]
               ~> ~Blocked(s) \/ ~armed[o] \/ Running(Main))
       /\ Blocked(s) /\ call[s] = Wait(o) /\ pc = "rouse" /\ drain = o ~> ~Blocked(s)
  /\ \A f \in Fiber :
       []<>(pc = "poll") => (call[Main] = Join(f) /\ IsDead(f) ~> Running(Main))
=============================================================================
