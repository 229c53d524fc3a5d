--------------------------- MODULE LuvSched_proof ---------------------------
(***************************************************************************)
(* Proofs about LuvSched, for any set of fibers and objects and any Risks. *)
(***************************************************************************)
EXTENDS LuvSched, TLAPS

-----------------------------------------------------------------------------
(* Queues *)

\* What appending a new element does to a queue without duplicates.
LEMMA AppendQueue ==
  ASSUME NEW S, NEW q \in Seq(S), NEW x \in S
  PROVE  /\ Append(q, x) \in Seq(S)
         /\ Range(Append(q, x)) = Range(q) \cup {x}
         /\ IsInjective(q) /\ x \notin Range(q) => IsInjective(Append(q, x))
  <1>1. /\ Append(q, x) \in Seq(S)
        /\ Len(Append(q, x)) = Len(q) + 1
        /\ \A i \in 1 .. Len(q) : Append(q, x)[i] = q[i]
        /\ Append(q, x)[Len(q) + 1] = x
    OBVIOUS
  <1>2. /\ DOMAIN q = 1 .. Len(q)
        /\ DOMAIN Append(q, x) = 1 .. (Len(q) + 1)
        /\ Len(q) \in Nat
    BY <1>1
  <1>3. Range(Append(q, x)) = Range(q) \cup {x}
    BY <1>1, <1>2, SMT DEF Range
  <1>4. ASSUME IsInjective(q), x \notin Range(q)
        PROVE  IsInjective(Append(q, x))
    BY <1>1, <1>2, <1>4, SMT DEF IsInjective, Range
  <1> QED BY <1>1, <1>3, <1>4, Zenon

\* What removing the head does to a queue.
LEMMA TailQueue ==
  ASSUME NEW S, NEW q \in Seq(S), q # <<>>
  PROVE  /\ Head(q) \in S /\ Tail(q) \in Seq(S)
         /\ Range(q) = Range(Tail(q)) \cup {Head(q)}
         /\ IsInjective(q) => IsInjective(Tail(q)) /\ Head(q) \notin Range(Tail(q))
  <1>1. /\ Head(q) \in S /\ Tail(q) \in Seq(S)
        /\ Len(Tail(q)) = Len(q) - 1
        /\ \A i \in 1 .. Len(Tail(q)) : Tail(q)[i] = q[i + 1]
        /\ Head(q) = q[1]
    OBVIOUS
  <1>2. /\ DOMAIN q = 1 .. Len(q)
        /\ DOMAIN Tail(q) = 1 .. (Len(q) - 1)
        /\ Len(q) \in Nat /\ Len(q) # 0
    BY <1>1
  <1>3. Range(q) = Range(Tail(q)) \cup {Head(q)}
    <2>1. ASSUME NEW i \in 1 .. Len(q)
          PROVE  q[i] \in Range(Tail(q)) \cup {Head(q)}
      <3>1. CASE i = 1 BY <1>1, <3>1, Zenon
      <3>2. CASE i # 1
        <4>1. i - 1 \in 1 .. (Len(q) - 1) /\ (i - 1) + 1 = i
          BY <1>2, <3>2
        <4> QED BY <1>1, <1>2, <4>1, ZenonT(60) DEF Range
      <3> QED BY <3>1, <3>2, Zenon
    <2>2. ASSUME NEW i \in 1 .. (Len(q) - 1)
          PROVE  Tail(q)[i] \in Range(q)
      BY <1>1, <1>2, i + 1 \in 1 .. Len(q), Zenon DEF Range
    <2>3. Head(q) \in Range(q)
      BY <1>1, <1>2, 1 \in 1 .. Len(q), Zenon DEF Range
    <2> QED BY <1>2, <2>1, <2>2, <2>3, Zenon DEF Range
  <1>4. ASSUME IsInjective(q)
        PROVE  IsInjective(Tail(q)) /\ Head(q) \notin Range(Tail(q))
    <2>1. ASSUME NEW i \in 1 .. (Len(q) - 1)
          PROVE  /\ i + 1 \in 1 .. Len(q) /\ i + 1 # 1
                 /\ Tail(q)[i] = q[i + 1]
      BY <1>1, <1>2
    <2>2. Head(q) \notin Range(Tail(q))
      BY <1>1, <1>2, <1>4, <2>1, 1 \in 1 .. Len(q) DEF IsInjective, Range
    <2>3. IsInjective(Tail(q))
      BY <1>2, <1>4, <2>1, SMT DEF IsInjective
    <2> QED BY <2>2, <2>3, Zenon
  <1> QED BY <1>1, <1>3, <1>4, Zenon

-----------------------------------------------------------------------------
(* Types *)

\* Which of its values a control variable takes where: only a fiber is run
\* by the scheduler, only a fiber exits, only an object is broadcast.
ControlOK ==
  /\ pc \notin {"lua", "broken"} => curr = Main
  /\ pc = "exit" => drain \in Fiber
  /\ pc = "rouse" => drain \in Object

TypeInv == TypeOK /\ ControlOK

\* The calls and one-element stacks that the actions assign.
LEMMA ValueTypes ==
  /\ NoCall \in Call /\ Sleep \in Call
  /\ \A o \in Object : Wait(o) \in Call
  /\ \A f \in Fiber : Join(f) \in Call
  /\ <<"args">> \in Seq(Value) /\ <<"status">> \in Seq(Value)
  /\ <<"error">> \in Seq(Value)
  /\ \A f \in Fiber : <<f>> \in Seq(Value)
  BY DEF Call, Value

LEMMA TypeInit == Init => TypeInv
  BY StateAssumption, MaxSleepAssumption, ValueTypes
     DEF Init, TypeInv, TypeOK, ControlOK, State, Flag

\* luvL_state_ready keeps the types of what it assigns.
LEMMA ReadyTypes ==
  ASSUME TypeInv, NEW s \in State
  PROVE  /\ [flags EXCEPT ![s] = @ \cup {"FREADY"}] \in [State -> SUBSET Flag]
         /\ luvL_thread_enqueue(s) \in Seq(Fiber)
         /\ uv_async_send(s) \in [sent : BOOLEAN, ref : BOOLEAN]
  <1> USE DEF TypeInv, TypeOK
  <1>1. [flags EXCEPT ![s] = @ \cup {"FREADY"}] \in [State -> SUBSET Flag]
    BY Zenon DEF Flag
  <1>2. luvL_thread_enqueue(s) \in Seq(Fiber)
    BY AppendQueue, Zenon DEF luvL_thread_enqueue
  <1>3. uv_async_send(s) \in [sent : BOOLEAN, ref : BOOLEAN]
    BY Zenon DEF uv_async_send
  <1> QED BY <1>1, <1>2, <1>3, Zenon

\* So does luvL_state_suspend.
LEMMA SuspendTypes ==
  ASSUME TypeInv, pc = "lua", NEW c \in Call, luvL_state_suspend(c)
  PROVE  /\ call' \in [State -> Call] /\ curr' \in State
         /\ pc' \in {"lua", "once"} /\ (pc' = "once" => curr' = Main)
         /\ drain' = drain
  <1>1. CASE IsReady(curr)
    BY <1>1, Zenon DEF luvL_state_suspend, TypeInv, TypeOK, State
  <1>2. CASE ~IsReady(curr)
    BY <1>2, Zenon DEF luvL_state_suspend, TypeInv, TypeOK
  <1> QED BY <1>1, <1>2, Zenon

LEMMA TypeStep == TypeInv /\ [Next]_vars => TypeInv'
  <1> SUFFICES ASSUME TypeInv, [Next]_vars PROVE TypeInv'
    OBVIOUS
  <1> USE StateAssumption, MaxSleepAssumption
      DEF TypeInv, TypeOK, ControlOK, luaVars, linkVars, readyVars, ctlVars, loopVars
  <1>1. ASSUME NEW f \in Fiber, luv_new_fiber(f) PROVE TypeInv'
    BY <1>1, ValueTypes, Zenon DEF luv_new_fiber, State
  <1>2. ASSUME NEW f \in Fiber, luv_fiber_ready(f) PROVE TypeInv'
    BY <1>2, ReadyTypes, Zenon DEF luv_fiber_ready, luvL_state_ready, State
  <1>3. ASSUME NEW f \in Fiber, luv_fiber_join_dead(f) PROVE TypeInv'
    BY <1>3, Zenon DEF luv_fiber_join_dead, State
  <1>4. ASSUME NEW t \in Timer, NEW r \in BOOLEAN, luv_timer_start(t, r) PROVE TypeInv'
    BY <1>4, Zenon DEF luv_timer_start, Object
  <1>5. ASSUME NEW t \in Timer, luv_timer_again(t) PROVE TypeInv'
    BY <1>5, Zenon DEF luv_timer_again, Object
  <1>6. ASSUME NEW i \in Idle, luv_idle_start(i) PROVE TypeInv'
    BY <1>6, Zenon DEF luv_idle_start, Object
  <1>7. ASSUME NEW o \in Object, luv_object_stop(o) PROVE TypeInv'
    BY <1>7, Zenon DEF luv_object_stop
  <1>8. ASSUME Relink PROVE TypeInv'
    BY <1>8, Zenon DEF Relink, MayJoin, MayWait
  <1>9. ASSUME NEW f \in Fiber, luv_fiber_join(f) PROVE TypeInv'
    <2>1. joinq' \in [Fiber -> Seq(State)]
      BY <1>9, AppendQueue, Zenon DEF luv_fiber_join
    <2>2. queue' \in Seq(Fiber) /\ async' \in [sent : BOOLEAN, ref : BOOLEAN]
      BY <1>9, ReadyTypes, Zenon DEF luv_fiber_join, State
    <2>3. flags' \in [State -> SUBSET Flag]
      BY <1>9, Zenon DEF luv_fiber_join, Flag, State
    <2>4. stack' \in [State -> Seq(Value)]
      BY <1>9, ValueTypes, Zenon DEF luv_fiber_join, State
    <2>5. /\ call' \in [State -> Call] /\ curr' \in State
          /\ pc' \in {"lua", "once"} /\ (pc' = "once" => curr' = Main)
          /\ drain' = drain
      <3>1. pc = "lua" /\ Join(f) \in Call /\ luvL_state_suspend(Join(f))
        BY <1>9, ValueTypes, Zenon DEF luv_fiber_join, MayJoin
      <3> HIDE DEF TypeInv
      <3> QED BY <3>1, SuspendTypes, Zenon
    <2> QED BY <1>9, <2>1, <2>2, <2>3, <2>4, <2>5, Zenon DEF luv_fiber_join
  <1>10. ASSUME NEW o \in Object, luvL_cond_wait(o) PROVE TypeInv'
    <2>1. condq' \in [Object -> Seq(State)]
      BY <1>10, AppendQueue, Zenon DEF luvL_cond_wait
    <2>2. flags' \in [State -> SUBSET Flag] /\ stack' \in [State -> Seq(Value)]
      BY <1>10, ValueTypes, Zenon DEF luvL_cond_wait
    <2>3. /\ call' \in [State -> Call] /\ curr' \in State
          /\ pc' \in {"lua", "once"} /\ (pc' = "once" => curr' = Main)
          /\ drain' = drain
      <3>1. pc = "lua" /\ Wait(o) \in Call /\ luvL_state_suspend(Wait(o))
        BY <1>10, ValueTypes, Zenon DEF luvL_cond_wait, MayWait
      <3> HIDE DEF TypeInv
      <3> QED BY <3>1, SuspendTypes, Zenon
    <2> QED BY <1>10, <2>1, <2>2, <2>3, Zenon DEF luvL_cond_wait
  <1>11. ASSUME luv_sleep PROVE TypeInv'
    <2>1. flags' \in [State -> SUBSET Flag] /\ stack' \in [State -> Seq(Value)]
      BY <1>11, ValueTypes, Zenon DEF luv_sleep
    <2>2. sleeping' \in [State -> 0 .. MaxSleep]
      BY <1>11, ValueTypes DEF luv_sleep
    <2>3. /\ call' \in [State -> Call] /\ curr' \in State
          /\ pc' \in {"lua", "once"} /\ (pc' = "once" => curr' = Main)
          /\ drain' = drain
      <3>1. pc = "lua" /\ Sleep \in Call /\ luvL_state_suspend(Sleep)
        BY <1>11, ValueTypes, Zenon DEF luv_sleep
      <3> HIDE DEF TypeInv
      <3> QED BY <3>1, SuspendTypes, Zenon
    <2> QED BY <1>11, <2>1, <2>2, <2>3, Zenon DEF luv_sleep
  <1>12. ASSUME FiberYield PROVE TypeInv'
    BY <1>12, AppendQueue, Zenon DEF FiberYield, State
  <1>13. ASSUME FiberExit PROVE TypeInv'
    BY <1>13, ValueTypes, Zenon DEF FiberExit, State
  <1>14. ASSUME FiberError PROVE TypeInv'
    BY <1>14, ValueTypes, Zenon DEF FiberError, State, Flag
  <1>15. ASSUME luvL_thread_once PROVE TypeInv'
    <2>1. PICK f \in Fiber : f = Head(queue)
      BY <1>15, TailQueue, Zenon DEF luvL_thread_once
    <2>2. queue' \in Seq(Fiber)
      BY <1>15, TailQueue, Zenon DEF luvL_thread_once
    <2>3. /\ flags' \in [State -> SUBSET Flag]
          /\ call' \in [State -> Call]
          /\ stack' \in [State -> Seq(Value)]
          /\ curr' \in State
      <3>1. \/ flags' = flags \/ flags' = [flags EXCEPT ![f] = @ \cup {"FSTART"}]
        BY <1>15, <2>1, Zenon DEF luvL_thread_once
      <3>2. \E s \in State : call' = [call EXCEPT ![s] = NoCall]
        BY <1>15, <2>1, Zenon DEF luvL_thread_once, State
      <3>3. \/ stack' = stack \/ stack' = [stack EXCEPT ![Main] = <<"error">>]
        BY <1>15, Zenon DEF luvL_thread_once
      <3>4. curr' \in {curr, f}
        BY <1>15, <2>1, Zenon DEF luvL_thread_once
      <3>5. flags' \in [State -> SUBSET Flag]
        <4>1. flags[f] \cup {"FSTART"} \in SUBSET Flag
          BY Zenon DEF State, Flag
        <4> QED BY <3>1, <4>1, Zenon
      <3>6. call' \in [State -> Call]
        BY <3>2, ValueTypes, Zenon
      <3>7. stack' \in [State -> Seq(Value)]
        BY <3>3, ValueTypes, Zenon
      <3> QED BY <3>4, <3>5, <3>6, <3>7, Zenon DEF State
    <2> QED BY <1>15, <2>2, <2>3, Zenon DEF luvL_thread_once
  <1>16. ASSUME luvL_thread_loop PROVE TypeInv'
    BY <1>16, Zenon DEF luvL_thread_loop
  <1>17. ASSUME JoinersRoused PROVE TypeInv'
    <2> DEFINE s == Head(joinq[drain])
    <2>1. s \in State /\ joinq' \in [Fiber -> Seq(State)]
      BY <1>17, TailQueue DEF JoinersRoused
    <2>2. stack' \in [State -> Seq(Value)]
      BY <1>17, <2>1, SMTT(60) DEF JoinersRoused, State
    <2> QED BY <1>17, <2>1, <2>2, ReadyTypes, ZenonT(60) DEF JoinersRoused, luvL_state_ready
  <1>18. ASSUME luvL_fiber_close PROVE TypeInv'
    BY <1>18, Zenon DEF luvL_fiber_close, State, Flag
  <1>19. ASSUME NEW o \in Object, ObjectCb(o) PROVE TypeInv'
    BY <1>19, ValueTypes, Zenon DEF ObjectCb, Object
  <1>20. ASSUME luvL_cond_broadcast PROVE TypeInv'
    <2>1. Head(condq[drain]) \in State /\ condq' \in [Object -> Seq(State)]
      BY <1>20, TailQueue DEF luvL_cond_broadcast
    <2> QED BY <1>20, <2>1, ReadyTypes, Zenon DEF luvL_cond_broadcast, luvL_state_ready
  <1>21. ASSUME BroadcastDone PROVE TypeInv'
    BY <1>21, Zenon DEF BroadcastDone
  <1>22. ASSUME NEW s \in State, sleep_cb(s) PROVE TypeInv'
    <2>1. sleeping' \in [State -> 0 .. MaxSleep]
      BY <1>22 DEF sleep_cb
    <2> QED BY <1>22, <2>1, ReadyTypes, Zenon DEF sleep_cb, luvL_state_ready
  <1>23. ASSUME async_cb PROVE TypeInv'
    BY <1>23, Zenon DEF async_cb, State
  <1>24. ASSUME LoopAgain PROVE TypeInv'
    BY <1>24, Zenon DEF LoopAgain, UvReturns
  <1>25. ASSUME BackInMain PROVE TypeInv'
    <2>1. call[Main] \in Call /\ (call[Main].op = "join" => call[Main].on \in Fiber)
      BY DEF Call, NoCall, Sleep, Wait, Join, State
    <2>2. stack' \in [State -> Seq(Value)]
      BY <1>25, <2>1, Zenon DEF BackInMain, State
    <2> QED BY <1>25, <2>2, ValueTypes, Zenon DEF BackInMain, UvReturns, State, Flag
  <1>26. CASE UNCHANGED vars
    BY <1>26, Zenon DEF vars
  <1> HIDE DEF TypeInv
  <1> QED
    BY <1>1, <1>2, <1>3, <1>4, <1>5, <1>6, <1>7, <1>8, <1>9, <1>10, <1>11, <1>12,
       <1>13, <1>14, <1>15, <1>16, <1>17, <1>18, <1>19, <1>20, <1>21, <1>22, <1>23,
       <1>24, <1>25, <1>26, Zenon
       DEF Next, LuaKeeps, LuaWaits, Scheduler, Callbacks

\* Every variable keeps its type, and the control variables fit together.
THEOREM TypeCorrect == Spec => []TypeOK
  <1>1. Spec => []TypeInv
    BY TypeInit, TypeStep, PTL DEF Spec
  <1>2. TypeInv => TypeOK
    BY Zenon DEF TypeInv
  <1> QED BY <1>1, <1>2, PTL

-----------------------------------------------------------------------------
(* The ready queue *)

\* The ready queue agrees with FREADY when neither it nor what it depends on
\* changes.
LEMMA QueueUnchanged ==
  ASSUME ReadyQueueExact, queue' = queue, flags' = flags,
         \A f \in Fiber : Running(f)' = Running(f) /\ Exiting(f)' = Exiting(f)
  PROVE  ReadyQueueExact'
  BY Zenon DEF ReadyQueueExact, IsReady, IsDead

\* ... when luvL_state_ready readies a state,
LEMMA QueueReady ==
  ASSUME TypeInv, ReadyQueueExact, NEW s \in State, luvL_state_ready(s),
         \A f \in Fiber : Running(f)' = Running(f) /\ Exiting(f)' = Exiting(f)
  PROVE  ReadyQueueExact'
  <1> USE DEF TypeInv, TypeOK
  <1>1. CASE s \in Fiber /\ ~IsReady(s)
    <2>1. queue' = Append(queue, s) /\ s \notin Range(queue)
      BY <1>1, Zenon DEF luvL_state_ready, luvL_thread_enqueue, ReadyQueueExact
    <2>2. IsInjective(queue') /\ Range(queue') = Range(queue) \cup {s}
      BY <1>1, <2>1, AppendQueue DEF ReadyQueueExact
    <2>3. ~Running(s) /\ ~Exiting(s) /\ ~IsDead(s)
      BY <1>1, Zenon DEF ReadyQueueExact
    <2> QED BY <1>1, <2>1, <2>2, <2>3, Zenon
            DEF ReadyQueueExact, luvL_state_ready, IsReady, IsDead, State
  <1>2. CASE ~(s \in Fiber /\ ~IsReady(s))
    <2>1. queue' = queue
      BY <1>2, Zenon DEF luvL_state_ready, luvL_thread_enqueue
    <2>2. \A f \in Fiber : IsReady(f)' = IsReady(f) /\ IsDead(f)' = IsDead(f)
      BY <1>2, StateAssumption, SMTT(60) DEF luvL_state_ready, IsReady, IsDead, State
    <2> QED BY <2>1, <2>2, Zenon DEF ReadyQueueExact
  <1> QED BY <1>1, <1>2, Zenon

\* ... when the fiber that runs suspends itself in a luv call,
LEMMA QueueSuspend ==
  ASSUME TypeInv, ReadyQueueExact, pc = "lua", NEW c, luvL_state_suspend(c),
         flags' = [flags EXCEPT ![curr] = @ \ {"FREADY"}], queue' = queue
  PROVE  ReadyQueueExact'
  <1> USE DEF TypeInv, TypeOK
  <1>1. CASE curr \in Fiber
    <2>1. IsReady(curr) /\ ~IsDead(curr) /\ curr \notin Range(queue)
      BY <1>1, Zenon DEF ReadyQueueExact, Running
    <2>2. pc' = "once" /\ curr' = Main
      BY <2>1, Zenon DEF luvL_state_suspend
    <2>3. \A f \in Fiber : ~Running(f)' /\ ~Exiting(f)' /\ ~Exiting(f)
      BY <2>2, Zenon DEF Running, Exiting
    <2>4. \A f \in Fiber : Running(f) <=> f = curr
      BY <1>1, Zenon DEF Running
    <2>5. /\ \A f \in Fiber : IsDead(f)' <=> IsDead(f)
          /\ \A f \in Fiber : IsReady(f)' <=> IsReady(f) /\ f # curr
      BY Zenon DEF IsDead, IsReady, State
    <2> QED BY <1>1, <2>1, <2>3, <2>4, <2>5, Zenon DEF ReadyQueueExact
  <1>2. CASE curr = Main
    <2>1. \A f \in Fiber : /\ ~Running(f)' /\ ~Running(f)
                           /\ ~Exiting(f)' /\ ~Exiting(f)
      BY <1>2, StateAssumption, Zenon DEF Running, Exiting, luvL_state_suspend
    <2>2. \A f \in Fiber : IsReady(f)' = IsReady(f) /\ IsDead(f)' = IsDead(f)
      BY <1>2, StateAssumption, Zenon DEF IsReady, IsDead, State
    <2> QED BY <2>1, <2>2, Zenon DEF ReadyQueueExact
  <1> QED BY <1>1, <1>2, Zenon DEF State

\* ... and when it joins a fiber, which readies one state and suspends another.
LEMMA QueueJoin ==
  ASSUME TypeInv, ReadyQueueExact, NEW g \in Fiber, luv_fiber_join(g)
  PROVE  ReadyQueueExact'
  <1> USE DEF TypeInv, TypeOK
  <1>1. /\ pc = "lua" /\ g # curr /\ ~IsDead(g)
        /\ flags' = [flags EXCEPT ![g] = @ \cup {"FREADY"}, ![curr] = @ \ {"FREADY"}]
        /\ queue' = luvL_thread_enqueue(g)
    BY Zenon DEF luv_fiber_join, MayJoin
  <1>2. \A f \in Fiber : /\ Running(f) <=> f = curr
                         /\ ~Exiting(f) /\ ~Exiting(f)'
    BY <1>1, Zenon DEF luv_fiber_join, luvL_state_suspend, Running, Exiting
  <1>3. \A f \in Fiber : ~Running(f)'
    BY <1>1, StateAssumption, Zenon
       DEF luv_fiber_join, luvL_state_suspend, Running, ReadyQueueExact, State
  <1>4. \A f \in Fiber : /\ IsDead(f)' <=> IsDead(f)
                         /\ IsReady(f)' <=> (IsReady(f) \/ f = g) /\ f # curr
    BY <1>1, Zenon DEF IsDead, IsReady, State
  <1>5. IsInjective(queue') /\ Range(queue') = Range(queue) \cup {g}
    <2>1. CASE IsReady(g)
      BY <1>1, <1>2, <2>1, Zenon DEF luvL_thread_enqueue, ReadyQueueExact
    <2>2. CASE ~IsReady(g)
      <3>1. queue' = Append(queue, g) /\ g \notin Range(queue)
        BY <1>1, <2>2, Zenon DEF luvL_thread_enqueue, ReadyQueueExact
      <3> QED BY <3>1, AppendQueue DEF ReadyQueueExact
    <2> QED BY <2>1, <2>2, Zenon
  <1> QED BY <1>1, <1>2, <1>3, <1>4, <1>5, Zenon DEF ReadyQueueExact

LEMMA QueueInit == Init => ReadyQueueExact
  <1> SUFFICES ASSUME Init PROVE ReadyQueueExact
    OBVIOUS
  <1>1. IsInjective(queue) /\ Range(queue) = {}
    BY DEF Init, IsInjective, Range
  <1>2. \A f \in Fiber : ~IsReady(f) /\ ~IsDead(f) /\ ~Running(f) /\ ~Exiting(f)
    BY StateAssumption, Zenon DEF Init, IsReady, IsDead, Running, Exiting, State
  <1> QED BY <1>1, <1>2, Zenon DEF ReadyQueueExact

LEMMA QueueStep == TypeInv /\ ReadyQueueExact /\ [Next]_vars => ReadyQueueExact'
  <1> SUFFICES ASSUME TypeInv, ReadyQueueExact, [Next]_vars PROVE ReadyQueueExact'
    OBVIOUS
  <1> USE StateAssumption
      DEF luaVars, linkVars, readyVars, ctlVars, loopVars, Running, Exiting
  <1>1. ASSUME NEW f \in Fiber, luv_new_fiber(f) PROVE ReadyQueueExact'
    BY <1>1, QueueUnchanged, Zenon DEF luv_new_fiber
  <1>2. ASSUME NEW f \in Fiber, luv_fiber_ready(f) PROVE ReadyQueueExact'
    BY <1>2, QueueReady, Zenon DEF luv_fiber_ready, State
  <1>3. ASSUME NEW f \in Fiber, luv_fiber_join_dead(f) PROVE ReadyQueueExact'
    BY <1>3, QueueUnchanged, Zenon DEF luv_fiber_join_dead
  <1>4. ASSUME NEW t \in Timer, NEW r \in BOOLEAN, luv_timer_start(t, r)
        PROVE  ReadyQueueExact'
    BY <1>4, QueueUnchanged, Zenon DEF luv_timer_start
  <1>5. ASSUME NEW t \in Timer, luv_timer_again(t) PROVE ReadyQueueExact'
    BY <1>5, QueueUnchanged, Zenon DEF luv_timer_again
  <1>6. ASSUME NEW i \in Idle, luv_idle_start(i) PROVE ReadyQueueExact'
    BY <1>6, QueueUnchanged, Zenon DEF luv_idle_start
  <1>7. ASSUME NEW o \in Object, luv_object_stop(o) PROVE ReadyQueueExact'
    BY <1>7, QueueUnchanged, Zenon DEF luv_object_stop
  <1>8. ASSUME Relink PROVE ReadyQueueExact'
    BY <1>8, QueueUnchanged, Zenon DEF Relink, MayJoin, MayWait
  <1>9. ASSUME NEW f \in Fiber, luv_fiber_join(f) PROVE ReadyQueueExact'
    BY <1>9, QueueJoin, Zenon
  <1>10. ASSUME NEW o \in Object, luvL_cond_wait(o) PROVE ReadyQueueExact'
    BY <1>10, QueueSuspend, Zenon DEF luvL_cond_wait, MayWait
  <1>11. ASSUME luv_sleep PROVE ReadyQueueExact'
    BY <1>11, QueueSuspend, Zenon DEF luv_sleep
  <1>12. ASSUME FiberYield PROVE ReadyQueueExact'
    <2>1. /\ queue' = Append(queue, curr) /\ curr \notin Range(queue)
          /\ IsReady(curr) /\ ~IsDead(curr)
      BY <1>12, Zenon DEF FiberYield, ReadyQueueExact
    <2>2. IsInjective(queue') /\ Range(queue') = Range(queue) \cup {curr}
      BY <1>12, <2>1, AppendQueue DEF FiberYield, ReadyQueueExact, TypeInv, TypeOK
    <2> QED BY <1>12, <2>1, <2>2, Zenon
            DEF FiberYield, ReadyQueueExact, IsReady, IsDead
  <1>13. ASSUME FiberExit PROVE ReadyQueueExact'
    BY <1>13, Zenon DEF FiberExit, ReadyQueueExact, IsReady, IsDead
  <1>14. ASSUME FiberError PROVE ReadyQueueExact'
    BY <1>14, Zenon DEF FiberError, ReadyQueueExact, IsReady, IsDead, TypeInv, TypeOK, State
  <1>15. ASSUME luvL_thread_once PROVE ReadyQueueExact'
    <2>1. PICK f \in Fiber : f = Head(queue)
      BY <1>15, TailQueue, Zenon DEF luvL_thread_once, TypeInv, TypeOK
    <2>2. /\ f \in Range(queue)
          /\ IsInjective(queue') /\ Range(queue') = Range(queue) \ {f}
      BY <1>15, <2>1, TailQueue, SMTT(60)
         DEF luvL_thread_once, ReadyQueueExact, TypeInv, TypeOK
    <2>3. IsReady(f) /\ ~IsDead(f)
      BY <2>2, Zenon DEF ReadyQueueExact
    <2>4. /\ pc' = "lua" /\ curr' = f
          /\ flags' = [flags EXCEPT ![f] = @ \cup {"FSTART"}]
      BY <1>15, <2>1, <2>3, Zenon DEF luvL_thread_once
    <2>5. \A g \in Fiber : IsReady(g)' = IsReady(g) /\ IsDead(g)' = IsDead(g)
      BY <2>4, SMTT(60) DEF IsReady, IsDead, TypeInv, TypeOK, State
    <2> QED BY <1>15, <2>2, <2>3, <2>4, <2>5, Zenon
            DEF luvL_thread_once, ReadyQueueExact, TypeInv, ControlOK
  <1>16. ASSUME luvL_thread_loop PROVE ReadyQueueExact'
    BY <1>16, QueueUnchanged, Zenon DEF luvL_thread_loop
  <1>17. ASSUME JoinersRoused PROVE ReadyQueueExact'
    <2>1. Head(joinq[drain]) \in State
      BY <1>17, TailQueue DEF JoinersRoused, TypeInv, TypeOK, ControlOK
    <2> QED BY <1>17, <2>1, QueueReady, Zenon DEF JoinersRoused
  <1>18. ASSUME luvL_fiber_close PROVE ReadyQueueExact'
    BY <1>18, Zenon DEF luvL_fiber_close, ReadyQueueExact, IsReady, IsDead,
                 TypeInv, TypeOK, ControlOK, State
  <1>19. ASSUME NEW o \in Object, ObjectCb(o) PROVE ReadyQueueExact'
    BY <1>19, QueueUnchanged, Zenon DEF ObjectCb
  <1>20. ASSUME luvL_cond_broadcast PROVE ReadyQueueExact'
    <2>1. Head(condq[drain]) \in State
      BY <1>20, TailQueue DEF luvL_cond_broadcast, TypeInv, TypeOK, ControlOK
    <2> QED BY <1>20, <2>1, QueueReady, Zenon DEF luvL_cond_broadcast
  <1>21. ASSUME BroadcastDone PROVE ReadyQueueExact'
    BY <1>21, QueueUnchanged, Zenon DEF BroadcastDone
  <1>22. ASSUME NEW s \in State, sleep_cb(s) PROVE ReadyQueueExact'
    BY <1>22, QueueReady, Zenon DEF sleep_cb
  <1>23. ASSUME async_cb PROVE ReadyQueueExact'
    BY <1>23, QueueUnchanged, Zenon DEF async_cb
  <1>24. ASSUME LoopAgain PROVE ReadyQueueExact'
    BY <1>24, QueueUnchanged, Zenon DEF LoopAgain, UvReturns
  <1>25. ASSUME BackInMain PROVE ReadyQueueExact'
    <2>1. \A f \in Fiber : IsReady(f)' = IsReady(f) /\ IsDead(f)' = IsDead(f)
      BY <1>25, Zenon DEF BackInMain, IsReady, IsDead, TypeInv, TypeOK, State
    <2> QED BY <1>25, <2>1, Zenon
            DEF BackInMain, UvReturns, ReadyQueueExact, TypeInv, ControlOK
  <1>26. CASE UNCHANGED vars
    BY <1>26, QueueUnchanged, Zenon DEF vars
  <1> HIDE DEF Running, Exiting
  <1> QED
    BY <1>1, <1>2, <1>3, <1>4, <1>5, <1>6, <1>7, <1>8, <1>9, <1>10, <1>11, <1>12,
       <1>13, <1>14, <1>15, <1>16, <1>17, <1>18, <1>19, <1>20, <1>21, <1>22, <1>23,
       <1>24, <1>25, <1>26, Zenon
       DEF Next, LuaKeeps, LuaWaits, Scheduler, Callbacks

\* FREADY and the ready queue always agree; see ReadyQueueExact.
THEOREM ReadyQueueCorrect == Spec => []ReadyQueueExact
  BY TypeInit, TypeStep, QueueInit, QueueStep, PTL DEF Spec
-----------------------------------------------------------------------------
(* The life of a state *)

\* Nothing knows a fiber that has not been created: it has no flags, is in no
\* queue, has no timer and does not run.  The thread's state never dies.
BornInv ==
  /\ ~IsDead(Main)
  /\ curr \in Fiber => curr \in fibers
  /\ pc = "exit" => drain \in fibers
  /\ \A f \in Fiber \ fibers : ~IsReady(f) /\ ~IsDead(f) /\ sleeping[f] = 0
  /\ \A g \in Fiber : Range(joinq[g]) \subseteq fibers \cup {Main}
  /\ \A o \in Object : Range(condq[o]) \subseteq fibers \cup {Main}

LEMMA BornInit == Init => BornInv
  <1> SUFFICES ASSUME Init PROVE BornInv
    OBVIOUS
  <1>1. Range(<<>>) = {}
    BY DEF Range
  <1> QED BY <1>1, StateAssumption, Zenon DEF Init, BornInv, IsReady, IsDead, State

\* A fiber that BornInv allows to be readied, and what readying changes.
LEMMA BornReady ==
  ASSUME TypeInv, BornInv, NEW s \in fibers \cup {Main}, luvL_state_ready(s),
         fibers' = fibers
  PROVE  /\ ~IsDead(Main)'
         /\ \A f \in Fiber \ fibers : ~IsReady(f)' /\ ~IsDead(f)'
  <1>1. \A t \in State : /\ IsReady(t)' <=> IsReady(t) \/ t = s
                         /\ IsDead(t)' <=> IsDead(t)
    BY Zenon DEF luvL_state_ready, IsReady, IsDead, TypeInv, TypeOK, State
  <1> QED BY <1>1, StateAssumption, Zenon DEF BornInv, State, TypeInv, TypeOK

\* A step that readies nobody, links nobody and lets nobody new run.
LEMMA BornKept ==
  ASSUME BornInv, fibers' = fibers, joinq' = joinq, condq' = condq,
         sleeping' = sleeping,
         \A s \in State : (IsReady(s)' => IsReady(s)) /\ (IsDead(s)' <=> IsDead(s)),
         curr' \in Fiber => curr' \in fibers,
         pc' = "exit" => drain' \in fibers
  PROVE  BornInv'
  BY Zenon DEF BornInv, State

LEMMA BornStep == TypeInv /\ ReadyQueueExact /\ BornInv /\ [Next]_vars => BornInv'
  <1> SUFFICES ASSUME TypeInv, ReadyQueueExact, BornInv, [Next]_vars PROVE BornInv'
    OBVIOUS
  <1> USE StateAssumption
      DEF luaVars, linkVars, readyVars, ctlVars, loopVars
  <1>k. ASSUME fibers' = fibers, joinq' = joinq, condq' = condq,
               sleeping' = sleeping, flags' = flags,
               curr' \in {curr, Main},
               pc' = "exit" => drain' \in fibers
        PROVE  BornInv'
    <2>1. \A s \in State : IsReady(s)' = IsReady(s) /\ IsDead(s)' = IsDead(s)
      BY <1>k, Zenon DEF IsReady, IsDead
    <2>2. curr' \in Fiber => curr' \in fibers
      BY <1>k, Zenon DEF BornInv
    <2> QED BY <1>k, <2>1, <2>2, BornKept, Zenon
  <1>1. ASSUME NEW f \in Fiber, luv_new_fiber(f) PROVE BornInv'
    BY <1>1, Zenon DEF luv_new_fiber, BornInv, IsReady, IsDead
  <1>2. ASSUME NEW f \in Fiber, luv_fiber_ready(f) PROVE BornInv'
    <2>1. f \in fibers /\ luvL_state_ready(f) /\ fibers' = fibers
      BY <1>2, Zenon DEF luv_fiber_ready
    <2>2. /\ ~IsDead(Main)'
          /\ \A g \in Fiber \ fibers : ~IsReady(g)' /\ ~IsDead(g)'
      BY <2>1, BornReady, Zenon
    <2> QED BY <1>2, <2>2, Zenon DEF luv_fiber_ready, BornInv
  <1>3. ASSUME NEW f \in Fiber, luv_fiber_join_dead(f) PROVE BornInv'
    BY <1>3, <1>k, Zenon DEF luv_fiber_join_dead
  <1>4. ASSUME NEW t \in Timer, NEW r \in BOOLEAN, luv_timer_start(t, r) PROVE BornInv'
    BY <1>4, <1>k, Zenon DEF luv_timer_start
  <1>5. ASSUME NEW t \in Timer, luv_timer_again(t) PROVE BornInv'
    BY <1>5, <1>k, Zenon DEF luv_timer_again
  <1>6. ASSUME NEW i \in Idle, luv_idle_start(i) PROVE BornInv'
    BY <1>6, <1>k, Zenon DEF luv_idle_start
  <1>7. ASSUME NEW o \in Object, luv_object_stop(o) PROVE BornInv'
    BY <1>7, <1>k, Zenon DEF luv_object_stop
  <1>8. ASSUME Relink PROVE BornInv'
    BY <1>8, <1>k, Zenon DEF Relink, MayJoin, MayWait
  <1>9. ASSUME NEW f \in Fiber, luv_fiber_join(f) PROVE BornInv'
    <2>1. /\ f \in fibers /\ curr \in fibers \cup {Main}
          /\ fibers' = fibers /\ condq' = condq /\ sleeping' = sleeping
          /\ joinq' = [joinq EXCEPT ![f] = Append(joinq[f], curr)]
          /\ flags' = [flags EXCEPT ![f] = @ \cup {"FREADY"}, ![curr] = @ \ {"FREADY"}]
          /\ curr' \in {curr, Main} /\ pc' # "exit"
      BY <1>9, Zenon
      DEF luv_fiber_join, MayJoin, luvL_state_suspend, BornInv, TypeInv, TypeOK, State
    <2>2. \A s \in State : /\ IsReady(s)' => IsReady(s) \/ s = f
                           /\ IsDead(s)' <=> IsDead(s)
      BY <2>1, Zenon DEF IsReady, IsDead, TypeInv, TypeOK, State
    <2>3. \A g \in Fiber : Range(joinq'[g]) \subseteq fibers \cup {Main}
      <3>1. Range(Append(joinq[f], curr)) = Range(joinq[f]) \cup {curr}
        BY AppendQueue DEF TypeInv, TypeOK
      <3> QED BY <2>1, <3>1 DEF BornInv, TypeInv, TypeOK
    <2> QED BY <2>1, <2>2, <2>3, Zenon DEF BornInv, State
  <1>10. ASSUME NEW o \in Object, luvL_cond_wait(o) PROVE BornInv'
    <2>1. /\ curr \in fibers \cup {Main}
          /\ fibers' = fibers /\ joinq' = joinq /\ sleeping' = sleeping
          /\ condq' = [condq EXCEPT ![o] = Append(condq[o], curr)]
          /\ flags' = [flags EXCEPT ![curr] = @ \ {"FREADY"}]
          /\ curr' \in {curr, Main} /\ pc' # "exit"
      BY <1>10, Zenon
      DEF luvL_cond_wait, MayWait, luvL_state_suspend, BornInv, TypeInv, TypeOK, State
    <2>2. \A s \in State : /\ IsReady(s)' => IsReady(s)
                           /\ IsDead(s)' <=> IsDead(s)
      BY <2>1, Zenon DEF IsReady, IsDead, TypeInv, TypeOK, State
    <2>3. \A p \in Object : Range(condq'[p]) \subseteq fibers \cup {Main}
      <3>1. Range(Append(condq[o], curr)) = Range(condq[o]) \cup {curr}
        BY AppendQueue DEF TypeInv, TypeOK
      <3> QED BY <2>1, <3>1 DEF BornInv, TypeInv, TypeOK
    <2> QED BY <2>1, <2>2, <2>3, Zenon DEF BornInv, State
  <1>11. ASSUME luv_sleep PROVE BornInv'
    <2>1. /\ curr \in fibers \cup {Main}
          /\ fibers' = fibers /\ joinq' = joinq /\ condq' = condq
          /\ sleeping' = [sleeping EXCEPT ![curr] = @ + 1]
          /\ flags' = [flags EXCEPT ![curr] = @ \ {"FREADY"}]
          /\ curr' \in {curr, Main} /\ pc' # "exit"
      BY <1>11, Zenon DEF luv_sleep, luvL_state_suspend, BornInv, TypeInv, TypeOK, State
    <2>2. \A s \in State : /\ IsReady(s)' => IsReady(s)
                           /\ IsDead(s)' <=> IsDead(s)
      BY <2>1, Zenon DEF IsReady, IsDead, TypeInv, TypeOK, State
    <2>3. \A f \in Fiber \ fibers : sleeping'[f] = sleeping[f]
      BY <2>1, Zenon DEF TypeInv, TypeOK, State
    <2> QED BY <2>1, <2>2, <2>3, Zenon DEF BornInv, State
  <1>12. ASSUME FiberYield PROVE BornInv'
    BY <1>12, <1>k, Zenon DEF FiberYield
  <1>13. ASSUME FiberExit PROVE BornInv'
    <2>1. curr \in fibers
      BY <1>13, Zenon DEF FiberExit, BornInv
    <2> QED BY <1>13, <2>1, <1>k, Zenon DEF FiberExit
  <1>14. ASSUME FiberError PROVE BornInv'
    <2>1. /\ curr \in fibers /\ curr # Main
          /\ \A s \in State : /\ IsReady(s)' <=> IsReady(s)
                              /\ IsDead(s)' <=> IsDead(s) \/ s = curr
      BY <1>14, Zenon DEF FiberError, BornInv, IsReady, IsDead, TypeInv, TypeOK, State
    <2> QED BY <1>14, <2>1, Zenon DEF FiberError, BornInv, State
  <1>15. ASSUME luvL_thread_once PROVE BornInv'
    <2>1. PICK f \in Fiber : f = Head(queue) /\ f \in Range(queue)
      BY <1>15, TailQueue DEF luvL_thread_once, TypeInv, TypeOK
    <2>2. IsReady(f) /\ ~IsDead(f)
      BY <2>1, Zenon DEF ReadyQueueExact
    <2>3. /\ flags' = [flags EXCEPT ![f] = @ \cup {"FSTART"}]
          /\ curr' = f /\ pc' = "lua" /\ f \in fibers
      BY <1>15, <2>1, <2>2, Zenon DEF luvL_thread_once, BornInv
    <2>4. \A s \in State : IsReady(s)' = IsReady(s) /\ IsDead(s)' = IsDead(s)
      BY <2>3, SMTT(60) DEF IsReady, IsDead, TypeInv, TypeOK, State
    <2> QED BY <1>15, <2>3, <2>4, BornKept, Zenon DEF luvL_thread_once
  <1>16. ASSUME luvL_thread_loop PROVE BornInv'
    BY <1>16, <1>k, Zenon DEF luvL_thread_loop
  <1>17. ASSUME JoinersRoused PROVE BornInv'
    <2>1. PICK g \in Fiber : g = drain
      BY <1>17, Zenon DEF JoinersRoused, TypeInv, ControlOK
    <2>2. joinq[g] \in Seq(State) /\ joinq[g] # <<>>
      BY <1>17, <2>1, Zenon DEF JoinersRoused, TypeInv, TypeOK
    <2>3. PICK s \in State : s = Head(joinq[g])
      BY <2>2, TailQueue, Zenon
    <2>4. Range(joinq[g]) = Range(Tail(joinq[g])) \cup {s}
      BY <2>2, <2>3, TailQueue, Zenon
    <2>5. s \in fibers \cup {Main}
      BY <2>4, Zenon DEF BornInv
    <2>6. /\ ~IsDead(Main)'
          /\ \A f \in Fiber \ fibers : ~IsReady(f)' /\ ~IsDead(f)'
      BY <1>17, <2>1, <2>3, <2>5, BornReady, Zenon DEF JoinersRoused
    <2>7. \A h \in Fiber : Range(joinq'[h]) \subseteq fibers \cup {Main}
      BY <1>17, <2>1, <2>4, Zenon DEF JoinersRoused, BornInv, TypeInv, TypeOK
    <2> QED BY <1>17, <2>6, <2>7, Zenon DEF JoinersRoused, BornInv
  <1>18. ASSUME luvL_fiber_close PROVE BornInv'
    <2>1. drain \in fibers /\ drain \in Fiber
      BY <1>18, Zenon DEF luvL_fiber_close, BornInv, TypeInv, ControlOK
    <2>2. \A s \in State : /\ IsReady(s)' <=> IsReady(s)
                           /\ IsDead(s)' <=> IsDead(s) \/ s = drain
      BY <1>18, <2>1, Zenon DEF luvL_fiber_close, IsReady, IsDead, TypeInv, TypeOK, State
    <2> QED BY <1>18, <2>1, <2>2, Zenon DEF luvL_fiber_close, BornInv, State
  <1>19. ASSUME NEW o \in Object, ObjectCb(o) PROVE BornInv'
    BY <1>19, <1>k, Zenon DEF ObjectCb
  <1>20. ASSUME luvL_cond_broadcast PROVE BornInv'
    <2>1. PICK o \in Object : o = drain
      BY <1>20, Zenon DEF luvL_cond_broadcast, TypeInv, ControlOK
    <2>2. condq[o] \in Seq(State) /\ condq[o] # <<>>
      BY <1>20, <2>1, Zenon DEF luvL_cond_broadcast, TypeInv, TypeOK
    <2>3. PICK s \in State : s = Head(condq[o])
      BY <2>2, TailQueue, Zenon
    <2>4. Range(condq[o]) = Range(Tail(condq[o])) \cup {s}
      BY <2>2, <2>3, TailQueue, Zenon
    <2>5. s \in fibers \cup {Main}
      BY <2>4, Zenon DEF BornInv
    <2>6. /\ ~IsDead(Main)'
          /\ \A f \in Fiber \ fibers : ~IsReady(f)' /\ ~IsDead(f)'
      BY <1>20, <2>1, <2>3, <2>5, BornReady, Zenon DEF luvL_cond_broadcast
    <2>7. \A p \in Object : Range(condq'[p]) \subseteq fibers \cup {Main}
      BY <1>20, <2>1, <2>4, SMTT(60) DEF luvL_cond_broadcast, BornInv, TypeInv, TypeOK
    <2> QED BY <1>20, <2>6, <2>7, Zenon DEF luvL_cond_broadcast, BornInv
  <1>21. ASSUME BroadcastDone PROVE BornInv'
    BY <1>21, <1>k, Zenon DEF BroadcastDone
  <1>22. ASSUME NEW s \in State, sleep_cb(s) PROVE BornInv'
    <2>1. s \in fibers \cup {Main}
      BY <1>22 DEF sleep_cb, BornInv, State
    <2>2. /\ ~IsDead(Main)'
          /\ \A f \in Fiber \ fibers : ~IsReady(f)' /\ ~IsDead(f)'
      BY <1>22, <2>1, BornReady, Zenon DEF sleep_cb
    <2>3. \A f \in Fiber \ fibers : sleeping'[f] = sleeping[f]
      BY <1>22, <2>1, Zenon DEF sleep_cb, TypeInv, TypeOK, State
    <2>4. UNCHANGED <<fibers, curr, pc, drain, joinq, condq>>
      BY <1>22, Zenon DEF sleep_cb, luaVars, linkVars, ctlVars
    <2> QED BY <2>2, <2>3, <2>4, Zenon DEF BornInv
  <1>23. ASSUME async_cb PROVE BornInv'
    BY <1>23, <1>k, Zenon DEF async_cb
  <1>24. ASSUME LoopAgain PROVE BornInv'
    BY <1>24, <1>k, Zenon DEF LoopAgain, UvReturns
  <1>25. ASSUME BackInMain PROVE BornInv'
    <2>1. \A s \in State : /\ IsReady(s)' => IsReady(s) \/ s = Main
                           /\ IsDead(s)' <=> IsDead(s)
      BY <1>25, Zenon DEF BackInMain, IsReady, IsDead, TypeInv, TypeOK, State
    <2> QED BY <1>25, <2>1, Zenon DEF BackInMain, BornInv, State
  <1>26. CASE UNCHANGED vars
    BY <1>26, <1>k, Zenon DEF vars, BornInv
  <1> QED
    BY <1>1, <1>2, <1>3, <1>4, <1>5, <1>6, <1>7, <1>8, <1>9, <1>10, <1>11, <1>12,
       <1>13, <1>14, <1>15, <1>16, <1>17, <1>18, <1>19, <1>20, <1>21, <1>22, <1>23,
       <1>24, <1>25, <1>26
       DEF Next, LuaKeeps, LuaWaits, Scheduler, Callbacks

-----------------------------------------------------------------------------
(* The scheduler implements LuvStates *)

\* Whose status a step leaves alone.
Same(s) == /\ (s \in fibers)' <=> s \in fibers
           /\ IsReady(s)' <=> IsReady(s)
           /\ IsDead(s)' <=> IsDead(s)
           /\ Running(s)' <=> Running(s)
           /\ Exiting(s)' <=> Exiting(s)

LEMMA SameStatus ==
  ASSUME NEW s \in State, Same(s)
  PROVE  StatusOf(s)' = StatusOf(s)
  BY Zenon DEF Same, StatusOf

\* One state moves, two states move, nobody moves.
Status == [s \in State |-> StatusOf(s)]

LEMMA OneMoves ==
  ASSUME NEW s \in State, NEW from, NEW to,
         StatusOf(s) = from, StatusOf(s)' = to,
         \A t \in State \ {s} : StatusOf(t)' = StatusOf(t)
  PROVE  States!Move(s, from, to)
  BY Zenon DEF States!Move

LEMMA TwoMove ==
  ASSUME NEW s \in State, NEW from, NEW to, StatusOf(s) = from, StatusOf(s)' = to,
         NEW t \in State, NEW fr2, NEW to2, StatusOf(t) = fr2, StatusOf(t)' = to2,
         s # t,
         \A u \in State \ {s, t} : StatusOf(u)' = StatusOf(u)
  PROVE  States!Move2(s, from, to, t, fr2, to2)
  BY Zenon DEF States!Move2

LEMMA NoneMoves ==
  ASSUME \A s \in State : StatusOf(s)' = StatusOf(s)
  PROVE  Status' = Status
  BY Zenon DEF Status

LifeInv == TypeInv /\ ReadyQueueExact /\ BornInv

\* What the scheduler does to the statuses in a step.
Lives == [States!Next]_Status

LEMMA NoneLives ==
  ASSUME \A s \in State : Same(s)
  PROVE  Lives
  BY SameStatus, NoneMoves, Zenon DEF Lives

\* Who may be parked: Main, or a fiber that exists, does not run and is alive.
StatusRule ==
  \A s \in fibers \cup {Main} :
    /\ Running(s) => StatusOf(s) = "running"
    /\ ~Running(s) /\ ~IsReady(s) => StatusOf(s) = "parked"
    /\ ~Running(s) /\ IsReady(s) /\ ~IsDead(s) /\ ~Exiting(s) => StatusOf(s) = "ready"

LEMMA ParkedOrNot == LifeInv => StatusRule
  <1> SUFFICES ASSUME LifeInv, NEW s \in fibers \cup {Main}
               PROVE  /\ Running(s) => StatusOf(s) = "running"
                      /\ ~Running(s) /\ ~IsReady(s) => StatusOf(s) = "parked"
                      /\ ~Running(s) /\ IsReady(s) /\ ~IsDead(s) /\ ~Exiting(s)
                           => StatusOf(s) = "ready"
    BY Zenon DEF StatusRule
  <1>1. s \in State /\ ~(s \in Fiber \ fibers)
    BY StateAssumption, Zenon DEF LifeInv, TypeInv, TypeOK, State
  <1>2. IsDead(s) => s \in Fiber /\ IsReady(s) /\ ~Running(s)
    BY <1>1, Zenon DEF LifeInv, ReadyQueueExact, BornInv, State
  <1>3. Exiting(s) => s \in Fiber /\ IsReady(s) /\ ~Running(s)
    BY <1>1, StateAssumption, Zenon
       DEF LifeInv, ReadyQueueExact, TypeInv, ControlOK, Exiting, Running
  <1> QED BY <1>1, <1>2, <1>3, Zenon DEF StatusOf

LEMMA ParkedOrNotNext == LifeInv' => StatusRule'
  BY ParkedOrNot, PTL

\* luvL_state_ready makes a parked state ready and does nothing to another.
LEMMA ReadyLives ==
  ASSUME LifeInv, LifeInv', NEW s \in fibers \cup {Main}, luvL_state_ready(s),
         fibers' = fibers,
         \A t \in State : (Running(t)' <=> Running(t)) /\ (Exiting(t)' <=> Exiting(t))
  PROVE  Lives
  <1>1. \A t \in State : /\ IsReady(t)' <=> IsReady(t) \/ t = s
                         /\ IsDead(t)' <=> IsDead(t)
    BY Zenon, ZenonT(60) DEF luvL_state_ready, IsReady, IsDead, LifeInv, TypeInv, TypeOK
  <1>2. s \in State
    BY Zenon DEF LifeInv, TypeInv, TypeOK, State
  <1>3. \A t \in State \ {s} : StatusOf(t)' = StatusOf(t)
    BY <1>1, SameStatus, Zenon DEF Same
  <1>4. CASE IsReady(s)
    BY <1>1, <1>4, NoneLives, Zenon DEF Same
  <1>5. CASE Running(s)
    <2>1. StatusOf(s) = "running" /\ StatusOf(s)' = "running"
      BY <1>5, <1>2, ParkedOrNot, ParkedOrNotNext, Zenon DEF StatusRule
    <2> QED BY <1>3, <2>1, NoneMoves, Zenon DEF Lives
  <1>6. CASE ~IsReady(s) /\ ~Running(s)
    <2>1. ~IsDead(s) /\ ~Exiting(s)
      BY <1>6, StateAssumption
         DEF LifeInv, ReadyQueueExact, BornInv, TypeInv, TypeOK, ControlOK, Exiting
    <2>2. StatusOf(s) = "parked" /\ StatusOf(s)' = "ready"
      BY <1>1, <1>2, <1>6, <2>1, ParkedOrNot, ParkedOrNotNext, Zenon DEF StatusRule
    <2>3. States!Ready(s)
      BY <1>2, <1>3, <2>2, OneMoves, Zenon DEF States!Ready
    <2> QED BY <1>2, <2>3, Zenon DEF Lives, States!Next, States!State, State
  <1> QED BY <1>4, <1>5, <1>6, Zenon

\* The running state parks itself, unless FREADY is not set: it runs on.
LEMMA SuspendLives ==
  ASSUME LifeInv, LifeInv', pc = "lua", NEW c, luvL_state_suspend(c), fibers' = fibers,
         flags' = [flags EXCEPT ![curr] = @ \ {"FREADY"}]
  PROVE  Lives
  <1>1. PICK s \in State : s = curr
    BY Zenon DEF LifeInv, TypeInv, TypeOK
  <1>2. s \in fibers \cup {Main}
    BY <1>1, ZenonT(60) DEF LifeInv, BornInv, State
  <1>3. \A t \in State : /\ IsReady(t)' <=> IsReady(t) /\ t # s
                         /\ IsDead(t)' <=> IsDead(t)
                         /\ Running(t) <=> t = s
                         /\ ~Exiting(t) /\ ~Exiting(t)'
    BY <1>1, Zenon
    DEF luvL_state_suspend, IsReady, IsDead, Running, Exiting, LifeInv, TypeInv, TypeOK
  <1>4. CASE IsReady(s)
    <2>1. \A t \in State : ~Running(t)'
      BY <1>1, <1>4, Zenon DEF luvL_state_suspend, Running
    <2>2. StatusOf(s) = "running" /\ StatusOf(s)' = "parked"
      BY <1>2, <1>3, <2>1, ParkedOrNot, ParkedOrNotNext, Zenon DEF StatusRule
    <2>3. \A t \in State \ {s} : StatusOf(t)' = StatusOf(t)
      BY <1>3, <2>1, SameStatus, Zenon DEF Same
    <2>4. States!Suspend(s)
      BY <2>2, <2>3, OneMoves, Zenon DEF States!Suspend
    <2> QED BY <2>4, Zenon DEF Lives, States!Next, States!State, State
  <1>5. CASE ~IsReady(s)
    <2>1. \A t \in State : Running(t)' <=> t = s
      BY <1>1, <1>5, Zenon DEF luvL_state_suspend, Running
    <2> QED BY <1>3, <1>5, <2>1, NoneLives, Zenon DEF Same
  <1> QED BY <1>4, <1>5, Zenon

\* fiber:join readies the fiber joined and parks the running state.
LEMMA JoinLives ==
  ASSUME LifeInv, LifeInv', NEW f \in Fiber, luv_fiber_join(f)
  PROVE  Lives
  <1>1. PICK s \in State : s = curr
    BY Zenon DEF LifeInv, TypeInv, TypeOK
  <1>2. s \in fibers \cup {Main} /\ f \in fibers /\ f # s /\ f \in State
    BY <1>1, Zenon DEF LifeInv, BornInv, State, luv_fiber_join, MayJoin
  <1>3. \A t \in State : /\ IsReady(t)' <=> (IsReady(t) \/ t = f) /\ t # s
                         /\ IsDead(t)' <=> IsDead(t)
                         /\ Running(t) <=> t = s
                         /\ ~Exiting(t) /\ ~Exiting(t)'
                         /\ (t \in fibers)' <=> t \in fibers
    <2>1. /\ flags' = [flags EXCEPT ![f] = @ \cup {"FREADY"}, ![s] = @ \ {"FREADY"}]
          /\ pc = "lua" /\ fibers' = fibers /\ pc' # "exit"
      BY <1>1, Zenon DEF luv_fiber_join, MayJoin, luvL_state_suspend
    <2> QED BY <1>1, <1>2, <2>1, Zenon
            DEF IsReady, IsDead, Running, Exiting, LifeInv, TypeInv, TypeOK
  <1>4. ~IsDead(f) /\ f \in fibers'
    BY <1>2, <1>3, Zenon DEF luv_fiber_join, MayJoin
  <1>5. /\ IsReady(f) => StatusOf(f) = "ready"
        /\ ~IsReady(f) => StatusOf(f) = "parked"
        /\ StatusOf(s) = "running"
    BY <1>2, <1>3, <1>4, ParkedOrNot, ParkedOrNotNext, Zenon DEF StatusRule
  <1>6. CASE IsReady(s)
    <2>1. \A t \in State : ~Running(t)'
      BY <1>1, <1>6, Zenon DEF luv_fiber_join, luvL_state_suspend, Running
    <2>2. StatusOf(s)' = "parked" /\ StatusOf(f)' = "ready"
      BY <1>2, <1>3, <1>4, <2>1, ParkedOrNot, ParkedOrNotNext, Zenon DEF StatusRule
    <2>3. \A t \in State \ {s, f} : StatusOf(t)' = StatusOf(t)
      BY <1>3, <2>1, SameStatus, Zenon DEF Same
    <2>4. CASE IsReady(f)
      <3>1. States!Suspend(s)
        BY <1>5, <2>2, <2>3, <2>4, OneMoves, Zenon DEF States!Suspend
      <3> QED BY <3>1, Zenon DEF Lives, States!Next, States!State, State
    <2>5. CASE ~IsReady(f)
      <3>1. States!SuspendFor(s, f)
        BY <1>2, <1>5, <2>2, <2>3, <2>5, TwoMove, Zenon DEF States!SuspendFor
      <3> QED BY <3>1, Zenon DEF Lives, States!Next, States!State, State
    <2> QED BY <2>4, <2>5, Zenon
  <1>7. CASE ~IsReady(s)
    <2>1. \A t \in State : Running(t)' <=> t = s
      BY <1>1, <1>3, <1>7, Zenon DEF luv_fiber_join, luvL_state_suspend, Running, MayJoin
    <2>2. StatusOf(s)' = "running" /\ StatusOf(f)' = "ready"
      BY <1>2, <1>3, <1>4, <2>1, ParkedOrNot, ParkedOrNotNext, Zenon DEF StatusRule
    <2>3. \A t \in State \ {f} : StatusOf(t)' = StatusOf(t)
      BY <1>3, <1>5, <2>1, <2>2, SameStatus, Zenon DEF Same
    <2>4. CASE IsReady(f)
      BY <1>5, <2>2, <2>3, <2>4, NoneMoves, Zenon DEF Lives
    <2>5. CASE ~IsReady(f)
      <3>1. States!Ready(f)
        BY <1>2, <1>5, <2>2, <2>3, <2>5, OneMoves, Zenon DEF States!Ready
      <3> QED BY <1>2, <3>1, Zenon DEF Lives, States!Next, States!State, State
    <2> QED BY <2>4, <2>5, Zenon
  <1> QED BY <1>6, <1>7, Zenon

\* Every step of the scheduler is a step in the life of a state, or none.
LEMMA StepLives == LifeInv /\ LifeInv' /\ [Next]_vars => Lives
  <1> SUFFICES ASSUME LifeInv, LifeInv', [Next]_vars PROVE Lives
    OBVIOUS
  <1> USE StateAssumption
      DEF luaVars, linkVars, readyVars, ctlVars, loopVars
  <1>a. TypeInv /\ ReadyQueueExact /\ BornInv /\ StatusRule /\ StatusRule'
    BY ParkedOrNot, ParkedOrNotNext, Zenon DEF LifeInv
  <1>k. ASSUME fibers' = fibers, flags' = flags,
               \A s \in State : (Running(s)' <=> Running(s)) /\ (Exiting(s)' <=> Exiting(s))
        PROVE  Lives
    BY <1>k, NoneLives, Zenon DEF Same, IsReady, IsDead
  <1>1. ASSUME NEW f \in Fiber, luv_new_fiber(f) PROVE Lives
    <2>1. \A s \in State \ {f} : StatusOf(s)' = StatusOf(s)
      <3>1. \A s \in State \ {f} : Same(s)
        BY <1>1, Zenon DEF luv_new_fiber, Same, IsReady, IsDead, Running, Exiting
      <3> QED BY <3>1, SameStatus, Zenon
    <2>2. StatusOf(f) = "unborn"
      BY <1>1, Zenon DEF luv_new_fiber, StatusOf
    <2>3. ~IsReady(f)' /\ ~Running(f)' /\ f \in fibers'
      BY <1>1, <1>a, Zenon DEF luv_new_fiber, BornInv, IsReady, Running
    <2>4. StatusOf(f)' = "parked"
      BY <1>a, <2>3, Zenon DEF StatusRule
    <2>5. States!Create(f)
      BY <2>1, <2>2, <2>4, OneMoves, Zenon DEF States!Create, State
    <2> QED BY <2>5, Zenon DEF Lives, States!Next
  <1>2. ASSUME NEW f \in Fiber, luv_fiber_ready(f) PROVE Lives
    BY <1>2, ReadyLives, Zenon DEF luv_fiber_ready, Running, Exiting
  <1>3. ASSUME NEW f \in Fiber, luv_fiber_join_dead(f) PROVE Lives
    BY <1>3, <1>k, Zenon DEF luv_fiber_join_dead, Running, Exiting
  <1>4. ASSUME NEW t \in Timer, NEW r \in BOOLEAN, luv_timer_start(t, r) PROVE Lives
    BY <1>4, <1>k, Zenon DEF luv_timer_start, Running, Exiting
  <1>5. ASSUME NEW t \in Timer, luv_timer_again(t) PROVE Lives
    BY <1>5, <1>k, Zenon DEF luv_timer_again, Running, Exiting
  <1>6. ASSUME NEW i \in Idle, luv_idle_start(i) PROVE Lives
    BY <1>6, <1>k, Zenon DEF luv_idle_start, Running, Exiting
  <1>7. ASSUME NEW o \in Object, luv_object_stop(o) PROVE Lives
    BY <1>7, <1>k, Zenon DEF luv_object_stop, Running, Exiting
  <1>8. ASSUME Relink PROVE Lives
    BY <1>8, <1>k, Zenon DEF Relink, MayJoin, MayWait, Running, Exiting
  <1>9. ASSUME NEW f \in Fiber, luv_fiber_join(f) PROVE Lives
    BY <1>9, JoinLives, Zenon
  <1>10. ASSUME NEW o \in Object, luvL_cond_wait(o) PROVE Lives
    BY <1>10, SuspendLives, Zenon DEF luvL_cond_wait, MayWait
  <1>11. ASSUME luv_sleep PROVE Lives
    BY <1>11, SuspendLives, Zenon DEF luv_sleep
  <1>12. ASSUME FiberYield PROVE Lives
    <2>1. PICK f \in Fiber : f = curr
      BY <1>12, Zenon DEF FiberYield
    <2>2. /\ f \in fibers /\ f \in State /\ f \in fibers'
          /\ Running(f) /\ IsReady(f) /\ ~IsDead(f)
      BY <1>12, <1>a, <2>1, ZenonT(60)
      DEF FiberYield, BornInv, ReadyQueueExact, Running, State
    <2>3. /\ \A s \in State : ~Running(s)' /\ ~Exiting(s)' /\ ~Exiting(s)
          /\ \A s \in State \ {f} : ~Running(s)
          /\ \A s \in State : IsReady(s)' = IsReady(s) /\ IsDead(s)' = IsDead(s)
      BY <1>12, <2>1, Zenon DEF FiberYield, Running, Exiting, IsReady, IsDead
    <2>4. StatusOf(f) = "running" /\ StatusOf(f)' = "ready"
      BY <1>a, <2>2, <2>3, Zenon DEF StatusRule
    <2>5. \A s \in State \ {f} : StatusOf(s)' = StatusOf(s)
      BY <1>12, <2>3, SameStatus, Zenon DEF Same, FiberYield
    <2>6. States!Yield(f)
      BY <2>2, <2>4, <2>5, OneMoves, Zenon DEF States!Yield
    <2> QED BY <2>6, Zenon DEF Lives, States!Next
  <1>13. ASSUME FiberExit PROVE Lives
    <2>1. PICK f \in Fiber : f = curr
      BY <1>13, Zenon DEF FiberExit
    <2>2. f \in fibers /\ f \in State /\ Running(f)
      BY <1>13, <1>a, <2>1, Zenon DEF FiberExit, BornInv, Running, State
    <2>3. /\ \A s \in State : ~Running(s)' /\ ~Exiting(s) /\ (Exiting(s)' <=> s = f)
          /\ \A s \in State \ {f} : ~Running(s)
          /\ \A s \in State : IsReady(s)' = IsReady(s) /\ IsDead(s)' = IsDead(s)
          /\ fibers' = fibers
      BY <1>13, <2>1, Zenon DEF FiberExit, Running, Exiting, IsReady, IsDead
    <2>4. StatusOf(f) = "running" /\ StatusOf(f)' = "dead"
      BY <1>a, <2>2, <2>3, Zenon DEF StatusRule, StatusOf
    <2>5. \A s \in State \ {f} : StatusOf(s)' = StatusOf(s)
      BY <2>3, SameStatus, Zenon DEF Same
    <2>6. States!Exit(f)
      BY <2>2, <2>4, <2>5, OneMoves, Zenon DEF States!Exit
    <2> QED BY <2>6, Zenon DEF Lives, States!Next
  <1>14. ASSUME FiberError PROVE Lives
    <2>1. PICK f \in Fiber : f = curr
      BY <1>14, Zenon DEF FiberError
    <2>2. f \in fibers /\ f \in State /\ Main \in State /\ f # Main /\ Running(f)
      BY <1>14, <1>a, <2>1, Zenon DEF FiberError, BornInv, Running, State
    <2>3. /\ \A s \in State : /\ Running(s)' <=> s = Main
                              /\ ~Exiting(s) /\ ~Exiting(s)'
          /\ \A s \in State \ {f} : ~Running(s)
          /\ fibers' = fibers
      BY <1>14, <2>1, Zenon DEF FiberError, Running, Exiting
    <2>4. \A s \in State : IsReady(s)' = IsReady(s) /\ (IsDead(s)' <=> IsDead(s) \/ s = f)
      BY <1>14, <1>a, <2>1 DEF FiberError, IsReady, IsDead, TypeInv, TypeOK
    <2>5. StatusOf(f) = "running" /\ StatusOf(f)' = "dead"
      BY <1>a, <2>2, <2>3, <2>4, Zenon DEF StatusRule, StatusOf
    <2>6. StatusOf(Main) \in {"parked", "ready"} /\ StatusOf(Main)' = "running"
      BY <1>a, <2>2, <2>3, Zenon DEF StatusRule, BornInv
    <2>7. \A s \in State \ {f, Main} : StatusOf(s)' = StatusOf(s)
      BY <2>3, <2>4, SameStatus, Zenon DEF Same
    <2>8. \E from \in {"parked", "ready"} :
             States!Move2(f, "running", "dead", Main, from, "running")
      BY <2>2, <2>5, <2>6, <2>7, TwoMove, Zenon
    <2> QED BY <2>8, Zenon DEF Lives, States!Next, States!Raise
  <1>15. ASSUME luvL_thread_once PROVE Lives
    <2>1. PICK f \in Fiber : f = Head(queue) /\ f \in Range(queue)
      BY <1>15, <1>a, TailQueue DEF luvL_thread_once, TypeInv, TypeOK
    <2>2. IsReady(f) /\ ~IsDead(f) /\ ~Running(f) /\ ~Exiting(f) /\ f \in fibers /\ f \in State
      BY <1>a, <2>1, Zenon DEF ReadyQueueExact, BornInv, State
    <2>3. /\ flags' = [flags EXCEPT ![f] = @ \cup {"FSTART"}]
          /\ curr' = f /\ pc' = "lua" /\ pc = "once" /\ fibers' = fibers
      BY <1>15, <2>1, <2>2, Zenon DEF luvL_thread_once
    <2>4. \A s \in State : (IsReady(s)' <=> IsReady(s)) /\ (IsDead(s)' <=> IsDead(s))
      <3>1. \A s \in State : flags'[s] = IF s = f THEN flags[s] \cup {"FSTART"} ELSE flags[s]
        BY <1>a, <2>3, Zenon DEF TypeInv, TypeOK
      <3> SUFFICES ASSUME NEW s \in State
                   PROVE  ("FREADY" \in flags'[s] <=> "FREADY" \in flags[s])
                          /\ ("FDEAD" \in flags'[s] <=> "FDEAD" \in flags[s])
        BY Zenon DEF IsReady, IsDead
      <3>2. flags'[s] = flags[s] \/ flags'[s] = flags[s] \cup {"FSTART"}
        BY <3>1, Zenon
      <3> QED BY <3>2, Zenon
    <2>5. \A s \in State : /\ ~Running(s) /\ (Running(s)' <=> s = f)
                           /\ ~Exiting(s) /\ ~Exiting(s)'
      BY <2>3, Zenon DEF Running, Exiting
    <2>6. StatusOf(f) = "ready" /\ StatusOf(f)' = "running"
      BY <1>a, <2>2, <2>3, <2>5, Zenon DEF StatusRule
    <2>7. \A s \in State \ {f} : StatusOf(s)' = StatusOf(s)
      BY <2>3, <2>4, <2>5, SameStatus, Zenon DEF Same
    <2>8. States!NobodyRuns
      BY <2>5, Zenon DEF States!NobodyRuns, States!State, State, StatusOf
    <2>9. States!Resume(f)
      BY <2>2, <2>6, <2>7, <2>8, OneMoves, Zenon DEF States!Resume
    <2> QED BY <2>2, <2>9, Zenon DEF Lives, States!Next, States!State, State
  <1>16. ASSUME luvL_thread_loop PROVE Lives
    BY <1>16, <1>k, Zenon DEF luvL_thread_loop, Running, Exiting
  <1>17. ASSUME JoinersRoused PROVE Lives
    <2>1. PICK g \in Fiber : g = drain
      BY <1>17, <1>a, Zenon DEF JoinersRoused, TypeInv, ControlOK
    <2>2. joinq[g] \in Seq(State) /\ joinq[g] # <<>>
      BY <1>17, <1>a, <2>1, Zenon DEF JoinersRoused, TypeInv, TypeOK
    <2>3. PICK s \in State : s = Head(joinq[g]) /\ s \in Range(joinq[g])
      BY <2>2, TailQueue, Zenon
    <2>4. s \in fibers \cup {Main}
      BY <1>a, <2>3, Zenon DEF BornInv
    <2>5. /\ luvL_state_ready(s) /\ fibers' = fibers
          /\ \A t \in State : (Running(t)' <=> Running(t)) /\ (Exiting(t)' <=> Exiting(t))
      BY <1>17, <2>1, <2>3, Zenon DEF JoinersRoused, Running, Exiting
    <2> QED BY <2>4, <2>5, ReadyLives, Zenon
  <1>18. ASSUME luvL_fiber_close PROVE Lives
    <2>1. PICK f \in Fiber : f = drain
      BY <1>18, <1>a, Zenon DEF luvL_fiber_close, TypeInv, ControlOK
    <2>2. \A s \in State : /\ IsReady(s)' <=> IsReady(s)
                           /\ IsDead(s)' <=> IsDead(s) \/ s = f
                           /\ ~Running(s) /\ ~Running(s)'
                           /\ ~Exiting(s)' /\ (Exiting(s) <=> s = f)
                           /\ fibers' = fibers
      BY <1>18, <1>a, <2>1, Zenon
         DEF luvL_fiber_close, IsReady, IsDead, Running, Exiting, TypeInv, TypeOK
    <2>3. \A s \in State : StatusOf(s)' = StatusOf(s)
      BY <2>2, Zenon DEF StatusOf
    <2> QED BY <2>3, NoneMoves, Zenon DEF Lives
  <1>19. ASSUME NEW o \in Object, ObjectCb(o) PROVE Lives
    BY <1>19, <1>k, Zenon DEF ObjectCb, Running, Exiting
  <1>20. ASSUME luvL_cond_broadcast PROVE Lives
    <2>1. PICK o \in Object : o = drain
      BY <1>20, <1>a, Zenon DEF luvL_cond_broadcast, TypeInv, ControlOK
    <2>2. condq[o] \in Seq(State) /\ condq[o] # <<>>
      BY <1>20, <1>a, <2>1, Zenon DEF luvL_cond_broadcast, TypeInv, TypeOK
    <2>3. PICK s \in State : s = Head(condq[o]) /\ s \in Range(condq[o])
      BY <2>2, TailQueue, Zenon
    <2>4. s \in fibers \cup {Main}
      BY <1>a, <2>3, Zenon DEF BornInv
    <2>5. /\ luvL_state_ready(s) /\ fibers' = fibers
          /\ \A t \in State : (Running(t)' <=> Running(t)) /\ (Exiting(t)' <=> Exiting(t))
      BY <1>20, <2>1, <2>3, Zenon DEF luvL_cond_broadcast, Running, Exiting
    <2> QED BY <2>4, <2>5, ReadyLives, Zenon
  <1>21. ASSUME BroadcastDone PROVE Lives
    BY <1>21, <1>k, Zenon DEF BroadcastDone, Running, Exiting
  <1>22. ASSUME NEW s \in State, sleep_cb(s) PROVE Lives
    <2>1. sleeping[s] > 0
      BY <1>22, Zenon DEF sleep_cb
    <2>2. s \in fibers \cup {Main}
      BY <1>a, <2>1 DEF BornInv, State
    <2> QED BY <1>22, <2>2, ReadyLives, Zenon DEF sleep_cb, Running, Exiting
  <1>23. ASSUME async_cb PROVE Lives
    BY <1>23, <1>k, Zenon DEF async_cb, Running, Exiting
  <1>24. ASSUME LoopAgain PROVE Lives
    BY <1>24, <1>k, Zenon DEF LoopAgain, UvReturns, Running, Exiting
  <1>25. ASSUME BackInMain PROVE Lives
    <2>1. /\ pc = "poll" /\ pc' = "lua" /\ curr = Main /\ curr' = Main
          /\ fibers' = fibers /\ Main \in State
      BY <1>25, <1>a, Zenon DEF BackInMain, UvReturns, TypeInv, ControlOK, State
    <2>2. \A s \in State \ {Main} : IsReady(s)' = IsReady(s)
      BY <1>25, <1>a, Zenon DEF BackInMain, IsReady, TypeInv, TypeOK
    <2>3. \A s \in State : IsDead(s)' = IsDead(s)
      BY <1>25, <1>a DEF BackInMain, IsDead, TypeInv, TypeOK
    <2>4. \A s \in State : /\ ~Running(s) /\ (Running(s)' <=> s = Main)
                           /\ ~Exiting(s) /\ ~Exiting(s)'
      BY <2>1, Zenon DEF Running, Exiting
    <2>5. StatusOf(Main) \in {"parked", "ready"} /\ StatusOf(Main)' = "running"
      BY <1>a, <2>1, <2>4, Zenon DEF StatusRule, BornInv
    <2>6. \A s \in State \ {Main} : StatusOf(s)' = StatusOf(s)
      BY <2>1, <2>2, <2>3, <2>4, SameStatus, Zenon DEF Same
    <2>7. States!NobodyRuns
      BY <2>4, Zenon DEF States!NobodyRuns, States!State, State, StatusOf
    <2>8. States!Resume(Main) \/ States!GiveUp
      BY <2>1, <2>5, <2>6, <2>7, OneMoves, Zenon DEF States!Resume, States!GiveUp
    <2> QED BY <2>1, <2>8, Zenon DEF Lives, States!Next, States!State, State
  <1>26. CASE UNCHANGED vars
    BY <1>26, <1>k, Zenon DEF vars, Running, Exiting
  <1> QED
    BY <1>1, <1>2, <1>3, <1>4, <1>5, <1>6, <1>7, <1>8, <1>9, <1>10, <1>11, <1>12,
       <1>13, <1>14, <1>15, <1>16, <1>17, <1>18, <1>19, <1>20, <1>21, <1>22, <1>23,
       <1>24, <1>25, <1>26, SMTT(60)
       DEF Next, LuaKeeps, LuaWaits, Scheduler, Callbacks

\* The scheduler implements LuvStates, whatever the program risks: at most one
\* state runs, only a ready fiber is resumed, a fiber that ended never runs
\* again, and a state becomes ready only out of a wait.
THEOREM SchedulerImplementsStates == Spec => ImplementsStates
  <1>1. Init => LifeInv
    BY TypeInit, QueueInit, BornInit, Zenon DEF LifeInv
  <1>2. LifeInv /\ [Next]_vars => LifeInv'
    BY TypeStep, QueueStep, BornStep, Zenon DEF LifeInv
  <1>3. Init => States!Init
    <2> SUFFICES ASSUME Init PROVE States!Init
      OBVIOUS
    <2>1. \A s \in State : StatusOf(s) = IF s = Main THEN "running" ELSE "unborn"
      BY StateAssumption, Zenon DEF Init, StatusOf, State, IsDead, Exiting, Running
    <2> QED BY <2>1, Zenon DEF States!Init, States!State, State
  <1>4. Lives <=> [States!Next]_([s \in State |-> StatusOf(s)])
    BY Zenon DEF Lives, Status
  <1> QED BY <1>1, <1>2, <1>3, <1>4, StepLives, PTL DEF Spec, ImplementsStates, States!Spec
=============================================================================
