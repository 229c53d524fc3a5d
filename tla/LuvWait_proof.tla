---------------------------- MODULE LuvWait_proof ----------------------------
(***************************************************************************)
(* Proofs about LuvSched: what wakes a waiting fiber.                      *)
(***************************************************************************)
EXTENDS LuvSched_proof

\* Where a fiber is linked, for WaitLinksExact.
LinksOf(f) ==
  /\ \A o \in Object : f \in Range(condq[o]) <=> Blocked(f) /\ call[f] = Wait(o)
  /\ \A g \in Fiber : f \in Range(joinq[g]) <=> Blocked(f) /\ call[f] = Join(g)
  /\ sleeping[f] > 0 <=> Blocked(f) /\ call[f] = Sleep

\* The strengthening: a node is linked once, a fiber sleeps on one timer, and
\* the fiber that runs is in no call.
Links ==
  /\ \A f \in Fiber : LinksOf(f)
  /\ \A o \in Object : IsInjective(condq[o])
  /\ \A g \in Fiber : IsInjective(joinq[g])
  /\ \A f \in Fiber : sleeping[f] <= 1
  /\ \A f \in Fiber : Running(f) => call[f] = NoCall

Disciplined == "poke" \notin Risks

\* Different calls are different.
LEMMA CallsDiffer ==
  /\ \A o, p \in Object : Wait(o) = Wait(p) => o = p
  /\ \A f, g \in Fiber : Join(f) = Join(g) => f = g
  /\ \A o \in Object, f \in Fiber : Wait(o) # Join(f)
  /\ \A o \in Object : Wait(o) # Sleep /\ Wait(o) # NoCall
  /\ \A f \in Fiber : Join(f) # Sleep /\ Join(f) # NoCall
  /\ Sleep # NoCall
  BY Zenon DEF Wait, Join, Sleep, NoCall

LEMMA LinksInit == Init => Links
  <1> SUFFICES ASSUME Init PROVE Links
    OBVIOUS
  <1>1. \A f \in Fiber : call[f] = NoCall /\ sleeping[f] = 0 /\ ~Blocked(f)
    BY Zenon DEF Init, Blocked, State
  <1>2. /\ \A o \in Object : condq[o] = <<>>
        /\ \A g \in Fiber : joinq[g] = <<>>
    BY Zenon DEF Init
  <1>3. Range(<<>>) = {} /\ IsInjective(<<>>)
    BY DEF Range, IsInjective
  <1> QED BY <1>1, <1>2, <1>3 DEF Links, LinksOf

\* A step that links and unlinks nothing, and neither blocks nor wakes a fiber.
LEMMA LinksKept ==
  ASSUME Links, condq' = condq, joinq' = joinq,
         \A f \in Fiber : sleeping'[f] = sleeping[f],
         \A f \in Fiber : Blocked(f)' <=> Blocked(f),
         \A f \in Fiber : Blocked(f) => call'[f] = call[f],
         \A f \in Fiber : Running(f)' => call'[f] = NoCall
  PROVE  Links'
  <1>1. \A f \in Fiber : LinksOf(f)'
    BY Zenon DEF Links, LinksOf
  <1> QED BY <1>1, Zenon DEF Links

\* luvL_state_suspend of the running state s in call c, which readies the
\* fibers K on the way.
LEMMA Suspended ==
  ASSUME TypeInv, ReadyQueueExact, Links, pc = "lua", NEW c \in Call, c # NoCall,
         NEW s \in State, s = curr, luvL_state_suspend(c),
         NEW K \in SUBSET Fiber, s \notin K, \A f \in K : ~Blocked(f),
         \A f \in Fiber : IsReady(f)' <=> (IsReady(f) \/ f \in K) /\ f # s
  PROVE  /\ \A f \in Fiber \ {s} : (Blocked(f)' <=> Blocked(f)) /\ call'[f] = call[f]
         /\ s \in Fiber => ~Blocked(s) /\ Blocked(s)' /\ call'[s] = c
         /\ \A f \in Fiber : ~Running(f)'
  <1> USE DEF TypeInv, TypeOK
  <1>1. \A f \in Fiber \ {s} : call'[f] = call[f]
    BY Zenon DEF luvL_state_suspend, State
  <1>2. \A f \in Fiber \ {s} : Blocked(f)' <=> Blocked(f)
    BY <1>1, Zenon DEF Blocked
  <1>3. ASSUME s \in Fiber
        PROVE  /\ ~Blocked(s) /\ Blocked(s)' /\ call'[s] = c
               /\ pc' = "once"
    <2>1. Running(s) /\ IsReady(s)
      BY <1>3, Zenon DEF Running, ReadyQueueExact
    <2>2. call'[s] = c /\ pc' = "once"
      BY <2>1, Zenon DEF luvL_state_suspend
    <2> QED BY <1>3, <2>1, <2>2, Zenon DEF Blocked
  <1>4. \A f \in Fiber : ~Running(f)'
    BY <1>3, StateAssumption, Zenon DEF luvL_state_suspend, Running, State
  <1> QED BY <1>1, <1>2, <1>3, <1>4, Zenon

LEMMA LinksWait ==
  ASSUME TypeInv, ReadyQueueExact, Links, NEW o \in Object, luvL_cond_wait(o)
  PROVE  Links'
  <1> USE DEF TypeInv, TypeOK
  <1>1. PICK s \in State : s = curr
    OBVIOUS
  <1>2. /\ \A f \in Fiber \ {s} : (Blocked(f)' <=> Blocked(f)) /\ call'[f] = call[f]
        /\ s \in Fiber => ~Blocked(s) /\ Blocked(s)' /\ call'[s] = Wait(o)
        /\ \A f \in Fiber : ~Running(f)'
    <2>1. \A f \in Fiber : IsReady(f)' <=> (IsReady(f) \/ f \in {}) /\ f # s
      BY <1>1, Zenon DEF luvL_cond_wait, IsReady, State
    <2>2. Wait(o) \in Call /\ Wait(o) # NoCall
      BY ValueTypes, CallsDiffer, Zenon
    <2>3. /\ pc = "lua" /\ luvL_state_suspend(Wait(o))
          /\ {} \in SUBSET Fiber /\ s \notin {} /\ \A f \in {} : ~Blocked(f)
      BY Zenon DEF luvL_cond_wait, MayWait
    <2> HIDE DEF TypeInv
    <2> QED BY <1>1, <2>1, <2>2, <2>3, Suspended, ZenonT(60)
  <1>3. /\ \A p \in Object \ {o} : condq'[p] = condq[p]
        /\ Range(condq'[o]) = Range(condq[o]) \cup {s}
        /\ IsInjective(condq'[o])
    <2>1. condq' = [condq EXCEPT ![o] = Append(condq[o], s)] /\ s \notin Range(condq[o])
      BY <1>1, Zenon DEF luvL_cond_wait, CondLinked
    <2> QED BY <2>1, AppendQueue DEF Links
  <1>4. joinq' = joinq /\ sleeping' = sleeping
    BY Zenon DEF luvL_cond_wait, loopVars
  <1>5. ASSUME NEW f \in Fiber PROVE LinksOf(f)'
    <2>1. CASE f # s
      BY <1>2, <1>3, <1>4, <2>1, ZenonT(60) DEF Links, LinksOf
    <2>2. CASE f = s
      <3>1. /\ \A p \in Object : f \notin Range(condq[p])
            /\ \A g \in Fiber : f \notin Range(joinq[g])
            /\ ~(sleeping[f] > 0)
        BY <1>2, <2>2, Zenon DEF Links, LinksOf
      <3>2. Blocked(f)' /\ call'[f] = Wait(o)
        BY <1>2, <2>2, Zenon
      <3>3. \A p \in Object : f \in Range(condq'[p]) <=> p = o
        BY <1>3, <2>2, <3>1, Zenon
      <3> QED BY <1>4, <3>1, <3>2, <3>3, CallsDiffer, Zenon DEF LinksOf
    <2> QED BY <2>1, <2>2, Zenon
  <1> QED BY <1>2, <1>3, <1>4, <1>5, Zenon DEF Links

LEMMA LinksJoin ==
  ASSUME Disciplined, TypeInv, ReadyQueueExact, Links,
         NEW g \in Fiber, luv_fiber_join(g)
  PROVE  Links'
  <1> USE DEF TypeInv, TypeOK
  <1>1. PICK s \in State : s = curr
    OBVIOUS
  <1>2. /\ \A f \in Fiber \ {s} : (Blocked(f)' <=> Blocked(f)) /\ call'[f] = call[f]
        /\ s \in Fiber => ~Blocked(s) /\ Blocked(s)' /\ call'[s] = Join(g)
        /\ \A f \in Fiber : ~Running(f)'
    <2>1. \A f \in Fiber : IsReady(f)' <=> (IsReady(f) \/ f \in {g}) /\ f # s
      BY <1>1, Zenon DEF luv_fiber_join, IsReady, State
    <2>2. Join(g) \in Call /\ Join(g) # NoCall
      BY ValueTypes, CallsDiffer, Zenon
    <2>3. /\ pc = "lua" /\ luvL_state_suspend(Join(g))
          /\ {g} \in SUBSET Fiber /\ s \notin {g} /\ \A f \in {g} : ~Blocked(f)
      BY <1>1, Zenon DEF luv_fiber_join, MayJoin, Disciplined
    <2> HIDE DEF TypeInv
    <2> QED BY <1>1, <2>1, <2>2, <2>3, Suspended, ZenonT(60)
  <1>3. /\ \A h \in Fiber \ {g} : joinq'[h] = joinq[h]
        /\ Range(joinq'[g]) = Range(joinq[g]) \cup {s}
        /\ IsInjective(joinq'[g])
    <2>1. joinq' = [joinq EXCEPT ![g] = Append(joinq[g], s)] /\ s \notin Range(joinq[g])
      BY <1>1, Zenon DEF luv_fiber_join, JoinLinked
    <2> QED BY <2>1, AppendQueue DEF Links
  <1>4. condq' = condq /\ sleeping' = sleeping
    BY Zenon DEF luv_fiber_join, loopVars
  <1>5. ASSUME NEW f \in Fiber PROVE LinksOf(f)'
    <2>1. CASE f # s
      BY <1>2, <1>3, <1>4, <2>1, ZenonT(60) DEF Links, LinksOf
    <2>2. CASE f = s
      <3>1. /\ \A p \in Object : f \notin Range(condq[p])
            /\ \A h \in Fiber : f \notin Range(joinq[h])
            /\ ~(sleeping[f] > 0)
        BY <1>2, <2>2, Zenon DEF Links, LinksOf
      <3>2. Blocked(f)' /\ call'[f] = Join(g)
        BY <1>2, <2>2, Zenon
      <3>3. \A h \in Fiber : f \in Range(joinq'[h]) <=> h = g
        BY <1>3, <2>2, <3>1, Zenon
      <3> QED BY <1>4, <3>1, <3>2, <3>3, CallsDiffer, Zenon DEF LinksOf
    <2> QED BY <2>1, <2>2, Zenon
  <1> QED BY <1>2, <1>3, <1>4, <1>5, Zenon DEF Links

LEMMA LinksSleep ==
  ASSUME TypeInv, ReadyQueueExact, Links, luv_sleep
  PROVE  Links'
  <1> USE DEF TypeInv, TypeOK
  <1>1. PICK s \in State : s = curr
    OBVIOUS
  <1>2. /\ \A f \in Fiber \ {s} : (Blocked(f)' <=> Blocked(f)) /\ call'[f] = call[f]
        /\ s \in Fiber => ~Blocked(s) /\ Blocked(s)' /\ call'[s] = Sleep
        /\ \A f \in Fiber : ~Running(f)'
    <2>1. \A f \in Fiber : IsReady(f)' <=> (IsReady(f) \/ f \in {}) /\ f # s
      BY <1>1, Zenon DEF luv_sleep, IsReady, State
    <2>2. Sleep \in Call /\ Sleep # NoCall
      BY ValueTypes, CallsDiffer, Zenon
    <2>3. /\ pc = "lua" /\ luvL_state_suspend(Sleep)
          /\ {} \in SUBSET Fiber /\ s \notin {} /\ \A f \in {} : ~Blocked(f)
      BY Zenon DEF luv_sleep
    <2> HIDE DEF TypeInv
    <2> QED BY <1>1, <2>1, <2>2, <2>3, Suspended, ZenonT(60)
  <1>3. /\ condq' = condq /\ joinq' = joinq
        /\ sleeping' = [sleeping EXCEPT ![s] = @ + 1]
    BY <1>1, Zenon DEF luv_sleep, linkVars
  <1>4. ASSUME NEW f \in Fiber PROVE LinksOf(f)' /\ sleeping'[f] <= 1
    <2>1. CASE f # s
      BY <1>2, <1>3, <2>1, ZenonT(60) DEF Links, LinksOf, State
    <2>2. CASE f = s
      <3>1. sleeping[f] = 0
        BY <1>2, <2>2, MaxSleepAssumption DEF Links, LinksOf, State
      <3>2. sleeping'[f] = 1
        BY <1>3, <2>2, <3>1
      <3> QED BY <1>2, <1>3, <2>2, <3>2, CallsDiffer DEF Links, LinksOf
    <2> QED BY <2>1, <2>2, Zenon
  <1> QED BY <1>2, <1>3, <1>4, Zenon DEF Links

\* luvL_state_ready changes only whether the state it readies is blocked.
LEMMA Readied ==
  ASSUME TypeInv, NEW s \in State, luvL_state_ready(s), call' = call
  PROVE  /\ \A f \in Fiber \ {s} : Blocked(f)' <=> Blocked(f)
         /\ ~Blocked(s)'
  <1>1. \A f \in State : IsReady(f)' <=> IsReady(f) \/ f = s
    BY Zenon DEF luvL_state_ready, IsReady, TypeInv, TypeOK
  <1> QED BY <1>1, Zenon DEF Blocked, State

LEMMA LinksJoinersRoused ==
  ASSUME TypeInv, Links, JoinersRoused
  PROVE  Links'
  <1> USE DEF TypeInv, TypeOK
  <1>1. PICK g \in Fiber : g = drain
    BY Zenon DEF JoinersRoused, ControlOK
  <1>2. joinq[g] \in Seq(State) /\ joinq[g] # <<>>
    BY <1>1, Zenon DEF JoinersRoused
  <1>3. PICK s \in State : s = Head(joinq[g])
    BY <1>2, TailQueue, Zenon
  <1>4. /\ \A f \in Fiber \ {s} : Blocked(f)' <=> Blocked(f)
        /\ ~Blocked(s)' /\ call' = call
    <2>1. luvL_state_ready(s) /\ call' = call
      BY <1>1, <1>3, Zenon DEF JoinersRoused
    <2> HIDE DEF TypeInv
    <2> QED BY <2>1, Readied, Zenon
  <1>5. /\ \A h \in Fiber \ {g} : joinq'[h] = joinq[h]
        /\ s \in Range(joinq[g]) /\ Range(joinq'[g]) = Range(joinq[g]) \ {s}
        /\ IsInjective(joinq'[g])
    <2>1. joinq' = [joinq EXCEPT ![g] = Tail(joinq[g])]
      BY <1>1, Zenon DEF JoinersRoused
    <2> QED BY <1>2, <1>3, <2>1, TailQueue, SMTT(60) DEF Links
  <1>6. condq' = condq /\ sleeping' = sleeping /\ pc' = "exit"
    BY Zenon DEF JoinersRoused, loopVars, ctlVars
  <1>7. ASSUME NEW f \in Fiber PROVE LinksOf(f)'
    <2>1. CASE f # s
      BY <1>4, <1>5, <1>6, <2>1, ZenonT(60) DEF Links, LinksOf
    <2>2. CASE f = s
      <3>1. Blocked(f) /\ call[f] = Join(g)
        BY <1>5, <2>2, Zenon DEF Links, LinksOf
      <3>2. /\ \A o \in Object : f \notin Range(condq[o])
            /\ \A h \in Fiber \ {g} : f \notin Range(joinq[h])
            /\ ~(sleeping[f] > 0)
        BY <3>1, CallsDiffer DEF Links, LinksOf
      <3>3. \A h \in Fiber : f \notin Range(joinq'[h])
        BY <1>5, <2>2, <3>2, Zenon
      <3> QED BY <1>4, <1>6, <2>2, <3>2, <3>3, Zenon DEF LinksOf
    <2> QED BY <2>1, <2>2, Zenon
  <1> QED BY <1>5, <1>6, <1>7, ZenonT(60) DEF Links, Running

LEMMA LinksBroadcast ==
  ASSUME TypeInv, Links, luvL_cond_broadcast
  PROVE  Links'
  <1> USE DEF TypeInv, TypeOK
  <1>1. PICK o \in Object : o = drain
    BY Zenon DEF luvL_cond_broadcast, ControlOK
  <1>2. condq[o] \in Seq(State) /\ condq[o] # <<>>
    BY <1>1, Zenon DEF luvL_cond_broadcast
  <1>3. PICK s \in State : s = Head(condq[o])
    BY <1>2, TailQueue, Zenon
  <1>4. /\ \A f \in Fiber \ {s} : Blocked(f)' <=> Blocked(f)
        /\ ~Blocked(s)' /\ call' = call
    <2>1. luvL_state_ready(s) /\ call' = call
      BY <1>1, <1>3, Zenon DEF luvL_cond_broadcast, luaVars
    <2> HIDE DEF TypeInv
    <2> QED BY <2>1, Readied, Zenon
  <1>5. /\ \A p \in Object \ {o} : condq'[p] = condq[p]
        /\ s \in Range(condq[o]) /\ Range(condq'[o]) = Range(condq[o]) \ {s}
        /\ IsInjective(condq'[o])
    <2>1. condq' = [condq EXCEPT ![o] = Tail(condq[o])]
      BY <1>1, Zenon DEF luvL_cond_broadcast
    <2> QED BY <1>2, <1>3, <2>1, TailQueue, SMTT(60) DEF Links
  <1>6. joinq' = joinq /\ sleeping' = sleeping /\ pc' = "rouse"
    BY Zenon DEF luvL_cond_broadcast, loopVars, ctlVars
  <1>7. ASSUME NEW f \in Fiber PROVE LinksOf(f)'
    <2>1. CASE f # s
      BY <1>4, <1>5, <1>6, <2>1, ZenonT(60) DEF Links, LinksOf
    <2>2. CASE f = s
      <3>1. Blocked(f) /\ call[f] = Wait(o)
        BY <1>5, <2>2, Zenon DEF Links, LinksOf
      <3>2. /\ \A p \in Object \ {o} : f \notin Range(condq[p])
            /\ \A h \in Fiber : f \notin Range(joinq[h])
            /\ ~(sleeping[f] > 0)
        BY <3>1, CallsDiffer DEF Links, LinksOf
      <3>3. \A p \in Object : f \notin Range(condq'[p])
        BY <1>5, <2>2, <3>2, Zenon
      <3> QED BY <1>4, <1>6, <2>2, <3>2, <3>3, Zenon DEF LinksOf
    <2> QED BY <2>1, <2>2, Zenon
  <1> QED BY <1>5, <1>6, <1>7, ZenonT(60) DEF Links, Running

LEMMA LinksSleepCb ==
  ASSUME TypeInv, Links, NEW s \in State, sleep_cb(s)
  PROVE  Links'
  <1> USE DEF TypeInv, TypeOK
  <1>1. /\ \A f \in Fiber \ {s} : Blocked(f)' <=> Blocked(f)
        /\ ~Blocked(s)' /\ call' = call
    <2>1. luvL_state_ready(s) /\ call' = call
      BY Zenon DEF sleep_cb, luaVars
    <2> HIDE DEF TypeInv
    <2> QED BY <2>1, Readied, Zenon
  <1>2. /\ condq' = condq /\ joinq' = joinq /\ pc' = "poll"
        /\ sleeping' = [sleeping EXCEPT ![s] = @ - 1] /\ sleeping[s] > 0
    BY Zenon DEF sleep_cb, linkVars, ctlVars
  <1>3. ASSUME NEW f \in Fiber PROVE LinksOf(f)' /\ sleeping'[f] <= 1
    <2>1. CASE f # s
      BY <1>1, <1>2, <2>1, Zenon DEF Links, LinksOf, State
    <2>2. CASE f = s
      <3>1. Blocked(f) /\ call[f] = Sleep
        BY <1>2, <2>2, Zenon DEF Links, LinksOf
      <3>2. /\ \A o \in Object : f \notin Range(condq[o])
            /\ \A h \in Fiber : f \notin Range(joinq[h])
        BY <3>1, CallsDiffer DEF Links, LinksOf
      <3>3. sleeping'[f] = 0
        BY <1>2, <2>2, MaxSleepAssumption DEF Links
      <3> QED BY <1>1, <1>2, <2>2, <3>2, <3>3 DEF LinksOf
    <2> QED BY <2>1, <2>2, Zenon
  <1> QED BY <1>2, <1>3, Zenon DEF Links, Running

LEMMA LinksStep ==
  ASSUME Disciplined, TypeInv, ReadyQueueExact, Links, [Next]_vars
  PROVE  Links'
  <1> USE StateAssumption
      DEF luaVars, linkVars, readyVars, ctlVars, loopVars
  <1>k. ASSUME condq' = condq, joinq' = joinq, sleeping' = sleeping,
               call' = call, flags' = flags,
               \A f \in Fiber : Running(f)' => Running(f)
        PROVE  Links'
    <2>1. \A f \in Fiber : Blocked(f)' <=> Blocked(f)
      BY <1>k, Zenon DEF Blocked, IsReady
    <2>2. \A f \in Fiber : Running(f)' => call'[f] = NoCall
      BY <1>k, Zenon DEF Links
    <2> QED BY <1>k, <2>1, <2>2, LinksKept, Zenon
  <1>1. ASSUME NEW f \in Fiber, luv_new_fiber(f) PROVE Links'
    BY <1>1, <1>k, Zenon DEF luv_new_fiber, Running
  <1>2. ASSUME NEW f \in Fiber, luv_fiber_ready(f) PROVE Links'
    <2>1. /\ \A g \in Fiber \ {f} : Blocked(g)' <=> Blocked(g)
          /\ ~Blocked(f)' /\ ~Blocked(f)
      BY <1>2, Readied, Zenon DEF luv_fiber_ready, State, Disciplined
    <2>2. \A g \in Fiber : Running(g)' => call'[g] = NoCall
      BY <1>2, Zenon DEF luv_fiber_ready, Running, Links
    <2> QED BY <1>2, <2>1, <2>2, LinksKept, Zenon DEF luv_fiber_ready
  <1>3. ASSUME NEW f \in Fiber, luv_fiber_join_dead(f) PROVE Links'
    BY <1>3, <1>k, Zenon DEF luv_fiber_join_dead, Running
  <1>4. ASSUME NEW t \in Timer, NEW r \in BOOLEAN, luv_timer_start(t, r) PROVE Links'
    BY <1>4, <1>k, Zenon DEF luv_timer_start, Running
  <1>5. ASSUME NEW t \in Timer, luv_timer_again(t) PROVE Links'
    BY <1>5, <1>k, Zenon DEF luv_timer_again, Running
  <1>6. ASSUME NEW i \in Idle, luv_idle_start(i) PROVE Links'
    BY <1>6, <1>k, Zenon DEF luv_idle_start, Running
  <1>7. ASSUME NEW o \in Object, luv_object_stop(o) PROVE Links'
    BY <1>7, <1>k, Zenon DEF luv_object_stop, Running
  <1>8. ASSUME Relink PROVE Links'
    BY <1>8, <1>k, Zenon DEF Relink, MayJoin, MayWait, Running
  <1>9. ASSUME NEW f \in Fiber, luv_fiber_join(f) PROVE Links'
    BY <1>9, LinksJoin, Zenon
  <1>10. ASSUME NEW o \in Object, luvL_cond_wait(o) PROVE Links'
    BY <1>10, LinksWait, Zenon
  <1>11. ASSUME luv_sleep PROVE Links'
    BY <1>11, LinksSleep, Zenon
  <1>12. ASSUME FiberYield PROVE Links'
    BY <1>12, <1>k, Zenon DEF FiberYield, Running
  <1>13. ASSUME FiberExit PROVE Links'
    BY <1>13, <1>k, Zenon DEF FiberExit, Running
  <1>14. ASSUME FiberError PROVE Links'
    <2>1. \A f \in Fiber : IsReady(f)' <=> IsReady(f)
      BY <1>14, Zenon DEF FiberError, IsReady, TypeInv, TypeOK, State
    <2>2. \A f \in Fiber : call'[f] = call[f]
      BY <1>14, Zenon DEF FiberError, TypeInv, TypeOK, State
    <2>3. \A f \in Fiber : (Blocked(f)' <=> Blocked(f)) /\ ~Running(f)'
      BY <1>14, <2>1, <2>2, Zenon DEF FiberError, Blocked, Running
    <2> QED BY <1>14, <2>2, <2>3, LinksKept, Zenon DEF FiberError
  <1>15. ASSUME luvL_thread_once PROVE Links'
    <2>1. PICK f \in Fiber : f = Head(queue) /\ f \in Range(queue)
      BY <1>15, TailQueue DEF luvL_thread_once, TypeInv, TypeOK
    <2>2. IsReady(f) /\ ~IsDead(f)
      BY <2>1, Zenon DEF ReadyQueueExact
    <2>3. /\ flags' = [flags EXCEPT ![f] = @ \cup {"FSTART"}]
          /\ call' = [call EXCEPT ![f] = NoCall]
          /\ curr' = f /\ pc' = "lua"
      BY <1>15, <2>1, <2>2, Zenon DEF luvL_thread_once
    <2>4. \A g \in Fiber : IsReady(g)' <=> IsReady(g)
      BY <2>3, Zenon DEF IsReady, TypeInv, TypeOK, State
    <2>5. /\ call'[f] = NoCall
          /\ \A g \in Fiber \ {f} : call'[g] = call[g]
      BY <2>3, Zenon DEF TypeInv, TypeOK, State
    <2>6. \A g \in Fiber : /\ Blocked(g)' <=> Blocked(g)
                           /\ Blocked(g) => call'[g] = call[g]
                           /\ Running(g)' => call'[g] = NoCall
      BY <2>2, <2>3, <2>4, <2>5, Zenon DEF Blocked, Running
    <2> QED BY <1>15, <2>6, LinksKept, Zenon DEF luvL_thread_once
  <1>16. ASSUME luvL_thread_loop PROVE Links'
    BY <1>16, <1>k, Zenon DEF luvL_thread_loop, Running
  <1>17. ASSUME JoinersRoused PROVE Links'
    BY <1>17, LinksJoinersRoused, Zenon
  <1>18. ASSUME luvL_fiber_close PROVE Links'
    <2>1. \A f \in Fiber : IsReady(f)' <=> IsReady(f)
      BY <1>18, Zenon DEF luvL_fiber_close, IsReady, TypeInv, TypeOK, ControlOK, State
    <2>2. \A f \in Fiber : (Blocked(f)' <=> Blocked(f)) /\ ~Running(f)'
      BY <1>18, <2>1, Zenon DEF luvL_fiber_close, Blocked, Running
    <2> QED BY <1>18, <2>2, LinksKept, Zenon DEF luvL_fiber_close
  <1>19. ASSUME NEW o \in Object, ObjectCb(o) PROVE Links'
    BY <1>19, <1>k, Zenon DEF ObjectCb, Running
  <1>20. ASSUME luvL_cond_broadcast PROVE Links'
    BY <1>20, LinksBroadcast, Zenon
  <1>21. ASSUME BroadcastDone PROVE Links'
    BY <1>21, <1>k, Zenon DEF BroadcastDone, Running
  <1>22. ASSUME NEW s \in State, sleep_cb(s) PROVE Links'
    BY <1>22, LinksSleepCb, Zenon
  <1>23. ASSUME async_cb PROVE Links'
    BY <1>23, <1>k, Zenon DEF async_cb, Running
  <1>24. ASSUME LoopAgain PROVE Links'
    BY <1>24, <1>k, Zenon DEF LoopAgain, UvReturns, Running
  <1>25. ASSUME BackInMain PROVE Links'
    <2>1. \A f \in Fiber : (IsReady(f)' <=> IsReady(f)) /\ call'[f] = call[f]
      BY <1>25, Zenon DEF BackInMain, IsReady, TypeInv, TypeOK, State
    <2>2. \A f \in Fiber : (Blocked(f)' <=> Blocked(f)) /\ ~Running(f)'
      BY <1>25, <2>1, Zenon DEF BackInMain, UvReturns, Blocked, Running, TypeInv, ControlOK
    <2> QED BY <1>25, <2>1, <2>2, LinksKept, Zenon DEF BackInMain
  <1>26. CASE UNCHANGED vars
    BY <1>26, <1>k, Zenon DEF vars, Running
  <1> QED
    BY <1>1, <1>2, <1>3, <1>4, <1>5, <1>6, <1>7, <1>8, <1>9, <1>10, <1>11, <1>12,
       <1>13, <1>14, <1>15, <1>16, <1>17, <1>18, <1>19, <1>20, <1>21, <1>22, <1>23,
       <1>24, <1>25, <1>26, Zenon
       DEF Next, LuaKeeps, LuaWaits, Scheduler, Callbacks

\* The three invariants hold together.
WaitInv == TypeInv /\ ReadyQueueExact /\ (Disciplined => Links)

LEMMA WaitInvariant == Spec => []WaitInv
  <1>1. Init => WaitInv
    BY TypeInit, QueueInit, LinksInit, Zenon DEF WaitInv
  <1>2. WaitInv /\ [Next]_vars => WaitInv'
    BY TypeStep, QueueStep, LinksStep, Zenon DEF WaitInv, Disciplined
  <1> QED BY <1>1, <1>2, PTL DEF Spec

\* If no blocked fiber is readied or joined, a fiber is linked in the wait
\* queues exactly while it is blocked in the call that linked it.
THEOREM WaitLinksCorrect == Spec => []WaitLinksExact
  <1>1. WaitInv => WaitLinksExact
    BY Zenon DEF WaitInv, Disciplined, WaitLinksExact, Links, LinksOf
  <1> QED BY WaitInvariant, <1>1, PTL

-----------------------------------------------------------------------------
(* The thread's own state, in a program that takes no risk *)

Careful == Risks = {}

\* Main is linked exactly while it is blocked, as a fiber is; it is in a call
\* exactly while it does not run, and has FREADY while it runs.
MainInv ==
  /\ LinksOf(Main)
  /\ sleeping[Main] <= 1
  /\ Running(Main) <=> call[Main] = NoCall
  /\ Running(Main) => IsReady(Main)
  /\ pc # "broken"

\* Why uv_run_once does not run out of work while Main is blocked: the first
\* fiber that was readied references the async handle for good, Main's sleep
\* timer is pending, or what Main waits for is active or being broadcast.
AliveInv ==
  /\ \A f \in Fiber : IsReady(f) => async.ref
  /\ Blocked(Main) =>
       \/ async.ref
       \/ sleeping[Main] > 0
       \/ \E o \in Object : /\ Main \in Range(condq[o])
                            /\ armed[o] \/ (pc = "rouse" /\ drain = o)

\* Who is ready in fiber:join has joined a fiber that has ended, ...
JoinInv ==
  \A s \in State, f \in Fiber :
    call[s] = Join(f) /\ IsReady(s) => IsDead(f) \/ Exiting(f)

\* ... whose stack holds what it returned.
ValueInv == \A f \in Fiber : IsDead(f) \/ Exiting(f) => stack[f] = <<f>>

CareInv == /\ TypeInv /\ ReadyQueueExact /\ BornInv /\ Links
           /\ MainInv /\ AliveInv /\ JoinInv /\ ValueInv

\* Fibers and Main alike.
LEMMA AllLinked ==
  ASSUME CareInv, NEW s \in State
  PROVE  /\ LinksOf(s) /\ sleeping[s] \in {0, 1}
         /\ Running(s) => call[s] = NoCall /\ IsReady(s)
  <1>1. sleeping[s] \in Nat
    BY MaxSleepAssumption DEF CareInv, TypeInv, TypeOK
  <1>2. CASE s \in Fiber
    BY <1>1, <1>2 DEF CareInv, Links, ReadyQueueExact
  <1>3. CASE s = Main
    BY <1>1, <1>3 DEF CareInv, MainInv
  <1> QED BY <1>2, <1>3, Zenon DEF State

\* The state that runs is linked nowhere, so no call links it twice.
LEMMA NoRelink ==
  ASSUME CareInv
  PROVE  ~Relink /\ (pc = "lua" => ~CondLinked(curr) /\ ~JoinLinked(curr))
  <1> SUFFICES ASSUME pc = "lua" PROVE ~CondLinked(curr) /\ ~JoinLinked(curr)
    BY Zenon DEF Relink, MayJoin, MayWait
  <1>1. curr \in State /\ Running(curr)
    BY Zenon DEF CareInv, TypeInv, TypeOK, Running
  <1>2. LinksOf(curr) /\ call[curr] = NoCall
    BY <1>1, AllLinked, Zenon
  <1>3. ~Blocked(curr)
    BY <1>2, Zenon DEF Blocked
  <1> QED BY <1>2, <1>3, Zenon DEF LinksOf, CondLinked, JoinLinked

\* uv_run_once runs out of work only when Main is ready.
LEMMA MainLeavesReady ==
  ASSUME CareInv, BackInMain
  PROVE  IsReady(Main)
  <1> SUFFICES ASSUME ~IsReady(Main) PROVE FALSE
    OBVIOUS
  <1>1. pc = "poll" /\ ~LoopActive
    BY Zenon DEF BackInMain, UvReturns
  <1>2. Blocked(Main)
    BY <1>1, Zenon DEF CareInv, MainInv, Running, Blocked
  <1> QED BY <1>1, <1>2, Zenon DEF CareInv, AliveInv, LoopActive, State

\* What a state that a step readies was doing: nothing (it is a fiber that has
\* not been blocked), joining the fiber that exits, waiting for the object
\* that is broadcast, or sleeping.
Woken(s) ==
  /\ call'[s] = call[s]
  /\ \/ s \in Fiber /\ call[s] = NoCall /\ pc = "lua"
     \/ pc = "exit" /\ call[s] = Join(drain) /\ pc' = pc /\ drain' = drain
     \/ pc = "rouse" /\ call[s] = Wait(drain)
     \/ pc = "poll" /\ call[s] = Sleep /\ sleeping'[s] = 0

LEMMA Wakes ==
  ASSUME Careful, CareInv, Next, NEW s \in State, ~IsReady(s), IsReady(s)'
  PROVE  Woken(s)
  <1> USE StateAssumption
      DEF luaVars, linkVars, readyVars, ctlVars, loopVars
  <1>a. TypeInv /\ ReadyQueueExact /\ Links /\ MainInv
    BY Zenon DEF CareInv
  <1>b. LinksOf(s) /\ sleeping[s] \in {0, 1}
    BY AllLinked, Zenon
  <1>k. CASE flags' = flags
    BY <1>k, Zenon DEF IsReady
  <1>1. ASSUME NEW f \in Fiber, luv_new_fiber(f) PROVE Woken(s)
    BY <1>1, <1>k, Zenon DEF luv_new_fiber
  <1>2. ASSUME NEW f \in Fiber, luv_fiber_ready(f) PROVE Woken(s)
    <2>1. s = f /\ ~Blocked(f) /\ call' = call /\ pc = "lua"
      BY <1>2, <1>a, Zenon
      DEF luv_fiber_ready, luvL_state_ready, IsReady, Careful, TypeInv, TypeOK
    <2> QED BY <2>1, Zenon DEF Woken, Blocked
  <1>3. ASSUME NEW f \in Fiber, luv_fiber_join_dead(f) PROVE Woken(s)
    BY <1>3, <1>k, Zenon DEF luv_fiber_join_dead
  <1>4. ASSUME NEW t \in Timer, NEW r \in BOOLEAN, luv_timer_start(t, r) PROVE Woken(s)
    BY <1>4, <1>k, Zenon DEF luv_timer_start
  <1>5. ASSUME NEW t \in Timer, luv_timer_again(t) PROVE Woken(s)
    BY <1>5, <1>k, Zenon DEF luv_timer_again
  <1>6. ASSUME NEW i \in Idle, luv_idle_start(i) PROVE Woken(s)
    BY <1>6, <1>k, Zenon DEF luv_idle_start
  <1>7. ASSUME NEW o \in Object, luv_object_stop(o) PROVE Woken(s)
    BY <1>7, <1>k, Zenon DEF luv_object_stop
  <1>8. ASSUME Relink PROVE Woken(s)
    BY <1>8, NoRelink, Zenon
  <1>9. ASSUME NEW f \in Fiber, luv_fiber_join(f) PROVE Woken(s)
    <2>1. s = f /\ f # curr /\ ~Blocked(f) /\ pc = "lua"
      BY <1>9, <1>a, Zenon DEF luv_fiber_join, MayJoin, IsReady, Careful, TypeInv, TypeOK
    <2>2. call'[s] = call[s]
      BY <1>9, <1>a, <2>1, Zenon DEF luv_fiber_join, luvL_state_suspend, TypeInv, TypeOK
    <2> QED BY <2>1, <2>2, Zenon DEF Woken, Blocked
  <1>10. ASSUME NEW o \in Object, luvL_cond_wait(o) PROVE Woken(s)
    BY <1>10, <1>a, Zenon DEF luvL_cond_wait, IsReady, TypeInv, TypeOK
  <1>11. ASSUME luv_sleep PROVE Woken(s)
    BY <1>11, <1>a, Zenon DEF luv_sleep, IsReady, TypeInv, TypeOK
  <1>12. ASSUME FiberYield PROVE Woken(s)
    BY <1>12, <1>k, Zenon DEF FiberYield
  <1>13. ASSUME FiberExit PROVE Woken(s)
    BY <1>13, <1>k, Zenon DEF FiberExit
  <1>14. ASSUME FiberError PROVE Woken(s)
    BY <1>14, Zenon DEF FiberError, Careful
  <1>15. ASSUME luvL_thread_once PROVE Woken(s)
    <2>1. PICK f \in Fiber : f = Head(queue)
      BY <1>15, <1>a, TailQueue, Zenon DEF luvL_thread_once, TypeInv, TypeOK
    <2>2. flags' = flags \/ flags' = [flags EXCEPT ![f] = @ \cup {"FSTART"}]
      BY <1>15, <2>1, Zenon DEF luvL_thread_once
    <2>3. CASE flags' = [flags EXCEPT ![f] = @ \cup {"FSTART"}]
      <3>1. "FREADY" \in flags'[s] <=> "FREADY" \in flags[s]
        BY <1>a, <2>3, Zenon DEF TypeInv, TypeOK
      <3> QED BY <3>1, Zenon DEF IsReady
    <2> QED BY <1>k, <2>2, <2>3, Zenon
  <1>16. ASSUME luvL_thread_loop PROVE Woken(s)
    BY <1>16, <1>k, Zenon DEF luvL_thread_loop
  <1>17. ASSUME JoinersRoused PROVE Woken(s)
    <2>1. PICK g \in Fiber : g = drain
      BY <1>17, <1>a, Zenon DEF JoinersRoused, TypeInv, ControlOK
    <2>2. joinq[g] \in Seq(State) /\ joinq[g] # <<>>
      BY <1>17, <1>a, <2>1 DEF JoinersRoused, TypeInv, TypeOK
    <2>3. PICK t \in State : t = Head(joinq[g]) /\ t \in Range(joinq[g])
      BY <2>2, TailQueue, Zenon
    <2>4. luvL_state_ready(t)
      BY <1>17, <2>1, <2>3, Zenon DEF JoinersRoused
    <2>5. s = t
      BY <1>a, <2>4, Zenon DEF luvL_state_ready, IsReady, TypeInv, TypeOK
    <2>6. call[s] = Join(g)
      BY <1>b, <2>3, <2>5, Zenon DEF LinksOf
    <2> QED BY <1>17, <2>1, <2>6, Zenon DEF JoinersRoused, Woken
  <1>18. ASSUME luvL_fiber_close PROVE Woken(s)
    BY <1>18, <1>a, Zenon DEF luvL_fiber_close, IsReady, TypeInv, TypeOK, ControlOK
  <1>19. ASSUME NEW o \in Object, ObjectCb(o) PROVE Woken(s)
    BY <1>19, <1>k, Zenon DEF ObjectCb
  <1>20. ASSUME luvL_cond_broadcast PROVE Woken(s)
    <2>1. PICK o \in Object : o = drain
      BY <1>20, <1>a, Zenon DEF luvL_cond_broadcast, TypeInv, ControlOK
    <2>2. condq[o] \in Seq(State) /\ condq[o] # <<>>
      BY <1>20, <1>a, <2>1, Zenon DEF luvL_cond_broadcast, TypeInv, TypeOK
    <2>3. PICK t \in State : t = Head(condq[o]) /\ t \in Range(condq[o])
      BY <2>2, TailQueue, Zenon
    <2>4. luvL_state_ready(t)
      BY <1>20, <2>1, <2>3, Zenon DEF luvL_cond_broadcast
    <2>5. s = t
      BY <1>a, <2>4, Zenon DEF luvL_state_ready, IsReady, TypeInv, TypeOK
    <2>6. call[s] = Wait(o)
      BY <1>b, <2>3, <2>5, Zenon DEF LinksOf
    <2> QED BY <1>20, <2>1, <2>6, Zenon DEF luvL_cond_broadcast, Woken
  <1>21. ASSUME BroadcastDone PROVE Woken(s)
    BY <1>21, <1>k, Zenon DEF BroadcastDone
  <1>22. ASSUME NEW t \in State, sleep_cb(t) PROVE Woken(s)
    <2>1. s = t
      BY <1>22, <1>a, Zenon DEF sleep_cb, luvL_state_ready, IsReady, TypeInv, TypeOK
    <2>2. call[s] = Sleep
      BY <1>22, <1>b, <2>1, Zenon DEF sleep_cb, LinksOf
    <2>3. sleeping'[s] = 0
      BY <1>22, <1>a, <1>b, <2>1 DEF sleep_cb, TypeInv, TypeOK
    <2> QED BY <1>22, <2>2, <2>3, Zenon DEF sleep_cb, Woken
  <1>23. ASSUME async_cb PROVE Woken(s)
    BY <1>23, <1>k, Zenon DEF async_cb
  <1>24. ASSUME LoopAgain PROVE Woken(s)
    BY <1>24, <1>k, Zenon DEF LoopAgain
  <1>25. ASSUME BackInMain PROVE Woken(s)
    BY <1>25, <1>a, MainLeavesReady, Zenon DEF BackInMain, IsReady, TypeInv, TypeOK
  <1> QED
    BY <1>1, <1>2, <1>3, <1>4, <1>5, <1>6, <1>7, <1>8, <1>9, <1>10, <1>11, <1>12,
       <1>13, <1>14, <1>15, <1>16, <1>17, <1>18, <1>19, <1>20, <1>21, <1>22, <1>23,
       <1>24, <1>25, ZenonT(60)
       DEF Next, LuaKeeps, LuaWaits, Scheduler, Callbacks

\* What a step does to the call a state is inside of: nothing, and then it
\* takes FREADY from nobody; it resumes a ready state; or the running state
\* gives up FREADY and the processor.
CallMoves(s) ==
  \/ /\ call'[s] = call[s]
     /\ IsReady(s) => IsReady(s)'
     /\ s = Main => (Running(s)' <=> Running(s))
  \/ /\ call'[s] = NoCall /\ Running(s)'
     /\ IsReady(s) /\ IsReady(s)' /\ pc \in {"once", "poll"}
  \/ /\ call[s] = NoCall /\ call'[s] # NoCall
     /\ Running(s) /\ ~Running(s)' /\ pc = "lua" /\ pc' = "once"
     /\ ~IsReady(s)'

\* luvL_state_suspend of a state that runs, which may ready others.
LEMMA SuspendCalls ==
  ASSUME CareInv, pc = "lua", NEW c \in Call, c # NoCall, luvL_state_suspend(c),
         NEW r \in State, r = curr,
         ~IsReady(r)', \A t \in State \ {r} : IsReady(t) => IsReady(t)',
         NEW s \in State
  PROVE  CallMoves(s)
  <1>1. Running(r)
    BY Zenon DEF Running
  <1>2. call[r] = NoCall /\ IsReady(r)
    BY <1>1, AllLinked, Zenon
  <1>3. call' = [call EXCEPT ![r] = c] /\ pc' = "once" /\ curr' = Main
    BY <1>2, Zenon DEF luvL_state_suspend
  <1>4. call \in [State -> Call]
    BY Zenon DEF CareInv, TypeInv, TypeOK
  <1>5. CASE s = r
    <2>1. call'[s] = c /\ ~Running(s)'
      BY <1>3, <1>4, <1>5, Zenon DEF Running
    <2> QED BY <1>1, <1>2, <1>3, <1>5, <2>1, Zenon DEF CallMoves
  <1>6. CASE s # r
    BY <1>1, <1>2, <1>3, <1>4, <1>6, Zenon DEF CallMoves, Running
  <1> QED BY <1>5, <1>6, Zenon

LEMMA CallStep ==
  ASSUME Careful, CareInv, Next, NEW s \in State
  PROVE  CallMoves(s)
  <1> USE StateAssumption
      DEF luaVars, linkVars, readyVars, ctlVars, loopVars
  <1>a. TypeInv /\ ReadyQueueExact /\ Links /\ MainInv
    BY Zenon DEF CareInv
  <1>k. ASSUME call' = call, IsReady(s) => IsReady(s)', Running(Main)' <=> Running(Main)
        PROVE  CallMoves(s)
    BY <1>k, Zenon DEF CallMoves
  <1>f. ASSUME flags' = flags PROVE IsReady(s)' <=> IsReady(s)
    BY <1>f, Zenon DEF IsReady
  <1>r. ASSUME NEW t \in State, luvL_state_ready(t) PROVE IsReady(s) => IsReady(s)'
    BY <1>a, <1>r, Zenon DEF luvL_state_ready, IsReady, TypeInv, TypeOK
  <1>1. ASSUME NEW f \in Fiber, luv_new_fiber(f) PROVE CallMoves(s)
    BY <1>1, <1>k, <1>f, Zenon DEF luv_new_fiber, Running
  <1>2. ASSUME NEW f \in Fiber, luv_fiber_ready(f) PROVE CallMoves(s)
    BY <1>2, <1>k, <1>r, Zenon DEF luv_fiber_ready, Running, State
  <1>3. ASSUME NEW f \in Fiber, luv_fiber_join_dead(f) PROVE CallMoves(s)
    BY <1>3, <1>k, <1>f, Zenon DEF luv_fiber_join_dead, Running
  <1>4. ASSUME NEW t \in Timer, NEW r \in BOOLEAN, luv_timer_start(t, r) PROVE CallMoves(s)
    BY <1>4, <1>k, <1>f, Zenon DEF luv_timer_start, Running
  <1>5. ASSUME NEW t \in Timer, luv_timer_again(t) PROVE CallMoves(s)
    BY <1>5, <1>k, <1>f, Zenon DEF luv_timer_again, Running
  <1>6. ASSUME NEW i \in Idle, luv_idle_start(i) PROVE CallMoves(s)
    BY <1>6, <1>k, <1>f, Zenon DEF luv_idle_start, Running
  <1>7. ASSUME NEW o \in Object, luv_object_stop(o) PROVE CallMoves(s)
    BY <1>7, <1>k, <1>f, Zenon DEF luv_object_stop, Running
  <1>8. ASSUME Relink PROVE CallMoves(s)
    BY <1>8, NoRelink, Zenon
  <1>9. ASSUME NEW f \in Fiber, luv_fiber_join(f) PROVE CallMoves(s)
    <2>1. /\ pc = "lua" /\ luvL_state_suspend(Join(f)) /\ f # curr /\ curr \in State
          /\ flags' = [flags EXCEPT ![f] = @ \cup {"FREADY"}, ![curr] = @ \ {"FREADY"}]
      BY <1>9, <1>a, Zenon DEF luv_fiber_join, MayJoin, TypeInv, TypeOK
    <2>2. PICK r \in State : r = curr
      BY <2>1, Zenon
    <2>3. ~IsReady(r)' /\ \A t \in State \ {r} : IsReady(t) => IsReady(t)'
      <3>1. flags' = [flags EXCEPT ![f] = @ \cup {"FREADY"}, ![r] = @ \ {"FREADY"}]
        BY <2>1, <2>2, Zenon
      <3>2. /\ flags'[r] = flags[r] \ {"FREADY"}
            /\ \A t \in State \ {r} : flags'[t] \in {flags[t], flags[t] \cup {"FREADY"}}
        BY <1>a, <2>1, <2>2, <3>1, Zenon DEF TypeInv, TypeOK, State
      <3> QED BY <3>2, Zenon DEF IsReady
    <2>4. Join(f) \in Call /\ Join(f) # NoCall
      BY ValueTypes, CallsDiffer, Zenon
    <2> QED BY <2>1, <2>2, <2>3, <2>4, SuspendCalls, Zenon
  <1>10. ASSUME NEW o \in Object, luvL_cond_wait(o) PROVE CallMoves(s)
    <2>1. /\ pc = "lua" /\ luvL_state_suspend(Wait(o)) /\ curr \in State
          /\ flags' = [flags EXCEPT ![curr] = @ \ {"FREADY"}]
      BY <1>10, <1>a, Zenon DEF luvL_cond_wait, MayWait, TypeInv, TypeOK
    <2>2. PICK r \in State : r = curr
      BY <2>1, Zenon
    <2>3. ~IsReady(r)' /\ \A t \in State \ {r} : IsReady(t) => IsReady(t)'
      BY <1>a, <2>1, <2>2, Zenon DEF IsReady, TypeInv, TypeOK
    <2>4. Wait(o) \in Call /\ Wait(o) # NoCall
      BY ValueTypes, CallsDiffer, Zenon
    <2> QED BY <2>1, <2>2, <2>3, <2>4, SuspendCalls, Zenon
  <1>11. ASSUME luv_sleep PROVE CallMoves(s)
    <2>1. /\ pc = "lua" /\ luvL_state_suspend(Sleep) /\ curr \in State
          /\ flags' = [flags EXCEPT ![curr] = @ \ {"FREADY"}]
      BY <1>11, <1>a, Zenon DEF luv_sleep, TypeInv, TypeOK
    <2>2. PICK r \in State : r = curr
      BY <2>1, Zenon
    <2>3. ~IsReady(r)' /\ \A t \in State \ {r} : IsReady(t) => IsReady(t)'
      BY <1>a, <2>1, <2>2, Zenon DEF IsReady, TypeInv, TypeOK
    <2>4. Sleep \in Call /\ Sleep # NoCall
      BY ValueTypes, CallsDiffer, Zenon
    <2> QED BY <2>1, <2>2, <2>3, <2>4, SuspendCalls, Zenon
  <1>12. ASSUME FiberYield PROVE CallMoves(s)
    BY <1>12, <1>k, <1>f, Zenon DEF FiberYield, Running
  <1>13. ASSUME FiberExit PROVE CallMoves(s)
    BY <1>13, <1>k, <1>f, Zenon DEF FiberExit, Running
  <1>14. ASSUME FiberError PROVE CallMoves(s)
    BY <1>14, Zenon DEF FiberError, Careful
  <1>15. ASSUME luvL_thread_once PROVE CallMoves(s)
    <2>1. PICK f \in Fiber : f = Head(queue) /\ f \in Range(queue)
      BY <1>15, <1>a, TailQueue, SMTT(60) DEF luvL_thread_once, TypeInv, TypeOK
    <2>2. IsReady(f) /\ ~IsDead(f)
      BY <1>a, <2>1, Zenon DEF ReadyQueueExact
    <2>3. /\ flags' = [flags EXCEPT ![f] = @ \cup {"FSTART"}]
          /\ call' = [call EXCEPT ![f] = NoCall]
          /\ curr' = f /\ pc' = "lua" /\ pc = "once"
      BY <1>15, <2>1, <2>2, Zenon DEF luvL_thread_once
    <2>4. IsReady(s)' <=> IsReady(s)
      BY <1>a, <2>3, Zenon DEF IsReady, TypeInv, TypeOK, State
    <2>5. CASE s = f
      BY <1>a, <2>2, <2>3, <2>4, <2>5, Zenon DEF CallMoves, Running, TypeInv, TypeOK
    <2>6. CASE s # f
      BY <1>a, <2>3, <2>4, <2>6, Zenon DEF CallMoves, Running, TypeInv, TypeOK
    <2> QED BY <2>5, <2>6, Zenon
  <1>16. ASSUME luvL_thread_loop PROVE CallMoves(s)
    BY <1>16, <1>k, <1>f, Zenon DEF luvL_thread_loop, Running
  <1>17. ASSUME JoinersRoused PROVE CallMoves(s)
    <2>1. Head(joinq[drain]) \in State
      BY <1>17, <1>a, TailQueue DEF JoinersRoused, TypeInv, TypeOK, ControlOK
    <2> QED BY <1>17, <2>1, <1>k, <1>r, Zenon DEF JoinersRoused, Running
  <1>18. ASSUME luvL_fiber_close PROVE CallMoves(s)
    <2>1. IsReady(s) => IsReady(s)'
      BY <1>18, <1>a, Zenon DEF luvL_fiber_close, IsReady, TypeInv, TypeOK
    <2> QED BY <1>18, <2>1, <1>k, Zenon DEF luvL_fiber_close, Running
  <1>19. ASSUME NEW o \in Object, ObjectCb(o) PROVE CallMoves(s)
    BY <1>19, <1>k, <1>f, Zenon DEF ObjectCb, Running
  <1>20. ASSUME luvL_cond_broadcast PROVE CallMoves(s)
    <2>1. Head(condq[drain]) \in State
      BY <1>20, <1>a, TailQueue, Zenon DEF luvL_cond_broadcast, TypeInv, TypeOK, ControlOK
    <2> QED BY <1>20, <2>1, <1>k, <1>r, Zenon DEF luvL_cond_broadcast, Running
  <1>21. ASSUME BroadcastDone PROVE CallMoves(s)
    BY <1>21, <1>k, <1>f, Zenon DEF BroadcastDone, Running
  <1>22. ASSUME NEW t \in State, sleep_cb(t) PROVE CallMoves(s)
    BY <1>22, <1>k, <1>r, Zenon DEF sleep_cb, Running
  <1>23. ASSUME async_cb PROVE CallMoves(s)
    BY <1>23, <1>k, <1>f, Zenon DEF async_cb, Running
  <1>24. ASSUME LoopAgain PROVE CallMoves(s)
    BY <1>24, <1>k, <1>f, Zenon DEF LoopAgain, UvReturns, Running
  <1>25. ASSUME BackInMain PROVE CallMoves(s)
    <2>1. /\ flags' = [flags EXCEPT ![Main] = @ \cup {"FREADY"}]
          /\ call' = [call EXCEPT ![Main] = NoCall]
          /\ pc' = "lua" /\ pc = "poll" /\ curr' = Main /\ IsReady(Main)
      BY <1>25, <1>a, MainLeavesReady, Zenon DEF BackInMain, UvReturns, TypeInv, ControlOK
    <2>2. IsReady(s)' <=> IsReady(s)
      BY <1>a, <2>1, Zenon DEF IsReady, TypeInv, TypeOK
    <2> QED BY <1>a, <2>1, <2>2, Zenon DEF CallMoves, Running, TypeInv, TypeOK
  <1> QED
    BY <1>1, <1>2, <1>3, <1>4, <1>5, <1>6, <1>7, <1>8, <1>9, <1>10, <1>11, <1>12,
       <1>13, <1>14, <1>15, <1>16, <1>17, <1>18, <1>19, <1>20, <1>21, <1>22, <1>23,
       <1>24, <1>25, Zenon
       DEF Next, LuaKeeps, LuaWaits, Scheduler, Callbacks

\* A fiber that has ended stays so, and nothing touches its stack any more.
Ended(f) == IsDead(f) \/ Exiting(f)

LEMMA EndedStays ==
  ASSUME Careful, CareInv, Next, NEW f \in Fiber
  PROVE  /\ Ended(f) => Ended(f)' /\ stack'[f] = stack[f]
         /\ ~Ended(f) /\ Ended(f)' => stack'[f] = <<f>>
  <1> DEFINE Goal == /\ Ended(f) => Ended(f)' /\ stack'[f] = stack[f]
                     /\ ~Ended(f) /\ Ended(f)' => stack'[f] = <<f>>
  <1> SUFFICES Goal
    OBVIOUS
  <1> USE StateAssumption
      DEF luaVars, linkVars, readyVars, ctlVars, loopVars
  <1>a. /\ TypeInv /\ ReadyQueueExact /\ BornInv /\ Links
        /\ f \in State /\ f # Main
    BY Zenon DEF CareInv, State
  <1>b. /\ Ended(f) => f \in fibers /\ ~Running(f) /\ ~Blocked(f)
        /\ Exiting(f) => ~Running(f)
    BY <1>a, Zenon DEF Ended, Exiting, BornInv, ReadyQueueExact, Running, Blocked
  <1>k. ASSUME Ended(f)' <=> Ended(f), Ended(f) => stack'[f] = stack[f]
        PROVE  Goal
    BY <1>k, Zenon
  <1>e. ASSUME flags' = flags, Exiting(f)' <=> Exiting(f)
        PROVE  Ended(f)' <=> Ended(f)
    BY <1>e, Zenon DEF Ended, IsDead
  <1>r. ASSUME NEW s \in State, luvL_state_ready(s), Exiting(f)' <=> Exiting(f)
        PROVE  Ended(f)' <=> Ended(f)
    <2>1. IsDead(f)' <=> IsDead(f)
      BY <1>a, <1>r, Zenon DEF luvL_state_ready, IsDead, TypeInv, TypeOK
    <2> QED BY <1>r, <2>1, Zenon DEF Ended
  <1>s. ASSUME NEW s \in State, s = curr, pc = "lua", pc' # "exit",
               \A t \in State : (IsDead(t)' <=> IsDead(t)),
               \A t \in State \ {s} : stack'[t] = stack[t]
        PROVE  Goal
    <2>1. Ended(f)' <=> Ended(f)
      BY <1>a, <1>s, Zenon DEF Ended, Exiting
    <2>2. Ended(f) => f # s
      BY <1>b, <1>s, Zenon DEF Running
    <2> QED BY <1>a, <1>k, <1>s, <2>1, <2>2, Zenon
  <1>1. ASSUME NEW g \in Fiber, luv_new_fiber(g) PROVE Goal
    <2>1. Ended(f) => stack'[f] = stack[f]
      BY <1>1, <1>a, <1>b, Zenon DEF luv_new_fiber, TypeInv, TypeOK
    <2> QED BY <1>1, <2>1, <1>k, <1>e, Zenon DEF luv_new_fiber, Exiting
  <1>2. ASSUME NEW g \in Fiber, luv_fiber_ready(g) PROVE Goal
    BY <1>2, <1>k, <1>r, Zenon DEF luv_fiber_ready, Exiting, State
  <1>3. ASSUME NEW g \in Fiber, luv_fiber_join_dead(g) PROVE Goal
    <2>1. Ended(f) => stack'[f] = stack[f]
      BY <1>3, <1>a, <1>b, Zenon DEF luv_fiber_join_dead, Running, TypeInv, TypeOK
    <2> QED BY <1>3, <2>1, <1>k, <1>e, Zenon DEF luv_fiber_join_dead, Exiting
  <1>4. ASSUME NEW t \in Timer, NEW r \in BOOLEAN, luv_timer_start(t, r) PROVE Goal
    BY <1>4, <1>k, <1>e, Zenon DEF luv_timer_start, Exiting
  <1>5. ASSUME NEW t \in Timer, luv_timer_again(t) PROVE Goal
    BY <1>5, <1>k, <1>e, Zenon DEF luv_timer_again, Exiting
  <1>6. ASSUME NEW i \in Idle, luv_idle_start(i) PROVE Goal
    BY <1>6, <1>k, <1>e, Zenon DEF luv_idle_start, Exiting
  <1>7. ASSUME NEW o \in Object, luv_object_stop(o) PROVE Goal
    BY <1>7, <1>k, <1>e, Zenon DEF luv_object_stop, Exiting
  <1>8. ASSUME Relink PROVE Goal
    BY <1>8, NoRelink, Zenon
  <1>9. ASSUME NEW g \in Fiber, luv_fiber_join(g) PROVE Goal
    <2>1. PICK s \in State : s = curr
      BY <1>a, Zenon DEF TypeInv, TypeOK
    <2>2. \A t \in State : IsDead(t)' <=> IsDead(t)
      <3>1. flags' = [flags EXCEPT ![g] = @ \cup {"FREADY"}, ![s] = @ \ {"FREADY"}]
        BY <1>9, <2>1, Zenon DEF luv_fiber_join
      <3>2. \A t \in State :
               flags'[t] \in {flags[t], flags[t] \cup {"FREADY"}, flags[t] \ {"FREADY"},
                              (flags[t] \cup {"FREADY"}) \ {"FREADY"}}
        BY <1>a, <2>1, <3>1, Zenon DEF TypeInv, TypeOK, State
      <3> QED BY <3>2 DEF IsDead
    <2>3. \A t \in State \ {s} : stack'[t] = stack[t]
      BY <1>9, <1>a, <2>1, Zenon DEF luv_fiber_join, TypeInv, TypeOK
    <2>4. pc = "lua" /\ pc' # "exit"
      BY <1>9, Zenon DEF luv_fiber_join, MayJoin, luvL_state_suspend
    <2> QED BY <2>1, <2>2, <2>3, <2>4, <1>s, Zenon
  <1>10. ASSUME NEW o \in Object, luvL_cond_wait(o) PROVE Goal
    <2>1. PICK s \in State : s = curr
      BY <1>a, Zenon DEF TypeInv, TypeOK
    <2>2. \A t \in State : IsDead(t)' <=> IsDead(t)
      BY <1>10, <1>a, <2>1, Zenon DEF luvL_cond_wait, IsDead, TypeInv, TypeOK
    <2>3. \A t \in State \ {s} : stack'[t] = stack[t]
      BY <1>10, <1>a, <2>1, Zenon DEF luvL_cond_wait, TypeInv, TypeOK
    <2>4. pc = "lua" /\ pc' # "exit"
      BY <1>10, Zenon DEF luvL_cond_wait, MayWait, luvL_state_suspend
    <2> QED BY <2>1, <2>2, <2>3, <2>4, <1>s, ZenonT(60)
  <1>11. ASSUME luv_sleep PROVE Goal
    <2>1. PICK s \in State : s = curr
      BY <1>a, Zenon DEF TypeInv, TypeOK
    <2>2. \A t \in State : IsDead(t)' <=> IsDead(t)
      BY <1>11, <1>a, <2>1, Zenon DEF luv_sleep, IsDead, TypeInv, TypeOK
    <2>3. \A t \in State \ {s} : stack'[t] = stack[t]
      BY <1>11, <1>a, <2>1, Zenon DEF luv_sleep, TypeInv, TypeOK
    <2>4. pc = "lua" /\ pc' # "exit"
      BY <1>11, Zenon DEF luv_sleep, luvL_state_suspend
    <2> QED BY <2>1, <2>2, <2>3, <2>4, <1>s, Zenon
  <1>12. ASSUME FiberYield PROVE Goal
    BY <1>12, <1>k, <1>e, ZenonT(60) DEF FiberYield, Exiting
  <1>13. ASSUME FiberExit PROVE Goal
    <2>1. CASE f = curr
      <3>1. ~Ended(f) /\ stack'[f] = <<f>>
        BY <1>13, <1>a, <1>b, <2>1, Zenon DEF FiberExit, Running, TypeInv, TypeOK
      <3> QED BY <3>1, Zenon
    <2>2. CASE f # curr
      <3>1. stack'[f] = stack[f] /\ flags' = flags /\ ~Exiting(f)' /\ ~Exiting(f)
        BY <1>13, <1>a, <2>2, Zenon DEF FiberExit, Exiting, TypeInv, TypeOK
      <3> QED BY <3>1, <1>k, <1>e, Zenon
    <2> QED BY <2>1, <2>2, Zenon
  <1>14. ASSUME FiberError PROVE Goal
    BY <1>14, Zenon DEF FiberError, Careful
  <1>15. ASSUME luvL_thread_once PROVE Goal
    <2>1. PICK g \in Fiber : g = Head(queue) /\ g \in Range(queue)
      <3>1. queue \in Seq(Fiber) /\ queue # <<>>
        BY <1>15, <1>a, Zenon DEF luvL_thread_once, TypeInv, TypeOK
      <3> QED BY <3>1, TailQueue, Zenon
    <2>2. IsReady(g) /\ ~IsDead(g)
      BY <1>a, <2>1, Zenon DEF ReadyQueueExact
    <2>3. /\ flags' = [flags EXCEPT ![g] = @ \cup {"FSTART"}]
          /\ stack' = stack /\ pc' = "lua" /\ pc = "once"
      BY <1>15, <2>1, <2>2, Zenon DEF luvL_thread_once
    <2>4. IsDead(f)' <=> IsDead(f)
      <3>1. flags'[f] \in {flags[f], flags[f] \cup {"FSTART"}}
        BY <1>a, <2>3, Zenon DEF TypeInv, TypeOK
      <3> QED BY <3>1, Zenon DEF IsDead
    <2> QED BY <2>3, <2>4, <1>k, Zenon DEF Ended, Exiting
  <1>16. ASSUME luvL_thread_loop PROVE Goal
    BY <1>16, <1>k, <1>e, Zenon DEF luvL_thread_loop, Exiting
  <1>17. ASSUME JoinersRoused PROVE Goal
    <2>1. PICK g \in Fiber : g = drain
      BY <1>17, <1>a, Zenon DEF JoinersRoused, TypeInv, ControlOK
    <2>2. joinq[g] \in Seq(State) /\ joinq[g] # <<>>
      BY <1>17, <1>a, <2>1, Zenon DEF JoinersRoused, TypeInv, TypeOK
    <2>3. PICK s \in State : s = Head(joinq[g]) /\ s \in Range(joinq[g])
      BY <2>2, TailQueue, Zenon
    <2>4. s \in Fiber => Blocked(s)
      BY <1>a, <2>3, Zenon DEF Links, LinksOf
    <2>5. Ended(f) => f # s
      BY <1>b, <2>4, Zenon
    <2>6. stack' \in {stack, [stack EXCEPT ![s] = @ \o stack[g]]}
      BY <1>17, <2>1, <2>3, Zenon DEF JoinersRoused
    <2>7. Ended(f) => stack'[f] = stack[f]
      BY <1>a, <2>5, <2>6, Zenon DEF TypeInv, TypeOK
    <2>8. luvL_state_ready(s) /\ (Exiting(f)' <=> Exiting(f))
      BY <1>17, <2>1, <2>3, Zenon DEF JoinersRoused, Exiting
    <2> QED BY <2>7, <2>8, <1>k, <1>r, Zenon
  <1>18. ASSUME luvL_fiber_close PROVE Goal
    <2>1. PICK g \in Fiber : g = drain
      BY <1>18, <1>a, Zenon DEF luvL_fiber_close, TypeInv, ControlOK
    <2>2. IsDead(f)' <=> IsDead(f) \/ f = g
      BY <1>18, <1>a, <2>1, Zenon DEF luvL_fiber_close, IsDead, TypeInv, TypeOK, State
    <2> QED BY <1>18, <2>1, <2>2, <1>k, Zenon DEF luvL_fiber_close, Ended, Exiting
  <1>19. ASSUME NEW o \in Object, ObjectCb(o) PROVE Goal
    <2>1. Ended(f) => f \notin Range(condq[o])
      BY <1>a, <1>b, ZenonT(60) DEF Links, LinksOf
    <2>2. Ended(f) => stack'[f] = stack[f]
      BY <1>19, <1>a, <2>1, Zenon DEF ObjectCb
    <2> QED BY <1>19, <2>2, <1>k, <1>e, Zenon DEF ObjectCb, Exiting
  <1>20. ASSUME luvL_cond_broadcast PROVE Goal
    <2>1. Head(condq[drain]) \in State
      BY <1>20, <1>a, TailQueue DEF luvL_cond_broadcast, TypeInv, TypeOK, ControlOK
    <2> QED BY <1>20, <2>1, <1>k, <1>r, Zenon DEF luvL_cond_broadcast, Exiting
  <1>21. ASSUME BroadcastDone PROVE Goal
    BY <1>21, <1>k, <1>e, ZenonT(60) DEF BroadcastDone, Exiting
  <1>22. ASSUME NEW t \in State, sleep_cb(t) PROVE Goal
    BY <1>22, <1>k, <1>r, Zenon DEF sleep_cb, Exiting
  <1>23. ASSUME async_cb PROVE Goal
    BY <1>23, <1>k, <1>e, Zenon DEF async_cb, Exiting
  <1>24. ASSUME LoopAgain PROVE Goal
    BY <1>24, <1>k, <1>e, Zenon DEF LoopAgain, UvReturns, Exiting
  <1>25. ASSUME BackInMain PROVE Goal
    <2>1. IsDead(f)' <=> IsDead(f)
      BY <1>25, <1>a, ZenonT(60) DEF BackInMain, IsDead, TypeInv, TypeOK
    <2>2. stack'[f] = stack[f]
      BY <1>25, <1>a, Zenon DEF BackInMain, TypeInv, TypeOK
    <2> QED BY <1>25, <2>1, <2>2, <1>k DEF BackInMain, UvReturns, Ended, Exiting
  <1> HIDE DEF Goal
  <1> QED
    BY <1>1, <1>2, <1>3, <1>4, <1>5, <1>6, <1>7, <1>8, <1>9, <1>10, <1>11, <1>12,
       <1>13, <1>14, <1>15, <1>16, <1>17, <1>18, <1>19, <1>20, <1>21, <1>22, <1>23,
       <1>24, <1>25, SMTT(60)
       DEF Next, LuaKeeps, LuaWaits, Scheduler, Callbacks

LEMMA JoinStep ==
  ASSUME Careful, CareInv, Next
  PROVE  JoinInv'
  <1> SUFFICES ASSUME NEW s \in State, NEW f \in Fiber, call'[s] = Join(f), IsReady(s)'
               PROVE  Ended(f)'
    BY Zenon DEF JoinInv, Ended
  <1>1. call[s] = Join(f)
    BY CallStep, CallsDiffer, ZenonT(60) DEF CallMoves
  <1>2. CASE IsReady(s)
    <2>1. Ended(f)
      BY <1>1, <1>2 DEF CareInv, JoinInv, Ended
    <2> QED BY <2>1, EndedStays, Zenon
  <1>3. CASE ~IsReady(s)
    <2>1. Woken(s)
      BY <1>3, Wakes, Zenon
    <2>2. pc = "exit" /\ call[s] = Join(drain)
      <3>1. pc = "rouse" => drain \in Object
        BY Zenon DEF CareInv, TypeInv, ControlOK
      <3> QED BY <1>1, <2>1, <3>1, CallsDiffer, Zenon DEF Woken
    <2>3. drain \in Fiber
      BY <2>2, Zenon DEF CareInv, TypeInv, ControlOK
    <2>4. drain = f
      BY <1>1, <2>2, <2>3, CallsDiffer, ZenonT(60)
    <2>5. Ended(f)
      BY <2>2, <2>4, Zenon DEF Ended, Exiting
    <2> QED BY <2>5, EndedStays, Zenon
  <1> QED BY <1>2, <1>3, Zenon

LEMMA ValueStep ==
  ASSUME Careful, CareInv, Next
  PROVE  ValueInv'
  <1> SUFFICES ASSUME NEW f \in Fiber, Ended(f)' PROVE stack'[f] = <<f>>
    BY Zenon DEF ValueInv, Ended
  <1>1. Ended(f) => stack[f] = <<f>>
    BY Zenon DEF CareInv, ValueInv, Ended
  <1> QED BY <1>1, EndedStays, Zenon

\* The links of Main, and that no node is linked twice.
MainLinks == LinksOf(Main) /\ sleeping[Main] <= 1 /\ pc # "broken"

LEMMA MainLinkStep ==
  ASSUME Careful, CareInv, Next
  PROVE  MainLinks'
  <1> USE StateAssumption
      DEF luaVars, linkVars, readyVars, ctlVars, loopVars
  <1>a. /\ TypeInv /\ ReadyQueueExact /\ Links /\ Main \in State
        /\ LinksOf(Main) /\ sleeping[Main] \in {0, 1} /\ pc # "broken"
    BY AllLinked, Zenon DEF CareInv, State, MainInv
  <1>l. ASSUME \A o \in Object : Main \in Range(condq'[o]) <=> Main \in Range(condq[o]),
               \A g \in Fiber : Main \in Range(joinq'[g]) <=> Main \in Range(joinq[g]),
               sleeping'[Main] = sleeping[Main], pc' # "broken",
               Blocked(Main)' <=> Blocked(Main), Blocked(Main) => call'[Main] = call[Main]
        PROVE  MainLinks'
    <2>p. \A o \in Object : Main \in Range(condq'[o]) <=> Blocked(Main)' /\ call'[Main] = Wait(o)
      BY <1>a, <1>l, Zenon DEF LinksOf
    <2>q. \A g \in Fiber : Main \in Range(joinq'[g]) <=> Blocked(Main)' /\ call'[Main] = Join(g)
      BY <1>a, <1>l, Zenon DEF LinksOf
    <2>r. sleeping'[Main] > 0 <=> Blocked(Main)' /\ call'[Main] = Sleep
      BY <1>a, <1>l, Zenon DEF LinksOf
    <2>1. LinksOf(Main)'
      BY <2>p, <2>q, <2>r, Zenon DEF LinksOf
    <2> QED BY <1>a, <1>l, <2>1 DEF MainLinks
  <1>k. ASSUME condq' = condq, joinq' = joinq, sleeping' = sleeping, pc' # "broken",
               IsReady(Main)' <=> IsReady(Main), call'[Main] = call[Main]
        PROVE  MainLinks'
    BY <1>k, <1>l, Zenon DEF Blocked
  <1>f. ASSUME flags' = flags PROVE IsReady(Main)' <=> IsReady(Main)
    BY <1>f, Zenon DEF IsReady
  <1>r. ASSUME NEW s \in State, s # Main, luvL_state_ready(s)
        PROVE  IsReady(Main)' <=> IsReady(Main)
    BY <1>a, <1>r, Zenon DEF luvL_state_ready, IsReady, TypeInv, TypeOK
  <1>m. ASSUME luvL_state_ready(Main), call' = call
        PROVE  ~Blocked(Main)' /\ call'[Main] = call[Main]
    BY <1>a, <1>m, Zenon DEF luvL_state_ready, IsReady, Blocked, TypeInv, TypeOK
  <1>c. ASSUME pc = "lua", curr = Main
        PROVE  /\ call[Main] = NoCall /\ IsReady(Main) /\ ~Blocked(Main)
               /\ \A o \in Object : Main \notin Range(condq[o])
               /\ \A g \in Fiber : Main \notin Range(joinq[g])
               /\ sleeping[Main] = 0
    <2>1. call[Main] = NoCall /\ IsReady(Main) /\ ~Blocked(Main)
      BY <1>c, Zenon DEF CareInv, MainInv, Running, Blocked
    <2> QED BY <1>a, <2>1 DEF LinksOf
  <1>d. ASSUME pc = "lua", NEW c \in Call, luvL_state_suspend(c), NEW s \in State, s = curr
        PROVE  /\ pc' # "broken"
               /\ s = Main => call'[Main] = c
               /\ s # Main => call'[Main] = call[Main]
    BY <1>a, <1>c, <1>d, Zenon DEF luvL_state_suspend, TypeInv, TypeOK
  <1>1. ASSUME NEW f \in Fiber, luv_new_fiber(f) PROVE MainLinks'
    BY <1>1, <1>a, <1>k, <1>f, Zenon DEF luv_new_fiber
  <1>2. ASSUME NEW f \in Fiber, luv_fiber_ready(f) PROVE MainLinks'
    BY <1>2, <1>a, <1>k, <1>r, ZenonT(60) DEF luv_fiber_ready, State
  <1>3. ASSUME NEW f \in Fiber, luv_fiber_join_dead(f) PROVE MainLinks'
    BY <1>3, <1>a, <1>k, <1>f, Zenon DEF luv_fiber_join_dead
  <1>4. ASSUME NEW t \in Timer, NEW r \in BOOLEAN, luv_timer_start(t, r) PROVE MainLinks'
    BY <1>4, <1>a, <1>k, <1>f, Zenon DEF luv_timer_start
  <1>5. ASSUME NEW t \in Timer, luv_timer_again(t) PROVE MainLinks'
    BY <1>5, <1>a, <1>k, <1>f, Zenon DEF luv_timer_again
  <1>6. ASSUME NEW i \in Idle, luv_idle_start(i) PROVE MainLinks'
    BY <1>6, <1>a, <1>k, <1>f, Zenon DEF luv_idle_start
  <1>7. ASSUME NEW o \in Object, luv_object_stop(o) PROVE MainLinks'
    BY <1>7, <1>a, <1>k, <1>f, Zenon DEF luv_object_stop
  <1>8. ASSUME Relink PROVE MainLinks'
    BY <1>8, NoRelink, Zenon
  <1>9. ASSUME NEW g \in Fiber, luv_fiber_join(g) PROVE MainLinks'
    <2>1. PICK s \in State : s = curr
      BY <1>a, Zenon DEF TypeInv, TypeOK
    <2>2. /\ pc = "lua" /\ luvL_state_suspend(Join(g)) /\ g # s
          /\ flags' = [flags EXCEPT ![g] = @ \cup {"FREADY"}, ![s] = @ \ {"FREADY"}]
          /\ joinq' = [joinq EXCEPT ![g] = Append(joinq[g], s)]
          /\ condq' = condq /\ sleeping' = sleeping
      BY <1>9, <2>1, Zenon DEF luv_fiber_join, MayJoin
    <2>3. /\ \A h \in Fiber \ {g} : joinq'[h] = joinq[h]
          /\ Range(joinq'[g]) = Range(joinq[g]) \cup {s}
      BY <1>a, <2>2, AppendQueue DEF TypeInv, TypeOK
    <2>4. /\ pc' # "broken" /\ (s = Main => call'[Main] = Join(g))
          /\ s # Main => call'[Main] = call[Main]
      BY <1>d, <2>1, <2>2, ValueTypes, Zenon
    <2>5. flags'[Main] = IF s = Main THEN flags[Main] \ {"FREADY"} ELSE flags[Main]
      BY <1>a, <2>2, ZenonT(60) DEF TypeInv, TypeOK, State
    <2>6. CASE s = Main
      <3>1. Blocked(Main)' /\ call'[Main] = Join(g)
        BY <2>4, <2>5, <2>6, CallsDiffer, Zenon DEF Blocked, IsReady
      <3>2. /\ \A o \in Object : Main \notin Range(condq'[o])
            /\ \A h \in Fiber : Main \in Range(joinq'[h]) <=> h = g
            /\ sleeping'[Main] = 0
        BY <1>c, <2>1, <2>2, <2>3, <2>6, Zenon
      <3> QED BY <2>4, <3>1, <3>2, CallsDiffer DEF MainLinks, LinksOf
    <2>7. CASE s # Main
      <3>1. Blocked(Main)' <=> Blocked(Main)
        BY <2>4, <2>5, <2>7, Zenon DEF Blocked, IsReady
      <3> QED BY <1>l, <2>2, <2>3, <2>4, <2>7, <3>1, ZenonT(60)
    <2> QED BY <2>6, <2>7, Zenon
  <1>10. ASSUME NEW o \in Object, luvL_cond_wait(o) PROVE MainLinks'
    <2>1. PICK s \in State : s = curr
      BY <1>a, Zenon DEF TypeInv, TypeOK
    <2>2. /\ pc = "lua" /\ luvL_state_suspend(Wait(o))
          /\ flags' = [flags EXCEPT ![s] = @ \ {"FREADY"}]
          /\ condq' = [condq EXCEPT ![o] = Append(condq[o], s)]
          /\ joinq' = joinq /\ sleeping' = sleeping
      BY <1>10, <2>1, Zenon DEF luvL_cond_wait, MayWait
    <2>3. /\ \A p \in Object \ {o} : condq'[p] = condq[p]
          /\ Range(condq'[o]) = Range(condq[o]) \cup {s}
      BY <1>a, <2>2, AppendQueue DEF TypeInv, TypeOK
    <2>4. /\ pc' # "broken" /\ (s = Main => call'[Main] = Wait(o))
          /\ s # Main => call'[Main] = call[Main]
      BY <1>d, <2>1, <2>2, ValueTypes, Zenon
    <2>5. flags'[Main] = IF s = Main THEN flags[Main] \ {"FREADY"} ELSE flags[Main]
      BY <1>a, <2>2, ZenonT(60) DEF TypeInv, TypeOK
    <2>6. CASE s = Main
      <3>1. Blocked(Main)' /\ call'[Main] = Wait(o)
        BY <2>4, <2>5, <2>6, CallsDiffer, Zenon DEF Blocked, IsReady
      <3>2. /\ \A p \in Object : Main \in Range(condq'[p]) <=> p = o
            /\ \A h \in Fiber : Main \notin Range(joinq'[h])
            /\ sleeping'[Main] = 0
        BY <1>c, <2>1, <2>2, <2>3, <2>6, Zenon
      <3> QED BY <2>4, <3>1, <3>2, CallsDiffer DEF MainLinks, LinksOf
    <2>7. CASE s # Main
      <3>1. Blocked(Main)' <=> Blocked(Main)
        BY <2>4, <2>5, <2>7, Zenon DEF Blocked, IsReady
      <3> QED BY <1>l, <2>2, <2>3, <2>4, <2>7, <3>1, ZenonT(60)
    <2> QED BY <2>6, <2>7, Zenon
  <1>11. ASSUME luv_sleep PROVE MainLinks'
    <2>1. PICK s \in State : s = curr
      BY <1>a, Zenon DEF TypeInv, TypeOK
    <2>2. /\ pc = "lua" /\ luvL_state_suspend(Sleep)
          /\ flags' = [flags EXCEPT ![s] = @ \ {"FREADY"}]
          /\ sleeping' = [sleeping EXCEPT ![s] = @ + 1]
          /\ joinq' = joinq /\ condq' = condq
      BY <1>11, <2>1, Zenon DEF luv_sleep
    <2>3. sleeping'[Main] = IF s = Main THEN sleeping[Main] + 1 ELSE sleeping[Main]
      BY <1>a, <2>2, Zenon DEF TypeInv, TypeOK
    <2>4. /\ pc' # "broken" /\ (s = Main => call'[Main] = Sleep)
          /\ s # Main => call'[Main] = call[Main]
      BY <1>d, <2>1, <2>2, ValueTypes, Zenon
    <2>5. flags'[Main] = IF s = Main THEN flags[Main] \ {"FREADY"} ELSE flags[Main]
      BY <1>a, <2>2, ZenonT(60) DEF TypeInv, TypeOK
    <2>6. CASE s = Main
      <3>1. Blocked(Main)' /\ call'[Main] = Sleep
        BY <2>4, <2>5, <2>6, CallsDiffer, Zenon DEF Blocked, IsReady
      <3>c. /\ \A p \in Object : Main \notin Range(condq[p])
            /\ \A h \in Fiber : Main \notin Range(joinq[h])
            /\ sleeping[Main] = 0
        BY <1>c, <2>1, <2>2, <2>6, Zenon
      <3>n. sleeping'[Main] = 1
        BY <2>3, <2>6, <3>c
      <3>2. /\ \A p \in Object : Main \notin Range(condq'[p])
            /\ \A h \in Fiber : Main \notin Range(joinq'[h])
            /\ sleeping'[Main] = 1
        BY <2>2, <3>c, <3>n, Zenon
      <3> QED BY <2>4, <3>1, <3>2, CallsDiffer DEF MainLinks, LinksOf
    <2>7. CASE s # Main
      <3>1. Blocked(Main)' <=> Blocked(Main)
        BY <2>4, <2>5, <2>7, Zenon DEF Blocked, IsReady
      <3> QED BY <1>l, <2>2, <2>3, <2>4, <2>7, <3>1, ZenonT(60)
    <2> QED BY <2>6, <2>7, Zenon
  <1>12. ASSUME FiberYield PROVE MainLinks'
    BY <1>12, <1>k, <1>f, Zenon DEF FiberYield
  <1>13. ASSUME FiberExit PROVE MainLinks'
    BY <1>13, <1>k, <1>f, Zenon DEF FiberExit
  <1>14. ASSUME FiberError PROVE MainLinks'
    BY <1>14, Zenon DEF FiberError, Careful
  <1>15. ASSUME luvL_thread_once PROVE MainLinks'
    <2>1. PICK f \in Fiber : f = Head(queue) /\ f \in Range(queue)
      <3>1. queue \in Seq(Fiber) /\ queue # <<>>
        BY <1>15, <1>a, Zenon DEF luvL_thread_once, TypeInv, TypeOK
      <3> QED BY <3>1, TailQueue, Zenon
    <2>2. IsReady(f) /\ ~IsDead(f)
      BY <1>a, <2>1, Zenon DEF ReadyQueueExact
    <2>3. /\ flags' = [flags EXCEPT ![f] = @ \cup {"FSTART"}]
          /\ call' = [call EXCEPT ![f] = NoCall]
          /\ pc' = "lua" /\ condq' = condq /\ joinq' = joinq /\ sleeping' = sleeping
      BY <1>15, <2>1, <2>2, Zenon DEF luvL_thread_once
    <2>4. flags'[Main] = flags[Main] /\ call'[Main] = call[Main]
      BY <1>a, <2>3, Zenon DEF TypeInv, TypeOK
    <2> QED BY <1>k, <2>3, <2>4, Zenon DEF IsReady
  <1>16. ASSUME luvL_thread_loop PROVE MainLinks'
    BY <1>16, <1>k, <1>f, Zenon DEF luvL_thread_loop
  <1>17. ASSUME JoinersRoused PROVE MainLinks'
    <2>1. PICK g \in Fiber : g = drain
      BY <1>17, <1>a, Zenon DEF JoinersRoused, TypeInv, ControlOK
    <2>2. joinq[g] \in Seq(State) /\ joinq[g] # <<>> /\ IsInjective(joinq[g])
      BY <1>17, <1>a, <2>1, Zenon DEF JoinersRoused, TypeInv, TypeOK, Links
    <2>3. PICK s \in State : s = Head(joinq[g])
      BY <2>2, TailQueue, Zenon
    <2>4. s \in Range(joinq[g]) /\ Range(Tail(joinq[g])) = Range(joinq[g]) \ {s}
      BY <2>2, <2>3, TailQueue
    <2>5. /\ joinq' = [joinq EXCEPT ![g] = Tail(joinq[g])]
          /\ luvL_state_ready(s) /\ call' = call /\ pc' = pc
          /\ condq' = condq /\ sleeping' = sleeping
      BY <1>17, <2>1, <2>3, Zenon DEF JoinersRoused
    <2>6. /\ \A h \in Fiber \ {g} : joinq'[h] = joinq[h]
          /\ Range(joinq'[g]) = Range(joinq[g]) \ {s}
      BY <1>a, <2>4, <2>5, Zenon DEF TypeInv, TypeOK
    <2>7. CASE s = Main
      <3>1. call[Main] = Join(g)
        BY <1>a, <2>4, <2>7, Zenon DEF LinksOf
      <3>2. /\ \A o \in Object : Main \notin Range(condq[o])
            /\ \A h \in Fiber \ {g} : Main \notin Range(joinq[h])
            /\ ~(sleeping[Main] > 0)
        <4>1. \A h \in Fiber : Main \in Range(joinq[h]) => h = g
          <5>1. ASSUME NEW h \in Fiber, Main \in Range(joinq[h]) PROVE Join(h) = Join(g)
            BY <1>a, <3>1, <5>1, Zenon DEF LinksOf
          <5> QED BY <5>1, CallsDiffer, Zenon
        <4>2. \A o \in Object : Main \notin Range(condq[o])
          <5>1. ASSUME NEW o \in Object, Main \in Range(condq[o]) PROVE Wait(o) = Join(g)
            BY <1>a, <3>1, <5>1, Zenon DEF LinksOf
          <5> QED BY <5>1, CallsDiffer, Zenon
        <4>3. ~(sleeping[Main] > 0)
          BY <1>a, <3>1, CallsDiffer, Zenon DEF LinksOf
        <4> QED BY <4>1, <4>2, <4>3, Zenon
      <3>3. ~Blocked(Main)'
        BY <1>m, <2>5, <2>7, Zenon
      <3>4. \A h \in Fiber : Main \notin Range(joinq'[h])
        BY <2>6, <2>7, <3>2, Zenon
      <3>p. \A o \in Object : Main \in Range(condq'[o]) <=> Blocked(Main)' /\ call'[Main] = Wait(o)
        BY <1>a, <2>5, <3>2, <3>3, <3>4, Zenon DEF LinksOf
      <3>q. \A h \in Fiber : Main \in Range(joinq'[h]) <=> Blocked(Main)' /\ call'[Main] = Join(h)
        BY <1>a, <2>5, <3>2, <3>3, <3>4, Zenon DEF LinksOf
      <3>r. sleeping'[Main] > 0 <=> Blocked(Main)' /\ call'[Main] = Sleep
        BY <1>a, <2>5, <3>2, <3>3, <3>4, Zenon DEF LinksOf
      <3>5. LinksOf(Main)'
        BY <3>p, <3>q, <3>r, Zenon DEF LinksOf
      <3> QED BY <1>a, <2>5, <3>5 DEF MainLinks
    <2>8. CASE s # Main
      <3>1. Blocked(Main)' <=> Blocked(Main)
        BY <1>r, <2>5, <2>8, Zenon DEF Blocked
      <3> QED BY <1>a, <1>l, <2>5, <2>6, <2>8, <3>1, ZenonT(60)
    <2> QED BY <2>7, <2>8, Zenon
  <1>18. ASSUME luvL_fiber_close PROVE MainLinks'
    <2>1. drain # Main
      BY <1>18, <1>a, Zenon DEF luvL_fiber_close, TypeInv, ControlOK
    <2>2. IsReady(Main)' <=> IsReady(Main)
      BY <1>18, <1>a, <2>1, Zenon DEF luvL_fiber_close, IsReady, TypeInv, TypeOK
    <2> QED BY <1>18, <2>2, <1>k, Zenon DEF luvL_fiber_close
  <1>19. ASSUME NEW o \in Object, ObjectCb(o) PROVE MainLinks'
    BY <1>19, <1>k, <1>f, Zenon DEF ObjectCb
  <1>20. ASSUME luvL_cond_broadcast PROVE MainLinks'
    <2>1. PICK o \in Object : o = drain
      BY <1>20, <1>a, Zenon DEF luvL_cond_broadcast, TypeInv, ControlOK
    <2>2. condq[o] \in Seq(State) /\ condq[o] # <<>> /\ IsInjective(condq[o])
      BY <1>20, <1>a, <2>1, Zenon DEF luvL_cond_broadcast, TypeInv, TypeOK, Links
    <2>3. PICK s \in State : s = Head(condq[o])
      BY <2>2, TailQueue, Zenon
    <2>4. s \in Range(condq[o]) /\ Range(Tail(condq[o])) = Range(condq[o]) \ {s}
      BY <2>2, <2>3, TailQueue
    <2>5. /\ condq' = [condq EXCEPT ![o] = Tail(condq[o])]
          /\ luvL_state_ready(s) /\ call' = call /\ pc' = pc
          /\ joinq' = joinq /\ sleeping' = sleeping
      BY <1>20, <2>1, <2>3, Zenon DEF luvL_cond_broadcast
    <2>6. /\ \A p \in Object \ {o} : condq'[p] = condq[p]
          /\ Range(condq'[o]) = Range(condq[o]) \ {s}
      BY <1>a, <2>4, <2>5, Zenon DEF TypeInv, TypeOK
    <2>7. CASE s = Main
      <3>1. call[Main] = Wait(o)
        BY <1>a, <2>4, <2>7, Zenon DEF LinksOf
      <3>2. /\ \A p \in Object \ {o} : Main \notin Range(condq[p])
            /\ \A h \in Fiber : Main \notin Range(joinq[h])
            /\ ~(sleeping[Main] > 0)
        <4>1. \A p \in Object : Main \in Range(condq[p]) => p = o
          <5>1. ASSUME NEW p \in Object, Main \in Range(condq[p]) PROVE Wait(p) = Wait(o)
            BY <1>a, <3>1, <5>1, Zenon DEF LinksOf
          <5> QED BY <5>1, CallsDiffer, Zenon
        <4>2. \A h \in Fiber : Main \notin Range(joinq[h])
          <5>1. ASSUME NEW h \in Fiber, Main \in Range(joinq[h]) PROVE Join(h) = Wait(o)
            BY <1>a, <3>1, <5>1, Zenon DEF LinksOf
          <5> QED BY <5>1, CallsDiffer, Zenon
        <4>3. ~(sleeping[Main] > 0)
          BY <1>a, <3>1, CallsDiffer, Zenon DEF LinksOf
        <4> QED BY <4>1, <4>2, <4>3, Zenon
      <3>3. ~Blocked(Main)'
        BY <1>m, <2>5, <2>7, Zenon
      <3>4. \A p \in Object : Main \notin Range(condq'[p])
        BY <2>6, <2>7, <3>2, Zenon
      <3>p. \A p \in Object : Main \in Range(condq'[p]) <=> Blocked(Main)' /\ call'[Main] = Wait(p)
        BY <1>a, <2>5, <3>2, <3>3, <3>4, Zenon DEF LinksOf
      <3>q. \A g \in Fiber : Main \in Range(joinq'[g]) <=> Blocked(Main)' /\ call'[Main] = Join(g)
        BY <1>a, <2>5, <3>2, <3>3, <3>4, Zenon DEF LinksOf
      <3>r. sleeping'[Main] > 0 <=> Blocked(Main)' /\ call'[Main] = Sleep
        BY <1>a, <2>5, <3>2, <3>3, <3>4, Zenon DEF LinksOf
      <3>5. LinksOf(Main)'
        BY <3>p, <3>q, <3>r, Zenon DEF LinksOf
      <3> QED BY <1>a, <2>5, <3>5 DEF MainLinks
    <2>8. CASE s # Main
      <3>1. Blocked(Main)' <=> Blocked(Main)
        BY <1>r, <2>5, <2>8, Zenon DEF Blocked
      <3> QED BY <1>a, <1>l, <2>5, <2>6, <2>8, <3>1, Zenon
    <2> QED BY <2>7, <2>8, Zenon
  <1>21. ASSUME BroadcastDone PROVE MainLinks'
    BY <1>21, <1>k, <1>f, Zenon DEF BroadcastDone
  <1>22. ASSUME NEW s \in State, sleep_cb(s) PROVE MainLinks'
    <2>1. /\ condq' = condq /\ joinq' = joinq /\ pc' = pc /\ call' = call
          /\ luvL_state_ready(s) /\ sleeping' = [sleeping EXCEPT ![s] = @ - 1]
          /\ sleeping[s] > 0
      BY <1>22, Zenon DEF sleep_cb
    <2>2. CASE s = Main
      <3>1. call[Main] = Sleep
        BY <1>a, <2>1, <2>2, Zenon DEF LinksOf
      <3>2. /\ \A p \in Object : Main \notin Range(condq[p])
            /\ \A h \in Fiber : Main \notin Range(joinq[h])
        BY <1>a, <3>1, CallsDiffer, Zenon DEF LinksOf
      <3>3. ~Blocked(Main)'
        BY <1>m, <2>1, <2>2, Zenon
      <3>4. sleeping'[Main] = 0
        BY <1>a, <2>1, <2>2 DEF TypeInv, TypeOK
      <3>p. \A o \in Object : Main \in Range(condq'[o]) <=> Blocked(Main)' /\ call'[Main] = Wait(o)
        BY <1>a, <2>1, <3>2, <3>3, <3>4, Zenon DEF LinksOf
      <3>q. \A g \in Fiber : Main \in Range(joinq'[g]) <=> Blocked(Main)' /\ call'[Main] = Join(g)
        BY <1>a, <2>1, <3>2, <3>3, <3>4, Zenon DEF LinksOf
      <3>z. ~(sleeping'[Main] > 0)
        BY <3>4
      <3>r. sleeping'[Main] > 0 <=> Blocked(Main)' /\ call'[Main] = Sleep
        BY <3>3, <3>z, Zenon
      <3>5. LinksOf(Main)'
        BY <3>p, <3>q, <3>r, Zenon DEF LinksOf
      <3> QED BY <1>a, <2>1, <3>5, <3>4 DEF MainLinks
    <2>3. CASE s # Main
      <3>1. Blocked(Main)' <=> Blocked(Main)
        BY <1>r, <2>1, <2>3, Zenon DEF Blocked
      <3>2. sleeping'[Main] = sleeping[Main]
        BY <1>a, <2>1, <2>3, Zenon DEF TypeInv, TypeOK
      <3> QED BY <1>a, <1>l, <2>1, <3>1, <3>2, ZenonT(60)
    <2> QED BY <2>2, <2>3, Zenon
  <1>23. ASSUME async_cb PROVE MainLinks'
    BY <1>23, <1>a, <1>k, <1>f, Zenon DEF async_cb
  <1>24. ASSUME LoopAgain PROVE MainLinks'
    BY <1>24, <1>k, <1>f, Zenon DEF LoopAgain
  <1>25. ASSUME BackInMain PROVE MainLinks'
    <2>1. ~Blocked(Main)
      BY <1>25, MainLeavesReady, Zenon DEF Blocked
    <2>2. call'[Main] = NoCall /\ pc' = "lua"
      BY <1>25, <1>a, Zenon DEF BackInMain, TypeInv, TypeOK
    <2>3. ~Blocked(Main)'
      BY <2>2, Zenon DEF Blocked
    <2> QED BY <1>25, <1>l, <2>1, <2>2, <2>3, Zenon DEF BackInMain
  <1> QED
    BY <1>1, <1>2, <1>3, <1>4, <1>5, <1>6, <1>7, <1>8, <1>9, <1>10, <1>11, <1>12,
       <1>13, <1>14, <1>15, <1>16, <1>17, <1>18, <1>19, <1>20, <1>21, <1>22, <1>23,
       <1>24, <1>25, SMTT(60)
       DEF Next, LuaKeeps, LuaWaits, Scheduler, Callbacks

LEMMA MainStep ==
  ASSUME Careful, CareInv, Next
  PROVE  MainInv'
  <1>1. MainLinks'
    BY MainLinkStep, Zenon
  <1>2. CallMoves(Main)
    BY CallStep, Zenon DEF State
  <1>3. /\ Running(Main) <=> call[Main] = NoCall
        /\ Running(Main) => IsReady(Main)
    BY Zenon DEF CareInv, MainInv
  <1>4. /\ Running(Main)' <=> call'[Main] = NoCall
        /\ Running(Main)' => IsReady(Main)'
    BY <1>2, <1>3, ZenonT(60) DEF CallMoves
  <1> QED BY <1>1, <1>4, Zenon DEF MainLinks, MainInv

\* Readying a state leaves the async handle referenced if it is, or if the
\* state is a fiber.
LEMMA SendReferences ==
  ASSUME CareInv, NEW s \in State, async' = uv_async_send(s)
  PROVE  /\ async.ref => async'.ref
         /\ s \in Fiber => async'.ref
  <1>a. /\ queue \in Seq(Fiber) /\ async \in [sent : BOOLEAN, ref : BOOLEAN]
        /\ \A f \in Fiber : IsReady(f) => async.ref
        /\ \A f \in Fiber : f \in Range(queue) => IsReady(f)
    BY Zenon DEF CareInv, TypeInv, TypeOK, AliveInv, ReadyQueueExact
  <1>1. CASE IsReady(s)
    <2>1. async' = async
      BY <1>1, Zenon DEF uv_async_send
    <2> QED BY <1>a, <1>1, <2>1, Zenon
  <1>2. CASE ~IsReady(s) /\ s = Main
    <2>1. async' = [async EXCEPT !.sent = TRUE]
      BY <1>2, ZenonT(60) DEF uv_async_send
    <2> QED BY <1>a, <1>2, <2>1, StateAssumption, Zenon
  <1>3. CASE ~IsReady(s) /\ s # Main /\ queue = <<>>
    <2>1. async' = [sent |-> TRUE, ref |-> TRUE]
      BY <1>3, Zenon DEF uv_async_send
    <2> QED BY <2>1
  <1>4. CASE ~IsReady(s) /\ s # Main /\ queue # <<>>
    <2>1. async' = async
      BY <1>4, ZenonT(60) DEF uv_async_send
    <2>2. async.ref
      BY <1>a, <1>4, TailQueue, Zenon
    <2> QED BY <2>1, <2>2, Zenon
  <1> QED BY <1>1, <1>2, <1>3, <1>4, Zenon

\* The async handle stays referenced, and is from the first fiber readied on.
Referenced == (async.ref => async'.ref) /\ \A f \in Fiber : IsReady(f)' => async'.ref

LEMMA ReferenceStep ==
  ASSUME Careful, CareInv, Next
  PROVE  Referenced
  <1> USE StateAssumption
      DEF luaVars, linkVars, readyVars, ctlVars, loopVars
  <1>a. TypeInv /\ \A f \in Fiber : IsReady(f) => async.ref
    BY Zenon DEF CareInv, AliveInv
  <1>k. ASSUME async'.ref = async.ref, \A f \in Fiber : IsReady(f)' => IsReady(f)
        PROVE  Referenced
    BY <1>a, <1>k, Zenon DEF Referenced
  <1>f. ASSUME flags' = flags PROVE \A f \in Fiber : IsReady(f)' => IsReady(f)
    BY <1>f, Zenon DEF IsReady
  <1>s. ASSUME NEW s \in State, async' = uv_async_send(s),
               \A f \in Fiber : IsReady(f)' => IsReady(f) \/ f = s
        PROVE  Referenced
    BY <1>a, <1>s, SendReferences, Zenon DEF Referenced
  <1>r. ASSUME NEW s \in State, luvL_state_ready(s) PROVE Referenced
    <2>1. \A f \in Fiber : IsReady(f)' => IsReady(f) \/ f = s
      BY <1>a, <1>r, Zenon DEF luvL_state_ready, IsReady, TypeInv, TypeOK, State
    <2> QED BY <1>r, <1>s, <2>1, Zenon DEF luvL_state_ready
  <1>1. ASSUME NEW f \in Fiber, luv_new_fiber(f) PROVE Referenced
    BY <1>1, <1>k, <1>f, Zenon DEF luv_new_fiber
  <1>2. ASSUME NEW f \in Fiber, luv_fiber_ready(f) PROVE Referenced
    BY <1>2, <1>r, Zenon DEF luv_fiber_ready, State
  <1>3. ASSUME NEW f \in Fiber, luv_fiber_join_dead(f) PROVE Referenced
    BY <1>3, <1>k, <1>f, Zenon DEF luv_fiber_join_dead
  <1>4. ASSUME NEW t \in Timer, NEW r \in BOOLEAN, luv_timer_start(t, r) PROVE Referenced
    BY <1>4, <1>k, <1>f, Zenon DEF luv_timer_start
  <1>5. ASSUME NEW t \in Timer, luv_timer_again(t) PROVE Referenced
    BY <1>5, <1>k, <1>f, Zenon DEF luv_timer_again
  <1>6. ASSUME NEW i \in Idle, luv_idle_start(i) PROVE Referenced
    BY <1>6, <1>k, <1>f, Zenon DEF luv_idle_start
  <1>7. ASSUME NEW o \in Object, luv_object_stop(o) PROVE Referenced
    BY <1>7, <1>k, <1>f, Zenon DEF luv_object_stop
  <1>8. ASSUME Relink PROVE Referenced
    BY <1>8, NoRelink, Zenon
  <1>9. ASSUME NEW f \in Fiber, luv_fiber_join(f) PROVE Referenced
    <2>1. PICK s \in State : s = curr
      BY <1>a, Zenon DEF TypeInv, TypeOK
    <2>2. flags' = [flags EXCEPT ![f] = @ \cup {"FREADY"}, ![s] = @ \ {"FREADY"}]
      BY <1>9, <2>1, Zenon DEF luv_fiber_join
    <2>3. \A g \in Fiber \ {f} : flags'[g] \in {flags[g], flags[g] \ {"FREADY"}}
      BY <1>a, <2>1, <2>2, Zenon DEF TypeInv, TypeOK, State
    <2>4. \A g \in Fiber : IsReady(g)' => IsReady(g) \/ g = f
      BY <2>3, Zenon DEF IsReady
    <2> QED BY <1>9, <1>s, <2>4, Zenon DEF luv_fiber_join, State
  <1>10. ASSUME NEW o \in Object, luvL_cond_wait(o) PROVE Referenced
    <2>1. \A f \in Fiber : IsReady(f)' => IsReady(f)
      BY <1>10, <1>a, Zenon DEF luvL_cond_wait, IsReady, TypeInv, TypeOK, State
    <2> QED BY <1>10, <1>k, <2>1, Zenon DEF luvL_cond_wait
  <1>11. ASSUME luv_sleep PROVE Referenced
    <2>1. \A f \in Fiber : IsReady(f)' => IsReady(f)
      BY <1>11, <1>a, Zenon DEF luv_sleep, IsReady, TypeInv, TypeOK, State
    <2> QED BY <1>11, <1>k, <2>1, Zenon DEF luv_sleep
  <1>12. ASSUME FiberYield PROVE Referenced
    BY <1>12, <1>k, <1>f, Zenon DEF FiberYield
  <1>13. ASSUME FiberExit PROVE Referenced
    BY <1>13, <1>k, <1>f, Zenon DEF FiberExit
  <1>14. ASSUME FiberError PROVE Referenced
    BY <1>14, Zenon DEF FiberError, Careful
  <1>15. ASSUME luvL_thread_once PROVE Referenced
    <2>1. PICK f \in Fiber : f = Head(queue)
      <3>1. queue \in Seq(Fiber) /\ queue # <<>>
        BY <1>15, <1>a, Zenon DEF luvL_thread_once, TypeInv, TypeOK
      <3> QED BY <3>1, TailQueue, Zenon
    <2>2. flags' = flags \/ flags' = [flags EXCEPT ![f] = @ \cup {"FSTART"}]
      BY <1>15, <2>1, Zenon DEF luvL_thread_once
    <2>3. \A g \in Fiber : flags'[g] \in {flags[g], flags[g] \cup {"FSTART"}}
      BY <1>a, <2>2, Zenon DEF TypeInv, TypeOK, State
    <2>4. \A g \in Fiber : IsReady(g)' => IsReady(g)
      BY <2>3 DEF IsReady
    <2> QED BY <1>15, <1>k, <2>4, Zenon DEF luvL_thread_once
  <1>16. ASSUME luvL_thread_loop PROVE Referenced
    BY <1>16, <1>k, <1>f, Zenon DEF luvL_thread_loop
  <1>17. ASSUME JoinersRoused PROVE Referenced
    <2>1. Head(joinq[drain]) \in State
      BY <1>17, <1>a, TailQueue DEF JoinersRoused, TypeInv, TypeOK, ControlOK
    <2> QED BY <1>17, <2>1, <1>r, Zenon DEF JoinersRoused
  <1>18. ASSUME luvL_fiber_close PROVE Referenced
    <2>1. \A f \in Fiber : IsReady(f)' => IsReady(f)
      BY <1>18, <1>a, Zenon DEF luvL_fiber_close, IsReady, TypeInv, TypeOK, ControlOK, State
    <2> QED BY <1>18, <2>1, <1>k, Zenon DEF luvL_fiber_close
  <1>19. ASSUME NEW o \in Object, ObjectCb(o) PROVE Referenced
    BY <1>19, <1>k, <1>f, Zenon DEF ObjectCb
  <1>20. ASSUME luvL_cond_broadcast PROVE Referenced
    <2>1. Head(condq[drain]) \in State
      BY <1>20, <1>a, TailQueue DEF luvL_cond_broadcast, TypeInv, TypeOK, ControlOK
    <2> QED BY <1>20, <2>1, <1>r, Zenon DEF luvL_cond_broadcast
  <1>21. ASSUME BroadcastDone PROVE Referenced
    BY <1>21, <1>k, <1>f, Zenon DEF BroadcastDone
  <1>22. ASSUME NEW s \in State, sleep_cb(s) PROVE Referenced
    BY <1>22, <1>r, Zenon DEF sleep_cb
  <1>23. ASSUME async_cb PROVE Referenced
    BY <1>23, <1>a, <1>k, <1>f DEF async_cb, TypeInv, TypeOK
  <1>24. ASSUME LoopAgain PROVE Referenced
    BY <1>24, <1>k, <1>f, Zenon DEF LoopAgain
  <1>25. ASSUME BackInMain PROVE Referenced
    <2>1. \A f \in Fiber : IsReady(f)' => IsReady(f)
      BY <1>25, <1>a, Zenon DEF BackInMain, IsReady, TypeInv, TypeOK, State
    <2> QED BY <1>25, <1>k, <2>1, Zenon DEF BackInMain
  <1> QED
    BY <1>1, <1>2, <1>3, <1>4, <1>5, <1>6, <1>7, <1>8, <1>9, <1>10, <1>11, <1>12,
       <1>13, <1>14, <1>15, <1>16, <1>17, <1>18, <1>19, <1>20, <1>21, <1>22, <1>23,
       <1>24, <1>25, SMTT(60)
       DEF Next, LuaKeeps, LuaWaits, Scheduler, Callbacks

\* What keeps the loop running when no fiber has ever been readied.
Awaited ==
  \/ sleeping[Main] > 0
  \/ \E o \in Object : /\ Main \in Range(condq[o])
                       /\ armed[o] \/ (pc = "rouse" /\ drain = o)

LEMMA AliveStep ==
  ASSUME Careful, CareInv, Next
  PROVE  AliveInv'
  <1>0. Referenced
    BY ReferenceStep, Zenon
  <1> SUFFICES ASSUME Blocked(Main)', ~async'.ref PROVE Awaited'
    BY <1>0, ZenonT(60) DEF AliveInv, Awaited, Referenced
  <1> USE StateAssumption
      DEF luaVars, linkVars, readyVars, ctlVars, loopVars
  <1>a. /\ TypeInv /\ ReadyQueueExact /\ Main \in State
        /\ ~async.ref /\ (\A f \in Fiber : ~IsReady(f) /\ ~IsReady(f)')
    BY <1>0, Zenon DEF CareInv, AliveInv, Referenced, State
  <1>b. /\ queue = <<>> /\ pc # "exit"
        /\ pc \in {"lua", "broken"} => curr = Main
    <2>1. \A f \in Fiber : f \notin Range(queue) /\ ~Running(f) /\ ~Exiting(f)
      BY <1>a, Zenon DEF ReadyQueueExact
    <2>2. queue = <<>>
      BY <1>a, <2>1, TailQueue DEF TypeInv, TypeOK
    <2>3. pc # "exit"
      BY <1>a, <2>1, Zenon DEF Exiting, TypeInv, ControlOK
    <2>4. pc \in {"lua", "broken"} => curr = Main
      BY <1>a, <2>1, Zenon DEF Running, TypeInv, TypeOK, State
    <2> QED BY <2>2, <2>3, <2>4, Zenon
  <1>c. ~IsReady(Main)' /\ CallMoves(Main)
    BY <1>a, CallStep, Zenon DEF Blocked
  <1>d. CASE pc = "lua"
    <2>1. pc' = "once"
      <3>1. Running(Main) /\ call[Main] = NoCall /\ IsReady(Main)
        BY <1>b, <1>d, Zenon DEF Running, CareInv, MainInv
      <3> QED BY <1>c, <3>1, Zenon DEF CallMoves
    <2>2. curr \notin Fiber
      BY <1>b, <1>d, Zenon
    <2>3. (\E o \in Object : luvL_cond_wait(o)) \/ luv_sleep \/ (\E f \in Fiber : luv_fiber_join(f))
      <3>1. ~LuaKeeps
        BY <1>d, <2>1, Zenon
        DEF LuaKeeps, luv_new_fiber, luv_fiber_ready, luv_fiber_join_dead,
              luv_timer_start, luv_timer_again, luv_idle_start, luv_object_stop, Relink
      <3>2. ~FiberYield /\ ~FiberExit /\ ~FiberError
        BY <2>2, Zenon DEF FiberYield, FiberExit, FiberError
      <3>3. ~Scheduler /\ ~Callbacks
        BY <1>d, Zenon
        DEF Scheduler, Callbacks, luvL_thread_once, luvL_thread_loop, JoinersRoused,
              luvL_fiber_close, LoopAgain, BackInMain, UvReturns, ObjectCb, sleep_cb,
              luvL_cond_broadcast, BroadcastDone, async_cb
      <3> QED BY <3>1, <3>2, <3>3, Zenon DEF Next, LuaWaits
    <2>4. ASSUME NEW o \in Object, luvL_cond_wait(o) PROVE Awaited'
      <3>1. armed[o] /\ armed' = armed
        BY <1>a, <1>b, <1>d, <2>4, Zenon DEF luvL_cond_wait, MayWait, Careful
      <3>2. Range(condq'[o]) = Range(condq[o]) \cup {Main}
        <4>1. condq' = [condq EXCEPT ![o] = Append(condq[o], Main)]
          BY <1>b, <1>d, <2>4, Zenon DEF luvL_cond_wait
        <4> QED BY <1>a, <4>1, AppendQueue DEF TypeInv, TypeOK
      <3> QED BY <3>1, <3>2, Zenon DEF Awaited
    <2>5. ASSUME luv_sleep PROVE Awaited'
      <3>1. sleeping' = [sleeping EXCEPT ![Main] = @ + 1]
        BY <1>b, <1>d, <2>5, Zenon DEF luv_sleep
      <3>2. sleeping'[Main] = sleeping[Main] + 1 /\ sleeping[Main] \in Nat
        BY <1>a, <3>1, MaxSleepAssumption DEF TypeInv, TypeOK
      <3> QED BY <3>2 DEF Awaited
    <2>6. ASSUME NEW f \in Fiber, luv_fiber_join(f) PROVE FALSE
      <3>1. async' = uv_async_send(f)
        BY <2>6, Zenon DEF luv_fiber_join
      <3> QED BY <1>a, <3>1, SendReferences, Zenon DEF State
    <2> QED BY <2>3, <2>4, <2>5, <2>6, Zenon
  <1>e. CASE pc # "lua"
    <2>1. pc # "broken" /\ ~Running(Main)
      BY <1>e, Zenon DEF CareInv, MainInv, Running
    <2>2. ~IsReady(Main) /\ call'[Main] = call[Main] /\ Blocked(Main)
      BY <1>c, <2>1, Zenon DEF CallMoves, Blocked, CareInv, MainInv
    <2>3. Awaited
      BY <1>a, <2>2, Zenon DEF CareInv, AliveInv, Awaited
    <2>4. \A o \in Object : Main \in Range(condq[o]) => call[Main] = Wait(o)
      BY Zenon DEF CareInv, MainInv, LinksOf
    <2>5. ASSUME condq' = condq, armed' = armed, sleeping' = sleeping, pc # "rouse"
          PROVE  Awaited'
      BY <2>3, <2>5, Zenon DEF Awaited
    <2>6. CASE luvL_thread_loop
      BY <2>5, <2>6, Zenon DEF luvL_thread_loop
    <2>7. ASSUME NEW o \in Object, ObjectCb(o) PROVE Awaited'
      <3>1. /\ pc = "poll" /\ pc' = "rouse" /\ drain' = o
            /\ condq' = condq /\ sleeping' = sleeping
            /\ \A p \in Object \ {o} : armed'[p] = armed[p]
        BY <1>a, <2>7, Zenon DEF ObjectCb, TypeInv, TypeOK
      <3> QED BY <2>3, <3>1, Zenon DEF Awaited
    <2>8. CASE luvL_cond_broadcast
      <3>1. PICK o \in Object : o = drain
        BY <1>a, <2>8, Zenon DEF luvL_cond_broadcast, TypeInv, ControlOK
      <3>2. condq[o] \in Seq(State) /\ condq[o] # <<>>
        BY <1>a, <2>8, <3>1, Zenon DEF luvL_cond_broadcast, TypeInv, TypeOK
      <3>3. PICK s \in State : s = Head(condq[o])
        BY <3>2, TailQueue, Zenon
      <3>4. Range(condq[o]) = Range(Tail(condq[o])) \cup {s}
        BY <3>2, <3>3, TailQueue, Zenon
      <3>5. s # Main
        <4>1. luvL_state_ready(s)
          BY <2>8, <3>1, <3>3, Zenon DEF luvL_cond_broadcast
        <4> QED BY <1>a, <1>c, <4>1, Zenon DEF luvL_state_ready, IsReady, TypeInv, TypeOK
      <3>6. \A p \in Object : Main \in Range(condq[p]) => Main \in Range(condq'[p])
        <4>1. condq' = [condq EXCEPT ![o] = Tail(condq[o])]
          BY <2>8, <3>1, Zenon DEF luvL_cond_broadcast
        <4> QED BY <1>a, <3>4, <3>5, <4>1 DEF TypeInv, TypeOK
      <3> QED BY <2>3, <2>8, <3>6, Zenon DEF Awaited, luvL_cond_broadcast
    <2>9. CASE BroadcastDone
      <3>1. PICK o \in Object : o = drain /\ Range(condq[o]) = {}
        <4>1. drain \in Object /\ condq[drain] = <<>>
          BY <1>a, <2>9, Zenon DEF BroadcastDone, TypeInv, ControlOK
        <4> QED BY <4>1 DEF Range
      <3> QED BY <2>3, <2>9, <3>1, Zenon DEF Awaited, BroadcastDone
    <2>10. ASSUME NEW s \in State, sleep_cb(s) PROVE Awaited'
      <3>1. s # Main
        BY <1>a, <1>c, <2>10, Zenon DEF sleep_cb, luvL_state_ready, IsReady, TypeInv, TypeOK
      <3>2. sleeping'[Main] = sleeping[Main] /\ condq' = condq /\ armed' = armed /\ pc = "poll"
        BY <1>a, <2>10, <3>1, Zenon DEF sleep_cb, TypeInv, TypeOK
      <3> QED BY <2>3, <3>2, Zenon DEF Awaited
    <2>11. CASE async_cb
      BY <2>5, <2>11, Zenon DEF async_cb
    <2>12. CASE LoopAgain
      BY <2>5, <2>12, Zenon DEF LoopAgain, UvReturns
    <2>13. CASE BackInMain
      BY <2>2, <2>13, MainLeavesReady, Zenon
    <2>14. /\ ~LuaKeeps /\ ~LuaWaits /\ ~FiberYield /\ ~FiberExit /\ ~FiberError
           /\ ~luvL_thread_once /\ ~JoinersRoused /\ ~luvL_fiber_close
      <3>1. ~LuaKeeps
        BY <1>e, Zenon DEF LuaKeeps, luv_new_fiber, luv_fiber_ready, luv_fiber_join_dead,
              luv_timer_start, luv_timer_again, luv_idle_start, luv_object_stop, Relink,
              MayJoin, MayWait
      <3>2. ~LuaWaits /\ ~FiberYield /\ ~FiberExit /\ ~FiberError
        BY <1>e, Zenon
        DEF LuaWaits, luv_fiber_join, MayJoin, luvL_cond_wait, MayWait, luv_sleep,
              FiberYield, FiberExit, FiberError
      <3>3. ~luvL_thread_once /\ ~JoinersRoused /\ ~luvL_fiber_close
        BY <1>b, Zenon DEF luvL_thread_once, JoinersRoused, luvL_fiber_close
      <3> QED BY <3>1, <3>2, <3>3, Zenon
    <2> QED
      BY <2>6, <2>7, <2>8, <2>9, <2>10, <2>11, <2>12, <2>13, <2>14, Zenon
         DEF Next, Scheduler, Callbacks
  <1> QED BY <1>d, <1>e, Zenon

-----------------------------------------------------------------------------
(* What a careful program may rely on *)

LEMMA CareInit == Init => CareInv
  <1> SUFFICES ASSUME Init PROVE CareInv
    OBVIOUS
  <1>1. TypeInv /\ ReadyQueueExact /\ BornInv /\ Links
    BY TypeInit, QueueInit, BornInit, LinksInit, Zenon
  <1>2. /\ Main \in State /\ IsReady(Main) /\ Running(Main) /\ call[Main] = NoCall
        /\ \A f \in Fiber : ~IsReady(f) /\ ~IsDead(f) /\ ~Exiting(f)
        /\ \A s \in State : call[s] = NoCall
        /\ sleeping[Main] = 0 /\ pc = "lua" /\ ~Blocked(Main)
    BY StateAssumption, Zenon
       DEF Init, State, IsReady, Running, IsDead, Exiting, Blocked
  <1>3. MainInv
    <2>1. Range(<<>>) = {}
      BY DEF Range
    <2> QED BY <1>2, <2>1 DEF MainInv, LinksOf, Init
  <1>4. AliveInv /\ JoinInv /\ ValueInv
    BY <1>2, CallsDiffer, Zenon DEF AliveInv, JoinInv, ValueInv
  <1> QED BY <1>1, <1>3, <1>4, Zenon DEF CareInv

\* A step that changes nothing.
LEMMA CareStutter ==
  ASSUME CareInv, UNCHANGED vars
  PROVE  MainInv' /\ AliveInv' /\ JoinInv' /\ ValueInv'
  <1> USE DEF vars, luaVars, linkVars, readyVars, ctlVars, loopVars
  <1>1. MainInv'
    BY Zenon DEF CareInv, MainInv, LinksOf, Running, IsReady, Blocked
  <1>2. AliveInv'
    BY Zenon DEF CareInv, AliveInv, IsReady, Blocked
  <1>3. JoinInv' /\ ValueInv'
    BY Zenon DEF CareInv, JoinInv, ValueInv, IsReady, IsDead, Exiting
  <1> QED BY <1>1, <1>2, <1>3, Zenon

LEMMA CareStep == Careful /\ CareInv /\ [Next]_vars => CareInv'
  <1> SUFFICES ASSUME Careful, CareInv, [Next]_vars PROVE CareInv'
    OBVIOUS
  <1>1. TypeInv' /\ ReadyQueueExact' /\ BornInv' /\ Links'
    BY TypeStep, QueueStep, BornStep, LinksStep, Zenon DEF CareInv, Careful, Disciplined
  <1>2. MainInv' /\ AliveInv' /\ JoinInv' /\ ValueInv'
    BY MainStep, AliveStep, JoinStep, ValueStep, CareStutter, Zenon
  <1> QED BY <1>1, <1>2, Zenon DEF CareInv

LEMMA CareInvariant == Spec => [](Careful => CareInv)
  <1>1. Init => (Careful => CareInv)
    BY CareInit, Zenon
  <1>2. (Careful => CareInv) /\ [Next]_vars => (Careful => CareInv)'
    BY CareStep, Zenon DEF Careful
  <1> QED BY <1>1, <1>2, PTL DEF Spec

\* In a program that takes no risk, no call links a node that is linked
\* already, in Main or in a fiber.
THEOREM NoNodeTwice == Spec => []NeverRelinked
  <1>1. (Careful => CareInv) => NeverRelinked
    BY Zenon DEF Careful, CareInv, MainInv, NeverRelinked
  <1> QED BY <1>1, CareInvariant, PTL

\* What OnlyItsCause and MainJoinValues say of one step.
Causes ==
  \A s \in State :
    /\ \A o \in Object : Blocked(s) /\ call[s] = Wait(o) /\ ~Blocked(s)'
                           => pc = "rouse" /\ drain = o
    /\ \A f \in Fiber : call[s] = Join(f) /\ call'[s] # Join(f) => IsDead(f)
    /\ call[s] = Sleep /\ call'[s] # Sleep => sleeping[s] = 0

Values ==
  \A f \in Fiber :
    /\ call[Main] = Join(f) /\ call'[Main] = NoCall => stack'[Main] = <<f>>
    /\ IsDead(f) => stack'[f] = stack[f]

LEMMA CausesStep ==
  ASSUME Careful, CareInv, Next
  PROVE  Causes
  <1> SUFFICES ASSUME NEW s \in State
               PROVE  /\ \A o \in Object : Blocked(s) /\ call[s] = Wait(o) /\ ~Blocked(s)'
                                             => pc = "rouse" /\ drain = o
                      /\ \A f \in Fiber : call[s] = Join(f) /\ call'[s] # Join(f) => IsDead(f)
                      /\ call[s] = Sleep /\ call'[s] # Sleep => sleeping[s] = 0
    BY Zenon DEF Causes
  <1>1. CallMoves(s) /\ LinksOf(s) /\ sleeping[s] \in {0, 1}
    BY CallStep, AllLinked, Zenon
  <1>2. ASSUME NEW o \in Object, Blocked(s), call[s] = Wait(o), ~Blocked(s)'
        PROVE  pc = "rouse" /\ drain = o
    <2>1. ~IsReady(s) /\ call[s] # NoCall
      BY <1>2, Zenon DEF Blocked
    <2>2. IsReady(s)'
      BY <1>1, <1>2, <2>1, Zenon DEF CallMoves, Blocked
    <2>3. Woken(s)
      BY <2>1, <2>2, Wakes, Zenon
    <2>4. /\ pc = "exit" => drain \in Fiber
          /\ pc = "rouse" => drain \in Object
      BY Zenon DEF CareInv, TypeInv, ControlOK
    <2> QED BY <1>2, <2>3, <2>4, CallsDiffer, Zenon DEF Woken
  <1>3. ASSUME NEW c \in Call, c # NoCall, call[s] = c, call'[s] # c
        PROVE  IsReady(s) /\ pc \in {"once", "poll"}
    BY <1>1, <1>3, Zenon DEF CallMoves
  <1>4. ASSUME NEW f \in Fiber, call[s] = Join(f), call'[s] # Join(f)
        PROVE  IsDead(f)
    <2>1. IsReady(s) /\ pc \in {"once", "poll"}
      BY <1>3, <1>4, ValueTypes, CallsDiffer, Zenon
    <2> QED BY <1>4, <2>1, Zenon DEF CareInv, JoinInv, Exiting
  <1>5. ASSUME call[s] = Sleep, call'[s] # Sleep
        PROVE  sleeping[s] = 0
    <2>1. ~Blocked(s)
      BY <1>3, <1>5, ValueTypes, CallsDiffer, Zenon DEF Blocked
    <2> QED BY <1>1, <2>1 DEF LinksOf
  <1> QED BY <1>2, <1>4, <1>5, Zenon

LEMMA ValuesStep ==
  ASSUME Careful, CareInv, Next
  PROVE  Values
  <1> SUFFICES ASSUME NEW f \in Fiber
               PROVE  /\ call[Main] = Join(f) /\ call'[Main] = NoCall => stack'[Main] = <<f>>
                      /\ IsDead(f) => stack'[f] = stack[f]
    BY Zenon DEF Values
  <1>1. IsDead(f) => stack'[f] = stack[f]
    BY EndedStays, Zenon DEF Ended
  <1>2. ASSUME call[Main] = Join(f), call'[Main] = NoCall
        PROVE  stack'[Main] = <<f>>
    <2>1. Main \in State /\ TypeInv /\ ReadyQueueExact
      BY Zenon DEF State, CareInv
    <2>2. IsReady(Main) /\ pc \in {"once", "poll"}
      <3>1. CallMoves(Main)
        BY <2>1, CallStep, Zenon
      <3> QED BY <1>2, <3>1, CallsDiffer, Zenon DEF CallMoves
    <2>3. stack[f] = <<f>>
      BY <1>2, <2>1, <2>2, Zenon DEF CareInv, JoinInv, ValueInv, Exiting
    <2>4. BackInMain
      <3>1. ~UNCHANGED call
        BY <1>2, CallsDiffer, Zenon
      <3>2. ~luvL_thread_once
        <4> SUFFICES ASSUME luvL_thread_once PROVE FALSE
          OBVIOUS
        <4>1. PICK g \in Fiber : g = Head(queue) /\ g \in Range(queue)
          <5>1. queue \in Seq(Fiber) /\ queue # <<>>
            BY <2>1, Zenon DEF luvL_thread_once, TypeInv, TypeOK
          <5> QED BY <5>1, TailQueue, Zenon
        <4>2. ~IsDead(g)
          BY <2>1, <4>1, Zenon DEF ReadyQueueExact
        <4>3. call' = [call EXCEPT ![g] = NoCall]
          BY <4>1, <4>2, Zenon DEF luvL_thread_once
        <4>4. call'[Main] = call[Main]
          BY <2>1, <4>1, <4>3, StateAssumption, Zenon DEF TypeInv, TypeOK
        <4> QED BY <1>2, <4>4, CallsDiffer, Zenon
      <3>3. ~LuaKeeps /\ ~LuaWaits /\ ~FiberYield /\ ~FiberExit /\ ~FiberError
        <4>1. ~LuaKeeps
          BY <2>2, Zenon DEF LuaKeeps, luv_new_fiber, luv_fiber_ready, luv_fiber_join_dead,
                luv_timer_start, luv_timer_again, luv_idle_start, luv_object_stop, Relink,
                MayJoin, MayWait
        <4>2. ~LuaWaits /\ ~FiberYield /\ ~FiberExit /\ ~FiberError
          BY <2>2, Zenon
          DEF LuaWaits, luv_fiber_join, MayJoin, luvL_cond_wait, MayWait, luv_sleep,
                FiberYield, FiberExit, FiberError
        <4> QED BY <4>1, <4>2, Zenon
      <3>4. ~luvL_thread_loop /\ ~JoinersRoused /\ ~luvL_fiber_close /\ ~LoopAgain
        BY <3>1, Zenon
        DEF luvL_thread_loop, JoinersRoused, luvL_fiber_close, LoopAgain, luaVars
      <3>5. ~Callbacks
        BY <3>1, Zenon
        DEF Callbacks, ObjectCb, sleep_cb, luvL_cond_broadcast, BroadcastDone,
              async_cb, luaVars
      <3> QED BY <3>2, <3>3, <3>4, <3>5, Zenon DEF Next, Scheduler
    <2>5. call[Main].op = "join" /\ call[Main].on = f
      BY <1>2 DEF Join
    <2>6. stack' = [stack EXCEPT ![Main] = stack[f]]
      BY <2>4, <2>5, Zenon DEF BackInMain
    <2> QED BY <2>1, <2>3, <2>6, Zenon DEF TypeInv, TypeOK
  <1> QED BY <1>1, <1>2, Zenon

\* In a program that takes no risk, a state leaves a wait only for the object,
\* the fiber or the timer it waited for.
THEOREM WakesForItsCause == ASSUME Risks = {} PROVE Spec => OnlyItsCause
  <1>1. Careful
    BY Zenon DEF Careful
  <1>2. CareInv /\ [Next]_vars => [Causes]_vars
    BY <1>1, CausesStep, Zenon
  <1>3. (Careful => CareInv) => CareInv
    BY <1>1, Zenon
  <1> QED BY <1>2, <1>3, CareInvariant, PTL DEF Spec, OnlyItsCause, Causes

\* In a program that takes no risk, fiber:join gives Main what the fiber
\* returned, and a fiber that has ended keeps its values.
THEOREM JoinGivesValues == ASSUME Risks = {} PROVE Spec => MainJoinValues
  <1>1. Careful
    BY Zenon DEF Careful
  <1>2. CareInv /\ [Next]_vars => [Values]_vars
    BY <1>1, ValuesStep, Zenon
  <1>3. (Careful => CareInv) => CareInv
    BY <1>1, Zenon
  <1> QED BY <1>2, <1>3, CareInvariant, PTL DEF Spec, MainJoinValues, Values
=============================================================================
