-------------------------- MODULE LuvThread_proof --------------------------
(***************************************************************************)
(* ChildCanSuspend and CutShortByJoinOnly of LuvThread, for any number of  *)
(* waits and handles and for every set of risks.                           *)
(***************************************************************************)
EXTENDS LuvThread, TLAPS

Flag == {"FREADY", "FDEAD"}

\* The part of the type invariant that the proofs need.
TypeInv ==
  /\ waits \in Nat
  /\ cflags \subseteq Flag /\ cseen \subseteq Flag /\ jseen \subseteq Flag

\* Until the child suspends, FREADY is set: the joining thread never clears it.
\* The child does not exist before luv_new_thread, and polls only in a wait.
ReadyInv ==
  /\ cpc \in {"clear", "poll", "cb", "restore"} => waits > 0
  /\ jpc = "spawn" <=> cpc = "unborn"
  /\ cpc \in {"unborn", "lua", "clear"} => IsReady(cflags)

\* As long as join has not been called, only callbacks ready the child.  All waits
\* but the last have had theirs, and the last one too if the child goes on, or is
\* about to.  So the callback of an earlier wait is never still to come.
UncutInv ==
  jpc \in {"spawn", "lua"} =>
    /\ early = {}
    /\ \A w \in 1 .. waits : w < waits => w \in due
    /\ \/ cpc \notin {"clear", "poll"}
       \/ cpc = "poll" /\ IsReady(cflags)
       => waits = 0 \/ waits \in due

IInv == TypeInv /\ ReadyInv /\ UncutInv

Values == <<"true", "values">>

\* The child leaves its values on its stack, and the joining thread copies them when
\* the child has ended.
ValuesInv ==
  /\ jpc = "spawn" => cpc = "unborn"
  /\ cpc \in {"dying", "gone"} => stack = Values
  /\ jpc = "done" => cpc = "gone" /\ jret = Values

-----------------------------------------------------------------------------
(* IInv is inductive *)

\* The invariant holds before the thread is spawned.
LEMMA InitIInv == Init => IInv
  BY DEF Init, IInv, TypeInv, ReadyInv, UncutInv, Flag, IsReady

\* The steps of the child preserve the types.
LEMMA ChildTypes ==
  ASSUME TypeInv, ChildStep
  PROVE  TypeInv'
  <1> USE DEF TypeInv, Flag, joiner
  <1>1. CASE luvL_thread_suspend
    BY <1>1 DEF luvL_thread_suspend
  <1>2. CASE SuspendClears
    BY <1>2, Zenon DEF SuspendClears
  <1>3. CASE WaitCbSets
    BY <1>3, Zenon DEF WaitCbSets
  <1>4. CASE LoopAgain
    BY <1>4, Zenon DEF LoopAgain
  <1>5. CASE BackInMain
    BY <1>5, Zenon DEF BackInMain
  <1>6. CASE _thread_enter_returns
    BY <1>6, Zenon DEF _thread_enter_returns
  <1>7. CASE _thread_enter_ends
    BY <1>7, Zenon DEF _thread_enter_ends
  <1>8. CASE _thread_enter_fails
    BY <1>8, Zenon DEF _thread_enter_fails
  <1> QED
    BY <1>1, <1>2, <1>3, <1>4, <1>5, <1>6, <1>7, <1>8, Zenon DEF ChildStep

\* So do those of the joining thread.
LEMMA JoinTypes ==
  ASSUME TypeInv, JoinStep \/ HandleEnds
  PROVE  TypeInv'
  BY Zenon
  DEF TypeInv, Flag, JoinStep, child, luv_new_thread, luv_thread_join, JoinSets, JoinSends,
         JoinSuspends, HandleEnds, JoinLoopEnds, JoinCopies

\* A step of the child preserves the invariant.
LEMMA ChildIInv ==
  ASSUME IInv, ChildStep
  PROVE  IInv'
  <1>1. TypeInv'
    BY ChildTypes, Zenon DEF IInv
  <1>2. ReadyInv'
    BY DEF IInv, TypeInv, ReadyInv, IsReady, ChildStep, joiner, luvL_thread_suspend,
           SuspendClears, WaitCbSets, LoopAgain, BackInMain, _thread_enter_returns,
           _thread_enter_ends, _thread_enter_fails
  <1>3. UncutInv'
    <2> USE DEF IInv, TypeInv, ReadyInv, UncutInv, IsReady, joiner
    <2>1. CASE luvL_thread_suspend
      BY <2>1 DEF luvL_thread_suspend
    <2>2. CASE SuspendClears
      BY <2>2, Zenon DEF SuspendClears
    <2>3. CASE WaitCbSets
      BY <2>3, Zenon DEF WaitCbSets
    <2>4. CASE LoopAgain
      BY <2>4, Zenon DEF LoopAgain
    <2>5. CASE BackInMain
      BY <2>5 DEF BackInMain
    <2>6. CASE _thread_enter_returns \/ _thread_enter_ends \/ _thread_enter_fails
      BY <2>6 DEF _thread_enter_returns, _thread_enter_ends, _thread_enter_fails
    <2> QED
      BY <2>1, <2>2, <2>3, <2>4, <2>5, <2>6, Zenon DEF ChildStep
  <1> QED
    BY <1>1, <1>2, <1>3, Zenon DEF IInv

\* A callback is that of the last wait, unless the child has been joined.
LEMMA CallbackIInv ==
  ASSUME IInv, NEW w \in Wait, WaitCb(w)
  PROVE  IInv'
  <1>1. w \in Nat /\ w > 0
    BY ThreadBoundsAssumption DEF Wait
  <1>2. TypeInv' /\ ReadyInv'
    BY Zenon DEF IInv, TypeInv, ReadyInv, IsReady, WaitCb, joiner
  <1>3. UncutInv'
    BY <1>1 DEF IInv, TypeInv, ReadyInv, UncutInv, IsReady, WaitCb, joiner
  <1> QED
    BY <1>2, <1>3, Zenon DEF IInv

\* The joining thread changes the child's flags only by setting FREADY, and only
\* after join has been called.
LEMMA JoinIInv ==
  ASSUME IInv, JoinStep \/ HandleEnds
  PROVE  IInv'
  <1>1. TypeInv'
    BY JoinTypes, Zenon DEF IInv
  <1>2. ReadyInv'
    BY Zenon
    DEF IInv, TypeInv, ReadyInv, IsReady, JoinStep, child, luv_new_thread, luv_thread_join,
           JoinSets, JoinSends, JoinSuspends, HandleEnds, JoinLoopEnds, JoinCopies
  <1>3. UncutInv'
    BY DEF IInv, TypeInv, ReadyInv, UncutInv, IsReady, JoinStep, child, luv_new_thread,
           luv_thread_join, JoinSets, JoinSends, JoinSuspends, HandleEnds, JoinLoopEnds,
           JoinCopies
  <1> QED
    BY <1>1, <1>2, <1>3, Zenon DEF IInv

\* Every behaviour satisfies the invariant.
LEMMA Invariance == Spec => []IInv
  <1>1. IInv /\ [Next]_vars => IInv'
    <2> SUFFICES ASSUME IInv, [Next]_vars
                 PROVE  IInv'
      OBVIOUS
    <2>1. CASE UNCHANGED vars
      BY <2>1, Zenon DEF IInv, TypeInv, ReadyInv, UncutInv, IsReady, vars, child, joiner
    <2>2. CASE Ends \/ Panicked
      BY <2>1, <2>2, Zenon DEF Ends, Panicked
    <2> QED
      BY <2>1, <2>2, ChildIInv, JoinIInv, CallbackIInv, Zenon DEF Next
  <1> QED
    BY InitIInv, <1>1, PTL DEF Spec

-----------------------------------------------------------------------------
(* Theorems *)

\* Whatever the interleaving of the unlocked reads and writes of the child's flags
\* by thread:join and by the child, its Lua code never runs with FREADY clear: every
\* luvL_thread_suspend suspends.
THEOREM ChildSuspends == Spec => []ChildCanSuspend
  <1>1. IInv => ChildCanSuspend
    BY Zenon DEF IInv, ReadyInv, ChildCanSuspend
  <1> QED
    BY Invariance, <1>1, PTL

\* A wait of the child ends before its own callback only after thread:join has been
\* called: late callbacks of earlier waits do not cut it short.
THEOREM OnlyJoinCutsShort == Spec => []CutShortByJoinOnly
  <1>1. IInv => CutShortByJoinOnly
    BY Zenon DEF IInv, UncutInv, CutShortByJoinOnly
  <1> QED
    BY Invariance, <1>1, PTL

\* join returns only when the OS thread has ended, and returns what the child's
\* function returned, also if the joining thread's loop gave up waiting for it.
THEOREM JoinReturnsValues == Spec => [](jpc = "done" => cpc = "gone" /\ jret = Values)
  <1>1. Init => ValuesInv
    BY Zenon DEF Init, ValuesInv
  <1>2. ValuesInv /\ [Next]_vars => ValuesInv'
    <2> SUFFICES ASSUME ValuesInv, [Next]_vars
                 PROVE  ValuesInv'
      OBVIOUS
    <2> USE DEF ValuesInv
    <2>1. CASE UNCHANGED vars
      BY <2>1, Zenon DEF vars, child, joiner
    <2>2. CASE ChildStep
      BY <2>2, Zenon
      DEF ChildStep, joiner, Values, luvL_thread_suspend, SuspendClears, WaitCbSets,
         LoopAgain, BackInMain, _thread_enter_returns, _thread_enter_ends, _thread_enter_fails
    <2>3. CASE \E w \in Wait : WaitCb(w)
      BY <2>3, Zenon DEF WaitCb, joiner
    <2>4. CASE JoinStep \/ HandleEnds
      BY <2>4, Zenon
      DEF JoinStep, child, luv_new_thread, luv_thread_join, JoinSets, JoinSends,
         JoinSuspends, HandleEnds, JoinLoopEnds, JoinCopies
    <2> QED
      BY <2>1, <2>2, <2>3, <2>4, Zenon DEF Next, Ends, Panicked
  <1>3. ValuesInv => (jpc = "done" => cpc = "gone" /\ jret = Values)
    BY Zenon DEF ValuesInv
  <1> QED
    BY <1>1, <1>2, <1>3, PTL DEF Spec
=============================================================================
