----------------------------- MODULE LuvThread -----------------------------
(***************************************************************************)
(* Two OS threads of luv_thread.c: one spawns the other and joins it.      *)
(*                                                                         *)
(* Each thread has its own Lua state and event loop, so they meet in the   *)
(* flags of the child, which thread:join changes without a lock, and in    *)
(* the child's async handle.  A compound assignment to the flags is a read *)
(* and a write, with steps of the other thread in between.                 *)
(*                                                                         *)
(* The child's waits are numbered; each is for a callback of its own       *)
(* (luv.sleep, timer:wait) which comes only while the child polls, and     *)
(* comes even if the wait is over.  The child has readied a fiber (as in   *)
(* examples/thread.lua), so its uv_run_once never reports that nothing is  *)
(* left.                                                                   *)
(***************************************************************************)
EXTENDS Integers, Sequences

CONSTANTS
  Cases,       \* the sets of risks to look at
  MaxWaits,    \* bound: waits of the child
  MaxHandles   \* bound: handles of the joining thread that still end

Risk == {"fibers", "infiber", "fail"}

ASSUME ThreadRisksAssumption == Cases \subseteq SUBSET Risk
ASSUME ThreadBoundsAssumption == MaxWaits \in Nat /\ MaxHandles \in Nat

VARIABLES
  cpc,      \* where the child is
  cflags,   \* its flags
  cseen,    \* its flags as it last read them
  signal,   \* its uv_run_once has something to return for
  waits,    \* how many waits it has begun
  due,      \* the waits whose callback has come
  early,    \* the waits that ended before their callback (history)
  stack,    \* the values on its Lua stack when it has ended
  jpc,      \* where the joining thread is
  jseen,    \* the child's flags as the joining thread read them
  mready,   \* FREADY of the joining thread
  refd,     \* its async handle is referenced: it has readied a fiber
  handles,  \* its other active handles
  jret,     \* what join returned
  risks     \* what the program does, any of Cases; see Init and _thread_enter_fails

child == <<cpc, cseen, waits, due, early, stack>>
joiner == <<jpc, jseen, mready, refd, handles, jret, risks>>
vars == <<child, joiner, cflags, signal>>

Wait == 1 .. MaxWaits
Avoids(rs) == risks \cap rs = {}
IsReady(f) == "FREADY" \in f

\* Risk "fibers": the joining thread has readied a fiber before.  Risk
\* "infiber": a fiber joins; Main is suspended, or has just been readied.
Init ==
  /\ cpc = "unborn" /\ cflags = {"FREADY"} /\ cseen = {} /\ signal = FALSE
  /\ waits = 0 /\ due = {} /\ early = {} /\ stack = <<>>
  /\ jpc = "spawn" /\ jseen = {} /\ jret = <<>>
  /\ risks \in Cases
  /\ refd \in BOOLEAN /\ (refd => ~Avoids({"fibers", "infiber"}))
  /\ mready \in BOOLEAN /\ (~mready => "infiber" \in risks)
  /\ ~mready => refd
  /\ handles \in 0 .. MaxHandles

\* A thread that failed outside lua_pcall has ended the process.
Alive == cpc # "panic"

-----------------------------------------------------------------------------
(* The child *)

\* luvL_thread_suspend: the test and the read of the flags, ...
luvL_thread_suspend ==
  /\ Alive /\ cpc = "lua" /\ waits < MaxWaits
  /\ waits' = waits + 1
  /\ cseen' = cflags
  /\ \/ IsReady(cflags) /\ cpc' = "clear" /\ UNCHANGED early
     \/ ~IsReady(cflags) /\ cpc' = "lua" /\ early' = early \cup {waits'}
  /\ UNCHANGED <<joiner, cflags, signal, due, stack>>

\* ... and the write.
SuspendClears ==
  /\ Alive /\ cpc = "clear"
  /\ cflags' = cseen \ {"FREADY"}
  /\ cpc' = "poll"
  /\ UNCHANGED <<joiner, signal, cseen, waits, due, early, stack>>

\* A callback of the child's loop calls luvL_thread_ready.
WaitCb(w) ==
  /\ Alive /\ cpc = "poll" /\ w <= waits /\ w \notin due
  /\ due' = due \cup {w}
  /\ signal' = TRUE
  /\ cseen' = cflags
  /\ cpc' = IF IsReady(cflags) THEN "poll" ELSE "cb"
  /\ UNCHANGED <<joiner, cflags, waits, early, stack>>
WaitCbSets ==
  /\ Alive /\ cpc = "cb"
  /\ cflags' = cseen \cup {"FREADY"}
  /\ cpc' = "poll"
  /\ UNCHANGED <<joiner, signal, cseen, waits, due, early, stack>>

\* Mutated: the loop does not look at FREADY, and polls without blocking.
LoopAgain_on == Alive /\ cpc = "poll" /\ signal /\ UNCHANGED vars

\* uv_run_once returns, and the loop tests FREADY.
LoopAgain ==
  /\ Alive /\ cpc = "poll" /\ signal
  /\ signal' = FALSE
  /\ cseen' = cflags
  /\ cpc' = IF IsReady(cflags) THEN "restore" ELSE "poll"
  /\ UNCHANGED <<joiner, cflags, waits, due, early, stack>>

\* Mutated: FREADY is used up.
BackInMain_clears ==
  /\ Alive /\ cpc = "restore"
  /\ cflags' = cseen \ {"FREADY"}
  /\ early' = IF waits \in due THEN early ELSE early \cup {waits}
  /\ cpc' = "lua"
  /\ UNCHANGED <<joiner, signal, cseen, waits, due, stack>>

BackInMain ==
  /\ Alive /\ cpc = "restore"
  /\ cflags' = cseen \cup {"FREADY"}
  /\ early' = IF waits \in due THEN early ELSE early \cup {waits}
  /\ cpc' = "lua"
  /\ UNCHANGED <<joiner, signal, cseen, waits, due, stack>>

\* The function returns; FDEAD is set, and the OS thread ends.
_thread_enter_returns ==
  /\ Alive /\ cpc = "lua"
  /\ stack' = <<"true", "values">>
  /\ cseen' = cflags
  /\ cpc' = "dying"
  /\ UNCHANGED <<joiner, cflags, signal, waits, due, early>>
_thread_enter_ends ==
  /\ Alive /\ cpc = "dying"
  /\ cflags' = cseen \cup {"FDEAD"}
  /\ cpc' = "gone"
  /\ UNCHANGED <<joiner, signal, cseen, waits, due, early, stack>>

\* Risk "fail": the function fails.  luaL_error is called with no lua_pcall
\* around it, so Lua panics.
_thread_enter_fails ==
  /\ "fail" \in risks
  /\ Alive /\ cpc = "lua"
  /\ stack' = <<"false", "message">>
  /\ cpc' = "panic"
  /\ UNCHANGED <<joiner, cflags, signal, cseen, waits, due, early>>

-----------------------------------------------------------------------------
(* The joining thread *)

luv_new_thread ==
  /\ Alive /\ jpc = "spawn"
  /\ cpc' = "lua"
  /\ jpc' = "lua"
  /\ UNCHANGED <<cflags, cseen, signal, waits, due, early, stack,
                 jseen, mready, refd, handles, jret, risks>>

\* luv_thread_join readies the child: luvL_thread_ready, in three steps.
luv_thread_join ==
  /\ Alive /\ jpc = "lua"
  /\ jseen' = cflags
  /\ jpc' = IF IsReady(cflags) THEN "suspend" ELSE "set"
  /\ UNCHANGED <<child, cflags, signal, mready, refd, handles, jret, risks>>
JoinSets ==
  /\ Alive /\ jpc = "set"
  /\ cflags' = jseen \cup {"FREADY"}
  /\ jpc' = "send"
  /\ UNCHANGED <<child, signal, jseen, mready, refd, handles, jret, risks>>
JoinSends ==
  /\ Alive /\ jpc = "send"
  /\ signal' = TRUE
  /\ jpc' = "suspend"
  /\ UNCHANGED <<child, cflags, jseen, mready, refd, handles, jret, risks>>

\* Then it suspends its own thread, which nobody is going to ready, ...
JoinSuspends ==
  /\ Alive /\ jpc = "suspend"
  /\ jpc' = IF mready THEN "poll" ELSE "block"
  /\ mready' = FALSE
  /\ UNCHANGED <<child, cflags, signal, jseen, refd, handles, jret, risks>>
HandleEnds ==
  /\ Alive /\ jpc = "poll" /\ handles > 0
  /\ handles' = handles - 1
  /\ UNCHANGED <<child, cflags, signal, jpc, jseen, mready, refd, jret, risks>>

\* Mutated: the loop goes on when nothing is active.
JoinLoopEnds_on == Alive /\ jpc = "poll" /\ ~refd /\ handles = 0 /\ UNCHANGED vars

JoinLoopEnds ==
  /\ Alive /\ jpc = "poll" /\ ~refd /\ handles = 0
  /\ mready' = TRUE
  /\ jpc' = "block"
  /\ UNCHANGED <<child, cflags, signal, jseen, refd, handles, jret, risks>>

\* ... and blocks in uv_thread_join.  Then it copies the child's stack.
JoinCopies ==
  /\ Alive /\ jpc = "block" /\ cpc = "gone"
  /\ jret' = stack
  /\ jpc' = "done"
  /\ UNCHANGED <<child, cflags, signal, jseen, mready, refd, handles, risks>>

Ends == Alive /\ jpc = "done" /\ UNCHANGED vars
Panicked == ~Alive /\ UNCHANGED vars

ChildStep ==
  \/ luvL_thread_suspend \/ SuspendClears \/ WaitCbSets \/ LoopAgain \/ BackInMain
  \/ _thread_enter_returns \/ _thread_enter_ends \/ _thread_enter_fails
JoinStep ==
  \/ luv_new_thread \/ luv_thread_join \/ JoinSets \/ JoinSends \/ JoinSuspends
  \/ JoinLoopEnds \/ JoinCopies

Next ==
  ChildStep \/ (\E w \in Wait : WaitCb(w)) \/ JoinStep \/ HandleEnds \/ Ends \/ Panicked

Spec == Init /\ [][Next]_vars

\* Both threads are scheduled, the callbacks of the child come, and its function
\* returns or fails.  The other handles of the joining thread may stay for ever.
FairSpec ==
  /\ Spec
  /\ WF_vars(ChildStep) /\ WF_vars(JoinStep)
  /\ \A w \in Wait : SF_vars(WaitCb(w))

-----------------------------------------------------------------------------
(* Properties *)

\* The types of the variables.
TypeOK ==
  /\ cpc \in {"unborn", "lua", "clear", "poll", "cb", "restore", "dying", "gone", "panic"}
  /\ cflags \subseteq {"FREADY", "FDEAD"} /\ cseen \subseteq {"FREADY", "FDEAD"}
  /\ jseen \subseteq {"FREADY", "FDEAD"}
  /\ jpc \in {"spawn", "lua", "set", "send", "suspend", "poll", "block", "done"}
  /\ waits \in 0 .. MaxWaits /\ due \subseteq 1 .. waits /\ early \subseteq 1 .. waits
  /\ {signal, mready, refd} \subseteq BOOLEAN /\ handles \in 0 .. MaxHandles

\* Whenever its Lua code runs, the child is able to suspend: the writes of join
\* and of the child's own suspend and callbacks may overwrite each other, but
\* never so that luvL_thread_suspend would find FREADY clear.
ChildCanSuspend == cpc \in {"lua", "clear"} => IsReady(cflags)

\* No wait of the child ends before its callback unless the child is joined.
CutShortByJoinOnly == early # {} => jpc \notin {"spawn", "lua"}

\* A wait of the child ends, whatever join writes into its flags.
WaitEnds == cpc = "poll" ~> cpc = "lua"

\* join returns after the child has ended, whatever its waits are at the time,
\* unless the loop of the joining thread itself is kept going: by a handle, or by
\* the async handle if the thread has ever made a fiber ready.
JoinEnds ==
  jpc \in {"suspend", "poll", "block"}
    ~> jpc = "done" \/ ~Alive \/ (jpc = "poll" /\ (refd \/ handles > 0))
=============================================================================
