------------------------------ MODULE LuvLoop ------------------------------
(***************************************************************************)
(* One thread as the objects that wait for I/O see it.  States move as     *)
(* LuvStates says, and LuvSched implements: a state calls luv only while it*)
(* runs, libuv calls back only while the thread is in uv_run_once, and that*)
(* is only when no fiber is ready.  Several callbacks may run in one       *)
(* uv_run_once; then Main runs if it is ready, the ready fibers otherwise. *)
(*                                                                         *)
(* A fiber has been readied before, so the async handle is referenced and  *)
(* uv_run_once never reports that nothing is left (luv_thread.c:73).       *)
(***************************************************************************)
EXTENDS Integers, Sequences

CONSTANTS
  Fiber, Main,
  Cases     \* the sets of risks to look at

VARIABLES
  status,   \* the life of a state: LuvStates
  polling,  \* the thread is inside uv_run_once
  call,     \* the luv call a state is suspended in: an operation, an object
  ret,      \* the values on state->L, which the call returns
  risks     \* what the program, or what is outside, does beyond the ordinary;
            \* any of Cases, the same all the time; see the guards

pollVars == <<polling, call, risks>>  \* what a callback leaves alone
loopVars == <<status, ret, pollVars>>

States == INSTANCE LuvStates
State == States!State

NoCall == <<"none">>
Args == <<"args">>   \* the arguments the call was made with

LoopInit ==
  /\ status = [s \in State |-> IF s = Main THEN "running" ELSE "ready"]
  /\ polling = FALSE
  /\ call = [s \in State |-> NoCall]
  /\ ret = [s \in State |-> Args]
  /\ risks \in Cases

\* The properties say which risks they do not survive.
Avoids(rs) == risks \cap rs = {}

Running(s) == status[s] = "running"
In(s, op, o) == call[s] = <<op, o>>

\* luvL_state_suspend inside the call c, with the values L on the stack.  The
\* scheduler runs what is ready, and calls uv_run_once when no fiber is.
SuspendWith(s, c, L) ==
  /\ States!Suspend(s)
  /\ polling' = \A f \in Fiber : status[f] # "ready"
  /\ call' = [call EXCEPT ![s] = c]
  /\ ret' = [ret EXCEPT ![s] = L]
  /\ UNCHANGED risks
Suspend(s, c) == SuspendWith(s, c, Args)

\* luvL_state_ready, in a callback: FREADY guards it.
Wake(s) ==
  \/ States!Ready(s)
  \/ status[s] # "parked" /\ UNCHANGED status

\* A call returns v at once.
Return(s, v) ==
  /\ ret' = [ret EXCEPT ![s] = v]
  /\ UNCHANGED <<status, pollVars>>

\* The scheduler runs s again: the call it was suspended in returns.  L is what
\* the model keeps of the values.
ResumeWith(s, L) ==
  /\ States!Resume(s)
  /\ IF s = Main THEN polling ELSE ~(polling /\ status[Main] = "ready")
  /\ polling' = FALSE
  /\ call' = [call EXCEPT ![s] = NoCall]
  /\ ret' = [ret EXCEPT ![s] = L]
  /\ UNCHANGED risks
Resume(s) == ResumeWith(s, ret[s])

\* luv.sleep: s waits for something that is no object of the model.
luv_sleep(s) == Suspend(s, <<"sleep">>)

sleep_cb(s) ==
  /\ polling
  /\ call[s] = <<"sleep">> /\ status[s] = "parked"
  /\ Wake(s)
  /\ UNCHANGED <<pollVars, ret>>

LoopTypeOK ==
  /\ status \in [State -> States!Status]
  /\ polling \in BOOLEAN
=============================================================================
