------------------------------ MODULE LuvStates ------------------------------
(***************************************************************************)
(* What luv promises of its states (README, "States"): an execution        *)
(* context is suspended, readied and resumed; at most one runs in a thread;*)
(* only a ready fiber is resumed; a fiber that ended never runs again.     *)
(* This is the abstract specification that LuvSched implements, and the    *)
(* view of the scheduler that the I/O components need.                     *)
(***************************************************************************)
CONSTANTS Fiber, Main

State == Fiber \cup {Main}

VARIABLE status

Status == {"unborn", "parked", "ready", "running", "dead"}

Init == status = [s \in State |-> IF s = Main THEN "running" ELSE "unborn"]

\* s moves from one status to another, and nobody else moves.
Move(s, from, to) ==
  /\ status[s] = from
  /\ status' = [status EXCEPT ![s] = to]

\* Two states move at once.
Move2(s, from, to, s2, from2, to2) ==
  /\ s # s2
  /\ status[s] = from /\ status[s2] = from2
  /\ status' = [status EXCEPT ![s] = to, ![s2] = to2]

Create(f) == Move(f, "unborn", "parked")
Ready(s) == Move(s, "parked", "ready")

\* The running state waits, and may ready the fiber it waits for.
Suspend(s) == Move(s, "running", "parked")
SuspendFor(s, f) == Move2(s, "running", "parked", f, "parked", "ready")

\* The running fiber goes to the back of the queue, or ends.
Yield(f) == Move(f, "running", "ready")
Exit(f) == Move(f, "running", "dead")

\* An error ends the running fiber and runs the thread's own state.
Raise(f) == \E from \in {"parked", "ready"} :
              Move2(f, "running", "dead", Main, from, "running")

\* Nobody runs: resume a ready state; or the thread's own state, because
\* nothing is left that could ready it.
NobodyRuns == \A s \in State : status[s] # "running"
Resume(s) == NobodyRuns /\ Move(s, "ready", "running")
GiveUp == NobodyRuns /\ Move(Main, "parked", "running")

Next ==
  \/ \E f \in Fiber : Create(f) \/ Yield(f) \/ Exit(f) \/ Raise(f)
  \/ \E s \in State : Ready(s) \/ Suspend(s) \/ Resume(s)
  \/ \E s \in State, f \in Fiber : SuspendFor(s, f)
  \/ GiveUp

Spec == Init /\ [][Next]_status
=============================================================================
