---------------------------- MODULE LuvProcess ----------------------------
(***************************************************************************)
(* Child processes (luv_process.c) beside the file system calls of the     *)
(* same states.  The exit callback pushes its values on the stack of the   *)
(* state that spawned the process, whatever that state waits for by then.  *)
(***************************************************************************)
EXTENDS LuvFs, LuvObject

VARIABLES
  plife,    \* the life of a process: "new", "runs", "over"
  spawner   \* self->state of its object

procVars == <<plife, spawner>>
vars == <<loopVars, fsVars, procVars, oflags, rouse>>

Init ==
  /\ LoopInit
  /\ FsInit
  /\ luvL_object_init
  /\ plife = [o \in Object |-> "new"]
  /\ spawner = [o \in Object |-> Main]

Spawned(s, o) ==
  /\ plife' = [plife EXCEPT ![o] = "runs"]
  /\ spawner' = [spawner EXCEPT ![o] = s]

\* uv_spawn, and the wait for the exit.
luv_new_process(s, o) ==
  /\ Running(s) /\ plife[o] = "new" /\ ~panic
  /\ Spawned(s, o)
  /\ luvL_cond_wait(s, "spawn", o)
  /\ UNCHANGED <<oflags, fsVars>>

\* Risk "detach": spawn returns at once.
luv_new_process_detached(s, o) ==
  /\ "detach" \in risks
  /\ Running(s) /\ plife[o] = "new" /\ ~panic
  /\ Spawned(s, o)
  /\ Return(s, <<"process">>)
  /\ UNCHANGED <<oflags, rouse, fsVars>>

\* uv_spawn fails: an error is raised in the caller.
luv_new_process_fails(s, o) ==
  /\ "fail" \in risks
  /\ Running(s) /\ plife[o] = "new" /\ ~panic
  /\ plife' = [plife EXCEPT ![o] = "over"]
  /\ Return(s, <<"error">>)
  /\ UNCHANGED <<spawner, oflags, rouse, fsVars>>

\* Mutated: another state gets the values.
_exit_cb_main(o) ==
  /\ polling /\ plife[o] = "runs" /\ ~panic
  /\ plife' = [plife EXCEPT ![o] = "over"]
  /\ \E s \in State : ret' = [ret EXCEPT ![s] = @ \o <<"status", "sigterm">>]
  /\ luvL_cond_signal(o)
  /\ UNCHANGED <<pollVars, spawner, oflags, fsVars>>

_exit_cb(o) ==
  /\ polling /\ plife[o] = "runs" /\ ~panic
  /\ plife' = [plife EXCEPT ![o] = "over"]
  /\ ret' = [ret EXCEPT ![spawner[o]] = @ \o <<"status", "sigterm">>]
  /\ luvL_cond_signal(o)
  /\ UNCHANGED <<pollVars, spawner, oflags, fsVars>>

\* kill returns nothing, or raises an error if the process is over; that the
\* process exits is left to _exit_cb.
luv_process_kill(s, o) ==
  /\ Running(s) /\ plife[o] # "new" /\ ~panic
  /\ Return(s, IF plife[o] = "runs" THEN <<>> ELSE <<"error">>)
  /\ UNCHANGED <<procVars, oflags, rouse, fsVars>>

Sleeps(s) == ~panic /\ luv_sleep(s) /\ UNCHANGED <<procVars, oflags, rouse, fsVars>>
SleepCb(s) == ~panic /\ sleep_cb(s) /\ UNCHANGED <<procVars, oflags, rouse, fsVars>>
Resumes(s) ==
  /\ ~panic
  /\ ResumeWith(s, Args)
  /\ outcome' = [outcome EXCEPT ![s] = "none"]
  /\ UNCHANGED <<procVars, oflags, rouse, req, bufs, datum, fileVars, panic>>

Panicked == panic /\ UNCHANGED vars

FsSteps(s) == FsStep(s) /\ UNCHANGED <<procVars, oflags, rouse>>

FsWorks(s) == Works(s) /\ UNCHANGED <<procVars, oflags, rouse>>
FsCb(s) ==
  (luv_fs_cb(s) \/ luv_fs_cb_panics(s)) /\ UNCHANGED <<procVars, oflags, rouse>>

Next ==
  \/ \E s \in State : FsSteps(s) \/ Sleeps(s) \/ SleepCb(s) \/ Resumes(s)
  \/ \E s \in State, o \in Object :
       \/ luv_new_process(s, o) \/ luv_new_process_detached(s, o)
       \/ luv_new_process_fails(s, o) \/ luv_process_kill(s, o)
  \/ \E o \in Object : _exit_cb(o)
  \/ Panicked

Spec == Init /\ [][Next]_vars

\* Fairness as in LuvNet; the pool works, and processes end.
FairSpec ==
  /\ Spec
  /\ WF_vars(\E s \in State : Sleeps(s))
  /\ \A s \in State : SF_vars(Resumes(s))
  /\ \A s \in Fiber : WF_vars(FsWorks(s)) /\ SF_vars(FsCb(s))
  /\ \A o \in Object : SF_vars(_exit_cb(o))

-----------------------------------------------------------------------------
(* Properties *)

\* The types of the variables.
TypeOK ==
  /\ FsTypeOK /\ ObjectTypeOK
  /\ plife \in [Object -> {"new", "runs", "over"}]
  /\ spawner \in [Object -> State]

\* What a call returns is its own: a fiber gets from a file system call what its
\* own operation pushed, and spawn, where it waits, returns the process object
\* and its exit values, when the process is over.
OwnResults ==
  [][Avoids({"detach"}) => \A s \in State : call'[s] = NoCall =>
       /\ s \in Fiber /\ InFs(s) =>
            ret[s] = luv_fs_result(Kept(call[s][2]), call[s][2], outcome[s])
       /\ \A o \in Object : In(s, "spawn", o) =>
            plife[o] = "over" /\ ret[s] = Args \o <<"status", "sigterm">>]_vars

\* A file system call of a fiber, and waiting for a process, end; no callback
\* raises an error, which would end everything.
CallsEnd ==
  \A s \in State, o \in Object :
    /\ Avoids({"start", "sendfile", "detach"}) /\ s \in Fiber /\ InFs(s) ~> ~InFs(s)
    /\ Avoids({"sendfile", "detach"}) /\ In(s, "spawn", o) ~> ~In(s, "spawn", o)
=============================================================================
