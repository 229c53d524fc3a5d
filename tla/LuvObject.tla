----------------------------- MODULE LuvObject -----------------------------
(***************************************************************************)
(* What the objects of luv have in common (luv_object_t): flags, and the   *)
(* queue rouse of the states that wait for the object, whatever the call.  *)
(* Models luv_object.c and the wait and signal of luv_cond.c.              *)
(***************************************************************************)
EXTENDS LuvLoop, Functions

CONSTANT Object

VARIABLES
  oflags,   \* object->flags
  rouse     \* object->rouse

OFlag == {"OSTARTED", "OWAITING", "OCLOSING", "OCLOSED", "OSHUTDOWN"}

luvL_object_init ==
  /\ oflags = [o \in Object |-> {}]
  /\ rouse = [o \in Object |-> <<>>]

Is(o, flag) == flag \in oflags[o]

\* Set and clear flags of o.
Flags(o, set, clear) ==
  oflags' = [oflags EXCEPT ![o] = (@ \ clear) \cup set]

\* The node of s is linked.  Linking it while it is still linked corrupts the
\* queues (NgxQueue); such a call is where the model ends.
luvL_cond_wait(s, op, o) ==
  /\ \A p \in Object : s \notin Range(rouse[p])
  /\ rouse' = [rouse EXCEPT ![o] = Append(@, s)]
  /\ Suspend(s, <<op, o>>)

\* Mutated: the head is not removed.
RouseHead_keeps(o) == Wake(Head(rouse[o])) /\ UNCHANGED rouse

\* Take the head of the queue and make it ready.
RouseHead(o) ==
  /\ rouse' = [rouse EXCEPT ![o] = Tail(@)]
  /\ Wake(Head(rouse[o]))

\* Mutated: nobody is woken.
luvL_cond_signal_none(o) == UNCHANGED <<rouse, status>>

luvL_cond_signal(o) ==
  \/ rouse[o] # <<>> /\ RouseHead(o)
  \/ rouse[o] = <<>> /\ UNCHANGED <<rouse, status>>

\* Closing is asked for; libuv calls back when the handle is closed.
luvL_object_close(o) == Flags(o, {"OCLOSING"}, {})

luvL_object_close_cb(o) ==
  /\ polling
  /\ Is(o, "OCLOSING") /\ ~Is(o, "OCLOSED")
  /\ Flags(o, {"OCLOSED"}, {})
  /\ luvL_cond_signal(o)
  /\ UNCHANGED <<pollVars, ret>>

ObjectTypeOK ==
  /\ oflags \in [Object -> SUBSET OFlag]
  /\ rouse \in [Object -> Seq(State)]
=============================================================================
