-------------------------- MODULE LuvStream_proof --------------------------
(***************************************************************************)
(* NothingLost, ReaderListens, WaitersExact, OneRequest and OwnResult of   *)
(* LuvStream, for any number of fibers, streams and chunks and for every   *)
(* set of risks.  The invariant is built in layers, each proved from those *)
(* before it.  The layers up to LossInv also hold in LuvNet, with          *)
(* getaddrinfo beside the streams, where OwnAddress is proved from them.   *)
(***************************************************************************)
EXTENDS LuvNet, TLAPS

Parked(s) == status[s] = "parked"
Linked(s, o) == s \in Range(rouse[o])

Calls == {NoCall, <<"sleep">>}
           \cup {"connect", "read", "write", "shutdown", "close"} \X Object
           \cup {"getaddrinfo"} \X Hints

\* The calls that hand libuv a request, and what the request is about.
ReqOp == {"connect", "write", "shutdown", "getaddrinfo"}
Target == Object \cup Hints

\* The types of what the scheduler and the queues hold, and of the rest.
StateTypes ==
  /\ status \in [State -> States!Status]
  /\ call \in [State -> Calls]
  /\ rouse \in [Object -> Seq(State)]
  /\ pend \in [State -> Seq(ReqOp \X Target)]

DataTypes ==
  /\ DOMAIN ret = State
  /\ oflags \in [Object -> SUBSET OFlag]
  /\ link \in [Object -> {"new", "connecting", "up", "refused"}]
  /\ wire \in [Object -> Seq(Int)]
  /\ sent \in [Object -> Nat]
  /\ buf \in [Object -> Seq(Int)]
  /\ sized \in [Object -> BOOLEAN] /\ ended \in [Object -> BOOLEAN]
  /\ seen \in [Object -> Seq(Int)]

\* No state is twice in a queue; one that waits is in it; and if streams are not
\* shared, a queue has at most one.
Distinct(q) == \A i, j \in DOMAIN q : q[i] = q[j] => i = j
Single(q) == q = <<>> \/ \E s \in State : q = <<s>>
Waits(s, o) == Parked(s) /\ \E op \in {"read", "shutdown", "close"} : In(s, op, o)

QueueInv ==
  /\ \A o \in Object : Distinct(rouse[o]) /\ (Avoids({"share"}) => Single(rouse[o]))
  /\ \A s \in State, o \in Object : Waits(s, o) => Linked(s, o)

\* Without pipe:connect a state is woken only out of the call that waits.
WakeInv ==
  Avoids({"pipe"}) =>
    \A s \in State, o \in Object :
      /\ Linked(s, o) => Waits(s, o)
      /\ \A op \in {"connect", "write"} : Requested(s, op, o) => Parked(s) /\ In(s, op, o)

\* A state that shuts a stream down is not taken for a reader.
NotReading ==
  Avoids({"share", "start", "shutdown"}) =>
    \A s \in State, o \in Object :
      Linked(s, o) /\ In(s, "shutdown", o) => ~Is(o, "OSTARTED")

\* What libuv holds is the request of the call the state waits in.
OwnRequest ==
  OwnsRequest => \A s \in State : pend[s] = <<>> \/ (Parked(s) /\ pend[s] = <<call[s]>>)

\* A reader in the queue has found nothing saved, and nothing is saved since.
ReadInv ==
  \A s \in State, o \in Object : Linked(s, o) /\ In(s, "read", o) => buf[o] = <<>>

\* The order of chunks, piece by piece.
Before(q, r) ==
  \A i \in DOMAIN q, j \in DOMAIN r : q[i] > 0 /\ r[j] > 0 => q[i] < r[j]
Rising(q) == \A i, j \in DOMAIN q : i < j /\ q[i] > 0 /\ q[j] > 0 => q[i] < q[j]
UpTo(q, n) == \A i \in DOMAIN q : q[i] <= n
Ordered(se, b, w, n) ==
  /\ Rising(se) /\ Rising(w)
  /\ Before(se, b) /\ Before(se, w) /\ Before(b, w)
  /\ UpTo(se, n) /\ UpTo(b, n) /\ UpTo(w, n)
  /\ b # <<>> => b = <<Head(b)>>
OrderInv == \A o \in Object : Ordered(seen[o], buf[o], wire[o], sent[o])

\* Nothing is saved while reading goes on; a close is known to the object; the end
\* is the last thing on the wire; no chunk comes before the connection is up; and a
\* connection that is being made was asked for once.
EndsLast(w) == \A i \in DOMAIN w : w[i] <= 0 => i = Len(w)

SavedInv == Avoids({"start"}) => \A o \in Object : Is(o, "OSTARTED") => buf[o] = <<>>
ClosingInv == \A s \in State, o \in Object : In(s, "close", o) => Closing(o)
EndInv == \A o \in Object : EndsLast(wire[o])
LinkInv == \A o \in Object : link[o] \in {"new", "connecting"} => wire[o] = <<>>
ConnectInv ==
  \A s, t \in State, o \in Object :
    Requested(s, "connect", o) =>
      link[o] = "connecting" /\ (Requested(t, "connect", o) => s = t)

KeepInv == SavedInv /\ ClosingInv /\ EndInv /\ LinkInv /\ ConnectInv

Held(o) == Range(seen[o]) \cup Range(buf[o]) \cup Range(wire[o])
LossInv ==
  OwnsRequest =>
    \A o \in Object : ~Closing(o) => \A c \in 1 .. sent[o] : c \in Held(o)

\* What OwnResult needs.  Who returns from close finds the handle closed.
ClosedInv ==
  OwnsRequest =>
    \A s \in State, o \in Object :
      In(s, "close", o) /\ status[s] = "ready" => Is(o, "OCLOSED")

\* The rest is for programs that do not use a stream after its end.  Nobody waits in
\* read or shutdown for a stream that closes, or can be closed by a failing write; the
\* calls that get no result keep their arguments; and who is ready has the result of
\* its call.
OpenInv ==
  OwnsRequest /\ Avoids({"again"}) =>
    \A s \in State, o \in Object :
      Parked(s) /\ (In(s, "read", o) \/ In(s, "shutdown", o)) => ~Closing(o) /\ link[o] # "new"

ArgsInv ==
  OwnsRequest =>
    \A s \in State : Parked(s) /\ call[s][1] \in {"connect", "close", "sleep"} => ret[s] = Args

AnswerInv ==
  OwnsRequest /\ Avoids({"again"}) =>
    \A s \in State :
      status[s] = "ready" /\ call[s] # NoCall => ret[s] \in Returns(call[s][1])

BaseInv ==
  /\ StateTypes /\ DataTypes /\ QueueInv /\ WakeInv /\ NotReading /\ OwnRequest
  /\ ReaderListens /\ ReadInv /\ OrderInv /\ KeepInv /\ LossInv

IInv ==
  /\ BaseInv
  /\ ClosedInv /\ OpenInv /\ ArgsInv /\ AnswerInv

-----------------------------------------------------------------------------
(* Sequences *)

\* A queue with one more, and a queue without its head.
LEMMA Appended ==
  ASSUME NEW S, NEW q \in Seq(S), NEW e \in S
  PROVE  /\ Append(q, e) \in Seq(S) /\ Append(q, e) # <<>>
         /\ Range(Append(q, e)) = Range(q) \cup {e}
         /\ e \notin Range(q) /\ Distinct(q) => Distinct(Append(q, e))
  <1>1. /\ Append(q, e) \in Seq(S) /\ Append(q, e) # <<>>
        /\ Len(q) \in Nat /\ DOMAIN q = 1 .. Len(q)
        /\ DOMAIN Append(q, e) = 1 .. Len(q) + 1
        /\ \A i \in 1 .. Len(q) : Append(q, e)[i] = q[i]
        /\ Append(q, e)[Len(q) + 1] = e
    OBVIOUS
  <1>2. Range(Append(q, e)) = Range(q) \cup {e}
    BY <1>1 DEF Range
  <1>3. e \notin Range(q) /\ Distinct(q) => Distinct(Append(q, e))
    BY <1>1 DEF Range, Distinct
  <1> QED
    BY <1>1, <1>2, <1>3, Zenon

LEMMA Removed ==
  ASSUME NEW S, NEW q \in Seq(S), q # <<>>
  PROVE  /\ Head(q) \in S /\ Tail(q) \in Seq(S)
         /\ Range(q) = Range(Tail(q)) \cup {Head(q)}
         /\ Distinct(q) => Distinct(Tail(q)) /\ Head(q) \notin Range(Tail(q))
         /\ \A f : q = <<f>> => Tail(q) = <<>> /\ Head(q) = f
  <1>1. /\ Head(q) \in S /\ Tail(q) \in Seq(S)
        /\ Len(q) \in Nat \ {0} /\ DOMAIN q = 1 .. Len(q) /\ Head(q) = q[1]
        /\ DOMAIN Tail(q) = 1 .. Len(q) - 1
        /\ \A i \in 1 .. Len(q) - 1 : Tail(q)[i] = q[i + 1]
    OBVIOUS
  <1>2. Range(q) = Range(Tail(q)) \cup {Head(q)}
    <2>1. ASSUME NEW i \in DOMAIN q
          PROVE  q[i] \in Range(Tail(q)) \cup {Head(q)}
      <3>1. i = 1 \/ (i - 1 \in DOMAIN Tail(q) /\ Tail(q)[i - 1] = q[i])
        BY <1>1
      <3> QED
        BY <1>1, <3>1, Zenon DEF Range
    <2>2. ASSUME NEW i \in DOMAIN Tail(q)
          PROVE  Tail(q)[i] \in Range(q)
      <3>1. i + 1 \in DOMAIN q /\ Tail(q)[i] = q[i + 1]
        BY <1>1
      <3> QED
        BY <3>1, Zenon DEF Range
    <2>3. Head(q) \in Range(q)
      BY <1>1 DEF Range
    <2> QED
      BY <2>1, <2>2, <2>3, Zenon DEF Range
  <1>3. ASSUME Distinct(q)
        PROVE  Distinct(Tail(q)) /\ Head(q) \notin Range(Tail(q))
    <2>1. Distinct(Tail(q))
      BY <1>1, <1>3 DEF Distinct
    <2>2. ASSUME NEW i \in DOMAIN Tail(q), Tail(q)[i] = Head(q)
          PROVE  FALSE
      <3>1. i + 1 \in DOMAIN q /\ 1 \in DOMAIN q /\ q[i + 1] = q[1] /\ i + 1 # 1
        BY <1>1, <2>2
      <3> QED
        BY <1>3, <3>1, Zenon DEF Distinct
    <2> QED
      BY <2>1, <2>2, Zenon DEF Range
  <1>4. ASSUME NEW f, q = <<f>>
        PROVE  Tail(q) = <<>> /\ Head(q) = f
    BY <1>4
  <1> QED
    BY <1>1, <1>2, <1>3, <1>4, Zenon

-----------------------------------------------------------------------------
(* What the steps do to states, queues and requests *)

\* libuv takes the request of s.
Takes(s, op, o) ==
  /\ op \in ReqOp /\ o \in Target
  /\ pend' = [pend EXCEPT ![s] = Append(@, <<op, o>>)]
Adds(s, op, o) ==
  /\ op \in ReqOp /\ o \in Target
  /\ pend'[s] = Append(pend[s], <<op, o>>)

\* A state waits in the call c.
Parks(s, c) ==
  /\ Running(s)
  /\ status' = [status EXCEPT ![s] = "parked"]
  /\ call' = [call EXCEPT ![s] = c]
  /\ ret' = [ret EXCEPT ![s] = Args]
  /\ UNCHANGED risks

\* ... for no stream, or for a stream.
ParksAside(s, c) ==
  /\ Parks(s, c) /\ UNCHANGED rouse
  /\ \/ c = <<"sleep">> /\ UNCHANGED pend
     \/ \E op \in {"connect", "write"}, o \in Object :
          c = <<op, o>> /\ Takes(s, op, o)

ParksFor(s, op, o) ==
  /\ Parks(s, <<op, o>>) /\ op \in {"read", "shutdown", "close"}
  /\ \A p \in Object : ~Linked(s, p)
  /\ Alone(o)
  /\ rouse' = [rouse EXCEPT ![o] = Append(@, s)]
  /\ UNCHANGED pend \/ (op = "shutdown" /\ Takes(s, op, o))
  /\ op = "read" => luv_stream_read(s, o)
  /\ op = "shutdown" => luv_stream_shutdown(s, o)
  /\ op = "close" => luv_stream_close(s, o)

\* The callback that the state waits for itself, and the one that takes the head of
\* a queue.
CallsBack(s) == SleepCb(s) \/ \E o \in Object : luvL_connect_cb(s, o) \/ _write_cb(s, o)
Signals(o) ==
  \/ \E len \in Reset .. MaxSent : _read_cb_rouses(o, len)
  \/ \E s \in State : _shutdown_cb(s, o)
  \/ StreamClosed(o)

Wakes(s) ==
  /\ CallsBack(s)
  /\ Wake(s) /\ UNCHANGED <<call, rouse, risks>>
  /\ \/ call[s] = <<"sleep">> /\ UNCHANGED pend
     \/ \E op \in {"connect", "write"}, o \in Object : Answer(s, op, o)

Rouses(o) ==
  /\ Signals(o)
  /\ rouse[o] # <<>> /\ RouseHead(o) /\ UNCHANGED <<call, risks>>
  /\ \/ /\ UNCHANGED pend
        /\ Is(o, "OSTARTED") \/ \A s \in State : ~Requested(s, "shutdown", o)
     \/ \E s \in State : Answer(s, "shutdown", o)

Goes(s) ==
  /\ status[s] = "ready"
  /\ status' = [status EXCEPT ![s] = "running"]
  /\ call' = [call EXCEPT ![s] = NoCall]
  /\ UNCHANGED <<rouse, pend, risks>>

\* Nobody waits, is woken or runs again.
Passes ==
  /\ UNCHANGED <<status, call, rouse, risks>>
  /\ \/ UNCHANGED pend
     \/ \E s \in State, o \in Object : Answer(s, "shutdown", o)
     \/ /\ "pipe" \in risks
        /\ \E s \in State, o \in Object : Takes(s, "connect", o)

Kinds ==
  \/ Passes
  \/ \E s \in State, c \in Calls : ParksAside(s, c)
  \/ \E s \in State, op \in {"read", "shutdown", "close"}, o \in Object : ParksFor(s, op, o)
  \/ \E s \in State : Wakes(s) \/ Goes(s)
  \/ \E o \in Object : Rouses(o)

\* Every step is one of these.
LEMMA StepKinds == [Next]_vars => Kinds
  <1> USE DEF objVars, netVars, readVars, pollVars
  <1> SUFFICES ASSUME [Next]_vars
               PROVE  Kinds
    OBVIOUS
  <1>1. CASE UNCHANGED vars
    BY <1>1, Zenon DEF vars, loopVars, Kinds, Passes
  <1>2. ASSUME NEW s \in State, NEW o \in Object,
               \/ luv_tcp_connect_fails(s, o) \/ luv_stream_read_closed(s, o)
               \/ luv_stream_read_saved(s, o) \/ luv_stream_start(s, o)
               \/ luv_stream_start_fails(s, o) \/ luv_stream_stop(s, o)
               \/ luv_stream_write_fails(s, o) \/ luv_stream_shutdown_again(s, o)
        PROVE  Kinds
    <2>1. UNCHANGED <<status, call, rouse, risks>> /\ UNCHANGED pend
      BY <1>2, Zenon
         DEF luv_tcp_connect_fails, luv_stream_read_closed, luv_stream_read_saved, luv_stream_start,
             luv_stream_start_fails, luv_stream_stop, luv_stream_write_fails,
             luv_stream_shutdown_again, Return
    <2> QED
      BY <2>1, Zenon DEF Kinds, Passes
  <1>3. ASSUME NEW s \in State, NEW o \in Object, luv_pipe_connect(s, o)
        PROVE  Kinds
    BY <1>3, Zenon DEF luv_pipe_connect, Request, Takes, ReqOp, Target, Return, Kinds, Passes
  <1>4. ASSUME NEW s \in State, NEW c \in Calls,
               \/ c = <<"sleep">> /\ Sleeps(s)
               \/ \E o \in Object : c = <<"connect", o>> /\ luv_tcp_connect(s, o)
               \/ \E o \in Object : c = <<"write", o>> /\ luv_stream_write(s, o)
        PROVE  ParksAside(s, c)
    <2>1. Parks(s, c) /\ UNCHANGED rouse
      BY <1>4, Zenon
         DEF Sleeps, luv_sleep, luv_tcp_connect, luv_stream_write, Suspend, SuspendWith,
             States!Suspend, States!Move, Parks, Running
    <2> QED
      BY <1>4, <2>1, Zenon
      DEF Sleeps, luv_tcp_connect, luv_stream_write, Request, Takes, ReqOp, Target, ParksAside
  <1>5. ASSUME NEW s \in State, NEW op \in {"read", "shutdown", "close"}, NEW o \in Object,
               \/ op = "read" /\ luv_stream_read(s, o)
               \/ op = "shutdown" /\ luv_stream_shutdown(s, o)
               \/ op = "close" /\ luv_stream_close(s, o)
        PROVE  ParksFor(s, op, o)
    <2>1. luvL_cond_wait(s, op, o) /\ Alone(o)
      BY <1>5, Zenon DEF luv_stream_read, luv_stream_shutdown, ShutsDown, luv_stream_close
    <2>2. /\ Parks(s, <<op, o>>)
          /\ \A p \in Object : ~Linked(s, p)
          /\ rouse' = [rouse EXCEPT ![o] = Append(@, s)]
      BY <2>1, Zenon
         DEF luvL_cond_wait, Suspend, SuspendWith, States!Suspend, States!Move, Parks, Running,
             Linked
    <2>3. UNCHANGED pend \/ (op = "shutdown" /\ Request(s, op, o))
      BY <1>5, Zenon DEF luv_stream_read, luv_stream_shutdown, ShutsDown, luv_stream_close
    <2>4. /\ op = "read" => luv_stream_read(s, o)
          /\ op = "shutdown" => luv_stream_shutdown(s, o)
          /\ op = "close" => luv_stream_close(s, o)
      BY <1>5, Zenon
    <2> QED
      BY <2>1, <2>2, <2>3, <2>4, Zenon DEF Request, Takes, ReqOp, Target, ParksFor
  <1>6. ASSUME NEW s \in State,
               \/ SleepCb(s)
               \/ \E o \in Object : luvL_connect_cb(s, o) \/ _write_cb(s, o)
        PROVE  Wakes(s)
    <2>1. Wake(s) /\ UNCHANGED <<call, rouse, risks>>
      BY <1>6, Zenon DEF SleepCb, sleep_cb, luvL_connect_cb, _write_cb
    <2>2. CallsBack(s)
      BY <1>6, Zenon DEF CallsBack
    <2> QED
      BY <1>6, <2>1, <2>2, Zenon DEF SleepCb, sleep_cb, luvL_connect_cb, _write_cb, Wakes
  <1>7. ASSUME NEW o \in Object, NEW len \in Reset .. MaxSent,
               _read_cb_saves(o, len) \/ _read_cb_rouses(o, len)
        PROVE  Kinds
    <2>1. CASE _read_cb_saves(o, len)
      BY <2>1, Zenon DEF _read_cb_saves, loopVars, Kinds, Passes
    <2>2. CASE _read_cb_rouses(o, len)
      <3>1. Signals(o)
        BY <2>2, Zenon DEF Signals
      <3> QED
        BY <2>2, <3>1, Zenon DEF _read_cb_rouses, Reports, Kinds, Rouses
    <2> QED
      BY <1>7, <2>1, <2>2, Zenon
  <1>8. ASSUME NEW o \in Object, Signals(o), luvL_cond_signal(o), UNCHANGED <<call, risks>>,
               \/ UNCHANGED pend /\ \A s \in State : ~Requested(s, "shutdown", o)
               \/ \E s \in State : Answer(s, "shutdown", o)
        PROVE  Kinds
    BY <1>8, Zenon DEF luvL_cond_signal, Kinds, Passes, Rouses
  <1>9. ASSUME NEW s \in State, NEW o \in Object, _shutdown_cb(s, o)
        PROVE  Kinds
    <2>1. Signals(o)
      BY <1>9, Zenon DEF Signals
    <2> QED
      BY <1>8, <1>9, <2>1, Zenon DEF _shutdown_cb
  <1>10. ASSUME NEW o \in Object, StreamClosed(o)
         PROVE  Kinds
    <2>1. Signals(o)
      BY <1>10, Zenon DEF Signals
    <2> QED
      BY <1>8, <1>10, <2>1, Zenon DEF StreamClosed, luvL_object_close_cb
  <1>11. ASSUME NEW o \in Object, PeerSends(o) \/ PeerEnds(o)
         PROVE  Kinds
    BY <1>11, Zenon DEF PeerSends, PeerEnds, loopVars, Kinds, Passes
  <1>12. ASSUME NEW s \in State, Resumes(s)
         PROVE  Goes(s)
    BY <1>12, Zenon DEF Resumes, ResumeWith, States!Resume, States!Move, Goes
  <1>13. /\ <<"sleep">> \in Calls
         /\ \A o \in Object : <<"connect", o>> \in Calls /\ <<"write", o>> \in Calls
    BY Zenon DEF Calls
  <1>14. ASSUME NEW s \in State, NEW o \in Object, LuaCalls(s, o) \/ RequestCb(s, o)
         PROVE  Kinds
    <2>1. CASE luv_tcp_connect(s, o) \/ luv_stream_write(s, o)
      BY <1>4, <1>13, <2>1, Zenon DEF Kinds
    <2>2. CASE luv_stream_read(s, o) \/ luv_stream_shutdown(s, o) \/ luv_stream_close(s, o)
      BY <1>5, <2>2, Zenon DEF Kinds
    <2>3. CASE luvL_connect_cb(s, o) \/ _write_cb(s, o)
      BY <1>6, <2>3, Zenon DEF Kinds
    <2> QED
      BY <1>2, <1>3, <1>9, <1>14, <2>1, <2>2, <2>3, Zenon DEF LuaCalls, RequestCb
  <1>15. ASSUME NEW s \in State, Sleeps(s) \/ SleepCb(s) \/ Resumes(s)
         PROVE  Kinds
    BY <1>4, <1>6, <1>12, <1>13, <1>15, Zenon DEF Kinds
  <1> QED
    BY <1>1, <1>7, <1>10, <1>11, <1>14, <1>15, Zenon DEF Next, ReadCb

-----------------------------------------------------------------------------
(* Types *)

\* What the kinds of steps do to one state and one queue, given the types.
LEMMA ParkEffect ==
  ASSUME StateTypes, NEW s \in State, NEW c \in Calls, Parks(s, c)
  PROVE  /\ status' \in [State -> States!Status] /\ call' \in [State -> Calls]
         /\ Parked(s)' /\ call'[s] = c /\ status[s] = "running"
         /\ \A t \in State : t # s => status'[t] = status[t] /\ call'[t] = call[t]
  <1>1. "parked" \in States!Status
    BY Zenon DEF States!Status
  <1> QED
    BY <1>1, Zenon DEF Parks, StateTypes, Parked, Running

LEMMA GoEffect ==
  ASSUME StateTypes, NEW s \in State, Goes(s)
  PROVE  /\ status' \in [State -> States!Status] /\ call' \in [State -> Calls]
         /\ status'[s] = "running" /\ call'[s] = NoCall
         /\ \A t \in State : t # s => status'[t] = status[t] /\ call'[t] = call[t]
  <1>1. "running" \in States!Status /\ NoCall \in Calls
    BY Zenon DEF States!Status, Calls
  <1> QED
    BY <1>1, Zenon DEF Goes, StateTypes

LEMMA WakeEffect ==
  ASSUME StateTypes, NEW s \in State, Wake(s)
  PROVE  /\ status' \in [State -> States!Status]
         /\ \A t \in State : t # s => status'[t] = status[t]
         /\ status'[s] = IF status[s] = "parked" THEN "ready" ELSE status[s]
  <1>1. "ready" \in States!Status
    BY Zenon DEF States!Status
  <1>2. CASE States!Ready(s)
    BY <1>1, <1>2, Zenon DEF States!Ready, States!Move, StateTypes
  <1>3. CASE status[s] # "parked" /\ UNCHANGED status
    BY <1>3, Zenon DEF StateTypes
  <1> QED
    BY <1>2, <1>3, Zenon DEF Wake

\* Linking a state that is in no queue, and taking the head.
LEMMA LinkEffect ==
  ASSUME StateTypes, NEW s \in State, NEW o \in Object,
         rouse' = [rouse EXCEPT ![o] = Append(@, s)]
  PROVE  /\ rouse' \in [Object -> Seq(State)]
         /\ \A p \in Object : p # o => rouse'[p] = rouse[p]
         /\ rouse'[o] = Append(rouse[o], s)
         /\ \A t \in State, p \in Object : Linked(t, p)' <=> Linked(t, p) \/ (t = s /\ p = o)
  <1>1. rouse[o] \in Seq(State) /\ rouse \in [Object -> Seq(State)]
    BY Zenon DEF StateTypes
  <1>2. /\ Append(rouse[o], s) \in Seq(State)
        /\ Range(Append(rouse[o], s)) = Range(rouse[o]) \cup {s}
    BY <1>1, Appended
  <1>3. /\ rouse' \in [Object -> Seq(State)]
        /\ \A p \in Object : p # o => rouse'[p] = rouse[p]
        /\ rouse'[o] = Append(rouse[o], s)
    BY <1>1, <1>2, Zenon
  <1> QED
    BY <1>2, <1>3, Zenon DEF Linked

LEMMA RouseEffect ==
  ASSUME StateTypes, NEW o \in Object, rouse[o] # <<>>, RouseHead(o)
  PROVE  /\ rouse' \in [Object -> Seq(State)]
         /\ \A p \in Object : p # o => rouse'[p] = rouse[p]
         /\ rouse'[o] = Tail(rouse[o])
         /\ Head(rouse[o]) \in State /\ Wake(Head(rouse[o])) /\ Linked(Head(rouse[o]), o)
         /\ \A t \in State, p \in Object :
              /\ Linked(t, p)' => Linked(t, p)
              /\ Linked(t, p) => Linked(t, p)' \/ (t = Head(rouse[o]) /\ p = o)
  <1>1. rouse[o] \in Seq(State) /\ rouse \in [Object -> Seq(State)]
    BY Zenon DEF StateTypes
  <1>2. /\ Head(rouse[o]) \in State /\ Tail(rouse[o]) \in Seq(State)
        /\ Range(rouse[o]) = Range(Tail(rouse[o])) \cup {Head(rouse[o])}
    BY <1>1, Removed, Zenon
  <1>3. /\ rouse' \in [Object -> Seq(State)]
        /\ \A p \in Object : p # o => rouse'[p] = rouse[p]
        /\ rouse'[o] = Tail(rouse[o])
    BY <1>1, <1>2, Zenon DEF RouseHead
  <1> QED
    BY <1>2, <1>3, Zenon DEF Linked, RouseHead

\* Requests taken and answered.
LEMMA TakeEffect ==
  ASSUME StateTypes, NEW s \in State, NEW op, NEW o, Takes(s, op, o)
  PROVE  /\ pend' \in [State -> Seq(ReqOp \X Target)]
         /\ \A t \in State : t # s => pend'[t] = pend[t]
         /\ pend[s] = <<>> => Requested(s, op, o)'
         /\ pend'[s] # <<>>
  <1> DEFINE R == ReqOp \X Target
  <1>1. pend \in [State -> Seq(R)] /\ pend[s] \in Seq(R) /\ <<op, o>> \in R
    BY Zenon DEF StateTypes, Takes
  <1> HIDE DEF R
  <1>2. /\ Append(pend[s], <<op, o>>) \in Seq(R) /\ Append(pend[s], <<op, o>>) # <<>>
    BY <1>1, Appended, Zenon
  <1>3. pend[s] = <<>> => Append(pend[s], <<op, o>>) = <<<<op, o>>>>
    OBVIOUS
  <1>4. /\ pend' \in [State -> Seq(R)]
        /\ pend'[s] = Append(pend[s], <<op, o>>)
        /\ \A t \in State : t # s => pend'[t] = pend[t]
    BY <1>1, <1>2, Zenon DEF Takes
  <1> QED
    BY <1>2, <1>3, <1>4, Zenon DEF R, Requested

\* If it is the only one, it is the one just taken.
LEMMA LastOnly ==
  ASSUME StateTypes, NEW s \in State, NEW op, NEW o, Adds(s, op, o),
         NEW op2, NEW o2, Requested(s, op2, o2)'
  PROVE  pend[s] = <<>> /\ op2 = op /\ o2 = o
  <1> DEFINE R == ReqOp \X Target
  <1>1. pend[s] \in Seq(R) /\ <<op, o>> \in R /\ pend'[s] = Append(pend[s], <<op, o>>)
    BY Zenon DEF StateTypes, Adds
  <1> HIDE DEF R
  <1>2. ASSUME NEW q \in Seq(R), NEW e \in R, NEW x, Append(q, e) = <<x>>
        PROVE  q = <<>> /\ e = x
    <2>1. /\ Len(q) \in Nat /\ Len(Append(q, e)) = Len(q) + 1
          /\ Append(q, e)[Len(q) + 1] = e
      OBVIOUS
    <2>2. Len(<<x>>) = 1 /\ <<x>>[1] = x
      OBVIOUS
    <2>3. Len(q) = 0
      BY <1>2, <2>1, <2>2
    <2> QED
      BY <1>2, <2>1, <2>2, <2>3
  <1>3. pend[s] = <<>> /\ <<op, o>> = <<op2, o2>>
    BY <1>1, <1>2, Zenon DEF Requested
  <1> QED
    BY <1>3, Zenon

LEMMA TakeOnly ==
  ASSUME StateTypes, NEW s \in State, NEW op, NEW o, Takes(s, op, o),
         NEW op2, NEW o2, Requested(s, op2, o2)'
  PROVE  pend[s] = <<>> /\ op2 = op /\ o2 = o
  <1>1. Adds(s, op, o)
    BY Zenon DEF StateTypes, Takes, Adds
  <1> QED
    BY <1>1, LastOnly, Zenon

LEMMA AnswerEffect ==
  ASSUME StateTypes, NEW s \in State, NEW op, NEW o, Answer(s, op, o)
  PROVE  /\ pend' \in [State -> Seq(ReqOp \X Target)]
         /\ \A t \in State : t # s => pend'[t] = pend[t]
         /\ pend'[s] = <<>> /\ Requested(s, op, o)
  BY DEF Answer, StateTypes

\* The requests of a state change when it asks and when libuv answers.
LEMMA StateTypesStep == StateTypes /\ [Next]_vars => StateTypes'
  <1> SUFFICES ASSUME StateTypes, Kinds
               PROVE  StateTypes'
    BY StepKinds, Zenon
  <1>1. CASE Passes
    BY <1>1, TakeEffect, AnswerEffect, Zenon DEF Passes, StateTypes
  <1>2. ASSUME NEW s \in State, NEW c \in Calls, ParksAside(s, c)
        PROVE  StateTypes'
    <2>1. status' \in [State -> States!Status] /\ call' \in [State -> Calls]
      BY <1>2, ParkEffect, Zenon DEF ParksAside
    <2>2. UNCHANGED pend \/ pend' \in [State -> Seq(ReqOp \X Target)]
      BY <1>2, TakeEffect, Zenon DEF ParksAside
    <2> QED
      BY <1>2, <2>1, <2>2, Zenon DEF ParksAside, StateTypes
  <1>3. ASSUME NEW s \in State, NEW op \in {"read", "shutdown", "close"}, NEW o \in Object,
               ParksFor(s, op, o)
        PROVE  StateTypes'
    <2>1. <<op, o>> \in Calls
      BY Zenon DEF Calls
    <2>2. status' \in [State -> States!Status] /\ call' \in [State -> Calls]
      BY <1>3, <2>1, ParkEffect, Zenon DEF ParksFor
    <2>3. rouse' \in [Object -> Seq(State)]
      BY <1>3, LinkEffect, Zenon DEF ParksFor
    <2>4. UNCHANGED pend \/ pend' \in [State -> Seq(ReqOp \X Target)]
      BY <1>3, TakeEffect, Zenon DEF ParksFor
    <2> QED
      BY <2>2, <2>3, <2>4, Zenon DEF StateTypes
  <1>4. ASSUME NEW s \in State, Wakes(s)
        PROVE  StateTypes'
    <2>1. status' \in [State -> States!Status]
      BY <1>4, WakeEffect, Zenon DEF Wakes
    <2> QED
      BY <1>4, <2>1, AnswerEffect, Zenon DEF Wakes, StateTypes
  <1>5. ASSUME NEW s \in State, Goes(s)
        PROVE  StateTypes'
    BY <1>5, GoEffect, Zenon DEF Goes, StateTypes
  <1>6. ASSUME NEW o \in Object, Rouses(o)
        PROVE  StateTypes'
    <2>1. /\ rouse' \in [Object -> Seq(State)]
          /\ Head(rouse[o]) \in State /\ Wake(Head(rouse[o]))
      BY <1>6, RouseEffect, Zenon DEF Rouses
    <2>2. status' \in [State -> States!Status]
      BY <2>1, WakeEffect, Zenon
    <2> QED
      BY <1>6, <2>1, <2>2, AnswerEffect, Zenon DEF Rouses, StateTypes
  <1> QED
    BY <1>1, <1>2, <1>3, <1>4, <1>5, <1>6, Zenon DEF Kinds

\* The flags of one stream.
LEMMA FlagEffect ==
  ASSUME DataTypes, NEW o \in Object, NEW set \in SUBSET OFlag, NEW clear, Flags(o, set, clear)
  PROVE  /\ oflags' \in [Object -> SUBSET OFlag]
         /\ \A p \in Object : p # o => oflags'[p] = oflags[p]
         /\ \A x : Is(o, x)' <=> x \in set \/ (Is(o, x) /\ x \notin clear)
  BY Zenon DEF DataTypes, Flags, Is

\* The flags that the steps set.
LEMMA FlagNames ==
  /\ {} \in SUBSET OFlag /\ {"OSTARTED"} \in SUBSET OFlag /\ {"OCLOSING"} \in SUBSET OFlag
  /\ {"OCLOSED"} \in SUBSET OFlag /\ {"OSHUTDOWN"} \in SUBSET OFlag
  BY Zenon DEF OFlag

\* What libuv reports is an integer, and what it leaves on the wire is a sequence.
LEMMA ReportTypes ==
  ASSUME DataTypes, NEW o \in Object, NEW len \in Reset .. MaxSent, Reports(o, len)
  PROVE  /\ len \in Int
         /\ wire' \in [Object -> Seq(Int)] /\ ended' \in [Object -> BOOLEAN]
  <1>1. len \in Int
    BY StreamAssumption DEF Reset
  <1>2. wire \in [Object -> Seq(Int)] /\ ended \in [Object -> BOOLEAN]
    BY Zenon DEF DataTypes
  <1>3. ended' \in [Object -> BOOLEAN]
    BY <1>2, Zenon DEF Reports
  <1>4. CASE UNCHANGED wire
    BY <1>1, <1>2, <1>3, <1>4, Zenon
  <1>5. CASE /\ wire[o] # <<>>
             /\ wire' = [wire EXCEPT ![o] = IF len < 0 THEN <<Eof>> ELSE Tail(@)]
    <2>1. Tail(wire[o]) \in Seq(Int) /\ <<Eof>> \in Seq(Int)
      BY <1>2, <1>5 DEF Eof
    <2> QED
      BY <1>1, <1>2, <1>3, <1>5, <2>1, Zenon
  <1> QED
    BY <1>4, <1>5, Zenon DEF Reports

LEMMA DataTypesStep == DataTypes /\ [Next]_vars => DataTypes'
  <1> USE DEF objVars, netVars, readVars, pollVars
  <1> SUFFICES ASSUME DataTypes, [Next]_vars
               PROVE  DataTypes'
    OBVIOUS
  <1>f. \A o \in Object : \A set \in SUBSET OFlag : \A clear :
          Flags(o, set, clear) => oflags' \in [Object -> SUBSET OFlag]
    BY FlagEffect, Zenon
  <1>1. CASE UNCHANGED vars
    BY <1>1, Zenon DEF vars, loopVars, DataTypes
  <1>2. ASSUME NEW s \in State, NEW o \in Object,
               \/ luv_tcp_connect_fails(s, o) \/ luv_stream_read_closed(s, o)
               \/ luv_stream_shutdown_again(s, o) \/ luv_stream_write(s, o) \/ _write_cb(s, o)
        PROVE  DataTypes'
    BY <1>2, Zenon
       DEF luv_tcp_connect_fails, luv_stream_read_closed, luv_stream_shutdown_again,
           luv_stream_write, _write_cb, Return, Suspend, SuspendWith, DataTypes
  <1>3. ASSUME NEW s \in State, NEW o \in Object,
               \/ luv_tcp_connect(s, o) \/ luv_pipe_connect(s, o) \/ luvL_connect_cb(s, o)
        PROVE  DataTypes'
    <2>1. <<Reset>> \in Seq(Int)
      BY DEF Reset
    <2> QED
      BY <1>3, <2>1, ZenonT(60)
         DEF luv_tcp_connect, luv_pipe_connect, luvL_connect_cb, Return, Suspend, SuspendWith,
             DataTypes
  <1>4. ASSUME NEW s \in State, NEW o \in Object, luv_stream_read_saved(s, o)
        PROVE  DataTypes'
    <2>1. buf[o] \in Seq(Int) /\ buf[o] # <<>> /\ seen[o] \in Seq(Int)
      BY <1>4, Zenon DEF luv_stream_read_saved, DataTypes
    <2>2. Append(seen[o], Head(buf[o])) \in Seq(Int) /\ <<>> \in Seq(Int)
      BY <2>1
    <2> QED
      BY <1>4, <2>2, Zenon DEF luv_stream_read_saved, Return, DataTypes
  <1>5. ASSUME NEW s \in State, NEW o \in Object,
               luv_stream_read(s, o) \/ luv_stream_start(s, o)
        PROVE  DataTypes'
    <2>1. luvL_stream_start(o) /\ UNCHANGED <<netVars, buf, seen>>
      BY <1>5, Zenon DEF luv_stream_read, luv_stream_start
    <2>2. /\ oflags' \in [Object -> SUBSET OFlag]
          /\ ended' \in [Object -> BOOLEAN]
      <3>1. Flags(o, {"OSTARTED"}, {})
        BY <2>1, Zenon DEF luvL_stream_start
      <3>2. oflags' \in [Object -> SUBSET OFlag]
        BY <1>f, <3>1, FlagNames, Zenon
      <3> QED
        BY <2>1, <3>2, Zenon DEF luvL_stream_start, DataTypes
    <2>3. sized' \in [Object -> BOOLEAN] /\ DOMAIN ret' = State
      BY <1>5, Zenon
         DEF luv_stream_read, luv_stream_start, Return, luvL_cond_wait, Suspend, SuspendWith,
             DataTypes
    <2> QED
      BY <2>1, <2>2, <2>3, Zenon DEF DataTypes
  <1>6. ASSUME NEW s \in State, NEW o \in Object,
               \/ luv_stream_start_fails(s, o) \/ luv_stream_stop(s, o)
               \/ luv_stream_write_fails(s, o) \/ luv_stream_shutdown(s, o)
        PROVE  DataTypes'
    <2>1. /\ UNCHANGED <<netVars, readVars>> /\ DOMAIN ret' = DOMAIN ret
      BY <1>6, Zenon
         DEF luv_stream_start_fails, luv_stream_stop, luv_stream_write_fails,
             luv_stream_shutdown, ShutsDown,
             Return, luvL_cond_wait, Suspend, SuspendWith
    <2>2. \/ Flags(o, {}, {"OSTARTED"}) \/ Flags(o, {"OCLOSING"}, {"OSTARTED"})
          \/ Flags(o, {"OSHUTDOWN"}, {})
      BY <1>6, Zenon
         DEF luv_stream_start_fails, luv_stream_stop, luv_stream_write_fails,
             luv_stream_shutdown, ShutsDown
    <2>3. oflags' \in [Object -> SUBSET OFlag]
      BY <1>f, <2>2, FlagNames, Zenon
    <2> QED
      BY <2>1, <2>3, Zenon DEF DataTypes
  <1>7. ASSUME NEW s \in State, NEW o \in Object, luv_stream_close(s, o)
        PROVE  DataTypes'
    <2>1. Flags(o, {"OCLOSING"}, {"OSTARTED"})
      BY <1>7, Zenon DEF luv_stream_close
    <2>2. oflags' \in [Object -> SUBSET OFlag]
      BY <1>f, <2>1, FlagNames, Zenon
    <2>3. buf' \in [Object -> Seq(Int)]
      <3>1. <<>> \in Seq(Int)
        OBVIOUS
      <3> QED
        BY <1>7, <3>1, Zenon DEF luv_stream_close, DataTypes
    <2>4. sized' \in [Object -> BOOLEAN]
      <3>1. (sized[o] /\ buf[o] = <<>>) \in BOOLEAN /\ sized \in [Object -> BOOLEAN]
        BY Zenon DEF DataTypes
      <3> QED
        BY <1>7, <3>1, Zenon DEF luv_stream_close
    <2>5. DOMAIN ret' = State /\ UNCHANGED <<link, wire, sent, ended, seen>>
      BY <1>7, Zenon DEF luv_stream_close, luvL_cond_wait, Suspend, SuspendWith, DataTypes
    <2> QED
      BY <2>2, <2>3, <2>4, <2>5, Zenon DEF DataTypes
  <1>8. ASSUME NEW s \in State, NEW o \in Object, _shutdown_cb(s, o)
        PROVE  DataTypes'
    BY <1>8, Zenon DEF _shutdown_cb, DataTypes
  <1>9. ASSUME NEW o \in Object, StreamClosed(o)
        PROVE  DataTypes'
    <2>1. Flags(o, {"OCLOSED"}, {})
      BY <1>9, Zenon DEF StreamClosed, luvL_object_close_cb
    <2>2. oflags' \in [Object -> SUBSET OFlag]
      BY <1>f, <2>1, FlagNames, Zenon
    <2> QED
      BY <1>9, <2>2, Zenon DEF StreamClosed, luvL_object_close_cb, DataTypes
  <1>10. ASSUME NEW o \in Object, NEW len \in Reset .. MaxSent, _read_cb_saves(o, len)
         PROVE  DataTypes'
    <2>1. len \in Int /\ wire' \in [Object -> Seq(Int)] /\ ended' \in [Object -> BOOLEAN]
      BY <1>10, ReportTypes, Zenon DEF _read_cb_saves
    <2>2. Flags(o, {}, {"OSTARTED"})
      BY <1>10, Zenon DEF _read_cb_saves
    <2>3. oflags' \in [Object -> SUBSET OFlag]
      BY <1>f, <2>2, FlagNames, Zenon
    <2>4. buf' \in [Object -> Seq(Int)]
      <3>1. (IF len >= 0 THEN <<len>> ELSE buf[o]) \in Seq(Int) /\ buf \in [Object -> Seq(Int)]
        BY <2>1, SMTT(60) DEF DataTypes
      <3> QED
        BY <1>10, <3>1, Zenon DEF _read_cb_saves
    <2> QED
      BY <1>10, <2>1, <2>3, <2>4, Zenon DEF _read_cb_saves, loopVars, DataTypes
  <1>11. ASSUME NEW o \in Object, NEW len \in Reset .. MaxSent, _read_cb_rouses(o, len)
         PROVE  DataTypes'
    <2>1. len \in Int /\ wire' \in [Object -> Seq(Int)] /\ ended' \in [Object -> BOOLEAN]
      BY <1>11, ReportTypes, Zenon DEF _read_cb_rouses
    <2>2. PICK set \in SUBSET OFlag : \E clear : Flags(o, set, clear)
      BY <1>11, FlagNames, Zenon DEF _read_cb_rouses
    <2>3. oflags' \in [Object -> SUBSET OFlag]
      BY <1>f, <2>2, ZenonT(60)
    <2>4. seen' \in [Object -> Seq(Int)]
      <3>1. seen[o] \in Seq(Int) /\ seen \in [Object -> Seq(Int)]
        BY Zenon DEF DataTypes
      <3>2. Append(seen[o], len) \in Seq(Int)
        BY <2>1, <3>1
      <3> QED
        BY <1>11, <3>1, <3>2, Zenon DEF _read_cb_rouses
    <2> QED
      BY <1>11, <2>1, <2>3, <2>4, SMTT(60) DEF _read_cb_rouses, DataTypes
  <1>12. ASSUME NEW o \in Object, PeerSends(o) \/ PeerEnds(o)
         PROVE  DataTypes'
    <2>1. wire[o] \in Seq(Int) /\ wire \in [Object -> Seq(Int)] /\ sent[o] \in Nat
      BY Zenon DEF DataTypes
    <2>2. \A e \in Int : Append(wire[o], e) \in Seq(Int)
      BY <2>1
    <2>3. wire' \in [Object -> Seq(Int)] /\ sent' \in [Object -> Nat]
      <3>1. CASE PeerSends(o)
        <4>1. sent[o] + 1 \in Nat /\ Append(wire[o], sent[o] + 1) \in Seq(Int)
          BY <2>1, <2>2
        <4> QED
          BY <2>1, <3>1, <4>1, Zenon DEF PeerSends, DataTypes
      <3>2. CASE PeerEnds(o)
        <4>1. PICK e \in {Eof, Reset} : wire' = [wire EXCEPT ![o] = Append(@, e)]
          BY <3>2, Zenon DEF PeerEnds
        <4>2. Append(wire[o], e) \in Seq(Int)
          BY <2>2 DEF Eof, Reset
        <4>3. wire' \in [Object -> Seq(Int)]
          BY <2>1, <4>1, <4>2, Zenon
        <4> QED
          BY <3>2, <4>3, Zenon DEF PeerEnds, DataTypes
      <3> QED
        BY <1>12, <3>1, <3>2, Zenon
    <2> QED
      BY <1>12, <2>3, Zenon DEF PeerSends, PeerEnds, loopVars, DataTypes
  <1>13. ASSUME NEW s \in State, Sleeps(s) \/ SleepCb(s) \/ Resumes(s)
         PROVE  DataTypes'
    BY <1>13, Zenon
       DEF Sleeps, luv_sleep, Suspend, SuspendWith, SleepCb, sleep_cb, Resumes, ResumeWith,
           DataTypes
  <1> QED
    BY <1>1, <1>2, <1>3, <1>4, <1>5, <1>6, <1>7, <1>8, <1>9, <1>10, <1>11, <1>12, <1>13, ZenonT(60)
       DEF Next, LuaCalls, RequestCb, ReadCb

-----------------------------------------------------------------------------
(* The queues *)

\* Calls that wait for a stream, and those that do not, are told apart.
LEMMA CallNames ==
  ASSUME NEW op \in {"read", "shutdown", "close"}, NEW o
  PROVE  /\ <<op, o>> # <<"sleep">> /\ <<op, o>> # NoCall
         /\ \A p : <<op, o>> # <<"connect", p>> /\ <<op, o>> # <<"write", p>>
         /\ \A op2, p : <<op, o>> = <<op2, p>> => op = op2 /\ o = p
  BY Zenon DEF NoCall

\* What a state that waits aside is not doing.
LEMMA AsideWaits ==
  ASSUME StateTypes, NEW s \in State, NEW c \in Calls, ParksAside(s, c), NEW o \in Object
  PROVE  ~Waits(s, o)'
  <1>1. call'[s] = c
    BY ParkEffect, Zenon DEF ParksAside
  <1>2. c = <<"sleep">> \/ \E op \in {"connect", "write"}, p \in Object : c = <<op, p>>
    BY Zenon DEF ParksAside
  <1>3. ASSUME NEW op \in {"read", "shutdown", "close"}, c = <<op, o>>
        PROVE  FALSE
    BY <1>2, <1>3, CallNames, Zenon
  <1> QED
    BY <1>1, <1>3, Zenon DEF Waits, In

LEMMA InitQueue == Init => StateTypes /\ DataTypes /\ QueueInv
  <1> SUFFICES ASSUME Init
               PROVE  StateTypes /\ DataTypes /\ QueueInv
    OBVIOUS
  <1>1. StateTypes
    BY DEF Init, LoopInit, luvL_object_init, StateTypes, States!Status, Calls
  <1>2. DataTypes
    BY DEF Init, LoopInit, luvL_object_init, DataTypes
  <1>3. \A o \in Object : Distinct(rouse[o]) /\ Single(rouse[o])
    BY DEF Init, luvL_object_init, Distinct, Single
  <1>4. \A s \in State, o \in Object : ~Waits(s, o)
    BY Zenon DEF Init, LoopInit, Waits, Parked
  <1> QED
    BY <1>1, <1>2, <1>3, <1>4, Zenon DEF QueueInv

LEMMA QueueStep == StateTypes /\ QueueInv /\ [Next]_vars => QueueInv'
  <1> SUFFICES ASSUME StateTypes, QueueInv, Kinds
               PROVE  QueueInv'
    BY StepKinds, Zenon
  <1>1. CASE Passes
    BY <1>1, Zenon DEF Passes, QueueInv, Avoids, Linked, Waits, Parked, In
  <1>2. ASSUME NEW s \in State, NEW c \in Calls, ParksAside(s, c)
        PROVE  QueueInv'
    <2>1. UNCHANGED <<rouse, risks>>
      BY <1>2, Zenon DEF ParksAside, Parks
    <2>2. \A t \in State : t # s => status'[t] = status[t] /\ call'[t] = call[t]
      BY <1>2, ParkEffect, Zenon DEF ParksAside
    <2>3. \A t \in State, p \in Object : Waits(t, p)' => Waits(t, p)
      BY <1>2, <2>2, AsideWaits, Zenon DEF Waits, Parked, In
    <2> QED
      BY <2>1, <2>3, Zenon DEF QueueInv, Avoids, Linked
  <1>3. ASSUME NEW s \in State, NEW op \in {"read", "shutdown", "close"}, NEW o \in Object,
               ParksFor(s, op, o)
        PROVE  QueueInv'
    <2>1. /\ \A p \in Object : p # o => rouse'[p] = rouse[p]
          /\ rouse'[o] = Append(rouse[o], s)
          /\ \A t \in State, p \in Object : Linked(t, p)' <=> Linked(t, p) \/ (t = s /\ p = o)
      BY <1>3, LinkEffect, Zenon DEF ParksFor
    <2>2. /\ \A t \in State : t # s => status'[t] = status[t] /\ call'[t] = call[t]
          /\ call'[s] = <<op, o>> /\ UNCHANGED risks
      <3>1. <<op, o>> \in Calls
        BY Zenon DEF Calls
      <3>2. Parks(s, <<op, o>>)
        BY <1>3, Zenon DEF ParksFor
      <3> QED
        BY <3>1, <3>2, ParkEffect, Zenon DEF Parks
    <2>3. Distinct(rouse'[o])
      <3>1. rouse[o] \in Seq(State) /\ s \notin Range(rouse[o]) /\ Distinct(rouse[o])
        BY <1>3, Zenon DEF ParksFor, Linked, StateTypes, QueueInv
      <3> QED
        BY <2>1, <3>1, Appended
    <2>4. Avoids({"share"}) => Single(rouse'[o])
      <3>1. ASSUME Avoids({"share"})
            PROVE  rouse[o] = <<>>
        BY <1>3, <3>1, Zenon DEF ParksFor, Alone, Avoids
      <3>2. Append(<<>>, s) = <<s>>
        OBVIOUS
      <3> QED
        BY <2>1, <3>1, <3>2, Zenon DEF Single
    <2>5. \A t \in State, p \in Object : Waits(t, p)' => Waits(t, p) \/ (t = s /\ p = o)
      <3>1. ASSUME NEW p \in Object, Waits(s, p)'
            PROVE  p = o
        BY <2>2, <3>1, CallNames DEF Waits, In
      <3> QED
        BY <2>2, <3>1, Zenon DEF Waits, In, Parked
    <2>6. \A t \in State, p \in Object : Waits(t, p)' => Linked(t, p)'
      BY <2>1, <2>5, Zenon DEF QueueInv
    <2>7. \A p \in Object : Distinct(rouse'[p]) /\ (Avoids({"share"})' => Single(rouse'[p]))
      BY <2>1, <2>2, <2>3, <2>4, Zenon DEF QueueInv, Avoids
    <2> QED
      BY <2>6, <2>7, Zenon DEF QueueInv
  <1>4. ASSUME NEW s \in State, Wakes(s)
        PROVE  QueueInv'
    <2>1. /\ \A t \in State : t # s => status'[t] = status[t]
          /\ ~Parked(s)' /\ UNCHANGED <<call, rouse, risks>>
      BY <1>4, WakeEffect, Zenon DEF Wakes, Parked
    <2>2. \A t \in State, p \in Object : Waits(t, p)' => Waits(t, p)
      BY <2>1, Zenon DEF Waits, Parked, In
    <2> QED
      BY <2>1, <2>2, Zenon DEF QueueInv, Avoids, Linked
  <1>5. ASSUME NEW s \in State, Goes(s)
        PROVE  QueueInv'
    <2>1. /\ \A t \in State : t # s => status'[t] = status[t] /\ call'[t] = call[t]
          /\ ~Parked(s)' /\ UNCHANGED <<rouse, risks>>
      BY <1>5, GoEffect, Zenon DEF Goes, Parked
    <2>2. \A t \in State, p \in Object : Waits(t, p)' => Waits(t, p)
      BY <2>1, Zenon DEF Waits, Parked, In
    <2> QED
      BY <2>1, <2>2, Zenon DEF QueueInv, Avoids, Linked
  <1>6. ASSUME NEW o \in Object, Rouses(o)
        PROVE  QueueInv'
    <2>1. PICK h \in State :
            /\ \A p \in Object : p # o => rouse'[p] = rouse[p]
            /\ rouse'[o] = Tail(rouse[o]) /\ rouse[o] # <<>>
            /\ Wake(h) /\ UNCHANGED <<call, risks>>
            /\ \A t \in State, p \in Object :
                 Linked(t, p) => Linked(t, p)' \/ (t = h /\ p = o)
      BY <1>6, RouseEffect, ZenonT(60) DEF Rouses
    <2>2. (\A t \in State : t # h => status'[t] = status[t]) /\ ~Parked(h)'
      BY <2>1, WakeEffect, Zenon DEF Parked
    <2>3. \A t \in State, p \in Object : Waits(t, p)' => Waits(t, p) /\ t # h
      BY <2>1, <2>2, Zenon DEF Waits, Parked, In
    <2>4. Distinct(rouse'[o]) /\ (Avoids({"share"}) => Single(rouse'[o]))
      <3>1. rouse[o] \in Seq(State) /\ Distinct(rouse[o])
        BY Zenon DEF StateTypes, QueueInv
      <3>2. Distinct(Tail(rouse[o])) /\ \A f : rouse[o] = <<f>> => Tail(rouse[o]) = <<>>
        BY <2>1, <3>1, Removed, Zenon
      <3> QED
        BY <2>1, <3>2, Zenon DEF QueueInv, Single
    <2>5. ASSUME NEW t \in State, NEW p \in Object, Waits(t, p)'
          PROVE  Linked(t, p)'
      BY <2>1, <2>3, <2>5, Zenon DEF QueueInv
    <2>6. Avoids({"share"})' <=> Avoids({"share"})
      BY <2>1, Zenon DEF Avoids
    <2>7. ASSUME NEW p \in Object
          PROVE  Distinct(rouse'[p]) /\ (Avoids({"share"})' => Single(rouse'[p]))
      BY <2>1, <2>4, <2>6, Zenon DEF QueueInv
    <2> QED
      BY <2>5, <2>7, Zenon DEF QueueInv
  <1> QED
    BY <1>1, <1>2, <1>3, <1>4, <1>5, <1>6, Zenon DEF Kinds

\* The state that leaves a queue is in it no more.
LEMMA HeadLeaves ==
  ASSUME StateTypes, QueueInv, NEW o \in Object, Rouses(o)
  PROVE  \E h \in State :
           /\ h = Head(rouse[o]) /\ Linked(h, o) /\ ~Linked(h, o)' /\ ~Parked(h)'
           /\ \A t \in State : t # h => status'[t] = status[t]
           /\ status'[h] = IF status[h] = "parked" THEN "ready" ELSE status[h]
           /\ \A t \in State, p \in Object :
                /\ Linked(t, p)' => Linked(t, p)
                /\ Linked(t, p) => Linked(t, p)' \/ (t = h /\ p = o)
           /\ Avoids({"share"}) => \A t \in State : Linked(t, o) => t = h
  <1>1. PICK h \in State :
          /\ h = Head(rouse[o]) /\ Linked(h, o) /\ Wake(h) /\ rouse'[o] = Tail(rouse[o])
          /\ \A t \in State, p \in Object :
               /\ Linked(t, p)' => Linked(t, p)
               /\ Linked(t, p) => Linked(t, p)' \/ (t = h /\ p = o)
    BY RouseEffect, ZenonT(60) DEF Rouses
  <1>2. /\ \A t \in State : t # h => status'[t] = status[t]
        /\ status'[h] = IF status[h] = "parked" THEN "ready" ELSE status[h]
    BY <1>1, WakeEffect, Zenon
  <1>3. rouse[o] \in Seq(State) /\ rouse[o] # <<>> /\ Distinct(rouse[o])
    BY Zenon DEF Rouses, StateTypes, QueueInv
  <1>4. ~Linked(h, o)'
    <2>1. Head(rouse[o]) \notin Range(Tail(rouse[o]))
      BY <1>3, Removed, Zenon
    <2> QED
      BY <1>1, <2>1, Zenon DEF Linked
  <1>5. ASSUME Avoids({"share"}), NEW t \in State, Linked(t, o)
        PROVE  t = h
    <2>1. PICK x \in State : rouse[o] = <<x>>
      BY <1>3, <1>5, Zenon DEF QueueInv, Single
    <2>2. Range(<<x>>) = {x} /\ Head(<<x>>) = x
      BY DEF Range
    <2> QED
      BY <1>1, <1>5, <2>1, <2>2 DEF Linked
  <1>6. ~Parked(h)'
    BY <1>2, Zenon DEF Parked
  <1> QED
    BY <1>1, <1>2, <1>4, <1>5, <1>6, Zenon

\* A state waits for one stream, and not aside.
LEMMA WaitsFor ==
  ASSUME NEW s, NEW o, Waits(s, o)
  PROVE  /\ Parked(s) /\ call[s] # <<"sleep">> /\ call[s] # NoCall
         /\ \A p : Waits(s, p) => p = o
         /\ \A op \in {"connect", "write"} : \A p : ~In(s, op, p)
  BY CallNames DEF Waits, In

\* A request made by a call is the request of that call.
LEMMA AsideRequest ==
  ASSUME StateTypes, NEW s \in State, NEW c \in Calls, ParksAside(s, c),
         NEW op, NEW o, Requested(s, op, o)'
  PROVE  Requested(s, op, o) \/ (pend[s] = <<>> /\ In(s, op, o)')
  <1>1. CASE UNCHANGED pend
    BY <1>1, ZenonT(60) DEF Requested
  <1>2. ASSUME NEW op2 \in {"connect", "write"}, NEW o2 \in Object, c = <<op2, o2>>,
               Takes(s, op2, o2)
        PROVE  pend[s] = <<>> /\ In(s, op, o)'
    <2>1. Takes(s, op2, o2)
      BY <1>2, Zenon
    <2>2. pend[s] = <<>> /\ op = op2 /\ o = o2
      BY <2>1, TakeOnly, Zenon
    <2>3. call'[s] = c
      BY ParkEffect, Zenon DEF ParksAside
    <2> QED
      BY <1>2, <2>2, <2>3, Zenon DEF In
  <1> QED
    BY <1>1, <1>2, Zenon DEF ParksAside

LEMMA InitWake == Init => WakeInv
  BY DEF Init, LoopInit, luvL_object_init, WakeInv, Linked, Range, Requested

\* Only its own callback wakes a state.
LEMMA WakeStep == StateTypes /\ QueueInv /\ WakeInv /\ [Next]_vars => WakeInv'
  <1> DEFINE W(s, o) == Linked(s, o) => Waits(s, o)
             R(s, o) == \A op \in {"connect", "write"} :
                          Requested(s, op, o) => Parked(s) /\ In(s, op, o)
             Same(s) == /\ status'[s] = status[s] /\ call'[s] = call[s]
                        /\ pend'[s] = pend[s] \/ pend'[s] = <<>>
                        /\ \A p \in Object : Linked(s, p)' => Linked(s, p)
  <1> SUFFICES ASSUME StateTypes, QueueInv, Kinds, Avoids({"pipe"}),
                      \A s \in State, o \in Object : W(s, o) /\ R(s, o)
               PROVE  \A s \in State, o \in Object : W(s, o)' /\ R(s, o)'
    <2>1. Kinds => UNCHANGED risks
      BY Zenon
         DEF Kinds, Passes, ParksAside, ParksFor, Parks, Wakes, Goes, Rouses
    <2> QED
      BY <2>1, StepKinds, Zenon DEF WakeInv, Avoids
  <1>s. ASSUME NEW s \in State, Same(s), NEW o \in Object
        PROVE  W(s, o)' /\ R(s, o)'
    <2>1. W(s, o) /\ R(s, o)
      OBVIOUS
    <2>2. W(s, o)'
      BY <1>s, <2>1, Zenon DEF Waits, Parked, In
    <2>3. pend'[s] = <<>> => \A op : ~Requested(s, op, o)'
      BY DEF Requested
    <2>4. R(s, o)'
      BY <1>s, <2>1, <2>3, Zenon DEF Requested, Parked, In
    <2> QED
      BY <2>2, <2>4
  \* A state that is not parked is in no queue and has no request pending.
  <1>a. ASSUME NEW s \in State, ~Parked(s), NEW o \in Object
        PROVE  ~Linked(s, o) /\ \A op \in {"connect", "write"} : ~Requested(s, op, o)
    BY <1>a, ZenonT(60) DEF Waits
  <1>1. CASE Passes
    <2>1. \A s \in State : Same(s)
      <3>1. UNCHANGED pend \/ \E s \in State, o \in Object : Answer(s, "shutdown", o)
        BY <1>1, Zenon DEF Passes, Avoids
      <3>2. \A s \in State : pend'[s] = pend[s] \/ pend'[s] = <<>>
        BY <3>1, AnswerEffect, Zenon
      <3> QED
        BY <1>1, <3>2, Zenon DEF Passes, Linked
    <2> QED
      BY <1>s, <2>1, Zenon
  <1>2. ASSUME NEW s \in State, NEW c \in Calls, ParksAside(s, c)
        PROVE  \A t \in State, o \in Object : W(t, o)' /\ R(t, o)'
    <2>1. /\ Parked(s)' /\ call'[s] = c /\ ~Parked(s)
          /\ \A t \in State : t # s => status'[t] = status[t] /\ call'[t] = call[t]
          /\ \A t \in State, p \in Object : Linked(t, p)' <=> Linked(t, p)
      BY <1>2, ParkEffect, Zenon DEF ParksAside, Parked, Linked
    <2>2. \A t \in State : t # s => pend'[t] = pend[t]
      BY <1>2, TakeEffect, Zenon DEF ParksAside
    <2>3. ASSUME NEW o \in Object
          PROVE  W(s, o)' /\ R(s, o)'
      <3>1. W(s, o)'
        BY <1>a, <2>1, Zenon
      <3>2. ASSUME NEW op \in {"connect", "write"}, Requested(s, op, o)'
            PROVE  In(s, op, o)'
        <4>1. ~Requested(s, op, o)
          BY <1>a, <2>1, Zenon
        <4> QED
          BY <1>2, <3>2, <4>1, AsideRequest, Zenon
      <3> QED
        BY <2>1, <3>1, <3>2, Zenon
    <2> QED
      BY <1>s, <2>1, <2>2, <2>3, ZenonT(60)
  <1>3. ASSUME NEW s \in State, NEW op \in {"read", "shutdown", "close"}, NEW o \in Object,
               ParksFor(s, op, o)
        PROVE  \A t \in State, p \in Object : W(t, p)' /\ R(t, p)'
    <2>1. \A t \in State, p \in Object : Linked(t, p)' <=> Linked(t, p) \/ (t = s /\ p = o)
      BY <1>3, LinkEffect, Zenon DEF ParksFor
    <2>2. /\ Parked(s)' /\ call'[s] = <<op, o>> /\ ~Parked(s)
          /\ \A t \in State : t # s => status'[t] = status[t] /\ call'[t] = call[t]
      <3>1. <<op, o>> \in Calls
        BY Zenon DEF Calls
      <3> QED
        BY <1>3, <3>1, ParkEffect, Zenon DEF ParksFor, Parked
    <2>3. \A t \in State : t # s => pend'[t] = pend[t]
      BY <1>3, TakeEffect, Zenon DEF ParksFor
    <2>4. ASSUME NEW p \in Object
          PROVE  W(s, p)' /\ R(s, p)'
      <3>1. W(s, p)'
        BY <1>a, <2>1, <2>2, Zenon DEF Waits, In
      <3>2. ASSUME NEW op2 \in {"connect", "write"}, Requested(s, op2, p)'
            PROVE  FALSE
        <4>1. CASE UNCHANGED pend
          BY <1>a, <2>2, <3>2, <4>1, Zenon DEF Requested
        <4>2. CASE Takes(s, op, o) /\ op = "shutdown"
          <5>1. op2 = op
            BY <3>2, <4>2, TakeOnly, Zenon
          <5> QED
            BY <4>2, <5>1, Zenon
        <4> QED
          BY <1>3, <4>1, <4>2, Zenon DEF ParksFor
      <3> QED
        BY <3>1, <3>2, Zenon
    <2> QED
      BY <1>s, <2>1, <2>2, <2>3, <2>4, ZenonT(60)
  <1>4. ASSUME NEW s \in State, Wakes(s)
        PROVE  \A t \in State, o \in Object : W(t, o)' /\ R(t, o)'
    <2>1. /\ \A t \in State : t # s => status'[t] = status[t]
          /\ UNCHANGED <<call, rouse>>
      BY <1>4, WakeEffect, Zenon DEF Wakes
    <2>2. \A t \in State : t # s => pend'[t] = pend[t]
      BY <1>4, AnswerEffect, Zenon DEF Wakes
    <2>3. ASSUME NEW o \in Object
          PROVE  ~Linked(s, o) /\ \A op \in {"connect", "write"} : ~Requested(s, op, o)'
      <3>1. CASE call[s] = <<"sleep">> /\ UNCHANGED pend
        <4>1. ~Linked(s, o)
          BY <3>1, WaitsFor, Zenon
        <4>2. \A op : ~In(s, op, o)
          BY <3>1 DEF In
        <4> QED
          BY <3>1, <4>1, <4>2, Zenon DEF Requested
      <3>2. ASSUME NEW op \in {"connect", "write"}, NEW p \in Object, Answer(s, op, p)
            PROVE  ~Linked(s, o) /\ pend'[s] = <<>>
        <4>1. Requested(s, op, p) /\ pend'[s] = <<>>
          BY <3>2, AnswerEffect, Zenon
        <4>2. In(s, op, p)
          BY <4>1, Zenon
        <4> QED
          BY <4>1, <4>2, WaitsFor, ZenonT(60)
      <3>3. pend'[s] = <<>> => \A op \in {"connect", "write"} : ~Requested(s, op, o)'
        BY DEF Requested
      <3> QED
        BY <1>4, <3>1, <3>2, <3>3, Zenon DEF Wakes
    <2> QED
      BY <1>s, <2>1, <2>2, <2>3, Zenon DEF Linked
  <1>5. ASSUME NEW s \in State, Goes(s)
        PROVE  \A t \in State, o \in Object : W(t, o)' /\ R(t, o)'
    <2>1. /\ \A t \in State : t # s => status'[t] = status[t] /\ call'[t] = call[t]
          /\ ~Parked(s) /\ UNCHANGED <<rouse, pend>>
      BY <1>5, GoEffect, Zenon DEF Goes, Parked
    <2>2. ASSUME NEW o \in Object
          PROVE  ~Linked(s, o)' /\ \A op \in {"connect", "write"} : ~Requested(s, op, o)'
      BY <1>a, <2>1, Zenon DEF Linked, Requested
    <2> QED
      BY <1>s, <2>1, <2>2, Zenon DEF Linked
  <1>6. ASSUME NEW o \in Object, Rouses(o)
        PROVE  \A t \in State, p \in Object : W(t, p)' /\ R(t, p)'
    <2>1. PICK h \in State :
            /\ Linked(h, o) /\ ~Linked(h, o)'
            /\ \A t \in State : t # h => status'[t] = status[t]
            /\ \A t \in State, p \in Object : Linked(t, p)' => Linked(t, p)
      BY <1>6, HeadLeaves, Zenon
    <2>2. UNCHANGED call /\ \A t \in State : pend'[t] = pend[t] \/ pend'[t] = <<>>
      BY <1>6, AnswerEffect, Zenon DEF Rouses
    <2>3. ASSUME NEW p \in Object
          PROVE  ~Linked(h, p)' /\ \A op \in {"connect", "write"} : ~Requested(h, op, p)'
      <3>1. Waits(h, o)
        BY <2>1, Zenon
      <3>2. ~Linked(h, p)'
        BY <2>1, <3>1, WaitsFor, Zenon
      <3>3. ASSUME NEW op \in {"connect", "write"}, Requested(h, op, p)
            PROVE  FALSE
        <4>1. In(h, op, p)
          BY <3>3, Zenon
        <4> QED
          BY <3>1, <4>1, WaitsFor, Zenon
      <3>4. pend'[h] = <<>> => \A op : ~Requested(h, op, p)'
        BY DEF Requested
      <3> QED
        BY <2>2, <3>2, <3>3, <3>4, Zenon DEF Requested
    <2> QED
      BY <1>s, <2>1, <2>2, <2>3, Zenon
  <1> QED
    BY <1>1, <1>2, <1>3, <1>4, <1>5, <1>6, Zenon DEF Kinds

\* A state that waits for a stream has just started to, or did before.
LEMMA WaitsSince ==
  ASSUME StateTypes, Kinds, NEW s \in State, NEW o \in Object,
         NEW op \in {"read", "shutdown", "close"}, In(s, op, o)'
  PROVE  \/ ParksFor(s, op, o)
         \/ /\ In(s, op, o)
            /\ Linked(s, o)' => Linked(s, o)
            /\ Parked(s)' => Parked(s)
  <1> DEFINE Did == /\ In(s, op, o)
                    /\ Linked(s, o)' => Linked(s, o)
                    /\ Parked(s)' => Parked(s)
  <1>1. call'[s] = <<op, o>>
    BY Zenon DEF In
  <1>2. CASE Passes
    BY <1>2, Zenon DEF Passes, In, Linked, Parked
  <1>3. ASSUME NEW t \in State, NEW c \in Calls, ParksAside(t, c)
        PROVE  Did
    <2>1. /\ call'[t] = c /\ UNCHANGED rouse
          /\ \A u \in State : u # t => status'[u] = status[u] /\ call'[u] = call[u]
      BY <1>3, ParkEffect, Zenon DEF ParksAside
    <2>2. c = <<"sleep">> \/ \E op2 \in {"connect", "write"}, p \in Object : c = <<op2, p>>
      BY <1>3, Zenon DEF ParksAside
    <2>3. s # t
      BY <1>1, <2>1, <2>2, CallNames
    <2> QED
      BY <2>1, <2>3, Zenon DEF In, Linked, Parked
  <1>4. ASSUME NEW t \in State, NEW op2 \in {"read", "shutdown", "close"}, NEW p \in Object,
               ParksFor(t, op2, p)
        PROVE  ParksFor(s, op, o) \/ Did
    <2>1. /\ call'[t] = <<op2, p>>
          /\ \A u \in State : u # t => status'[u] = status[u] /\ call'[u] = call[u]
      <3>1. <<op2, p>> \in Calls
        BY Zenon DEF Calls
      <3> QED
        BY <1>4, <3>1, ParkEffect, Zenon DEF ParksFor
    <2>2. Linked(s, o)' => Linked(s, o) \/ s = t
      BY <1>4, LinkEffect, Zenon DEF ParksFor
    <2>3. CASE s = t
      <3>1. op2 = op /\ p = o
        BY <1>1, <2>1, <2>3, CallNames
      <3> QED
        BY <1>4, <2>3, <3>1, Zenon
    <2>4. CASE s # t
      BY <2>1, <2>2, <2>4, Zenon DEF In, Parked
    <2> QED
      BY <2>3, <2>4, Zenon
  <1>5. ASSUME NEW t \in State, Wakes(t)
        PROVE  Did
    <2>1. /\ \A u \in State : u # t => status'[u] = status[u]
          /\ ~Parked(t)' /\ UNCHANGED <<call, rouse>>
      BY <1>5, WakeEffect, Zenon DEF Wakes, Parked
    <2> QED
      BY <2>1, Zenon DEF In, Linked, Parked
  <1>6. ASSUME NEW t \in State, Goes(t)
        PROVE  Did
    <2>1. /\ call'[t] = NoCall /\ UNCHANGED rouse
          /\ \A u \in State : u # t => status'[u] = status[u] /\ call'[u] = call[u]
      BY <1>6, GoEffect, Zenon DEF Goes
    <2>2. s # t
      BY <1>1, <2>1, CallNames, Zenon
    <2> QED
      BY <2>1, <2>2, Zenon DEF In, Linked, Parked
  <1>7. ASSUME NEW p \in Object, Rouses(p)
        PROVE  Did
    <2>1. PICK h \in State : Wake(h) /\ (Linked(s, o)' => Linked(s, o))
      BY <1>7, RouseEffect, Zenon DEF Rouses
    <2>2. (\A u \in State : u # h => status'[u] = status[u]) /\ ~Parked(h)'
      BY <2>1, WakeEffect, Zenon DEF Parked
    <2> QED
      BY <1>7, <2>1, <2>2, Zenon DEF Rouses, In, Parked
  <1> QED
    BY <1>2, <1>3, <1>4, <1>5, <1>6, <1>7, Zenon DEF Kinds

-----------------------------------------------------------------------------
(* Flags *)

\* How the flags of a stream may change.
Closes(o) ==
  \/ link[o] = "new" \/ "start" \in risks
  \/ \E s \in State : luv_stream_close(s, o)
  \/ \E len \in Reset .. MaxSent : _read_cb_rouses(o, len)
FlagMoves(o) ==
  /\ Is(o, "OSTARTED")' =>
       Is(o, "OSTARTED") \/ "start" \in risks \/ \E s \in State : luv_stream_read(s, o)
  /\ Closing(o)' => Closing(o) \/ Closes(o)
  /\ Closing(o) => Closing(o)'
  /\ Is(o, "OCLOSED") => Is(o, "OCLOSED")'

LEMMA FlagStep ==
  ASSUME DataTypes, [Next]_vars, NEW p \in Object
  PROVE  FlagMoves(p)
  <1> USE DEF objVars, netVars, readVars, pollVars
  <1>0. ASSUME UNCHANGED oflags
        PROVE  FlagMoves(p)
    BY <1>0, Zenon DEF FlagMoves, Is, Closing
  <1>1. ASSUME NEW o \in Object, NEW set \in SUBSET OFlag, NEW clear \in SUBSET {"OSTARTED"},
               Flags(o, set, clear),
               "OSTARTED" \in set =>
                 "start" \in risks \/ \E s \in State : luv_stream_read(s, o),
               "OCLOSING" \in set => Closing(o) \/ Closes(o)
        PROVE  FlagMoves(p)
    <2>1. /\ \A q \in Object : q # o => oflags'[q] = oflags[q]
          /\ \A x : Is(o, x)' <=> x \in set \/ (Is(o, x) /\ x \notin clear)
      BY <1>1, FlagEffect, ZenonT(60)
    <2>2. "OCLOSING" \notin clear /\ "OCLOSED" \notin clear
      BY <1>1, Zenon
    <2>3. CASE p = o
      BY <1>1, <2>1, <2>2, <2>3, Zenon DEF FlagMoves, Closing
    <2>4. CASE p # o
      BY <2>1, <2>4, Zenon DEF FlagMoves, Is, Closing
    <2> QED
      BY <2>3, <2>4, Zenon
  <1>2. /\ {} \in SUBSET {"OSTARTED"} /\ {"OSTARTED"} \in SUBSET {"OSTARTED"}
        /\ "OSTARTED" \notin {} /\ "OSTARTED" \notin {"OCLOSING"}
        /\ "OSTARTED" \notin {"OCLOSED"} /\ "OSTARTED" \notin {"OSHUTDOWN"}
        /\ "OCLOSING" \notin {} /\ "OCLOSING" \notin {"OSTARTED"}
        /\ "OCLOSING" \notin {"OCLOSED"} /\ "OCLOSING" \notin {"OSHUTDOWN"}
    OBVIOUS
  <1>3. CASE UNCHANGED vars
    BY <1>0, <1>3, Zenon DEF vars
  <1>4. ASSUME NEW s \in State, NEW o \in Object, LuaCalls(s, o)
        PROVE  FlagMoves(p)
    <2>1. CASE \/ luv_tcp_connect_fails(s, o) \/ luv_tcp_connect(s, o) \/ luv_pipe_connect(s, o)
               \/ luv_stream_read_closed(s, o) \/ luv_stream_read_saved(s, o)
               \/ luv_stream_write(s, o) \/ luv_stream_shutdown_again(s, o)
      BY <1>0, <2>1, Zenon
         DEF luv_tcp_connect_fails, luv_tcp_connect, luv_pipe_connect, luv_stream_read_closed,
             luv_stream_read_saved, luv_stream_write, luv_stream_shutdown_again
    <2>2. CASE luv_stream_read(s, o) \/ luv_stream_start(s, o)
      <3>1. Flags(o, {"OSTARTED"}, {})
        BY <2>2, Zenon DEF luv_stream_read, luv_stream_start, luvL_stream_start
      <3>2. "start" \in risks \/ \E u \in State : luv_stream_read(u, o)
        BY <2>2, Zenon DEF luv_stream_start
      <3> QED
        BY <1>1, <1>2, <3>1, <3>2, FlagNames, Zenon
    <2>3. CASE \/ luv_stream_start_fails(s, o) \/ luv_stream_stop(s, o)
               \/ luv_stream_write_fails(s, o) \/ luv_stream_close(s, o)
      <3>1. Flags(o, {}, {"OSTARTED"}) \/ Flags(o, {"OCLOSING"}, {"OSTARTED"})
        BY <2>3, Zenon
           DEF luv_stream_start_fails, luv_stream_stop, luv_stream_write_fails, luv_stream_close
      <3>2. luv_stream_stop(s, o) \/ Closing(o) \/ Closes(o)
        BY <2>3, Zenon DEF luv_stream_start_fails, luv_stream_write_fails, Closes
      <3>3. luv_stream_stop(s, o) => Flags(o, {}, {"OSTARTED"})
        BY Zenon DEF luv_stream_stop
      <3> QED
        BY <1>1, <1>2, <3>1, <3>2, <3>3, FlagNames, Zenon
    <2>4. CASE luv_stream_shutdown(s, o)
      <3>1. Flags(o, {"OSHUTDOWN"}, {})
        BY <2>4, Zenon DEF luv_stream_shutdown, ShutsDown
      <3> QED
        BY <1>1, <1>2, <3>1, FlagNames, Zenon
    <2> QED
      BY <1>4, <2>1, <2>2, <2>3, <2>4, Zenon DEF LuaCalls
  <1>5. ASSUME NEW s \in State, NEW o \in Object, RequestCb(s, o)
        PROVE  FlagMoves(p)
    BY <1>0, <1>5, Zenon DEF RequestCb, luvL_connect_cb, _write_cb, _shutdown_cb
  <1>6. ASSUME NEW o \in Object, NEW len, _read_cb_saves(o, len)
        PROVE  FlagMoves(p)
    <2>1. Flags(o, {}, {"OSTARTED"})
      BY <1>6, Zenon DEF _read_cb_saves
    <2> QED
      BY <1>1, <1>2, <2>1, FlagNames, Zenon
  <1>7. ASSUME NEW o \in Object, NEW len \in Reset .. MaxSent, _read_cb_rouses(o, len)
        PROVE  FlagMoves(p)
    <2>1. \E set \in {{}, {"OCLOSING"}}, clear \in {{}, {"OSTARTED"}} : Flags(o, set, clear)
      BY <1>7, Zenon DEF _read_cb_rouses
    <2>2. Closes(o)
      BY <1>7, Zenon DEF Closes
    <2> QED
      BY <1>1, <1>2, <2>1, <2>2, FlagNames, Zenon
  <1>8. ASSUME NEW o \in Object, StreamClosed(o)
        PROVE  FlagMoves(p)
    <2>1. Flags(o, {"OCLOSED"}, {})
      BY <1>8, Zenon DEF StreamClosed, luvL_object_close_cb
    <2> QED
      BY <1>1, <1>2, <2>1, FlagNames, Zenon
  <1>9. ASSUME NEW o \in Object, PeerSends(o) \/ PeerEnds(o)
        PROVE  FlagMoves(p)
    BY <1>0, <1>9, Zenon DEF PeerSends, PeerEnds
  <1>10. ASSUME NEW s \in State, Sleeps(s) \/ SleepCb(s) \/ Resumes(s)
         PROVE  FlagMoves(p)
    BY <1>0, <1>10, Zenon DEF Sleeps, SleepCb, Resumes
  <1> QED
    BY <1>3, <1>4, <1>5, <1>6, <1>7, <1>8, <1>9, <1>10, Zenon DEF Next, ReadCb

-----------------------------------------------------------------------------
(* Requests *)

\* Among the risks avoided.
LEMMA Avoided ==
  ASSUME NEW rs, Avoids(rs), NEW r \in rs
  PROVE  r \notin risks /\ Avoids({r})
  BY Zenon DEF Avoids

\* The risks of a program do not change.
LEMMA SameRisks == Kinds => UNCHANGED risks
  BY ZenonT(60) DEF Kinds, Passes, ParksAside, ParksFor, Parks, Wakes, Goes, Rouses

LEMMA InitRequest == Init => NotReading /\ OwnRequest
  BY DEF Init, LoopInit, luvL_object_init, NotReading, OwnRequest, Linked, Range

LEMMA NotReadingStep ==
  StateTypes /\ DataTypes /\ NotReading /\ [Next]_vars => NotReading'
  <1> SUFFICES ASSUME StateTypes, DataTypes, NotReading, [Next]_vars, Kinds,
                      Avoids({"share", "start", "shutdown"}),
                      NEW s \in State, NEW o \in Object,
                      Linked(s, o)', In(s, "shutdown", o)', Is(o, "OSTARTED")'
               PROVE  FALSE
    BY StepKinds, SameRisks, Zenon DEF NotReading, Avoids
  <1>1. "share" \notin risks /\ "start" \notin risks /\ "shutdown" \notin risks
    BY Zenon DEF Avoids
  <1>2. Is(o, "OSTARTED") \/ \E t \in State : luv_stream_read(t, o)
    BY <1>1, FlagStep, Zenon DEF FlagMoves
  <1>3. CASE Linked(s, o) /\ In(s, "shutdown", o)
    <2>1. ~Is(o, "OSTARTED")
      BY <1>3, Zenon DEF NotReading
    <2>2. rouse[o] = <<>>
      BY <1>1, <1>2, <2>1, Zenon DEF luv_stream_read, Alone
    <2> QED
      BY <1>3, <2>2 DEF Linked, Range
  <1>4. CASE ParksFor(s, "shutdown", o)
    <2>1. ~Is(o, "OSTARTED")
      BY <1>1, <1>4, Zenon DEF ParksFor, luv_stream_shutdown, ShutsDown
    <2>2. PICK t \in State : luv_stream_read(t, o)
      BY <1>2, <2>1, Zenon
    <2>3. call'[s] = <<"shutdown", o>> /\ \A u \in State : u # s => call'[u] = call[u]
      <3>1. <<"shutdown", o>> \in Calls
        BY Zenon DEF Calls
      <3> QED
        BY <1>4, <3>1, ParkEffect, Zenon DEF ParksFor
    <2>4. Running(t) /\ call' = [call EXCEPT ![t] = <<"read", o>>]
      BY <2>2, Zenon DEF luv_stream_read, luvL_cond_wait, Suspend, SuspendWith
    <2>5. t = s
      <3>1. Running(s) /\ status' = [status EXCEPT ![s] = "parked"]
        BY <1>4, Zenon DEF ParksFor, Parks
      <3>2. status' = [status EXCEPT ![t] = "parked"]
        BY <2>2, Zenon
           DEF luv_stream_read, luvL_cond_wait, Suspend, SuspendWith, States!Suspend, States!Move
      <3> QED
        BY <2>4, <3>1, <3>2, Zenon DEF Running, StateTypes
    <2> QED
      BY <2>3, <2>4, <2>5, Zenon DEF StateTypes
  <1> QED
    BY <1>3, <1>4, WaitsSince, Zenon

LEMMA OwnRequestStep ==
  StateTypes /\ QueueInv /\ WakeInv /\ NotReading /\ OwnRequest /\ [Next]_vars => OwnRequest'
  <1> DEFINE Q(s) == pend[s] = <<>> \/ (Parked(s) /\ pend[s] = <<call[s]>>)
  <1> SUFFICES ASSUME StateTypes, QueueInv, WakeInv, NotReading, Kinds, OwnsRequest,
                      \A s \in State : Q(s)
               PROVE  \A s \in State : Q(s)'
    BY StepKinds, SameRisks, ZenonT(60) DEF OwnRequest, OwnsRequest, Avoids
  <1>r. /\ "pipe" \notin risks /\ Avoids({"share"}) /\ Avoids({"pipe"})
        /\ Avoids({"share", "start", "shutdown"})
    BY Zenon DEF OwnsRequest, Avoids
  <1>s. ASSUME NEW s \in State, UNCHANGED <<status[s], call[s]>>,
               pend'[s] = pend[s] \/ pend'[s] = <<>>
        PROVE  Q(s)'
    BY <1>s, Zenon DEF Parked
  <1>1. CASE Passes
    <2>1. UNCHANGED <<status, call>> /\ \A s \in State : pend'[s] = pend[s] \/ pend'[s] = <<>>
      BY <1>1, <1>r, AnswerEffect, Zenon DEF Passes
    <2> QED
      BY <1>s, <2>1, Zenon
  <1>p. ASSUME NEW s \in State, NEW c \in Calls, Parks(s, c),
               \/ UNCHANGED pend
               \/ \E op, o : c = <<op, o>> /\ Takes(s, op, o)
        PROVE  \A t \in State : Q(t)'
    <2>1. /\ Parked(s)' /\ call'[s] = c /\ ~Parked(s)
          /\ \A t \in State : t # s => status'[t] = status[t] /\ call'[t] = call[t]
      BY <1>p, ParkEffect, Zenon DEF Parked
    <2>2. \A t \in State : t # s => pend'[t] = pend[t]
      BY <1>p, TakeEffect, Zenon
    <2>3. pend[s] = <<>>
      BY <2>1, Zenon
    <2>4. pend'[s] = <<>> \/ pend'[s] = <<c>>
      <3>1. ASSUME NEW op, NEW o, c = <<op, o>>, Takes(s, op, o)
            PROVE  pend'[s] = <<c>>
        <4>1. Takes(s, op, o)
          BY <3>1, Zenon
        <4>2. Requested(s, op, o)'
          BY <2>3, <4>1, TakeEffect, Zenon
        <4> QED
          BY <3>1, <4>2, Zenon DEF Requested
      <3> QED
        BY <1>p, <2>3, <3>1, Zenon
    <2>5. Q(s)'
      BY <2>1, <2>4, Zenon
    <2> QED
      BY <1>s, <2>1, <2>2, <2>5, ZenonT(60)
  <1>2. ASSUME NEW s \in State, NEW c \in Calls, ParksAside(s, c)
        PROVE  \A t \in State : Q(t)'
    BY <1>2, <1>p, Zenon DEF ParksAside
  <1>3. ASSUME NEW s \in State, NEW op \in {"read", "shutdown", "close"}, NEW o \in Object,
               ParksFor(s, op, o)
        PROVE  \A t \in State : Q(t)'
    <2>1. <<op, o>> \in Calls
      BY Zenon DEF Calls
    <2> QED
      BY <1>3, <1>p, <2>1, Zenon DEF ParksFor
  <1>4. ASSUME NEW s \in State, Wakes(s)
        PROVE  \A t \in State : Q(t)'
    <2>1. (\A t \in State : t # s => status'[t] = status[t]) /\ UNCHANGED call
      BY <1>4, WakeEffect, Zenon DEF Wakes
    <2>2. \A t \in State : t # s => pend'[t] = pend[t]
      BY <1>4, AnswerEffect, Zenon DEF Wakes
    <2>3. pend'[s] = <<>>
      <3>1. CASE call[s] = <<"sleep">> /\ UNCHANGED pend
        <4>1. pend[s] \in Seq(ReqOp \X Target)
          BY Zenon DEF StateTypes
        <4>2. ASSUME pend[s] = <<<<"sleep">>>>
              PROVE  FALSE
          <5>1. pend[s][1] \in ReqOp \X Target
            BY <4>1, <4>2
          <5>2. <<"sleep">> \in ReqOp \X Target
            BY <4>2, <5>1
          <5> QED
            BY <5>2
        <4> QED
          BY <3>1, <4>2, Zenon
      <3>2. ASSUME NEW op, NEW o, Answer(s, op, o)
            PROVE  pend'[s] = <<>>
        BY <3>2, AnswerEffect, Zenon
      <3> QED
        BY <1>4, <3>1, <3>2, Zenon DEF Wakes
    <2> QED
      BY <1>s, <2>1, <2>2, <2>3, Zenon
  <1>5. ASSUME NEW s \in State, Goes(s)
        PROVE  \A t \in State : Q(t)'
    <2>1. /\ \A t \in State : t # s => status'[t] = status[t] /\ call'[t] = call[t]
          /\ ~Parked(s) /\ UNCHANGED pend
      BY <1>5, GoEffect, Zenon DEF Goes, Parked
    <2>2. pend'[s] = <<>>
      BY <2>1, Zenon
    <2> QED
      BY <1>s, <2>1, <2>2, Zenon
  <1>6. ASSUME NEW o \in Object, Rouses(o)
        PROVE  \A t \in State : Q(t)'
    <2>1. PICK h \in State :
            /\ Linked(h, o)
            /\ \A t \in State : t # h => status'[t] = status[t]
            /\ Avoids({"share"}) => \A t \in State : Linked(t, o) => t = h
      BY <1>6, HeadLeaves, Zenon
    <2>2. UNCHANGED call /\ \A t \in State : pend'[t] = pend[t] \/ pend'[t] = <<>>
      BY <1>6, AnswerEffect, Zenon DEF Rouses
    <2>3. ASSUME pend[h] # <<>>, pend'[h] # <<>>
          PROVE  FALSE
      <3>1. Waits(h, o) /\ pend[h] = <<call[h]>>
        BY <1>r, <2>1, <2>3, ZenonT(60) DEF WakeInv
      <3>2. Requested(h, "shutdown", o) /\ In(h, "shutdown", o)
        <4>1. PICK op \in {"read", "shutdown", "close"} : call[h] = <<op, o>>
          BY <3>1, Zenon DEF Waits, In
        <4>2. pend[h] \in Seq(ReqOp \X Target) /\ pend[h] = <<<<op, o>>>>
          BY <3>1, <4>1, Zenon DEF StateTypes
        <4>3. <<op, o>> \in ReqOp \X Target
          <5>1. pend[h][1] \in ReqOp \X Target /\ pend[h][1] = <<op, o>>
            BY <4>2
          <5> QED
            BY <5>1, Zenon
        <4>4. op = "shutdown"
          BY <4>3, Zenon DEF ReqOp
        <4> QED
          BY <4>1, <4>2, <4>4, Zenon DEF Requested, In
      <3>3. ~Is(o, "OSTARTED")
        BY <1>r, <2>1, <3>2, Zenon DEF NotReading
      <3>4. PICK t \in State : Answer(t, "shutdown", o)
        BY <1>6, <3>2, <3>3, Zenon DEF Rouses
      <3>5. Requested(t, "shutdown", o) /\ pend'[t] = <<>>
        BY <3>4, AnswerEffect, Zenon
      <3>6. Parked(t) /\ In(t, "shutdown", o)
        <4>1. pend[t] = <<<<"shutdown", o>>>> /\ pend[t] # <<>>
          BY <3>5 DEF Requested
        <4>2. Parked(t) /\ pend[t] = <<call[t]>>
          BY <4>1, Zenon
        <4> QED
          BY <4>1, <4>2 DEF In
      <3>7. Linked(t, o)
        BY <3>6, Zenon DEF QueueInv, Waits
      <3>8. t = h
        BY <1>r, <2>1, <3>7, Zenon
      <3> QED
        BY <2>3, <3>5, <3>8, Zenon
    <2>4. Q(h)'
      BY <2>2, <2>3, Zenon
    <2> QED
      BY <1>s, <2>1, <2>2, <2>4, Zenon
  <1> QED
    BY <1>1, <1>2, <1>3, <1>4, <1>5, <1>6, Zenon DEF Kinds

-----------------------------------------------------------------------------
(* Readers *)

\* What ReaderListens asks of the stream.
Listening(o) == Is(o, "OSTARTED") /\ ~ended[o] /\ sized[o] /\ buf[o] = <<>>

\* While somebody is in the queue, only _read_cb and closing put an end to it.
LEMMA ListenStep ==
  ASSUME DataTypes, [Next]_vars, NEW p \in Object,
         "start" \notin risks, rouse[p] # <<>>, Listening(p), ~Closing(p)'
  PROVE  Listening(p)' \/ \E len \in Reset .. MaxSent : _read_cb_rouses(p, len)
  <1> USE DEF objVars, netVars, readVars, pollVars
  <1>0. ASSUME UNCHANGED <<oflags, buf, sized, ended>>
        PROVE  Listening(p)'
    BY <1>0, Zenon DEF Listening, Is
  \* A step on another stream.
  <1>1. ASSUME NEW o \in Object, NEW set \in SUBSET OFlag, NEW clear, Flags(o, set, clear),
               o # p \/ clear = {},
               ended'[p] = ended[p], sized'[p] = sized[p], buf'[p] = buf[p]
        PROVE  Listening(p)'
    <2>1. Is(p, "OSTARTED") => Is(p, "OSTARTED")'
      <3>1. /\ p # o => oflags'[p] = oflags[p]
            /\ \A x : Is(o, x)' <=> x \in set \/ (Is(o, x) /\ x \notin clear)
        BY <1>1, FlagEffect, ZenonT(60)
      <3> QED
        BY <1>1, <3>1, Zenon DEF Is
    <2> QED
      BY <1>1, <2>1, Zenon DEF Listening
  \* A step that closes the stream, or is not taken now.
  <1>2. ASSUME NEW o \in Object, NEW clear, Flags(o, {"OCLOSING"}, clear)
        PROVE  o # p
    <2>1. Is(o, "OCLOSING")'
      BY <1>2, Zenon DEF Flags, Is, DataTypes
    <2> QED
      BY <2>1, Zenon DEF Closing
  <1>3. CASE UNCHANGED vars
    BY <1>0, <1>3, Zenon DEF vars
  <1>4. ASSUME NEW s \in State, NEW o \in Object, LuaCalls(s, o)
        PROVE  Listening(p)'
    <2>1. CASE \/ luv_tcp_connect_fails(s, o) \/ luv_tcp_connect(s, o) \/ luv_pipe_connect(s, o)
               \/ luv_stream_read_closed(s, o)
               \/ luv_stream_write(s, o) \/ luv_stream_shutdown_again(s, o)
      BY <1>0, <2>1, Zenon
         DEF luv_tcp_connect_fails, luv_tcp_connect, luv_pipe_connect, luv_stream_read_closed,
             luv_stream_write, luv_stream_shutdown_again
    <2>2. CASE luv_stream_read_saved(s, o)
      <3>1. o # p
        BY <2>2, SMTT(60) DEF luv_stream_read_saved, Listening
      <3>2. ended'[p] = ended[p] /\ sized'[p] = sized[p] /\ buf'[p] = buf[p] /\ UNCHANGED oflags
        BY <2>2, <3>1, Zenon DEF luv_stream_read_saved, DataTypes
      <3> QED
        BY <3>2, ZenonT(60) DEF Listening, Is
    <2>3. CASE luv_stream_read(s, o)
      <3>1. Flags(o, {"OSTARTED"}, {}) /\ UNCHANGED buf
        BY <2>3, Zenon DEF luv_stream_read, luvL_stream_start
      <3>2. /\ o # p => ended'[p] = ended[p] /\ sized'[p] = sized[p]
            /\ o = p => ~ended'[p] /\ sized'[p]
        <4>1. /\ ended' = [ended EXCEPT ![o] = ended[o] /\ Is(o, "OSTARTED")]
              /\ sized' = [sized EXCEPT ![o] = TRUE]
          BY <2>3, SMTT(60) DEF luv_stream_read, luvL_stream_start
        <4>2. ended \in [Object -> BOOLEAN] /\ sized \in [Object -> BOOLEAN] /\ ~ended[p]
          BY SMTT(60) DEF DataTypes, Listening
        <4> QED
          BY <4>1, <4>2, ZenonT(60)
      <3>3. Is(p, "OSTARTED")'
        BY <3>1, SMTT(60) DEF Flags, Is, DataTypes, Listening
      <3> QED
        BY <3>1, <3>2, <3>3, Zenon DEF Listening
    <2>4. CASE luv_stream_start(s, o) \/ luv_stream_start_fails(s, o) \/ luv_stream_stop(s, o)
      BY <2>4, Zenon DEF luv_stream_start, luv_stream_start_fails, luv_stream_stop
    <2>5. CASE luv_stream_write_fails(s, o)
      <3>1. Flags(o, {"OCLOSING"}, {"OSTARTED"}) /\ UNCHANGED <<buf, sized, ended>>
        BY <2>5, Zenon DEF luv_stream_write_fails
      <3>2. o # p
        BY <1>2, <3>1, Zenon
      <3> QED
        BY <1>1, <3>1, <3>2, FlagNames, ZenonT(60)
    <2>6. CASE luv_stream_shutdown(s, o)
      <3>1. Flags(o, {"OSHUTDOWN"}, {}) /\ UNCHANGED <<buf, sized, ended>>
        BY <2>6, Zenon DEF luv_stream_shutdown, ShutsDown
      <3> QED
        BY <1>1, <3>1, FlagNames, ZenonT(60)
    <2>7. CASE luv_stream_close(s, o)
      <3>1. Flags(o, {"OCLOSING"}, {"OSTARTED"})
        BY <2>7, Zenon DEF luv_stream_close
      <3>2. o # p
        BY <1>2, <3>1, ZenonT(60)
      <3>3. ended'[p] = ended[p] /\ sized'[p] = sized[p] /\ buf'[p] = buf[p]
        BY <2>7, <3>2, Zenon DEF luv_stream_close, DataTypes
      <3> QED
        BY <1>1, <3>1, <3>2, <3>3, FlagNames, ZenonT(60)
    <2> QED
      BY <1>4, <2>1, <2>2, <2>3, <2>4, <2>5, <2>6, <2>7, ZenonT(60) DEF LuaCalls
  <1>5. ASSUME NEW s \in State, NEW o \in Object, RequestCb(s, o)
        PROVE  Listening(p)'
    BY <1>0, <1>5, Zenon DEF RequestCb, luvL_connect_cb, _write_cb, _shutdown_cb
  <1>6. ASSUME NEW o \in Object, NEW len \in Reset .. MaxSent, _read_cb_saves(o, len)
        PROVE  Listening(p)'
    <2>1. Flags(o, {}, {"OSTARTED"}) /\ o # p
      BY <1>6, SMTT(60) DEF _read_cb_saves
    <2>2. ended'[p] = ended[p] /\ sized'[p] = sized[p] /\ buf'[p] = buf[p]
      BY <1>6, <2>1, Zenon DEF _read_cb_saves, Reports, DataTypes
    <2> QED
      BY <1>1, <2>1, <2>2, FlagNames, ZenonT(60)
  <1>7. ASSUME NEW o \in Object, o # p, NEW len \in Reset .. MaxSent, _read_cb_rouses(o, len)
        PROVE  Listening(p)'
    <2>1. \E set \in {{}, {"OCLOSING"}}, clear \in {{}, {"OSTARTED"}} : Flags(o, set, clear)
      BY <1>7, ZenonT(60) DEF _read_cb_rouses
    <2>2. ended'[p] = ended[p] /\ sized'[p] = sized[p] /\ buf'[p] = buf[p]
      BY <1>7, Zenon DEF _read_cb_rouses, Reports, DataTypes
    <2> QED
      BY <1>1, <1>7, <2>1, <2>2, FlagNames, Zenon
  <1>8. ASSUME NEW o \in Object, StreamClosed(o)
        PROVE  Listening(p)'
    <2>1. Flags(o, {"OCLOSED"}, {}) /\ UNCHANGED <<buf, sized, ended>>
      BY <1>8, Zenon DEF StreamClosed, luvL_object_close_cb
    <2> QED
      BY <1>1, <2>1, FlagNames, Zenon
  <1>9. ASSUME NEW o \in Object, PeerSends(o) \/ PeerEnds(o)
        PROVE  Listening(p)'
    BY <1>0, <1>9, Zenon DEF PeerSends, PeerEnds
  <1>10. ASSUME NEW s \in State, Sleeps(s) \/ SleepCb(s) \/ Resumes(s)
         PROVE  Listening(p)'
    BY <1>0, <1>10, Zenon DEF Sleeps, SleepCb, Resumes
  <1> QED
    BY <1>3, <1>4, <1>5, <1>6, <1>7, <1>8, <1>9, <1>10, Zenon DEF Next, ReadCb

LEMMA InitReader == Init => ReaderListens
  BY Zenon DEF Init, LoopInit, ReaderListens, In, NoCall

LEMMA ReaderStep ==
  StateTypes /\ DataTypes /\ QueueInv /\ ReaderListens /\ [Next]_vars => ReaderListens'
  <1> SUFFICES ASSUME StateTypes, DataTypes, QueueInv, ReaderListens, [Next]_vars, Kinds,
                      Avoids({"share", "again", "start"}),
                      NEW s \in State, NEW o \in Object,
                      In(s, "read", o)', Parked(s)', ~Closing(o)'
               PROVE  Listening(o)'
    BY StepKinds, SameRisks, Zenon DEF ReaderListens, Listening, Parked, Avoids
  <1>r. /\ "again" \notin risks /\ "start" \notin risks /\ Avoids({"share"})
    BY Zenon DEF Avoids
  <1>1. CASE ParksFor(s, "read", o)
    <2>1. luv_stream_read(s, o)
      BY <1>1, SMTT(60) DEF ParksFor
    <2>2. Flags(o, {"OSTARTED"}, {}) /\ buf[o] = <<>> /\ UNCHANGED buf
      BY <2>1, Zenon DEF luv_stream_read, luvL_stream_start
    <2>3. /\ ended' = [ended EXCEPT ![o] = ended[o] /\ Is(o, "OSTARTED")]
          /\ sized' = [sized EXCEPT ![o] = TRUE]
          /\ ~(Is(o, "OSTARTED") /\ ended[o])
      BY <1>r, <2>1, Zenon DEF luv_stream_read, luvL_stream_start
    <2>4. ended \in [Object -> BOOLEAN] /\ sized \in [Object -> BOOLEAN]
      BY Zenon DEF DataTypes
    <2>5. ~ended'[o] /\ sized'[o]
      BY <2>3, <2>4, Zenon
    <2>6. Is(o, "OSTARTED")'
      BY <2>2, Zenon DEF Flags, Is, DataTypes
    <2> QED
      BY <2>2, <2>5, <2>6, Zenon DEF Listening
  <1>2. CASE In(s, "read", o) /\ Parked(s)
    <2>1. Linked(s, o)
      BY <1>2, ZenonT(60) DEF QueueInv, Waits
    <2>2. rouse[o] # <<>>
      BY <2>1 DEF Linked, Range
    <2>3. ~Closing(o)
      BY FlagStep, Zenon DEF FlagMoves
    <2>4. Listening(o)
      BY <1>2, <2>3, Zenon DEF ReaderListens, Listening, Parked
    <2>5. ASSUME NEW len \in Reset .. MaxSent, _read_cb_rouses(o, len)
          PROVE  FALSE
      <3>1. Rouses(o)
        <4>1. Signals(o)
          BY <2>5, Zenon DEF Signals
        <4> QED
          BY <2>5, <4>1, Zenon DEF _read_cb_rouses, Reports, pollVars, Rouses
      <3>2. \E h \in State : ~Parked(h)' /\ \A t \in State : Linked(t, o) => t = h
        BY <1>r, <3>1, HeadLeaves, ZenonT(60)
      <3> QED
        BY <2>1, <3>2, Zenon
    <2> QED
      BY <1>r, <2>2, <2>4, <2>5, ListenStep, Zenon
  <1> QED
    BY <1>1, <1>2, WaitsSince, Zenon

\* The steps that move the chunks of a stream.
Still(p) ==
  seen'[p] = seen[p] /\ buf'[p] = buf[p] /\ wire'[p] = wire[p] /\ sent'[p] = sent[p]
Moves(p) ==
  \/ \E s \in State :
       luv_stream_read_saved(s, p) \/ luv_stream_close(s, p) \/ luvL_connect_cb(s, p)
  \/ \E len \in Reset .. MaxSent : _read_cb_saves(p, len) \/ _read_cb_rouses(p, len)
  \/ PeerSends(p) \/ PeerEnds(p)

LEMMA MoveStep ==
  ASSUME DataTypes, [Next]_vars, NEW p \in Object
  PROVE  Still(p) \/ Moves(p)
  <1> USE DEF objVars, netVars, readVars, pollVars
  <1>0. ASSUME UNCHANGED <<seen, buf, wire, sent>>
        PROVE  Still(p)
    BY <1>0, Zenon DEF Still
  <1>1. CASE UNCHANGED vars
    BY <1>0, <1>1, Zenon DEF vars
  <1>2. ASSUME NEW s \in State, NEW o \in Object, LuaCalls(s, o)
        PROVE  Still(p) \/ Moves(p)
    <2>1. CASE luv_stream_read_saved(s, o) \/ luv_stream_close(s, o)
      <3>1. o # p => Still(p)
        BY <2>1 DEF luv_stream_read_saved, luv_stream_close, DataTypes, Still
      <3> QED
        BY <2>1, <3>1, Zenon DEF Moves
    <2>2. CASE ~(luv_stream_read_saved(s, o) \/ luv_stream_close(s, o))
      BY <1>0, <1>2, <2>2, Zenon
         DEF LuaCalls, luv_tcp_connect_fails, luv_tcp_connect, luv_pipe_connect,
             luv_stream_read_closed, luv_stream_read, luv_stream_start, luv_stream_start_fails,
             luv_stream_stop, luv_stream_write_fails, luv_stream_write, luv_stream_shutdown, ShutsDown,
             luv_stream_shutdown_again
    <2> QED
      BY <2>1, <2>2, Zenon
  <1>3. ASSUME NEW s \in State, NEW o \in Object, RequestCb(s, o)
        PROVE  Still(p) \/ Moves(p)
    <2>1. CASE luvL_connect_cb(s, o)
      <3>1. o # p => Still(p)
        BY <2>1, Zenon DEF luvL_connect_cb, DataTypes, Still
      <3> QED
        BY <2>1, <3>1, ZenonT(60) DEF Moves
    <2>2. CASE _write_cb(s, o) \/ _shutdown_cb(s, o)
      BY <1>0, <2>2, Zenon DEF _write_cb, _shutdown_cb
    <2> QED
      BY <1>3, <2>1, <2>2, Zenon DEF RequestCb
  <1>4. ASSUME NEW o \in Object, NEW len \in Reset .. MaxSent,
               _read_cb_saves(o, len) \/ _read_cb_rouses(o, len)
        PROVE  Still(p) \/ Moves(p)
    <2>1. o # p => Still(p)
      BY <1>4, Zenon DEF _read_cb_saves, _read_cb_rouses, Reports, DataTypes, Still
    <2> QED
      BY <1>4, <2>1, ZenonT(60) DEF Moves
  <1>5. ASSUME NEW o \in Object, PeerSends(o) \/ PeerEnds(o)
        PROVE  Still(p) \/ Moves(p)
    <2>1. o # p => Still(p)
      BY <1>5, SMTT(60) DEF PeerSends, PeerEnds, DataTypes, Still
    <2> QED
      BY <1>5, <2>1, Zenon DEF Moves
  <1>6. ASSUME NEW o \in Object, StreamClosed(o)
        PROVE  Still(p)
    BY <1>0, <1>6, Zenon DEF StreamClosed
  <1>7. ASSUME NEW s \in State, Sleeps(s) \/ SleepCb(s) \/ Resumes(s)
        PROVE  Still(p)
    BY <1>0, <1>7, Zenon DEF Sleeps, SleepCb, Resumes
  <1> QED
    BY <1>1, <1>2, <1>3, <1>4, <1>5, <1>6, <1>7, Zenon DEF Next, ReadCb

\* The buffer of a stream is left alone, emptied, or filled when nobody waits.
LEMMA BufStep ==
  ASSUME DataTypes, [Next]_vars, NEW p \in Object
  PROVE  buf'[p] = buf[p] \/ buf'[p] = <<>> \/ \E len \in Reset .. MaxSent : _read_cb_saves(p, len)
  <1>1. ASSUME NEW s \in State, luv_stream_read_saved(s, p) \/ luv_stream_close(s, p)
        PROVE  buf'[p] = <<>>
    BY <1>1, Zenon DEF luv_stream_read_saved, luv_stream_close, DataTypes
  <1>2. ASSUME \/ \E s \in State : luvL_connect_cb(s, p)
               \/ \E len \in Reset .. MaxSent : _read_cb_rouses(p, len)
               \/ PeerSends(p) \/ PeerEnds(p)
        PROVE  UNCHANGED buf
    BY <1>2, Zenon DEF luvL_connect_cb, _read_cb_rouses, PeerSends, PeerEnds, readVars
  <1> QED
    BY <1>1, <1>2, MoveStep, ZenonT(60) DEF Still, Moves

\* The buffer of a stream with a reader in its queue stays empty.
LEMMA InitRead == Init => ReadInv
  BY Zenon DEF Init, luvL_object_init, ReadInv

LEMMA ReadStep == StateTypes /\ DataTypes /\ ReadInv /\ [Next]_vars => ReadInv'
  <1> SUFFICES ASSUME StateTypes, DataTypes, ReadInv, [Next]_vars, Kinds,
                      NEW s \in State, NEW o \in Object, Linked(s, o)', In(s, "read", o)'
               PROVE  buf'[o] = <<>>
    BY StepKinds, ZenonT(60) DEF ReadInv
  <1>1. CASE ParksFor(s, "read", o)
    <2>1. luv_stream_read(s, o)
      BY <1>1, Zenon DEF ParksFor
    <2> QED
      BY <2>1, Zenon DEF luv_stream_read
  <1>2. CASE Linked(s, o) /\ In(s, "read", o)
    <2>1. buf[o] = <<>>
      BY <1>2, ZenonT(60) DEF ReadInv
    <2>2. ASSUME NEW len \in Reset .. MaxSent, _read_cb_saves(o, len)
          PROVE  FALSE
      <3>1. rouse[o] = <<>>
        BY <2>2, Zenon DEF _read_cb_saves
      <3> QED
        BY <1>2, <3>1 DEF Linked, Range
    <2> QED
      BY <2>1, <2>2, BufStep, Zenon
  <1> QED
    BY <1>1, <1>2, WaitsSince, Zenon

-----------------------------------------------------------------------------
(* The order of chunks *)

\* What the order of a queue says of the queue with one more, of the queue without
\* its head, and of a queue of one.
LEMMA OrderAppended ==
  ASSUME NEW q \in Seq(Int), NEW e \in Int
  PROVE  /\ Rising(q) /\ Before(q, <<e>>) => Rising(Append(q, e))
         /\ \A n \in Nat : UpTo(q, n) /\ e <= n => UpTo(Append(q, e), n)
         /\ \A r \in Seq(Int) :
              /\ Before(q, r) /\ Before(<<e>>, r) => Before(Append(q, e), r)
              /\ Before(r, q) /\ Before(r, <<e>>) => Before(r, Append(q, e))
  <1>1. /\ Len(q) \in Nat /\ DOMAIN q = 1 .. Len(q)
        /\ DOMAIN Append(q, e) = 1 .. Len(q) + 1
        /\ \A i \in 1 .. Len(q) : Append(q, e)[i] = q[i] /\ q[i] \in Int
        /\ Append(q, e)[Len(q) + 1] = e
    OBVIOUS
  <1>2. DOMAIN <<e>> = {1} /\ <<e>>[1] = e
    OBVIOUS
  <1>3. ASSUME Rising(q), Before(q, <<e>>)
        PROVE  Rising(Append(q, e))
    <2>1. \A i \in 1 .. Len(q) : q[i] > 0 /\ e > 0 => q[i] < e
      BY <1>1, <1>2, <1>3, SMTT(60) DEF Before
    <2> QED
      BY <1>1, <1>3, <2>1 DEF Rising
  <1>4. \A n \in Nat : UpTo(q, n) /\ e <= n => UpTo(Append(q, e), n)
    BY <1>1 DEF UpTo
  <1>5. ASSUME NEW r \in Seq(Int), Before(q, r), Before(<<e>>, r)
        PROVE  Before(Append(q, e), r)
    <2>1. \A j \in DOMAIN r : r[j] > 0 /\ e > 0 => e < r[j]
      BY <1>2, <1>5, Zenon DEF Before
    <2> QED
      BY <1>1, <1>5, <2>1 DEF Before
  <1>6. ASSUME NEW r \in Seq(Int), Before(r, q), Before(r, <<e>>)
        PROVE  Before(r, Append(q, e))
    <2>1. \A j \in DOMAIN r : r[j] > 0 /\ e > 0 => r[j] < e
      BY <1>2, <1>6, Zenon DEF Before
    <2> QED
      BY <1>1, <1>6, <2>1 DEF Before
  <1> QED
    BY <1>3, <1>4, <1>5, <1>6, Zenon

LEMMA OrderRemoved ==
  ASSUME NEW q \in Seq(Int), q # <<>>
  PROVE  /\ Rising(q) => Rising(Tail(q)) /\ Before(<<Head(q)>>, Tail(q))
         /\ \A n \in Nat : UpTo(q, n) => UpTo(Tail(q), n) /\ Head(q) <= n
         /\ \A r \in Seq(Int) :
              /\ Before(q, r) => Before(Tail(q), r) /\ Before(<<Head(q)>>, r)
              /\ Before(r, q) => Before(r, Tail(q)) /\ Before(r, <<Head(q)>>)
  <1>1. /\ Len(q) \in Nat \ {0} /\ DOMAIN q = 1 .. Len(q) /\ Head(q) = q[1]
        /\ DOMAIN Tail(q) = 1 .. Len(q) - 1
        /\ \A i \in 1 .. Len(q) - 1 : Tail(q)[i] = q[i + 1]
        /\ \A i \in 1 .. Len(q) : q[i] \in Int
    OBVIOUS
  <1>2. DOMAIN <<Head(q)>> = {1} /\ <<Head(q)>>[1] = q[1]
    BY <1>1
  <1>3. ASSUME Rising(q)
        PROVE  Rising(Tail(q)) /\ Before(<<Head(q)>>, Tail(q))
    <2>1. \A i, j \in 1 .. Len(q) : i < j /\ q[i] > 0 /\ q[j] > 0 => q[i] < q[j]
      BY <1>1, <1>3, SMTT(60) DEF Rising
    <2>2. Rising(Tail(q))
      BY <1>1, <2>1, SMTT(60) DEF Rising
    <2>3. Before(<<Head(q)>>, Tail(q))
      BY <1>1, <1>2, <2>1 DEF Before
    <2> QED
      BY <2>2, <2>3, Zenon
  <1>4. \A n \in Nat : UpTo(q, n) => UpTo(Tail(q), n) /\ Head(q) <= n
    BY <1>1 DEF UpTo
  <1>5. ASSUME NEW r \in Seq(Int), Before(q, r)
        PROVE  Before(Tail(q), r) /\ Before(<<Head(q)>>, r)
    <2>1. \A i \in 1 .. Len(q), j \in DOMAIN r : q[i] > 0 /\ r[j] > 0 => q[i] < r[j]
      BY <1>1, <1>5, Zenon DEF Before
    <2>2. \A i \in 1 .. Len(q) - 1 : i + 1 \in 1 .. Len(q) /\ Tail(q)[i] = q[i + 1]
      BY <1>1
    <2>3. Before(Tail(q), r)
      BY <1>1, <2>1, <2>2, SMTT(60) DEF Before
    <2>4. Before(<<Head(q)>>, r)
      BY <1>1, <1>2, <2>1 DEF Before
    <2> QED
      BY <2>3, <2>4, Zenon
  <1>6. ASSUME NEW r \in Seq(Int), Before(r, q)
        PROVE  Before(r, Tail(q)) /\ Before(r, <<Head(q)>>)
    <2>1. \A i \in 1 .. Len(q), j \in DOMAIN r : q[i] > 0 /\ r[j] > 0 => r[j] < q[i]
      BY <1>1, <1>6, Zenon DEF Before
    <2>2. \A i \in 1 .. Len(q) - 1 : i + 1 \in 1 .. Len(q) /\ Tail(q)[i] = q[i + 1]
      BY <1>1
    <2>3. Before(r, Tail(q))
      BY <1>1, <2>1, <2>2, SMTT(60) DEF Before
    <2>4. Before(r, <<Head(q)>>)
      BY <1>1, <1>2, <2>1 DEF Before
    <2> QED
      BY <2>3, <2>4, Zenon
  <1> QED
    BY <1>3, <1>4, <1>5, <1>6, Zenon

LEMMA OrderTrivial ==
  ASSUME NEW q \in Seq(Int), NEW e \in Int
  PROVE  /\ Rising(<<>>) /\ Rising(<<e>>)
         /\ Before(q, <<>>) /\ Before(<<>>, q)
         /\ e <= 0 => Before(q, <<e>>) /\ Before(<<e>>, q)
         /\ \A n \in Nat : UpTo(<<>>, n) /\ (e <= n => UpTo(<<e>>, n))
  BY DEF Rising, Before, UpTo

\* The ways in which the chunks of a stream move keep the order.
LEMMA OrderedMoves ==
  ASSUME NEW se \in Seq(Int), NEW b \in Seq(Int), NEW w \in Seq(Int), NEW n \in Nat,
         Ordered(se, b, w, n)
  PROVE  /\ Ordered(se, <<>>, w, n)
         /\ Ordered(se, <<0>>, w, n)
         /\ \A e \in {Eof, Reset} : Ordered(se, b, <<e>>, n) /\ Ordered(se, b, Append(w, e), n)
         /\ Ordered(se, b, Append(w, n + 1), n + 1)
         /\ b # <<>> => Ordered(Append(se, Head(b)), <<>>, w, n)
         /\ w # <<>> =>
              /\ Ordered(se, b, Tail(w), n)
              /\ Ordered(se, <<Head(w)>>, Tail(w), n)
              /\ b = <<>> => Ordered(Append(se, Head(w)), b, Tail(w), n)
  <1>0. /\ Rising(se) /\ Rising(w)
        /\ Before(se, b) /\ Before(se, w) /\ Before(b, w)
        /\ UpTo(se, n) /\ UpTo(b, n) /\ UpTo(w, n)
        /\ b # <<>> => b = <<Head(b)>>
    BY Zenon DEF Ordered
  <1>1. /\ <<>> \in Seq(Int) /\ 0 \in Int /\ 0 <= 0 /\ 0 <= n
        /\ \A e : <<e>> # <<>> /\ <<e>> = <<Head(<<e>>)>>
    OBVIOUS
  <1>2. Ordered(se, <<>>, w, n)
    BY <1>0, <1>1, OrderTrivial, Zenon DEF Ordered
  <1>3. Ordered(se, <<0>>, w, n)
    BY <1>0, <1>1, OrderTrivial, Zenon DEF Ordered
  <1>4. ASSUME NEW e \in {Eof, Reset}
        PROVE  Ordered(se, b, <<e>>, n) /\ Ordered(se, b, Append(w, e), n)
    <2>1. e \in Int /\ e <= 0 /\ e <= n
      BY DEF Eof, Reset
    <2>2. /\ Rising(<<e>>) /\ UpTo(<<e>>, n)
          /\ Before(se, <<e>>) /\ Before(b, <<e>>) /\ Before(w, <<e>>)
      BY <2>1, OrderTrivial, Zenon
    <2>3. /\ Rising(Append(w, e)) /\ UpTo(Append(w, e), n)
          /\ Before(se, Append(w, e)) /\ Before(b, Append(w, e))
      BY <1>0, <2>1, <2>2, OrderAppended, Zenon
    <2> QED
      BY <1>0, <2>2, <2>3, Zenon DEF Ordered
  <1>5. Ordered(se, b, Append(w, n + 1), n + 1)
    <2>1. n + 1 \in Int /\ n + 1 \in Nat /\ n + 1 <= n + 1
      OBVIOUS
    <2>2. ASSUME NEW q \in Seq(Int), UpTo(q, n)
          PROVE  UpTo(q, n + 1) /\ Before(q, <<n + 1>>)
      BY <2>2, SMTT(60) DEF UpTo, Before
    <2>3. /\ UpTo(se, n + 1) /\ UpTo(b, n + 1) /\ UpTo(w, n + 1)
          /\ Before(se, <<n + 1>>) /\ Before(b, <<n + 1>>) /\ Before(w, <<n + 1>>)
      BY <1>0, <2>2, Zenon
    <2>4. /\ Rising(Append(w, n + 1)) /\ UpTo(Append(w, n + 1), n + 1)
          /\ Before(se, Append(w, n + 1)) /\ Before(b, Append(w, n + 1))
      BY <1>0, <2>1, <2>3, OrderAppended, Zenon
    <2> QED
      BY <1>0, <2>3, <2>4, Zenon DEF Ordered
  <1>6. ASSUME b # <<>>
        PROVE  Ordered(Append(se, Head(b)), <<>>, w, n)
    <2>1. Head(b) \in Int /\ b = <<Head(b)>>
      BY <1>0, <1>6
    <2>2. Before(se, <<Head(b)>>) /\ Before(<<Head(b)>>, w) /\ Head(b) <= n
      BY <1>0, <1>6, OrderRemoved, Zenon
    <2>3. /\ Rising(Append(se, Head(b))) /\ UpTo(Append(se, Head(b)), n)
          /\ Before(Append(se, Head(b)), w)
          /\ Append(se, Head(b)) \in Seq(Int)
      <3>1. Append(se, Head(b)) \in Seq(Int)
        BY <2>1
      <3> QED
        BY <1>0, <2>1, <2>2, <3>1, OrderAppended, Zenon
    <2>4. Before(Append(se, Head(b)), <<>>)
      BY <1>1, <2>3, OrderTrivial, Zenon
    <2> QED
      BY <1>0, <1>2, <2>3, <2>4, Zenon DEF Ordered
  <1>7. ASSUME w # <<>>
        PROVE  /\ Ordered(se, b, Tail(w), n)
               /\ Ordered(se, <<Head(w)>>, Tail(w), n)
               /\ b = <<>> => Ordered(Append(se, Head(w)), b, Tail(w), n)
    <2>1. Head(w) \in Int /\ Tail(w) \in Seq(Int) /\ Append(se, Head(w)) \in Seq(Int)
      BY <1>7
    <2>2. /\ Rising(Tail(w)) /\ Before(<<Head(w)>>, Tail(w))
          /\ UpTo(Tail(w), n) /\ Head(w) <= n
          /\ Before(se, Tail(w)) /\ Before(se, <<Head(w)>>) /\ Before(b, Tail(w))
      BY <1>0, <1>7, OrderRemoved, Zenon
    <2>3. UpTo(<<Head(w)>>, n)
      BY <2>1, <2>2, OrderTrivial, Zenon
    <2>4. /\ Rising(Append(se, Head(w))) /\ UpTo(Append(se, Head(w)), n)
          /\ Before(Append(se, Head(w)), Tail(w))
      BY <1>0, <2>1, <2>2, OrderAppended, Zenon
    <2>5. b = <<>> => Before(Append(se, Head(w)), b)
      BY <1>1, <2>1, OrderTrivial, Zenon
    <2> QED
      BY <1>0, <1>1, <2>2, <2>3, <2>4, <2>5, Zenon DEF Ordered
  <1> QED
    BY <1>2, <1>3, <1>4, <1>5, <1>6, <1>7, Zenon

\* What _read_cb is told leaves the wire, except that an end stays.
LEMMA ReportMoves ==
  ASSUME DataTypes, NEW o \in Object, NEW len \in Reset .. MaxSent, Reports(o, len)
  PROVE  /\ len \in Int /\ Is(o, "OSTARTED") /\ ~Closing(o)
         /\ \/ len = 0 /\ wire'[o] = wire[o]
            \/ wire[o] # <<>> /\ len = Head(wire[o]) /\ len < 0 /\ wire'[o] = <<Eof>>
            \/ wire[o] # <<>> /\ len = Head(wire[o]) /\ len >= 0 /\ wire'[o] = Tail(wire[o])
  <1>1. len \in Int
    BY StreamAssumption DEF Reset
  <1>2. wire \in [Object -> Seq(Int)]
    BY Zenon DEF DataTypes
  <1>3. CASE len = Nothing /\ UNCHANGED wire
    BY <1>1, <1>3, Zenon DEF Reports, Nothing
  <1>4. CASE /\ wire[o] # <<>> /\ len = Head(wire[o])
             /\ wire' = [wire EXCEPT ![o] = IF len < 0 THEN <<Eof>> ELSE Tail(@)]
    <2>1. wire'[o] = IF len < 0 THEN <<Eof>> ELSE Tail(wire[o])
      BY <1>2, <1>4, Zenon
    <2>2. len < 0 \/ len >= 0
      BY <1>1
    <2> QED
      BY <1>1, <1>4, <2>1, <2>2, Zenon DEF Reports
  <1> QED
    BY <1>3, <1>4, Zenon DEF Reports

LEMMA InitOrder == Init => OrderInv
  <1> SUFFICES ASSUME Init, NEW o \in Object
               PROVE  Ordered(seen[o], buf[o], wire[o], sent[o])
    BY Zenon DEF OrderInv
  <1>1. seen[o] = <<>> /\ buf[o] = <<>> /\ wire[o] = <<>> /\ sent[o] = 0
    BY Zenon DEF Init
  <1>2. <<>> \in Seq(Int) /\ 0 \in Int /\ 0 \in Nat
    OBVIOUS
  <1> QED
    BY <1>1, <1>2, OrderTrivial, ZenonT(60) DEF Ordered

\* Chunks move in order; the reader that is handed one has found nothing saved.
LEMMA OrderStep == StateTypes /\ DataTypes /\ ReadInv /\ OrderInv /\ [Next]_vars => OrderInv'
  <1> SUFFICES ASSUME StateTypes, DataTypes, ReadInv, OrderInv, [Next]_vars, NEW o \in Object
               PROVE  Ordered(seen[o], buf[o], wire[o], sent[o])'
    BY Zenon DEF OrderInv
  <1> DEFINE se == seen[o]
             b == buf[o]
             w == wire[o]
             n == sent[o]
  <1>1. /\ se \in Seq(Int) /\ b \in Seq(Int) /\ w \in Seq(Int) /\ n \in Nat
        /\ Ordered(se, b, w, n)
    BY Zenon DEF DataTypes, OrderInv
  <1>2. /\ Ordered(se, <<>>, w, n)
        /\ Ordered(se, <<0>>, w, n)
        /\ \A e \in {Eof, Reset} : Ordered(se, b, <<e>>, n) /\ Ordered(se, b, Append(w, e), n)
        /\ Ordered(se, b, Append(w, n + 1), n + 1)
        /\ b # <<>> => Ordered(Append(se, Head(b)), <<>>, w, n)
        /\ w # <<>> =>
             /\ Ordered(se, b, Tail(w), n)
             /\ Ordered(se, <<Head(w)>>, Tail(w), n)
             /\ b = <<>> => Ordered(Append(se, Head(w)), b, Tail(w), n)
    <2> HIDE DEF se, b, w, n
    <2> QED
      BY <1>1, OrderedMoves, Zenon
  <1>3. CASE Still(o)
    BY <1>1, <1>3, Zenon DEF Still
  <1>4. ASSUME NEW s \in State, luv_stream_read_saved(s, o)
        PROVE  Ordered(seen[o], buf[o], wire[o], sent[o])'
    <2>1. /\ b # <<>> /\ buf'[o] = <<>> /\ wire'[o] = w /\ sent'[o] = n
          /\ seen'[o] = se \/ seen'[o] = Append(se, Head(b))
      BY <1>4, Zenon DEF luv_stream_read_saved, netVars, DataTypes
    <2> QED
      BY <1>2, <2>1, ZenonT(60)
  <1>5. ASSUME NEW s \in State, luv_stream_close(s, o)
        PROVE  Ordered(seen[o], buf[o], wire[o], sent[o])'
    <2>1. buf'[o] = <<>> /\ wire'[o] = w /\ sent'[o] = n /\ seen'[o] = se
      BY <1>5, Zenon DEF luv_stream_close, netVars, DataTypes
    <2> QED
      BY <1>2, <2>1, ZenonT(60)
  <1>6. ASSUME NEW s \in State, luvL_connect_cb(s, o)
        PROVE  Ordered(seen[o], buf[o], wire[o], sent[o])'
    <2>1. /\ wire'[o] = w \/ wire'[o] = <<Reset>>
          /\ buf'[o] = b /\ sent'[o] = n /\ seen'[o] = se
      BY <1>6, SMTT(60) DEF luvL_connect_cb, readVars, DataTypes
    <2> QED
      BY <1>1, <1>2, <2>1, ZenonT(60)
  <1>7. ASSUME NEW len \in Reset .. MaxSent, _read_cb_saves(o, len)
        PROVE  Ordered(seen[o], buf[o], wire[o], sent[o])'
    <2>1. /\ len \in Int
          /\ \/ len = 0 /\ wire'[o] = w
             \/ w # <<>> /\ len = Head(w) /\ len < 0 /\ wire'[o] = <<Eof>>
             \/ w # <<>> /\ len = Head(w) /\ len >= 0 /\ wire'[o] = Tail(w)
      BY <1>7, ReportMoves, ZenonT(60) DEF _read_cb_saves
    <2>2. /\ seen'[o] = se /\ sent'[o] = n
          /\ len >= 0 => buf'[o] = <<len>>
          /\ ~(len >= 0) => buf'[o] = b
      BY <1>7, Zenon DEF _read_cb_saves, DataTypes
    <2>3. CASE len >= 0
      <3>1. ~(len < 0)
        BY <2>1, <2>3
      <3> QED
        BY <1>2, <2>1, <2>2, <2>3, <3>1, Zenon
    <2>4. CASE ~(len >= 0)
      <3>1. len # 0
        BY <2>4
      <3> QED
        BY <1>2, <2>1, <2>2, <2>4, <3>1, Zenon
    <2> QED
      BY <2>3, <2>4, Zenon
  <1>8. ASSUME NEW len \in Reset .. MaxSent, _read_cb_rouses(o, len)
        PROVE  Ordered(seen[o], buf[o], wire[o], sent[o])'
    <2>1. /\ len \in Int
          /\ \/ len = 0 /\ wire'[o] = w
             \/ w # <<>> /\ len = Head(w) /\ len < 0 /\ wire'[o] = <<Eof>>
             \/ w # <<>> /\ len = Head(w) /\ len >= 0 /\ wire'[o] = Tail(w)
      BY <1>8, ReportMoves, ZenonT(60) DEF _read_cb_rouses
    <2>2. /\ sent'[o] = n /\ buf'[o] = b
          /\ \/ seen'[o] = se
             \/ len > 0 /\ In(Head(rouse[o]), "read", o) /\ seen'[o] = Append(se, len)
      BY <1>8, Zenon DEF _read_cb_rouses, DataTypes
    <2>3. ASSUME In(Head(rouse[o]), "read", o)
          PROVE  b = <<>>
      <3>1. rouse[o] # <<>> /\ RouseHead(o)
        BY <1>8, Zenon DEF _read_cb_rouses
      <3>2. Head(rouse[o]) \in State /\ Linked(Head(rouse[o]), o)
        BY <3>1, RouseEffect, Zenon
      <3> QED
        BY <2>3, <3>2, ZenonT(60) DEF ReadInv
    <2>4. len > 0 => len # 0 /\ ~(len < 0)
      BY <2>1
    <2> QED
      BY <1>1, <1>2, <2>1, <2>2, <2>3, <2>4, Zenon
  <1>9. CASE PeerSends(o)
    <2>1. /\ wire'[o] = Append(w, n + 1) /\ sent'[o] = n + 1
          /\ buf'[o] = b /\ seen'[o] = se
      BY <1>9, Zenon DEF PeerSends, readVars, DataTypes
    <2> QED
      BY <1>2, <2>1, Zenon
  <1>10. CASE PeerEnds(o)
    <2>1. /\ \E e \in {Eof, Reset} : wire'[o] = Append(w, e)
          /\ sent'[o] = n /\ buf'[o] = b /\ seen'[o] = se
      BY <1>10, Zenon DEF PeerEnds, readVars, DataTypes
    <2> QED
      BY <1>2, <2>1, Zenon
  <1> QED
    BY <1>3, <1>4, <1>5, <1>6, <1>7, <1>8, <1>9, <1>10, MoveStep, ZenonT(60) DEF Moves

-----------------------------------------------------------------------------
(* Connections, the end of the wire, what is saved *)

\* A connection changes when it is asked for and when it is made or refused.
LinkStill(p) ==
  /\ link'[p] = link[p]
  /\ \A t \in State : Requested(t, "connect", p)' => Requested(t, "connect", p)

LEMMA LinkStep ==
  ASSUME StateTypes, DataTypes, [Next]_vars, NEW p \in Object
  PROVE  \/ LinkStill(p)
         \/ \E s \in State :
              luv_tcp_connect(s, p) \/ luv_pipe_connect(s, p) \/ luvL_connect_cb(s, p)
  <1> USE DEF objVars, netVars, readVars, pollVars
  <1>0. ASSUME link'[p] = link[p], UNCHANGED pend
        PROVE  LinkStill(p)
    BY <1>0, Zenon DEF LinkStill, Requested
  <1>1. ASSUME link'[p] = link[p], NEW s \in State, NEW op, NEW o, Takes(s, op, o),
               op # "connect" \/ o # p
        PROVE  LinkStill(p)
    <2>1. \A t \in State : t # s => pend'[t] = pend[t]
      BY <1>1, TakeEffect, Zenon
    <2>2. ASSUME Requested(s, "connect", p)'
          PROVE  FALSE
      <3>1. Takes(s, op, o)
        BY <1>1, Zenon
      <3>2. "connect" = op /\ p = o
        BY <2>2, <3>1, TakeOnly, Zenon
      <3> QED
        BY <1>1, <3>2, Zenon
    <2> QED
      BY <1>1, <2>1, <2>2, Zenon DEF LinkStill, Requested
  <1>2. ASSUME link'[p] = link[p], NEW s \in State, NEW op, NEW o, Answer(s, op, o)
        PROVE  LinkStill(p)
    <2>1. pend'[s] = <<>> /\ \A t \in State : t # s => pend'[t] = pend[t]
      BY <1>2, AnswerEffect, Zenon
    <2>2. ~Requested(s, "connect", p)'
      BY <2>1 DEF Requested
    <2> QED
      BY <1>2, <2>1, <2>2, Zenon DEF LinkStill, Requested
  <1>3. CASE UNCHANGED vars
    BY <1>0, <1>3, Zenon DEF vars
  <1>4. ASSUME NEW s \in State, NEW o \in Object,
               luv_tcp_connect(s, o) \/ luv_pipe_connect(s, o)
        PROVE  o = p \/ LinkStill(p)
    <2>1. o # p => link'[p] = link[p]
      BY <1>4, Zenon DEF luv_tcp_connect, luv_pipe_connect, DataTypes
    <2>2. Takes(s, "connect", o)
      BY <1>4, Zenon DEF luv_tcp_connect, luv_pipe_connect, Request, Takes, ReqOp, Target
    <2> QED
      BY <1>1, <2>1, <2>2, ZenonT(60)
  <1>5. ASSUME NEW s \in State, NEW o \in Object, luvL_connect_cb(s, o)
        PROVE  o = p \/ LinkStill(p)
    <2>1. o # p => link'[p] = link[p]
      BY <1>5, Zenon DEF luvL_connect_cb, DataTypes
    <2>2. Answer(s, "connect", o)
      BY <1>5, Zenon DEF luvL_connect_cb
    <2> QED
      BY <1>2, <2>1, <2>2, Zenon
  <1>6. ASSUME NEW s \in State, NEW o \in Object, luv_stream_write(s, o)
        PROVE  LinkStill(p)
    <2>1. UNCHANGED link /\ Takes(s, "write", o) /\ "write" # "connect"
      BY <1>6, Zenon DEF luv_stream_write, Request, Takes, ReqOp, Target
    <2> QED
      BY <1>1, <2>1, Zenon
  <1>7. ASSUME NEW s \in State, NEW o \in Object, luv_stream_shutdown(s, o)
        PROVE  LinkStill(p)
    <2>1. UNCHANGED link /\ "shutdown" # "connect"
      BY <1>7, Zenon DEF luv_stream_shutdown, ShutsDown
    <2>2. UNCHANGED pend \/ Takes(s, "shutdown", o)
      BY <1>7, Zenon DEF luv_stream_shutdown, ShutsDown, Request, Takes, ReqOp, Target
    <2> QED
      BY <1>0, <1>1, <2>1, <2>2, Zenon
  <1>8. ASSUME NEW s \in State, NEW o \in Object, _write_cb(s, o) \/ _shutdown_cb(s, o)
        PROVE  LinkStill(p)
    <2>1. UNCHANGED link /\ \E op : Answer(s, op, o)
      BY <1>8, Zenon DEF _write_cb, _shutdown_cb
    <2> QED
      BY <1>2, <2>1, Zenon
  <1>9. ASSUME NEW s \in State, NEW o \in Object,
               \/ luv_tcp_connect_fails(s, o) \/ luv_stream_read_closed(s, o)
               \/ luv_stream_read_saved(s, o) \/ luv_stream_read(s, o) \/ luv_stream_start(s, o)
               \/ luv_stream_start_fails(s, o) \/ luv_stream_stop(s, o)
               \/ luv_stream_write_fails(s, o) \/ luv_stream_shutdown_again(s, o)
               \/ luv_stream_close(s, o)
        PROVE  LinkStill(p)
    BY <1>0, <1>9, Zenon
       DEF luv_tcp_connect_fails, luv_stream_read_closed, luv_stream_read_saved, luv_stream_read,
           luv_stream_start, luv_stream_start_fails, luv_stream_stop, luv_stream_write_fails,
           luv_stream_shutdown_again, luv_stream_close
  <1>10. ASSUME NEW o \in Object, NEW len, _read_cb_saves(o, len) \/ _read_cb_rouses(o, len)
         PROVE  LinkStill(p)
    BY <1>0, <1>10, Zenon DEF _read_cb_saves, _read_cb_rouses
  <1>11. ASSUME NEW o \in Object, StreamClosed(o) \/ PeerSends(o) \/ PeerEnds(o)
         PROVE  LinkStill(p)
    BY <1>0, <1>11, Zenon DEF StreamClosed, PeerSends, PeerEnds
  <1>12. ASSUME NEW s \in State, Sleeps(s) \/ SleepCb(s) \/ Resumes(s)
         PROVE  LinkStill(p)
    BY <1>0, <1>12, Zenon DEF Sleeps, SleepCb, Resumes
  <1>13. ASSUME NEW s \in State, NEW o \in Object, LuaCalls(s, o)
         PROVE  LinkStill(p) \/ luv_tcp_connect(s, p) \/ luv_pipe_connect(s, p)
    BY <1>4, <1>6, <1>7, <1>9, <1>13, Zenon DEF LuaCalls
  <1>14. ASSUME NEW s \in State, NEW o \in Object, RequestCb(s, o)
         PROVE  LinkStill(p) \/ luvL_connect_cb(s, p)
    BY <1>5, <1>8, <1>14, Zenon DEF RequestCb
  <1> QED
    BY <1>3, <1>10, <1>11, <1>12, <1>13, <1>14, Zenon DEF Next, ReadCb

LEMMA InitKeep == Init => KeepInv
  <1> SUFFICES ASSUME Init
               PROVE  KeepInv
    OBVIOUS
  <1>1. /\ \A o \in Object : oflags[o] = {} /\ buf[o] = <<>> /\ wire[o] = <<>>
        /\ \A s \in State : call[s] = NoCall /\ pend[s] = <<>>
    BY SMTT(60) DEF Init, LoopInit, luvL_object_init
  <1>2. SavedInv /\ LinkInv
    BY <1>1, Zenon DEF SavedInv, LinkInv
  <1>3. ClosingInv
    BY <1>1 DEF ClosingInv, In, NoCall
  <1>4. EndInv
    BY <1>1 DEF EndInv, EndsLast
  <1>5. ConnectInv
    BY <1>1 DEF ConnectInv, Requested
  <1> QED
    BY <1>2, <1>3, <1>4, <1>5, Zenon DEF KeepInv

\* A connection is made once, for the state that asked.
LEMMA ConnectStep ==
  StateTypes /\ DataTypes /\ ConnectInv /\ [Next]_vars => ConnectInv'
  <1> SUFFICES ASSUME StateTypes, DataTypes, ConnectInv, [Next]_vars, NEW s \in State,
                      NEW t \in State, NEW o \in Object, Requested(s, "connect", o)'
               PROVE  link'[o] = "connecting" /\ (Requested(t, "connect", o)' => s = t)
    BY Zenon DEF ConnectInv
  <1>1. CASE LinkStill(o)
    BY <1>1, Zenon DEF LinkStill, ConnectInv
  <1>2. ASSUME NEW u \in State, luv_tcp_connect(u, o) \/ luv_pipe_connect(u, o)
        PROVE  link'[o] = "connecting" /\ (Requested(t, "connect", o)' => s = t)
    <2>1. link[o] # "connecting" /\ link'[o] = "connecting"
      BY <1>2, Zenon DEF luv_tcp_connect, luv_pipe_connect, DataTypes
    <2>2. Takes(u, "connect", o)
      BY <1>2, Zenon DEF luv_tcp_connect, luv_pipe_connect, Request, Takes, ReqOp, Target
    <2>3. \A x \in State : x # u => pend'[x] = pend[x]
      BY <2>2, TakeEffect, Zenon
    <2>4. ASSUME NEW x \in State, Requested(x, "connect", o)', x # u
          PROVE  FALSE
      <3>1. Requested(x, "connect", o)
        BY <2>3, <2>4, Zenon DEF Requested
      <3> QED
        BY <2>1, <3>1, Zenon DEF ConnectInv
    <2> QED
      BY <2>1, <2>4, ZenonT(60)
  <1>3. ASSUME NEW u \in State, luvL_connect_cb(u, o)
        PROVE  FALSE
    <2>1. Answer(u, "connect", o)
      BY <1>3, Zenon DEF luvL_connect_cb
    <2>2. /\ Requested(u, "connect", o) /\ pend'[u] = <<>>
          /\ \A x \in State : x # u => pend'[x] = pend[x]
      BY <2>1, AnswerEffect, ZenonT(60)
    <2>3. s # u
      BY <2>2 DEF Requested
    <2>4. Requested(s, "connect", o)
      BY <2>2, <2>3, Zenon DEF Requested
    <2> QED
      BY <2>2, <2>3, <2>4, Zenon DEF ConnectInv
  <1> QED
    BY <1>1, <1>2, <1>3, LinkStep, ZenonT(60)

\* No chunk comes before the connection is up.
LEMMA LinkInvStep ==
  StateTypes /\ DataTypes /\ LinkInv /\ [Next]_vars => LinkInv'
  <1> SUFFICES ASSUME StateTypes, DataTypes, LinkInv, [Next]_vars, NEW o \in Object,
                      link'[o] \in {"new", "connecting"}
               PROVE  wire'[o] = <<>>
    BY Zenon DEF LinkInv
  <1>1. ASSUME NEW s \in State, luvL_connect_cb(s, o)
        PROVE  FALSE
    BY <1>1, SMTT(60) DEF luvL_connect_cb, DataTypes
  <1>2. ASSUME NEW s \in State, luv_tcp_connect(s, o) \/ luv_pipe_connect(s, o)
        PROVE  wire'[o] = <<>>
    BY <1>2, Zenon DEF luv_tcp_connect, luv_pipe_connect, LinkInv
  <1>3. CASE LinkStill(o)
    <2>1. link[o] \in {"new", "connecting"} /\ wire[o] = <<>>
      BY <1>3, Zenon DEF LinkStill, LinkInv
    <2>2. ASSUME NEW s \in State, luv_stream_read_saved(s, o) \/ luv_stream_close(s, o)
          PROVE  wire'[o] = wire[o]
      BY <2>2, Zenon DEF luv_stream_read_saved, luv_stream_close, netVars
    <2>3. ASSUME NEW len \in Reset .. MaxSent, _read_cb_saves(o, len) \/ _read_cb_rouses(o, len)
          PROVE  wire'[o] = wire[o]
      <3>1. Reports(o, len)
        BY <2>3, Zenon DEF _read_cb_saves, _read_cb_rouses
      <3> QED
        BY <2>1, <3>1, ReportMoves, ZenonT(60)
    <2>4. ~PeerSends(o) /\ ~PeerEnds(o)
      BY <2>1, Zenon DEF PeerSends, PeerEnds
    <2> QED
      BY <1>1, <2>1, <2>2, <2>3, <2>4, MoveStep, ZenonT(60) DEF Still, Moves
  <1> QED
    BY <1>1, <1>2, <1>3, LinkStep, Zenon

LEMMA EndMoves ==
  ASSUME NEW w \in Seq(Int)
  PROVE  /\ \A e : EndsLast(<<e>>)
         /\ w # <<>> /\ EndsLast(w) =>
              EndsLast(Tail(w)) /\ (Head(w) <= 0 => Range(w) = {Head(w)})
         /\ (\A i \in DOMAIN w : w[i] > 0) => \A e \in Int : EndsLast(Append(w, e))
  <1>1. \A e : EndsLast(<<e>>)
    BY DEF EndsLast
  <1>2. ASSUME w # <<>>, EndsLast(w)
        PROVE  EndsLast(Tail(w)) /\ (Head(w) <= 0 => Range(w) = {Head(w)})
    <2>1. /\ Len(w) \in Nat \ {0} /\ DOMAIN w = 1 .. Len(w) /\ Head(w) = w[1]
          /\ DOMAIN Tail(w) = 1 .. Len(w) - 1 /\ Len(Tail(w)) = Len(w) - 1
          /\ \A i \in 1 .. Len(w) - 1 : Tail(w)[i] = w[i + 1] /\ i + 1 \in 1 .. Len(w)
      BY <1>2
    <2>2. EndsLast(Tail(w))
      BY <1>2, <2>1, SMTT(60) DEF EndsLast
    <2>3. ASSUME Head(w) <= 0
          PROVE  Range(w) = {Head(w)}
      <3>1. DOMAIN w = {1}
        BY <1>2, <2>1, <2>3 DEF EndsLast
      <3> QED
        BY <2>1, <3>1, SMTT(60) DEF Range
    <2> QED
      BY <2>2, <2>3, Zenon
  <1>3. ASSUME \A i \in DOMAIN w : w[i] > 0, NEW e \in Int
        PROVE  EndsLast(Append(w, e))
    <2>1. /\ Len(w) \in Nat /\ DOMAIN w = 1 .. Len(w)
          /\ DOMAIN Append(w, e) = 1 .. Len(w) + 1 /\ Len(Append(w, e)) = Len(w) + 1
          /\ \A i \in 1 .. Len(w) : Append(w, e)[i] = w[i] /\ w[i] \in Int
      OBVIOUS
    <2> QED
      BY <1>3, <2>1 DEF EndsLast
  <1> QED
    BY <1>1, <1>2, <1>3, Zenon

\* Nothing follows the end.
LEMMA EndStep == DataTypes /\ EndInv /\ [Next]_vars => EndInv'
  <1> SUFFICES ASSUME DataTypes, EndInv, [Next]_vars, NEW o \in Object
               PROVE  EndsLast(wire'[o])
    BY Zenon DEF EndInv
  <1>0. wire[o] \in Seq(Int) /\ sent[o] \in Nat /\ EndsLast(wire[o])
    BY Zenon DEF DataTypes, EndInv
  <1>1. CASE wire'[o] = wire[o]
    BY <1>0, <1>1, ZenonT(60)
  <1>2. ASSUME NEW s \in State,
               \/ luv_stream_read_saved(s, o) \/ luv_stream_close(s, o)
               \/ luvL_connect_cb(s, o)
        PROVE  wire'[o] = wire[o] \/ wire'[o] = <<Reset>>
    BY <1>2, Zenon
    DEF luv_stream_read_saved, luv_stream_close, luvL_connect_cb, netVars, DataTypes
  <1>3. ASSUME NEW len \in Reset .. MaxSent, _read_cb_saves(o, len) \/ _read_cb_rouses(o, len)
        PROVE  EndsLast(wire'[o])
    <2>1. Reports(o, len)
      BY <1>3, Zenon DEF _read_cb_saves, _read_cb_rouses
    <2>2. \/ wire'[o] = wire[o] \/ wire'[o] = <<Eof>>
          \/ wire[o] # <<>> /\ wire'[o] = Tail(wire[o])
      BY <2>1, ReportMoves, Zenon
    <2> QED
      BY <1>0, <2>2, EndMoves, ZenonT(60)
  <1>4. CASE PeerSends(o) \/ PeerEnds(o)
    <2>1. \A i \in DOMAIN wire[o] : wire[o][i] > 0
      BY <1>4, SMTT(60) DEF PeerSends, PeerEnds
    <2>2. \E e \in {sent[o] + 1, Eof, Reset} : wire'[o] = Append(wire[o], e)
      BY <1>4, Zenon DEF PeerSends, PeerEnds, DataTypes
    <2>3. sent[o] + 1 \in Int /\ Eof \in Int /\ Reset \in Int
      BY <1>0 DEF Eof, Reset
    <2> QED
      BY <1>0, <2>1, <2>2, <2>3, EndMoves, ZenonT(60)
  <1>5. EndsLast(<<Reset>>)
    BY DEF EndsLast
  <1> QED
    BY <1>1, <1>2, <1>3, <1>4, <1>5, MoveStep, Zenon DEF Still, Moves

\* Nothing is saved while reading goes on.
LEMMA SavedStep == StateTypes /\ DataTypes /\ SavedInv /\ [Next]_vars => SavedInv'
  <1> SUFFICES ASSUME StateTypes, DataTypes, SavedInv, [Next]_vars, Kinds, Avoids({"start"}),
                      NEW o \in Object, Is(o, "OSTARTED")'
               PROVE  buf'[o] = <<>>
    BY StepKinds, SameRisks, Zenon DEF SavedInv, Avoids
  <1>1. "start" \notin risks
    BY SMTT(60) DEF Avoids
  <1>2. ASSUME NEW len \in Reset .. MaxSent, _read_cb_saves(o, len)
        PROVE  FALSE
    BY <1>2, SMTT(60) DEF _read_cb_saves, Flags, Is, DataTypes
  <1>3. ASSUME NEW s \in State, luv_stream_read(s, o)
        PROVE  buf'[o] = <<>>
    BY <1>3, Zenon DEF luv_stream_read
  <1>4. Is(o, "OSTARTED") => buf[o] = <<>>
    BY Zenon DEF SavedInv
  <1> QED
    BY <1>1, <1>2, <1>3, <1>4, FlagStep, BufStep, Zenon DEF FlagMoves

\* A state waits in close for a stream that closes.
LEMMA ClosingStep == StateTypes /\ DataTypes /\ ClosingInv /\ [Next]_vars => ClosingInv'
  <1> SUFFICES ASSUME StateTypes, DataTypes, ClosingInv, [Next]_vars, Kinds,
                      NEW s \in State, NEW o \in Object, In(s, "close", o)'
               PROVE  Closing(o)'
    BY StepKinds, Zenon DEF ClosingInv
  <1>1. CASE ParksFor(s, "close", o)
    <2>1. Flags(o, {"OCLOSING"}, {"OSTARTED"})
      BY <1>1, Zenon DEF ParksFor, luv_stream_close
    <2> QED
      BY <2>1, Zenon DEF Flags, Closing, Is, DataTypes
  <1>2. CASE In(s, "close", o)
    BY <1>2, FlagStep, Zenon DEF ClosingInv, FlagMoves
  <1> QED
    BY <1>1, <1>2, WaitsSince, Zenon

LEMMA KeepStep == StateTypes /\ DataTypes /\ KeepInv /\ [Next]_vars => KeepInv'
  BY SavedStep, ClosingStep, EndStep, LinkInvStep, ConnectStep, Zenon DEF KeepInv

-----------------------------------------------------------------------------
(* No chunk is lost *)

\* Who is first in the queue of a stream that is read from waits in read.
LEMMA HeadReads ==
  ASSUME StateTypes, WakeInv, NotReading, ClosingInv, OwnsRequest, NEW o \in Object,
         rouse[o] # <<>>, Is(o, "OSTARTED"), ~Closing(o)
  PROVE  \E h \in State : h = Head(rouse[o]) /\ Linked(h, o) /\ Parked(h) /\ In(h, "read", o)
  <1>1. Avoids({"pipe"}) /\ Avoids({"share", "start", "shutdown"})
    BY Zenon DEF OwnsRequest, Avoids
  <1>2. rouse[o] \in Seq(State)
    BY Zenon DEF StateTypes
  <1>3. PICK h \in State : h = Head(rouse[o]) /\ Linked(h, o)
    <2>1. /\ Head(rouse[o]) \in State
          /\ Range(rouse[o]) = Range(Tail(rouse[o])) \cup {Head(rouse[o])}
      BY <1>2, Removed, Zenon
    <2> QED
      BY <2>1, Zenon DEF Linked
  <1>4. Waits(h, o)
    BY <1>1, <1>3, Zenon DEF WakeInv
  <1>5. ~In(h, "shutdown", o)
    BY <1>1, <1>3, Zenon DEF NotReading
  <1>6. ~In(h, "close", o)
    BY Zenon DEF ClosingInv
  <1>7. Parked(h) /\ In(h, "read", o)
    BY <1>4, <1>5, <1>6, Zenon DEF Waits
  <1> QED
    BY <1>3, <1>7, Zenon

LEMMA InitLoss == Init => LossInv
  BY DEF Init, LossInv

\* Each step that moves chunks keeps them, or closes the stream.
LEMMA LossStep ==
  StateTypes /\ DataTypes /\ WakeInv /\ NotReading /\ OrderInv /\ KeepInv /\ LossInv
    /\ [Next]_vars => LossInv'
  <1> SUFFICES ASSUME StateTypes, DataTypes, WakeInv, NotReading, OrderInv, KeepInv, LossInv,
                      [Next]_vars, Kinds, OwnsRequest,
                      NEW o \in Object, ~Closing(o)', NEW c \in 1 .. sent'[o]
               PROVE  c \in Held(o)'
    BY StepKinds, SameRisks, Zenon DEF LossInv, OwnsRequest, Avoids
  <1> DEFINE se == seen[o]
             b == buf[o]
             w == wire[o]
  <1>0. se \in Seq(Int) /\ b \in Seq(Int) /\ w \in Seq(Int) /\ sent[o] \in Nat
    BY Zenon DEF DataTypes
  <1>1. ~Closing(o) /\ (c \in 1 .. sent[o] => c \in Range(se) \cup Range(b) \cup Range(w))
    BY FlagStep, Zenon DEF FlagMoves, LossInv, Held
  <1>2. /\ b # <<>> => Range(b) = {Head(b)}
        /\ w # <<>> => Range(w) = Range(Tail(w)) \cup {Head(w)}
        /\ \A e \in Int : /\ Range(Append(se, e)) = Range(se) \cup {e}
                          /\ Range(Append(w, e)) = Range(w) \cup {e}
                          /\ Range(<<e>>) = {e}
        /\ Range(<<>>) = {}
    <2>1. b # <<>> => b = <<Head(b)>>
      BY Zenon DEF OrderInv, Ordered
    <2>2. \A e : Range(<<e>>) = {e}
      BY DEF Range
    <2>3. b # <<>> => Range(b) = {Head(b)}
      BY <2>1, <2>2, Zenon
    <2>4. w # <<>> => Range(w) = Range(Tail(w)) \cup {Head(w)}
      BY <1>0, Removed, ZenonT(60)
    <2>5. \A e \in Int : /\ Range(Append(se, e)) = Range(se) \cup {e}
                         /\ Range(Append(w, e)) = Range(w) \cup {e}
      BY <1>0, Appended, SMTT(60)
    <2>6. Range(<<>>) = {}
      BY DEF Range
    <2> QED
      BY <2>2, <2>3, <2>4, <2>5, <2>6, Zenon
  <1> HIDE DEF se, b, w
  \* What is left to show in each case.
  <1>3. ASSUME sent'[o] = sent[o],
               \A e \in Int : e > 0 /\ e \in Range(se) \cup Range(b) \cup Range(w) =>
                 e \in Range(seen'[o]) \cup Range(buf'[o]) \cup Range(wire'[o])
        PROVE  c \in Held(o)'
    <2>1. c \in Int /\ c > 0 /\ c \in 1 .. sent[o]
      BY <1>0, <1>3
    <2> QED
      BY <1>1, <1>3, <2>1, ZenonT(60) DEF Held
  <1>4. CASE Still(o)
    BY <1>3, <1>4, ZenonT(60) DEF Still, se, b, w
  <1>5. ASSUME NEW s \in State, luv_stream_read_saved(s, o)
        PROVE  c \in Held(o)'
    <2>1. /\ b # <<>> /\ buf'[o] = <<>> /\ wire'[o] = w /\ sent'[o] = sent[o]
          /\ seen'[o] = IF Head(b) > 0 THEN Append(se, Head(b)) ELSE se
      BY <1>5, Zenon DEF luv_stream_read_saved, netVars, DataTypes, se, b, w
    <2>2. Head(b) \in Int
      BY <1>0, <2>1
    <2> QED
      BY <1>2, <1>3, <2>1, <2>2, Zenon
  <1>6. ASSUME NEW s \in State, luv_stream_close(s, o)
        PROVE  FALSE
    BY <1>6, Zenon DEF luv_stream_close, Flags, Is, Closing, DataTypes
  <1>7. ASSUME NEW s \in State, luvL_connect_cb(s, o)
        PROVE  c \in Held(o)'
    <2>1. Requested(s, "connect", o)
      BY <1>7, Zenon DEF luvL_connect_cb, Answer
    <2>2. link[o] = "connecting"
      BY <2>1, ZenonT(60) DEF KeepInv, ConnectInv
    <2>3. w = <<>>
      BY <2>2, Zenon DEF KeepInv, LinkInv, w
    <2>4. UNCHANGED <<seen, buf, sent>>
      BY <1>7, SMTT(60) DEF luvL_connect_cb, readVars
    <2> QED
      BY <1>2, <1>3, <2>3, <2>4, Zenon DEF se, b
  <1>8. ASSUME NEW len \in Reset .. MaxSent, Reports(o, len)
        PROVE  /\ len \in Int /\ Is(o, "OSTARTED") /\ b = <<>>
               /\ \A e \in Int : e > 0 /\ e \in Range(w) => e \in Range(wire'[o]) \/ e = len
    <2>1. /\ len \in Int /\ Is(o, "OSTARTED")
          /\ \/ len = 0 /\ wire'[o] = w
             \/ w # <<>> /\ len = Head(w) /\ len < 0 /\ wire'[o] = <<Eof>>
             \/ w # <<>> /\ len = Head(w) /\ len >= 0 /\ wire'[o] = Tail(w)
      BY <1>8, ReportMoves, Zenon DEF w
    <2>2. b = <<>>
      <3>1. Avoids({"start"})
        BY Zenon DEF OwnsRequest, Avoids
      <3> QED
        BY <2>1, <3>1, Zenon DEF KeepInv, SavedInv, b
    <2>3. w # <<>> /\ Head(w) < 0 => Range(w) = {Head(w)}
      <3>1. EndsLast(w)
        BY Zenon DEF KeepInv, EndInv, w
      <3>2. ASSUME w # <<>>, Head(w) < 0
            PROVE  Head(w) <= 0
        BY <1>0, <3>2
      <3> QED
        BY <1>0, <3>1, <3>2, EndMoves, Zenon
    <2> QED
      BY <1>2, <2>1, <2>2, <2>3, Zenon
  <1>9. ASSUME NEW len \in Reset .. MaxSent, _read_cb_saves(o, len)
        PROVE  c \in Held(o)'
    <2>1. /\ len \in Int /\ b = <<>>
          /\ \A e \in Int : e > 0 /\ e \in Range(w) => e \in Range(wire'[o]) \/ e = len
      BY <1>8, <1>9, ZenonT(60) DEF _read_cb_saves
    <2>2. /\ seen'[o] = se /\ sent'[o] = sent[o]
          /\ len >= 0 => buf'[o] = <<len>>
      BY <1>9, Zenon DEF _read_cb_saves, DataTypes, se, b
    <2>3. Range(b) = {} /\ (len > 0 => Range(buf'[o]) = {len})
      <3>1. len > 0 => len >= 0
        BY <2>1, SMTT(60)
      <3> QED
        BY <1>2, <2>1, <2>2, <3>1, Zenon
    <2> QED
      BY <1>3, <2>1, <2>2, <2>3, Zenon
  <1>10. ASSUME NEW len \in Reset .. MaxSent, _read_cb_rouses(o, len)
         PROVE  c \in Held(o)'
    <2>1. /\ len \in Int /\ b = <<>> /\ Is(o, "OSTARTED")
          /\ \A e \in Int : e > 0 /\ e \in Range(w) => e \in Range(wire'[o]) \/ e = len
      BY <1>8, <1>10, Zenon DEF _read_cb_rouses
    <2>2. rouse[o] # <<>>
      BY <1>10, Zenon DEF _read_cb_rouses
    <2>3. In(Head(rouse[o]), "read", o)
      BY <1>1, <2>1, <2>2, HeadReads, Zenon DEF KeepInv
    <2>4. /\ sent'[o] = sent[o] /\ buf'[o] = b
          /\ seen'[o] = IF len > 0 THEN Append(se, len) ELSE se
      BY <1>10, <2>3, Zenon DEF _read_cb_rouses, DataTypes, se, b
    <2> QED
      BY <1>2, <1>3, <2>1, <2>4, Zenon
  <1>11. CASE PeerSends(o)
    <2>1. /\ sent'[o] = sent[o] + 1 /\ wire'[o] = Append(w, sent[o] + 1)
          /\ seen'[o] = se /\ buf'[o] = b
      BY <1>11, Zenon DEF PeerSends, readVars, DataTypes, se, b, w
    <2>2. sent[o] + 1 \in Int /\ (c \in 1 .. sent[o] \/ c = sent[o] + 1)
      <3>1. c \in 1 .. sent[o] + 1
        BY <2>1, Zenon
      <3> QED
        BY <1>0, <3>1
    <2> QED
      BY <1>1, <1>2, <2>1, <2>2, Zenon DEF Held
  <1>12. CASE PeerEnds(o)
    <2>1. PICK e \in {Eof, Reset} : wire'[o] = Append(w, e)
      BY <1>12, SMTT(60) DEF PeerEnds, DataTypes, w
    <2>2. sent'[o] = sent[o] /\ seen'[o] = se /\ buf'[o] = b
      BY <1>12, Zenon DEF PeerEnds, readVars, se, b
    <2>3. e \in Int
      BY DEF Eof, Reset
    <2>4. Range(wire'[o]) = Range(w) \cup {e}
      BY <1>2, <2>1, <2>3, Zenon
    <2> QED
      BY <1>3, <2>2, <2>4, ZenonT(60)
  <1> QED
    BY <1>4, <1>5, <1>6, <1>7, <1>9, <1>10, <1>11, <1>12, MoveStep, Zenon DEF Moves

-----------------------------------------------------------------------------
(* Results *)

\* A state that waits has just started to, or waited before in the same call; one
\* that is ready was ready, or waited and is woken now.
WokenBy(s) ==
  CallsBack(s) \/ \E o \in Object : Rouses(o) /\ s = Head(rouse[o]) /\ Linked(s, o)

StatusMoves(s) ==
  /\ Parked(s)' => (\E c \in Calls : Parks(s, c)) \/ (Parked(s) /\ call'[s] = call[s])
  /\ status'[s] = "ready" =>
       call'[s] = call[s] /\ (status[s] = "ready" \/ (Parked(s) /\ WokenBy(s)))

LEMMA StatusSince ==
  ASSUME StateTypes, QueueInv, Kinds, NEW s \in State
  PROVE  StatusMoves(s)
  <1>0. ASSUME status'[s] = status[s], call'[s] = call[s]
        PROVE  StatusMoves(s)
    BY <1>0, Zenon DEF Parked, StatusMoves
  <1>1. CASE Passes
    BY <1>0, <1>1, Zenon DEF Passes
  <1>2. ASSUME NEW t \in State, NEW c \in Calls, Parks(t, c)
        PROVE  StatusMoves(s)
    <2>1. /\ Parked(t)'
          /\ \A u \in State : u # t => status'[u] = status[u] /\ call'[u] = call[u]
      BY <1>2, ParkEffect, Zenon
    <2>2. CASE s = t
      <3>1. status'[s] # "ready"
        BY <2>1, <2>2, Zenon DEF Parked
      <3> QED
        BY <1>2, <2>2, <3>1, ZenonT(60) DEF StatusMoves
    <2> QED
      BY <1>0, <2>1, <2>2, Zenon
  <1>3. ASSUME NEW t \in State, Wakes(t)
        PROVE  StatusMoves(s)
    <2>1. /\ \A u \in State : u # t => status'[u] = status[u]
          /\ status'[t] = IF status[t] = "parked" THEN "ready" ELSE status[t]
          /\ call' = call /\ CallsBack(t)
      BY <1>3, WakeEffect, Zenon DEF Wakes
    <2>2. CASE s = t
      <3>1. ~Parked(s)'
        BY <2>1, <2>2, Zenon DEF Parked
      <3>2. WokenBy(s)
        BY <2>1, <2>2, Zenon DEF WokenBy
      <3> QED
        BY <2>1, <2>2, <3>1, <3>2, ZenonT(60) DEF Parked, StatusMoves
    <2> QED
      BY <1>0, <2>1, <2>2, Zenon
  <1>4. ASSUME NEW t \in State, Goes(t)
        PROVE  StatusMoves(s)
    <2>1. /\ status'[t] = "running"
          /\ \A u \in State : u # t => status'[u] = status[u] /\ call'[u] = call[u]
      BY <1>4, GoEffect, ZenonT(60)
    <2>2. CASE s = t
      BY <2>1, <2>2, Zenon DEF Parked, StatusMoves
    <2> QED
      BY <1>0, <2>1, <2>2, Zenon
  <1>5. ASSUME NEW o \in Object, Rouses(o)
        PROVE  StatusMoves(s)
    <2>1. PICK h \in State :
            /\ h = Head(rouse[o]) /\ Linked(h, o) /\ ~Parked(h)'
            /\ \A t \in State : t # h => status'[t] = status[t]
            /\ status'[h] = IF status[h] = "parked" THEN "ready" ELSE status[h]
      BY <1>5, HeadLeaves, ZenonT(60)
    <2>2. call' = call
      BY <1>5, Zenon DEF Rouses
    <2>3. CASE s = h
      <3>1. WokenBy(s)
        BY <1>5, <2>1, <2>3, Zenon DEF WokenBy
      <3> QED
        BY <2>1, <2>2, <2>3, <3>1, Zenon DEF Parked, StatusMoves
    <2> QED
      BY <1>0, <2>1, <2>2, <2>3, Zenon
  <1>6. ASSUME NEW t \in State, NEW c \in Calls, ParksAside(t, c)
        PROVE  StatusMoves(s)
    BY <1>2, <1>6, Zenon DEF ParksAside
  <1>7. ASSUME NEW t \in State, NEW op \in {"read", "shutdown", "close"}, NEW o \in Object,
               ParksFor(t, op, o)
        PROVE  StatusMoves(s)
    <2>1. <<op, o>> \in Calls
      BY Zenon DEF Calls
    <2> QED
      BY <1>2, <1>7, <2>1, Zenon DEF ParksFor
  <1> QED
    BY <1>1, <1>3, <1>4, <1>5, <1>6, <1>7, Zenon DEF Kinds

\* The request of a state in shutdown is that of its own call.
LEMMA RequestsOwn ==
  ASSUME QueueInv, WakeInv, OwnRequest, OwnsRequest, NEW s \in State, NEW o \in Object
  PROVE  /\ \A op \in {"connect", "write"} : Requested(s, op, o) => Parked(s) /\ In(s, op, o)
         /\ Requested(s, "shutdown", o) => Parked(s) /\ In(s, "shutdown", o) /\ Linked(s, o)
  <1>1. Avoids({"pipe"})
    BY Zenon DEF OwnsRequest, Avoids
  <1>2. \A op \in {"connect", "write"} : Requested(s, op, o) => Parked(s) /\ In(s, op, o)
    BY <1>1, Zenon DEF WakeInv
  <1>3. ASSUME Requested(s, "shutdown", o)
        PROVE  Parked(s) /\ In(s, "shutdown", o) /\ Linked(s, o)
    <2>1. pend[s] # <<>>
      BY <1>3 DEF Requested
    <2>2. Parked(s) /\ pend[s] = <<call[s]>>
      BY <2>1, Zenon DEF OwnRequest
    <2>3. In(s, "shutdown", o)
      BY <1>3, <2>2, SMTT(60) DEF Requested, In
    <2>4. Waits(s, o)
      BY <2>2, <2>3, Zenon DEF Waits
    <2> QED
      BY <2>2, <2>3, <2>4, Zenon DEF QueueInv
  <1> QED
    BY <1>2, <1>3, Zenon

\* A state is woken by the callback of its own call.
OwnWakes(s) ==
  \/ SleepCb(s) /\ call[s] = <<"sleep">>
  \/ \E o \in Object :
       \/ luvL_connect_cb(s, o) /\ In(s, "connect", o)
       \/ _write_cb(s, o) /\ In(s, "write", o)
       \/ _shutdown_cb(s, o) /\ In(s, "shutdown", o)
       \/ StreamClosed(o) /\ Waits(s, o)
       \/ \E len \in Reset .. MaxSent :
            _read_cb_rouses(o, len) /\ In(s, "read", o) /\ s = Head(rouse[o])

LEMMA OwnWake ==
  ASSUME StateTypes, DataTypes, QueueInv, WakeInv, NotReading, OwnRequest, ClosingInv, OwnsRequest,
         NEW s \in State, Parked(s), WokenBy(s)
  PROVE  OwnWakes(s)
  <1>1. CASE CallsBack(s)
    <2>1. CASE SleepCb(s)
      BY <2>1, Zenon DEF SleepCb, sleep_cb, OwnWakes
    <2>2. ASSUME NEW o \in Object, luvL_connect_cb(s, o)
          PROVE  OwnWakes(s)
      <3>1. Requested(s, "connect", o) /\ "connect" \in {"connect", "write"}
        BY <2>2, Zenon DEF luvL_connect_cb, Answer
      <3>2. In(s, "connect", o)
        BY <3>1, RequestsOwn, Zenon
      <3> QED
        BY <2>2, <3>2, Zenon DEF OwnWakes
    <2>3. ASSUME NEW o \in Object, _write_cb(s, o)
          PROVE  OwnWakes(s)
      <3>1. Requested(s, "write", o) /\ "write" \in {"connect", "write"}
        BY <2>3, Zenon DEF _write_cb, Answer
      <3>2. In(s, "write", o)
        BY <3>1, RequestsOwn, Zenon
      <3> QED
        BY <2>3, <3>2, Zenon DEF OwnWakes
    <2> QED
      BY <1>1, <2>1, <2>2, <2>3, Zenon DEF CallsBack
  <1>2. ASSUME NEW o \in Object, Rouses(o), s = Head(rouse[o]), Linked(s, o)
        PROVE  OwnWakes(s)
    <2>0. Avoids({"pipe"}) /\ Avoids({"share"})
      BY Zenon DEF OwnsRequest, Avoids
    <2>1. rouse[o] # <<>> /\ \A t \in State : Linked(t, o) => t = s
      <3>1. rouse[o] # <<>>
        BY <1>2, Zenon DEF Rouses
      <3> QED
        BY <1>2, <2>0, <3>1, HeadLeaves, ZenonT(60)
    <2>2. ASSUME NEW len \in Reset .. MaxSent, _read_cb_rouses(o, len)
          PROVE  OwnWakes(s)
      <3>1. Is(o, "OSTARTED") /\ ~Closing(o)
        BY <2>2, Zenon DEF _read_cb_rouses, Reports
      <3>2. In(s, "read", o)
        BY <1>2, <2>1, <3>1, HeadReads, Zenon
      <3> QED
        BY <1>2, <2>2, <3>2, ZenonT(60) DEF OwnWakes
    <2>3. ASSUME NEW t \in State, _shutdown_cb(t, o)
          PROVE  OwnWakes(s)
      <3>1. Requested(t, "shutdown", o)
        BY <2>3, Zenon DEF _shutdown_cb, Answer
      <3>2. In(t, "shutdown", o) /\ Linked(t, o)
        BY <3>1, RequestsOwn, Zenon
      <3>3. t = s
        BY <2>1, <3>2, Zenon
      <3> QED
        BY <2>3, <3>2, <3>3, Zenon DEF OwnWakes
    <2>4. CASE StreamClosed(o)
      <3>1. Waits(s, o)
        BY <1>2, <2>0, Zenon DEF WakeInv
      <3> QED
        BY <2>4, <3>1, Zenon DEF OwnWakes
    <2> QED
      BY <1>2, <2>2, <2>3, <2>4, Zenon DEF Rouses, Signals
  <1> QED
    BY <1>1, <1>2, Zenon DEF WokenBy

\* Who returns from close was woken by the close callback.
LEMMA InitResults == Init => ClosedInv /\ OpenInv /\ ArgsInv /\ AnswerInv
  <1> SUFFICES ASSUME Init
               PROVE  ClosedInv /\ OpenInv /\ ArgsInv /\ AnswerInv
    OBVIOUS
  <1>1. \A s \in State : call[s] = NoCall /\ ret[s] = Args /\ ~Parked(s)
    BY SMTT(60) DEF Init, LoopInit, Parked
  <1>2. \A s \in State : \A op, o : ~In(s, op, o)
    BY <1>1, SMTT(60) DEF In, NoCall
  <1> QED
    BY <1>1, <1>2, Zenon DEF ClosedInv, OpenInv, ArgsInv, AnswerInv

LEMMA ClosedStep ==
  StateTypes /\ DataTypes /\ QueueInv /\ WakeInv /\ NotReading /\ OwnRequest /\ ClosingInv
    /\ ClosedInv /\ [Next]_vars => ClosedInv'
  <1> SUFFICES ASSUME StateTypes, DataTypes, QueueInv, WakeInv, NotReading, OwnRequest, ClosingInv,
                      ClosedInv, [Next]_vars, Kinds, OwnsRequest, NEW s \in State, NEW o \in Object,
                      In(s, "close", o)', status'[s] = "ready"
               PROVE  Is(o, "OCLOSED")'
    BY StepKinds, SameRisks, Zenon DEF ClosedInv, OwnsRequest, Avoids
  <1>1. call'[s] = call[s] /\ (status[s] = "ready" \/ (Parked(s) /\ WokenBy(s)))
    BY StatusSince, Zenon DEF StatusMoves
  <1>2. In(s, "close", o)
    BY <1>1, Zenon DEF In
  <1>3. CASE status[s] = "ready"
    BY <1>2, <1>3, FlagStep, ZenonT(60) DEF ClosedInv, FlagMoves
  <1>4. CASE Parked(s) /\ WokenBy(s)
    <2>1. OwnWakes(s)
      BY <1>4, OwnWake, Zenon
    <2>2. \E p \in Object : StreamClosed(p) /\ Waits(s, p)
      <3>1. call[s] = <<"close", o>>
        BY <1>2, Zenon DEF In
      <3>2. /\ call[s] # <<"sleep">>
            /\ \A op, p : In(s, op, p) => op = "close"
        BY <3>1, SMTT(60) DEF In
      <3>3. \A p : ~In(s, "connect", p) /\ ~In(s, "write", p) /\ ~In(s, "shutdown", p)
                   /\ ~In(s, "read", p)
        BY <3>2, Zenon
      <3> QED
        BY <2>1, <3>2, <3>3, Zenon DEF OwnWakes
    <2>3. Waits(s, o)
      BY <1>2, <1>4, Zenon DEF Waits
    <2>4. StreamClosed(o)
      BY <2>2, <2>3, WaitsFor, Zenon
    <2>5. Flags(o, {"OCLOSED"}, {})
      BY <2>4, Zenon DEF StreamClosed, luvL_object_close_cb
    <2> QED
      BY <2>5, Zenon DEF Flags, Is, DataTypes
  <1> QED
    BY <1>1, <1>3, <1>4, Zenon

\* The values of a state change when it runs, and in the callbacks that push some.
RetMoves(s) ==
  \/ ret'[s] = ret[s] \/ Running(s) \/ Running(s)'
  \/ \E o \in Object :
       \/ _write_cb(s, o) \/ _shutdown_cb(s, o)
       \/ rouse[o] # <<>> /\ s = Head(rouse[o])
            /\ \E len \in Reset .. MaxSent : _read_cb_rouses(o, len)

LEMMA RetStep ==
  ASSUME StateTypes, DataTypes, [Next]_vars, NEW s \in State
  PROVE  RetMoves(s)
  <1> USE DEF objVars, netVars, readVars, pollVars
  <1>0. ASSUME NEW t, NEW v, ret' = [ret EXCEPT ![t] = v], s # t
        PROVE  RetMoves(s)
    <2>1. DOMAIN ret = State
      BY Zenon DEF DataTypes
    <2> QED
      BY <1>0, <2>1, Zenon DEF RetMoves
  <1>1. ASSUME UNCHANGED ret
        PROVE  RetMoves(s)
    BY <1>1, Zenon DEF RetMoves
  <1>2. CASE UNCHANGED vars
    BY <1>1, <1>2, Zenon DEF vars, loopVars
  <1>3. ASSUME NEW t \in State, NEW o \in Object, LuaCalls(t, o)
        PROVE  RetMoves(s)
    <2>1. Running(t)
      BY <1>3, Zenon
         DEF LuaCalls, luv_tcp_connect_fails, luv_tcp_connect, luv_pipe_connect,
             luv_stream_read_closed, luv_stream_read_saved, luv_stream_read, luv_stream_start,
             luv_stream_start_fails, luv_stream_stop, luv_stream_write_fails, luv_stream_write,
             luv_stream_shutdown, ShutsDown, luv_stream_shutdown_again, luv_stream_close
    <2>2. \E v : Return(t, v) \/ \E c : Suspend(t, c)
      BY <1>3, Zenon
         DEF LuaCalls, luv_tcp_connect_fails, luv_tcp_connect, luv_pipe_connect,
             luv_stream_read_closed, luv_stream_read_saved, luv_stream_read, luv_stream_start,
             luv_stream_start_fails, luv_stream_stop, luv_stream_write_fails, luv_stream_write,
             luv_stream_shutdown, ShutsDown, luv_stream_shutdown_again, luv_stream_close, luvL_cond_wait
    <2>3. \E v : ret' = [ret EXCEPT ![t] = v]
      BY <2>2, Zenon DEF Return, Suspend, SuspendWith
    <2> QED
      BY <1>0, <2>1, <2>3, Zenon DEF RetMoves
  <1>4. ASSUME NEW t \in State, NEW o \in Object, RequestCb(t, o)
        PROVE  RetMoves(s)
    <2>1. CASE luvL_connect_cb(t, o)
      BY <1>1, <2>1, Zenon DEF luvL_connect_cb
    <2>2. CASE _write_cb(t, o) \/ _shutdown_cb(t, o)
      <3>1. \E v : ret' = [ret EXCEPT ![t] = v]
        BY <2>2, Zenon DEF _write_cb, _shutdown_cb
      <3>2. s = t => RetMoves(s)
        BY <2>2, Zenon DEF RetMoves
      <3> QED
        BY <1>0, <3>1, <3>2, Zenon
    <2> QED
      BY <1>4, <2>1, <2>2, Zenon DEF RequestCb
  <1>5. ASSUME NEW o \in Object, NEW len \in Reset .. MaxSent, _read_cb_rouses(o, len)
        PROVE  RetMoves(s)
    <2>1. rouse[o] # <<>> /\ \E v : ret' = [ret EXCEPT ![Head(rouse[o])] = v]
      BY <1>5, Zenon DEF _read_cb_rouses
    <2>2. s = Head(rouse[o]) => RetMoves(s)
      BY <1>5, <2>1, Zenon DEF RetMoves
    <2> QED
      BY <1>0, <2>1, <2>2, Zenon
  <1>6. ASSUME NEW o \in Object,
               \/ \E len : _read_cb_saves(o, len)
               \/ StreamClosed(o) \/ PeerSends(o) \/ PeerEnds(o)
        PROVE  RetMoves(s)
    BY <1>1, <1>6, Zenon
       DEF _read_cb_saves, StreamClosed, luvL_object_close_cb, PeerSends, PeerEnds, loopVars
  <1>7. ASSUME NEW t \in State, Sleeps(t)
        PROVE  RetMoves(s)
    <2>1. Running(t)
      BY <1>7, Zenon
      DEF Sleeps, luv_sleep, Suspend, SuspendWith, States!Suspend, States!Move, Running
    <2>2. \E v : ret' = [ret EXCEPT ![t] = v]
      BY <1>7, Zenon DEF Sleeps, luv_sleep, Suspend, SuspendWith
    <2> QED
      BY <1>0, <2>1, <2>2, Zenon DEF RetMoves
  <1>8. ASSUME NEW t \in State, SleepCb(t)
        PROVE  RetMoves(s)
    BY <1>1, <1>8, Zenon DEF SleepCb, sleep_cb
  <1>9. ASSUME NEW t \in State, Resumes(t)
        PROVE  RetMoves(s)
    <2>1. status'[t] = "running"
      BY <1>9, Zenon DEF Resumes, ResumeWith, States!Resume, States!Move, StateTypes
    <2>2. \E v : ret' = [ret EXCEPT ![t] = v]
      BY <1>9, Zenon DEF Resumes, ResumeWith
    <2> QED
      BY <1>0, <2>1, <2>2, Zenon DEF RetMoves, Running
  <1> QED
    BY <1>2, <1>3, <1>4, <1>5, <1>6, <1>7, <1>8, <1>9, ZenonT(60) DEF Next, ReadCb

\* A connection is not unmade.
LEMMA NotNewStep ==
  ASSUME StateTypes, DataTypes, [Next]_vars, NEW o \in Object, link[o] # "new"
  PROVE  link'[o] # "new"
  <1>1. ASSUME NEW t \in State, luv_tcp_connect(t, o) \/ luv_pipe_connect(t, o)
        PROVE  FALSE
    BY <1>1, Zenon DEF luv_tcp_connect, luv_pipe_connect
  <1>2. ASSUME NEW t \in State, luvL_connect_cb(t, o)
        PROVE  link'[o] # "new"
    BY <1>2, Zenon DEF luvL_connect_cb, DataTypes
  <1> QED
    BY <1>1, <1>2, LinkStep, Zenon DEF LinkStill

\* Nobody waits in read or shutdown for a stream that closes.
LEMMA OpenStep ==
  StateTypes /\ DataTypes /\ QueueInv /\ WakeInv /\ NotReading /\ OwnRequest /\ KeepInv
    /\ OpenInv /\ [Next]_vars => OpenInv'
  <1> SUFFICES ASSUME StateTypes, DataTypes, QueueInv, WakeInv, NotReading, OwnRequest, KeepInv,
                      OpenInv, [Next]_vars, Kinds, OwnsRequest, Avoids({"again"}),
                      NEW s \in State, NEW o \in Object, Parked(s)',
                      NEW op \in {"read", "shutdown"}, In(s, op, o)'
               PROVE  ~Closing(o)' /\ link'[o] # "new"
    BY StepKinds, SameRisks, Zenon DEF OpenInv, OwnsRequest, Avoids
  <1>r. /\ "share" \notin risks /\ "start" \notin risks /\ "again" \notin risks
        /\ Avoids({"share"}) /\ Avoids({"pipe"})
    BY Zenon DEF OwnsRequest, Avoids
  \* Who waits on goes on waiting only if the stream's queue is not taken from.
  <1>q. ASSUME Linked(s, o), Rouses(o)
        PROVE  FALSE
    BY <1>q, <1>r, HeadLeaves, Zenon
  <1>1. CASE ParksFor(s, op, o)
    <2>1. CASE op = "read"
      <3>1. luv_stream_read(s, o)
        BY <1>1, <2>1, SMTT(60) DEF ParksFor
      <3>2. ~Closing(o) /\ Flags(o, {"OSTARTED"}, {}) /\ link[o] # "new"
        BY <3>1, Zenon DEF luv_stream_read, luvL_stream_start
      <3>3. ~Closing(o)'
        BY <3>2 DEF Flags, Closing, Is, DataTypes
      <3> QED
        BY <3>2, <3>3, NotNewStep, Zenon
    <2>2. CASE op = "shutdown"
      <3>1. luv_stream_shutdown(s, o)
        BY <1>1, <2>2, SMTT(60) DEF ParksFor
      <3>2. ~Closing(o) /\ Flags(o, {"OSHUTDOWN"}, {}) /\ link[o] # "new"
        BY <1>r, <3>1, Zenon DEF luv_stream_shutdown, ShutsDown
      <3>3. ~Closing(o)'
        BY <3>2 DEF Flags, Closing, Is, DataTypes
      <3> QED
        BY <3>2, <3>3, NotNewStep, Zenon
    <2> QED
      BY <2>1, <2>2, Zenon
  <1>2. CASE In(s, op, o) /\ Parked(s)
    <2>1. ~Closing(o) /\ link[o] # "new" /\ Linked(s, o)
      <3>1. In(s, "read", o) \/ In(s, "shutdown", o)
        BY <1>2, Zenon
      <3> QED
        BY <1>2, <3>1, ZenonT(60) DEF OpenInv, QueueInv, Waits
    <2>2. rouse[o] # <<>>
      BY <2>1 DEF Linked, Range
    <2>3. ~Closes(o)
      <3>1. ASSUME NEW t \in State, luv_stream_close(t, o)
            PROVE  FALSE
        BY <1>r, <2>2, <3>1, Zenon DEF luv_stream_close, Alone
      <3>2. ASSUME NEW len \in Reset .. MaxSent, _read_cb_rouses(o, len)
            PROVE  FALSE
        <4>1. Signals(o)
          BY <3>2, Zenon DEF Signals
        <4>2. Rouses(o)
          BY <3>2, <4>1, Zenon DEF _read_cb_rouses, Reports, pollVars, Rouses
        <4> QED
          BY <1>q, <2>1, <4>2, Zenon
      <3> QED
        BY <1>r, <2>1, <3>1, <3>2, Zenon DEF Closes
    <2>4. ~Closing(o)'
      BY <2>1, <2>3, FlagStep, Zenon DEF FlagMoves
    <2> QED
      BY <2>1, <2>4, NotNewStep, Zenon
  <1> QED
    BY <1>1, <1>2, WaitsSince, ZenonT(60)

\* The callbacks that push values do so to states that wait for them.
LEMMA ArgsStep ==
  StateTypes /\ DataTypes /\ QueueInv /\ WakeInv /\ OwnRequest /\ ArgsInv /\ [Next]_vars
    => ArgsInv'
  <1> SUFFICES ASSUME StateTypes, DataTypes, QueueInv, WakeInv, OwnRequest, ArgsInv, [Next]_vars,
                      Kinds, OwnsRequest, NEW s \in State, Parked(s)',
                      call'[s][1] \in {"connect", "close", "sleep"}
               PROVE  ret'[s] = Args
    BY StepKinds, SameRisks, ZenonT(60) DEF ArgsInv, OwnsRequest, Avoids
  <1>1. ASSUME NEW c \in Calls, Parks(s, c)
        PROVE  ret'[s] = Args
    BY <1>1, Zenon DEF Parks, DataTypes
  <1>2. CASE Parked(s) /\ call'[s] = call[s]
    <2>1. ret[s] = Args /\ call[s][1] \in {"connect", "close", "sleep"}
      BY <1>2, Zenon DEF ArgsInv
    <2>2. ~Running(s) /\ ~Running(s)'
      BY <1>2, Zenon DEF Running, Parked
    <2>3. ASSUME NEW o \in Object, _write_cb(s, o) \/ _shutdown_cb(s, o)
          PROVE  FALSE
      <3>1. /\ Requested(s, "write", o) \/ Requested(s, "shutdown", o)
            /\ "write" \in {"connect", "write"}
        BY <2>3, Zenon DEF _write_cb, _shutdown_cb, Answer
      <3>2. In(s, "write", o) \/ In(s, "shutdown", o)
        BY <3>1, RequestsOwn, Zenon
      <3> QED
        BY <2>1, <3>2 DEF In
    <2>4. ASSUME NEW o \in Object, rouse[o] # <<>>, s = Head(rouse[o]),
                 NEW len \in Reset .. MaxSent, _read_cb_rouses(o, len)
          PROVE  FALSE
      <3>1. Signals(o)
        BY <2>4, Zenon DEF Signals
      <3>2. Rouses(o)
        BY <2>4, <3>1, Zenon DEF _read_cb_rouses, Reports, pollVars, Rouses
      <3> QED
        BY <2>4, <3>2, HeadLeaves, ZenonT(60)
    <2> QED
      BY <2>1, <2>2, <2>3, <2>4, RetStep, Zenon DEF RetMoves
  <1> QED
    BY <1>1, <1>2, StatusSince, Zenon DEF StatusMoves

\* Who is ready keeps its values until it runs.
LEMMA ReadyKeeps ==
  ASSUME StateTypes, DataTypes, QueueInv, WakeInv, NotReading, OwnRequest, ClosingInv, OwnsRequest,
         [Next]_vars, NEW s \in State, status[s] = "ready", status'[s] = "ready"
  PROVE  ret'[s] = ret[s]
  <1>1. ~Running(s) /\ ~Running(s)' /\ ~Parked(s)
    BY Zenon DEF Running, Parked
  <1>2. ASSUME NEW o \in Object, _write_cb(s, o) \/ _shutdown_cb(s, o)
        PROVE  FALSE
    <2>1. /\ Requested(s, "write", o) \/ Requested(s, "shutdown", o)
          /\ "write" \in {"connect", "write"}
      BY <1>2, Zenon DEF _write_cb, _shutdown_cb, Answer
    <2> QED
      BY <1>1, <2>1, RequestsOwn, Zenon
  <1>3. ASSUME NEW o \in Object, rouse[o] # <<>>, s = Head(rouse[o]),
               NEW len \in Reset .. MaxSent, _read_cb_rouses(o, len)
        PROVE  FALSE
    <2>1. Is(o, "OSTARTED") /\ ~Closing(o)
      BY <1>3, Zenon DEF _read_cb_rouses, Reports
    <2> QED
      BY <1>1, <1>3, <2>1, HeadReads, ZenonT(60)
  <1> QED
    BY <1>1, <1>2, <1>3, RetStep, Zenon DEF RetMoves

\* Who is woken has the result of its call, and keeps it until it runs.
LEMMA AnswerInvStep ==
  StateTypes /\ DataTypes /\ QueueInv /\ WakeInv /\ NotReading /\ OwnRequest /\ KeepInv
    /\ OpenInv /\ ArgsInv /\ AnswerInv /\ [Next]_vars => AnswerInv'
  <1> SUFFICES ASSUME StateTypes, DataTypes, QueueInv, WakeInv, NotReading, OwnRequest, KeepInv,
                      OpenInv, ArgsInv, AnswerInv, [Next]_vars, Kinds, OwnsRequest,
                      Avoids({"again"}), NEW s \in State, status'[s] = "ready", call'[s] # NoCall
               PROVE  ret'[s] \in Returns(call'[s][1])
    BY StepKinds, SameRisks, Zenon DEF AnswerInv, OwnsRequest, Avoids
  <1>0. ClosingInv
    BY Zenon DEF KeepInv
  <1>1. call'[s] = call[s] /\ (status[s] = "ready" \/ (Parked(s) /\ WokenBy(s)))
    BY StatusSince, Zenon DEF StatusMoves
  <1>2. CASE status[s] = "ready"
    <2>1. ret[s] \in Returns(call[s][1])
      BY <1>1, <1>2, Zenon DEF AnswerInv
    <2>2. ret'[s] = ret[s]
      BY <1>0, <1>2, ReadyKeeps, Zenon
    <2> QED
      BY <1>1, <2>1, <2>2, Zenon
  <1>3. CASE Parked(s) /\ WokenBy(s)
    <2>0. OwnWakes(s)
      BY <1>0, <1>3, OwnWake, Zenon
    <2>1. ASSUME UNCHANGED ret, call[s][1] \in {"connect", "close", "sleep"}
          PROVE  ret'[s] \in Returns(call[s][1])
      <3>1. ret'[s] = Args
        BY <1>3, <2>1, ZenonT(60) DEF ArgsInv
      <3> QED
        BY <2>1, <3>1, Zenon DEF Returns
    <2>2. ASSUME SleepCb(s), call[s] = <<"sleep">>
          PROVE  ret'[s] \in Returns(call[s][1])
      <3>1. UNCHANGED ret /\ call[s][1] = "sleep"
        BY <2>2 DEF SleepCb, sleep_cb
      <3> QED
        BY <2>1, <3>1, Zenon
    <2>3. ASSUME NEW o \in Object, luvL_connect_cb(s, o), In(s, "connect", o)
          PROVE  ret'[s] \in Returns(call[s][1])
      <3>1. UNCHANGED ret /\ call[s][1] = "connect"
        BY <2>3 DEF luvL_connect_cb, In
      <3> QED
        BY <2>1, <3>1, SMTT(60)
    <2>4. ASSUME NEW o \in Object,
                 \/ _write_cb(s, o) /\ In(s, "write", o)
                 \/ _shutdown_cb(s, o) /\ In(s, "shutdown", o)
          PROVE  ret'[s] \in Returns(call[s][1])
      <3>1. ret'[s] = <<"status">>
        BY <2>4, Zenon DEF _write_cb, _shutdown_cb, DataTypes
      <3>2. call[s][1] \in {"write", "shutdown"}
        BY <2>4, SMTT(60) DEF In
      <3> QED
        BY <3>1, <3>2, SMTT(60) DEF Returns
    <2>5. ASSUME NEW o \in Object, StreamClosed(o), Waits(s, o)
          PROVE  ret'[s] \in Returns(call[s][1])
      <3>1. Closing(o) /\ ~Requested(s, "shutdown", o) /\ UNCHANGED ret
        BY <2>5, Zenon DEF StreamClosed, luvL_object_close_cb, Closing
      <3>2. ~In(s, "read", o) /\ ~In(s, "shutdown", o)
        BY <1>3, <3>1, ZenonT(60) DEF OpenInv
      <3>3. In(s, "close", o)
        BY <2>5, <3>2, Zenon DEF Waits
      <3>4. call[s][1] = "close"
        BY <3>3 DEF In
      <3> QED
        BY <2>1, <3>1, <3>4, SMTT(60)
    <2>6. ASSUME NEW o \in Object, NEW len \in Reset .. MaxSent, _read_cb_rouses(o, len),
                 In(s, "read", o), s = Head(rouse[o])
          PROVE  ret'[s] \in Returns(call[s][1])
      <3>1. ret'[s] = Pushed(len)
        BY <2>6, Zenon DEF _read_cb_rouses, DataTypes
      <3>2. call[s][1] = "read"
        BY <2>6 DEF In
      <3>3. Pushed(len) \in {<<"data">>, <<"nil">>, ReadError}
        BY Zenon DEF Pushed
      <3> QED
        BY <3>1, <3>2, <3>3, SMTT(60) DEF Returns
    <2> QED
      BY <1>1, <2>0, <2>2, <2>3, <2>4, <2>5, <2>6, Zenon DEF OwnWakes
  <1> QED
    BY <1>1, <1>2, <1>3, Zenon

-----------------------------------------------------------------------------
(* The theorems *)

LEMMA InitBase == Init => BaseInv
  BY InitQueue, InitWake, InitRequest, InitReader, InitRead, InitOrder, InitKeep, InitLoss, Zenon
     DEF BaseInv

LEMMA StepBase == BaseInv /\ [Next]_vars => BaseInv'
  <1> SUFFICES ASSUME BaseInv, [Next]_vars
               PROVE  BaseInv'
    OBVIOUS
  <1>1. /\ StateTypes /\ DataTypes /\ QueueInv /\ WakeInv /\ NotReading /\ OwnRequest
        /\ ReaderListens /\ ReadInv /\ OrderInv /\ KeepInv /\ LossInv
    BY Zenon DEF BaseInv
  <1>2. StateTypes' /\ DataTypes' /\ QueueInv' /\ WakeInv'
    BY <1>1, StateTypesStep, DataTypesStep, QueueStep, WakeStep, Zenon
  <1>3. NotReading' /\ OwnRequest'
    BY <1>1, NotReadingStep, OwnRequestStep, Zenon
  <1>4. ReaderListens' /\ ReadInv' /\ OrderInv'
    BY <1>1, ReaderStep, ReadStep, OrderStep, Zenon
  <1>5. KeepInv' /\ LossInv'
    BY <1>1, KeepStep, LossStep, Zenon
  <1> QED
    BY <1>2, <1>3, <1>4, <1>5, Zenon DEF BaseInv

LEMMA Always == Spec => []IInv
  <1>1. Init => IInv
    BY InitBase, InitResults, Zenon DEF IInv
  <1>2. IInv /\ [Next]_vars => IInv'
    <2> SUFFICES ASSUME IInv, [Next]_vars
                 PROVE  IInv'
      OBVIOUS
    <2>1. /\ StateTypes /\ DataTypes /\ QueueInv /\ WakeInv /\ NotReading /\ OwnRequest
          /\ KeepInv /\ ClosingInv /\ ClosedInv /\ OpenInv /\ ArgsInv /\ AnswerInv
      BY Zenon DEF IInv, BaseInv, KeepInv
    <2>2. ClosedInv' /\ OpenInv' /\ ArgsInv' /\ AnswerInv'
      BY <2>1, ClosedStep, OpenStep, ArgsStep, AnswerInvStep, Zenon
    <2> QED
      BY <2>2, StepBase, Zenon DEF IInv
  <1> QED
    BY <1>1, <1>2, PTL DEF Spec

LEMMA BaseWaiters == BaseInv => WaitersExact
  <1> SUFFICES ASSUME BaseInv, NEW s \in State, NEW o \in Object
               PROVE  /\ Waits(s, o) => Linked(s, o)
                      /\ Avoids({"pipe"}) => (Linked(s, o) => Waits(s, o))
    BY Zenon DEF WaitersExact, Waits, Linked, Parked
  <1> QED
    BY Zenon DEF BaseInv, QueueInv, WakeInv

LEMMA BaseRequests == BaseInv => OneRequest
  <1> SUFFICES ASSUME BaseInv, OwnsRequest, NEW s \in State
               PROVE  Len(pend[s]) <= 1
    BY Zenon DEF OneRequest
  <1>1. pend[s] = <<>> \/ pend[s] = <<call[s]>>
    BY Zenon DEF BaseInv, OwnRequest
  <1>2. Len(<<>>) <= 1 /\ \A x : Len(<<x>>) <= 1
    OBVIOUS
  <1> QED
    BY <1>1, <1>2, Zenon

\* Two queues in order, the one before the other, are in order.
LEMMA Joined ==
  ASSUME NEW p \in Seq(Int), NEW q \in Seq(Int)
  PROVE  /\ p \o q \in Seq(Int)
         /\ Range(p \o q) = Range(p) \cup Range(q)
         /\ Rising(p) /\ Rising(q) /\ Before(p, q) => Rising(p \o q)
         /\ \A r \in Seq(Int) : Before(p, r) /\ Before(q, r) => Before(p \o q, r)
  <1>1. /\ p \o q \in Seq(Int) /\ Len(p) \in Nat /\ Len(q) \in Nat
        /\ DOMAIN p = 1 .. Len(p) /\ DOMAIN q = 1 .. Len(q)
        /\ DOMAIN (p \o q) = 1 .. Len(p) + Len(q)
    OBVIOUS
  <1>2. \A i \in DOMAIN (p \o q) :
          \/ i \in DOMAIN p /\ (p \o q)[i] = p[i]
          \/ i > Len(p) /\ i - Len(p) \in DOMAIN q /\ (p \o q)[i] = q[i - Len(p)]
    BY <1>1
  <1>3. /\ \A i \in DOMAIN p : i \in DOMAIN (p \o q) /\ (p \o q)[i] = p[i]
        /\ \A i \in DOMAIN q : /\ Len(p) + i \in DOMAIN (p \o q)
                               /\ (p \o q)[Len(p) + i] = q[i]
    BY <1>1, SMTT(60)
  <1>4. Range(p \o q) = Range(p) \cup Range(q)
    <2>1. \A i \in DOMAIN (p \o q) : (p \o q)[i] \in Range(p) \cup Range(q)
      BY <1>2, Zenon DEF Range
    <2>2. \A i \in DOMAIN p : p[i] \in Range(p \o q)
      BY <1>3, Zenon DEF Range
    <2>3. \A i \in DOMAIN q : q[i] \in Range(p \o q)
      BY <1>3, Zenon DEF Range
    <2> QED
      BY <2>1, <2>2, <2>3, Zenon DEF Range
  <1>5. ASSUME Rising(p), Rising(q), Before(p, q)
        PROVE  Rising(p \o q)
    <2> SUFFICES ASSUME NEW i \in DOMAIN (p \o q), NEW j \in DOMAIN (p \o q), i < j,
                        (p \o q)[i] > 0, (p \o q)[j] > 0
                 PROVE  (p \o q)[i] < (p \o q)[j]
      BY Zenon DEF Rising
    <2>1. CASE i \in DOMAIN p /\ (p \o q)[i] = p[i]
      BY <1>2, <1>5, <2>1, SMTT(60) DEF Rising, Before
    <2>2. CASE i > Len(p) /\ i - Len(p) \in DOMAIN q /\ (p \o q)[i] = q[i - Len(p)]
      <3>1. j - Len(p) \in DOMAIN q /\ (p \o q)[j] = q[j - Len(p)] /\ i - Len(p) < j - Len(p)
        BY <1>1, <1>2, <2>2, SMTT(60)
      <3> QED
        BY <1>5, <2>2, <3>1, SMTT(60) DEF Rising
    <2> QED
      BY <1>2, <2>1, <2>2, SMTT(60)
  <1>6. ASSUME NEW r \in Seq(Int), Before(p, r), Before(q, r)
        PROVE  Before(p \o q, r)
    BY <1>2, <1>6, SMTT(60) DEF Before
  <1> QED
    BY <1>1, <1>4, <1>5, <1>6, Zenon

LEMMA BaseChunks == BaseInv => NothingLost
  <1> SUFFICES ASSUME BaseInv, NEW o \in Object
               PROVE  /\ Rising(seen[o] \o buf[o] \o wire[o])
                      /\ Avoids({"share", "start", "shutdown", "pipe"}) /\ ~Closing(o) =>
                           1 .. sent[o] \subseteq Range(seen[o] \o buf[o] \o wire[o])
    BY Zenon DEF NothingLost, Rising
  <1> DEFINE se == seen[o]
             b == buf[o]
             w == wire[o]
  <1>1. se \in Seq(Int) /\ b \in Seq(Int) /\ w \in Seq(Int)
    BY Zenon DEF BaseInv, DataTypes
  <1>2. /\ Rising(se) /\ Rising(w) /\ Before(se, b) /\ Before(se, w) /\ Before(b, w)
        /\ b # <<>> => b = <<Head(b)>>
    BY Zenon DEF BaseInv, OrderInv, Ordered
  <1>3. Avoids({"share", "start", "shutdown", "pipe"}) /\ ~Closing(o) =>
          1 .. sent[o] \subseteq Range(se) \cup Range(b) \cup Range(w)
    <2>1. Avoids({"share", "start", "shutdown", "pipe"}) => OwnsRequest
      BY Zenon DEF OwnsRequest, Avoids
    <2> QED
      BY <2>1, Zenon DEF BaseInv, LossInv, Held
  <1> HIDE DEF se, b, w
  <1>4. Rising(b)
    BY <1>2 DEF Rising
  <1>5. /\ se \o b \in Seq(Int) /\ Rising(se \o b) /\ Before(se \o b, w)
        /\ Range(se \o b) = Range(se) \cup Range(b)
    BY <1>1, <1>2, <1>4, Joined, Zenon
  <1>6. /\ Rising((se \o b) \o w)
        /\ Range((se \o b) \o w) = Range(se \o b) \cup Range(w)
    BY <1>1, <1>2, <1>5, Joined, Zenon
  <1> QED
    BY <1>3, <1>5, <1>6, Zenon DEF se, b, w

\* The queue of a stream (object->rouse) holds the states that wait for it, and
\* unless pipe:connect is used no others.
THEOREM WaitersAreExact == Spec => []WaitersExact
  <1>1. IInv => WaitersExact
    BY BaseWaiters, Zenon DEF IInv
  <1> QED
    BY <1>1, Always, PTL

\* A state that waits in stream:read is served by the next report: reading is
\* started, luvL_alloc_cb has a size, and nothing is left in self->buf.
THEOREM ReadersAreServed == Spec => []ReaderListens
  <1>1. IInv => ReaderListens
    BY Zenon DEF IInv, BaseInv
  <1> QED
    BY <1>1, Always, PTL

\* state->req is not handed to libuv again before its callback.
THEOREM RequestsOnce == Spec => []OneRequest
  <1>1. IInv => OneRequest
    BY BaseRequests, Zenon DEF IInv
  <1> QED
    BY <1>1, Always, PTL

\* What reads have returned, what is saved in self->buf and what libuv has yet to
\* report are the peer's chunks in the order sent, and while the stream is open all
\* of them.
THEOREM ChunksAreKept == Spec => []NothingLost
  <1>1. IInv => NothingLost
    BY BaseChunks, Zenon DEF IInv
  <1> QED
    BY <1>1, Always, PTL

\* A call that has waited returns when its state, readied, runs again.
LEMMA ReturnsReady ==
  ASSUME StateTypes, Kinds, NEW s \in State, call[s] # NoCall, call'[s] = NoCall
  PROVE  status[s] = "ready"
  <1>1. ASSUME NEW t \in State, NEW c \in Calls, Parks(t, c), c # NoCall
        PROVE  FALSE
    BY <1>1, ParkEffect, Zenon
  <1>2. \A op, o : <<op, o>> # NoCall /\ <<"sleep">> # NoCall
    BY Zenon DEF NoCall
  <1>3. ASSUME NEW t \in State, NEW c \in Calls, ParksAside(t, c)
        PROVE  FALSE
    BY <1>1, <1>2, <1>3, Zenon DEF ParksAside
  <1>4. ASSUME NEW t \in State, NEW op \in {"read", "shutdown", "close"}, NEW o \in Object,
               ParksFor(t, op, o)
        PROVE  FALSE
    <2>1. <<op, o>> \in Calls
      BY Zenon DEF Calls
    <2> QED
      BY <1>1, <1>2, <1>4, <2>1, Zenon DEF ParksFor
  <1>5. ASSUME UNCHANGED call
        PROVE  FALSE
    BY <1>5, Zenon
  <1>6. PICK t \in State : Goes(t)
    BY <1>3, <1>4, <1>5, Zenon DEF Kinds, Passes, Wakes, Rouses
  <1>7. s = t
    BY <1>6, GoEffect, Zenon
  <1> QED
    BY <1>6, <1>7, Zenon DEF Goes

\* A call that has waited returns the values of its own callback, and stream:close
\* returns after the handle is closed.
THEOREM ResultsAreOwn == Spec => OwnResult
  <1> DEFINE Own(s) == /\ OwnsRequest /\ Avoids({"again"}) => ret[s] \in Returns(call[s][1])
                       /\ OwnsRequest =>
                            \A o \in Object : In(s, "close", o) => Is(o, "OCLOSED")
             Step == \A s \in State : call[s] # NoCall /\ call'[s] = NoCall => Own(s)
  <1>1. IInv /\ [Next]_vars => [Step]_vars
    <2> SUFFICES ASSUME IInv, Kinds, NEW s \in State, call[s] # NoCall, call'[s] = NoCall
                 PROVE  Own(s)
      BY StepKinds, Zenon
    <2>1. status[s] = "ready"
      BY ReturnsReady, Zenon DEF IInv, BaseInv
    <2> QED
      BY <2>1, Zenon DEF IInv, AnswerInv, ClosedInv
  <1> QED
    BY <1>1, Always, PTL DEF Spec, OwnResult

-----------------------------------------------------------------------------
(* getaddrinfo beside the streams: LuvNet *)

\* Without pipe:connect the resolver answers the call that the state waits in.
ResolveInv ==
  Avoids({"pipe"}) =>
    \A s \in State, h \in Hints :
      Requested(s, "getaddrinfo", h) => Parked(s) /\ In(s, "getaddrinfo", h)

\* Who is ready in getaddrinfo has the address it asked for.
AddressInv ==
  OwnsRequest =>
    \A s \in State : status[s] = "ready" /\ Resolving(s) => ret[s] = <<call[s][2][1], "port">>

\* What a step of getaddrinfo is for one state: it asks for h, is told the address
\* of h, or does not move.
Asks(s, h) ==
  /\ Running(s) /\ Parked(s)' /\ In(s, "getaddrinfo", h)' /\ Adds(s, "getaddrinfo", h)
Told(s, h) ==
  /\ Requested(s, "getaddrinfo", h) /\ pend'[s] = <<>>
  /\ call'[s] = call[s] /\ ~Parked(s)'
  /\ ret'[s] = <<h[1], "port">>
Keeps(s) ==
  /\ status'[s] = status[s] /\ call'[s] = call[s]
  /\ pend'[s] = pend[s] \/ pend'[s] = <<>>
  /\ ret'[s] = ret[s] \/ Running(s)

\* It leaves the streams alone.
Resolves ==
  /\ UNCHANGED <<objVars, netVars, readVars, risks>>
  /\ StateTypes' /\ DOMAIN ret' = State
  /\ \A s \in State : Keeps(s) \/ \E h \in Hints : Asks(s, h) \/ Told(s, h)

LEMMA ResolveKinds ==
  ASSUME StateTypes, DataTypes, NEW s \in State,
         \/ luv_getaddrinfo_rejects(s) \/ luv_getaddrinfo(s)
         \/ _getaddrinfo_cb(s) \/ _getaddrinfo_cb_null(s)
  PROVE  Resolves
  <1> USE DEF streamVars, pollVars, loopVars
  <1>r. DOMAIN ret = State
    BY Zenon DEF DataTypes
  <1>1. CASE luv_getaddrinfo_rejects(s)
    <2>1. /\ UNCHANGED <<objVars, netVars, readVars, risks, status, call, pend>>
          /\ Running(s) /\ ret' = [ret EXCEPT ![s] = <<"error">>]
      BY <1>1, Zenon DEF luv_getaddrinfo_rejects, Return
    <2>2. StateTypes'
      BY <2>1, Zenon DEF StateTypes, objVars
    <2>3. \A t \in State : Keeps(t)
      BY <1>r, <2>1, Zenon DEF Keeps
    <2> QED
      BY <1>r, <2>1, <2>2, <2>3, Zenon DEF Resolves
  <1>2. CASE luv_getaddrinfo(s)
    <2>1. PICK h \in Hints :
            /\ Running(s) /\ Request(s, "getaddrinfo", h)
            /\ Suspend(s, <<"getaddrinfo", h>>) /\ UNCHANGED streamVars
      BY <1>2, Zenon DEF luv_getaddrinfo
    <2> DEFINE c == <<"getaddrinfo", h>>
    <2>2. Parks(s, c) /\ Takes(s, "getaddrinfo", h) /\ UNCHANGED <<objVars, netVars, readVars>>
      BY <2>1, Zenon
         DEF Suspend, SuspendWith, States!Suspend, States!Move, Parks, Request, Takes, ReqOp, Target
    <2>3. c \in Calls
      BY Zenon DEF Calls
    <2>4. /\ status' \in [State -> States!Status] /\ call' \in [State -> Calls]
          /\ Parked(s)' /\ call'[s] = c
          /\ \A t \in State : t # s => status'[t] = status[t] /\ call'[t] = call[t]
      BY <2>2, <2>3, ParkEffect, Zenon
    <2>5. /\ pend' \in [State -> Seq(ReqOp \X Target)]
          /\ \A t \in State : t # s => pend'[t] = pend[t]
      BY <2>2, TakeEffect, Zenon
    <2>6. StateTypes'
      BY <2>2, <2>4, <2>5, Zenon DEF StateTypes, objVars
    <2>7. Adds(s, "getaddrinfo", h)
      BY <2>2, Zenon DEF Takes, Adds, StateTypes
    <2>8. Asks(s, h)
      BY <2>1, <2>4, <2>7, Zenon DEF Asks, In
    <2>9. ret' = [ret EXCEPT ![s] = Args] /\ UNCHANGED risks
      BY <2>2, Zenon DEF Parks
    <2>10. \A t \in State : t # s => Keeps(t)
      BY <1>r, <2>4, <2>5, <2>9, Zenon DEF Keeps
    <2> QED
      BY <1>r, <2>2, <2>6, <2>8, <2>9, <2>10, Zenon DEF Resolves
  <1>3. CASE _getaddrinfo_cb(s)
    <2>1. PICK h \in Hints :
            /\ Answer(s, "getaddrinfo", h) /\ Wake(s)
            /\ ret' = [ret EXCEPT ![s] = <<h[1], "port">>]
            /\ UNCHANGED <<pollVars, streamVars>>
      BY <1>3, Zenon DEF _getaddrinfo_cb
    <2>2. /\ pend' \in [State -> Seq(ReqOp \X Target)]
          /\ \A t \in State : t # s => pend'[t] = pend[t]
          /\ pend'[s] = <<>> /\ Requested(s, "getaddrinfo", h)
      BY <2>1, AnswerEffect, Zenon
    <2>3. /\ status' \in [State -> States!Status]
          /\ \A t \in State : t # s => status'[t] = status[t]
          /\ ~Parked(s)'
      BY <2>1, WakeEffect, Zenon DEF Parked
    <2>4. UNCHANGED <<objVars, netVars, readVars, risks, call>>
      BY <2>1, Zenon
    <2>5. StateTypes'
      BY <2>2, <2>3, <2>4, Zenon DEF StateTypes, objVars
    <2>6. Told(s, h)
      BY <1>r, <2>1, <2>2, <2>3, <2>4, Zenon DEF Told
    <2>7. \A t \in State : t # s => Keeps(t)
      BY <1>r, <2>1, <2>2, <2>3, <2>4, Zenon DEF Keeps
    <2> QED
      BY <1>r, <2>1, <2>4, <2>5, <2>6, <2>7, Zenon DEF Resolves
  <1>4. CASE _getaddrinfo_cb_null(s)
    <2>1. PICK h \in Hints :
            Answer(s, "getaddrinfo", h) /\ UNCHANGED <<loopVars, streamVars>>
      BY <1>4, Zenon DEF _getaddrinfo_cb_null
    <2>2. /\ pend' \in [State -> Seq(ReqOp \X Target)]
          /\ \A t \in State : pend'[t] = pend[t] \/ pend'[t] = <<>>
      BY <2>1, AnswerEffect, Zenon
    <2>3. UNCHANGED <<objVars, netVars, readVars, risks, status, call, ret>>
      BY <2>1, Zenon
    <2>4. StateTypes'
      BY <2>2, <2>3, Zenon DEF StateTypes, objVars
    <2>5. \A t \in State : Keeps(t)
      BY <2>2, <2>3, Zenon DEF Keeps
    <2> QED
      BY <1>r, <2>3, <2>4, <2>5, Zenon DEF Resolves
  <1> QED
    BY <1>1, <1>2, <1>3, <1>4, Zenon

\* A state that waits for a stream after such a step did so before, and a request
\* that libuv holds was there before or has just been made.
LEMMA ResolvesAside ==
  ASSUME StateTypes, Resolves, NEW s \in State
  PROVE  /\ \A op \in {"read", "shutdown", "close"}, o \in Object :
              In(s, op, o)' => In(s, op, o) /\ (Parked(s)' => Parked(s))
         /\ \A op, o : Requested(s, op, o)' =>
              \/ Requested(s, op, o) /\ Keeps(s)
              \/ op = "getaddrinfo" /\ o \in Hints /\ Asks(s, o)
  <1>1. ASSUME NEW op, NEW o, pend'[s] = <<>>
        PROVE  ~Requested(s, op, o)'
    BY <1>1 DEF Requested
  <1>2. CASE Keeps(s)
    BY <1>1, <1>2, Zenon DEF Keeps, In, Parked, Requested
  <1>3. ASSUME NEW h \in Hints, Asks(s, h)
        PROVE  /\ \A op \in {"read", "shutdown", "close"}, o \in Object : ~In(s, op, o)'
               /\ \A op, o : Requested(s, op, o)' => op = "getaddrinfo" /\ o = h
    <2>1. Adds(s, "getaddrinfo", h)
      BY <1>3, Zenon DEF Asks
    <2>2. ASSUME NEW op, NEW o, Requested(s, op, o)'
          PROVE  op = "getaddrinfo" /\ o = h
      BY <2>1, <2>2, LastOnly, Zenon
    <2>3. ASSUME NEW op \in {"read", "shutdown", "close"}, NEW o \in Object, In(s, op, o)'
          PROVE  FALSE
      <3>1. <<op, o>> = <<"getaddrinfo", h>>
        BY <1>3, <2>3, Zenon DEF Asks, In
      <3> QED
        BY <3>1, CallNames, Zenon
    <2> QED
      BY <2>2, <2>3, Zenon
  <1>4. ASSUME NEW h \in Hints, Told(s, h)
        PROVE  pend'[s] = <<>> /\ call'[s] = call[s] /\ ~Parked(s)'
    BY <1>4, Zenon DEF Told
  <1>5. ASSUME NEW op \in {"read", "shutdown", "close"}, NEW o \in Object, In(s, op, o)'
        PROVE  In(s, op, o) /\ (Parked(s)' => Parked(s))
    BY <1>2, <1>3, <1>4, <1>5, Zenon DEF Resolves, In
  <1>6. ASSUME NEW op, NEW o, Requested(s, op, o)'
        PROVE  \/ Requested(s, op, o) /\ Keeps(s)
               \/ op = "getaddrinfo" /\ o \in Hints /\ Asks(s, o)
    BY <1>1, <1>2, <1>3, <1>4, <1>6, ZenonT(60) DEF Resolves
  <1> QED
    BY <1>5, <1>6, Zenon

\* A step of getaddrinfo keeps the layers about queues and requests ...
LEMMA ResolvesWaits ==
  ASSUME StateTypes, QueueInv, WakeInv, OwnRequest, ResolveInv, Resolves
  PROVE  QueueInv' /\ WakeInv' /\ OwnRequest' /\ ResolveInv'
  <1>0. UNCHANGED <<rouse, risks>>
    BY Zenon DEF Resolves, objVars
  <1>a. \A rs : Avoids(rs)' => Avoids(rs)
    BY <1>0, Zenon DEF Avoids
  <1>1. \A s \in State, o \in Object : Waits(s, o)' => Waits(s, o)
    BY ResolvesAside, Zenon DEF Waits
  <1>2. QueueInv'
    BY <1>0, <1>1, <1>a, Zenon DEF QueueInv, Linked
  <1>3. \A s \in State, h \in Hints : Asks(s, h) => ~Parked(s)
    BY Zenon DEF Asks, Running, Parked
  <1>4. ASSUME Avoids({"pipe"}), NEW s \in State, NEW o \in Object
        PROVE  /\ Linked(s, o)' => Waits(s, o)'
               /\ \A op \in {"connect", "write"} :
                    Requested(s, op, o)' => Parked(s)' /\ In(s, op, o)'
    <2>1. ASSUME Waits(s, o)
          PROVE  Keeps(s)
      <3>1. Parked(s) /\ \E op \in {"read", "shutdown", "close"} : In(s, op, o)
        BY <2>1, Zenon DEF Waits
      <3>2. \A h \in Hints : ~In(s, "getaddrinfo", h)
        BY <3>1, CallNames DEF In
      <3>3. \A h \in Hints : ~Told(s, h)
        BY <1>4, <3>2, Zenon DEF Told, ResolveInv
      <3> QED
        BY <1>3, <3>1, <3>3, Zenon DEF Resolves
    <2>2. Keeps(s) /\ Waits(s, o) => Waits(s, o)'
      BY Zenon DEF Keeps, Waits, Parked, In
    <2>3. Linked(s, o)' => Waits(s, o)
      BY <1>0, <1>4, Zenon DEF WakeInv, Linked
    <2>4. ASSUME NEW op \in {"connect", "write"}, Requested(s, op, o)'
          PROVE  Parked(s)' /\ In(s, op, o)'
      <3>1. Requested(s, op, o) /\ Keeps(s)
        BY <2>4, ResolvesAside, Zenon
      <3>2. Parked(s) /\ In(s, op, o)
        BY <1>4, <3>1, Zenon DEF WakeInv
      <3> QED
        BY <3>1, <3>2, Zenon DEF Keeps, Parked, In
    <2> QED
      BY <2>1, <2>2, <2>3, <2>4, Zenon
  <1>5. WakeInv'
    BY <1>4, <1>a, Zenon DEF WakeInv
  <1>6. ASSUME OwnsRequest, NEW s \in State
        PROVE  pend'[s] = <<>> \/ (Parked(s)' /\ pend'[s] = <<call'[s]>>)
    <2>1. pend[s] = <<>> \/ (Parked(s) /\ pend[s] = <<call[s]>>)
      BY <1>6, Zenon DEF OwnRequest
    <2>2. CASE Keeps(s)
      BY <2>1, <2>2, Zenon DEF Keeps, Parked
    <2>3. ASSUME NEW h \in Hints, Asks(s, h)
          PROVE  Parked(s)' /\ pend'[s] = <<call'[s]>>
      <3>1. pend[s] = <<>>
        BY <1>3, <2>1, <2>3, Zenon
      <3>2. Append(<<>>, <<"getaddrinfo", h>>) = <<<<"getaddrinfo", h>>>>
        OBVIOUS
      <3> QED
        BY <2>3, <3>1, <3>2, Zenon DEF Asks, Adds, In
    <2>4. ASSUME NEW h \in Hints, Told(s, h)
          PROVE  pend'[s] = <<>>
      BY <2>4, Zenon DEF Told
    <2> QED
      BY <2>2, <2>3, <2>4, Zenon DEF Resolves
  <1>7. OwnRequest'
    BY <1>6, <1>a, Zenon DEF OwnRequest, OwnsRequest
  <1>8. ASSUME Avoids({"pipe"}), NEW s \in State, NEW h \in Hints, Requested(s, "getaddrinfo", h)'
        PROVE  Parked(s)' /\ In(s, "getaddrinfo", h)'
    <2>1. CASE Asks(s, h)
      BY <2>1, Zenon DEF Asks
    <2>2. CASE Requested(s, "getaddrinfo", h) /\ Keeps(s)
      BY <1>8, <2>2, Zenon DEF ResolveInv, Keeps, Parked, In
    <2> QED
      BY <1>8, <2>1, <2>2, ResolvesAside, Zenon
  <1>9. ResolveInv'
    BY <1>8, <1>a, Zenon DEF ResolveInv
  <1> QED
    BY <1>2, <1>5, <1>7, <1>9, Zenon

\* ... and those about the streams.
LEMMA ResolvesStreams ==
  ASSUME StateTypes, DataTypes, NotReading, ReaderListens, ReadInv, OrderInv, KeepInv, LossInv,
         Resolves
  PROVE  /\ DataTypes' /\ NotReading' /\ ReaderListens' /\ ReadInv' /\ OrderInv' /\ KeepInv'
         /\ LossInv'
  <1>0. UNCHANGED <<oflags, rouse, link, wire, sent, buf, sized, ended, seen, risks>>
    BY Zenon DEF Resolves, objVars, netVars, readVars
  <1>a. \A rs : Avoids(rs)' => Avoids(rs)
    BY <1>0, Zenon DEF Avoids
  <1>b. \A o \in Object : /\ \A f : Is(o, f)' <=> Is(o, f)
                          /\ Closing(o)' <=> Closing(o)
                          /\ \A s \in State : Linked(s, o)' <=> Linked(s, o)
    BY <1>0, Zenon DEF Is, Closing, Linked
  <1>c. \A s \in State, op \in {"read", "shutdown", "close"}, o \in Object :
          In(s, op, o)' => In(s, op, o) /\ (Parked(s)' => Parked(s))
    BY ResolvesAside, Zenon
  <1>1. DataTypes'
    BY <1>0, Zenon DEF DataTypes, Resolves
  <1>2. NotReading'
    BY <1>a, <1>b, <1>c, Zenon DEF NotReading
  <1>3. ReaderListens'
    BY <1>0, <1>a, <1>b, <1>c, Zenon DEF ReaderListens, Parked
  <1>4. ReadInv'
    BY <1>0, <1>b, <1>c, Zenon DEF ReadInv
  <1>5. OrderInv'
    BY <1>0, Zenon DEF OrderInv
  <1>6. SavedInv' /\ ClosingInv' /\ EndInv' /\ LinkInv'
    BY <1>0, <1>a, <1>b, <1>c, Zenon DEF KeepInv, SavedInv, ClosingInv, EndInv, LinkInv
  <1>7. ASSUME NEW s \in State, NEW op \in {"connect", "write"}, NEW o \in Object,
               Requested(s, op, o)'
        PROVE  Requested(s, op, o)
    BY <1>7, ResolvesAside, Zenon
  <1>d. "connect" \in {"connect", "write"}
    BY Zenon
  <1>8. ConnectInv'
    BY <1>0, <1>7, <1>d, Zenon DEF KeepInv, ConnectInv
  <1>9. LossInv'
    BY <1>0, <1>a, <1>b, Zenon DEF LossInv, OwnsRequest, Held
  <1> QED
    BY <1>1, <1>2, <1>3, <1>4, <1>5, <1>6, <1>8, <1>9, Zenon DEF KeepInv

\* Who is told an address is told that of the hints it waits with.
LEMMA ResolvesAddress ==
  ASSUME StateTypes, OwnRequest, AddressInv, Resolves
  PROVE  AddressInv'
  <1> SUFFICES ASSUME OwnsRequest, NEW s \in State, status'[s] = "ready", Resolving(s)'
               PROVE  ret'[s] = <<call'[s][2][1], "port">>
    BY Zenon DEF AddressInv, OwnsRequest, Avoids, Resolves
  <1>1. CASE Keeps(s)
    BY <1>1, Zenon DEF Keeps, Running, AddressInv, Resolving
  <1>2. ASSUME NEW h \in Hints, Asks(s, h)
        PROVE  FALSE
    BY <1>2, Zenon DEF Asks, Parked
  <1>3. ASSUME NEW h \in Hints, Told(s, h)
        PROVE  ret'[s] = <<call'[s][2][1], "port">>
    <2>1. pend[s] = <<<<"getaddrinfo", h>>>> /\ ret'[s] = <<h[1], "port">> /\ call'[s] = call[s]
      BY <1>3, Zenon DEF Told, Requested
    <2>2. pend[s] # <<>>
      BY <2>1
    <2>3. pend[s] = <<call[s]>>
      BY <2>2, Zenon DEF OwnRequest
    <2>4. \A x, y : <<x>> = <<y>> => x = y
      BY Zenon
    <2>5. call[s] = <<"getaddrinfo", h>>
      BY <2>1, <2>3, <2>4, Zenon
    <2>6. call[s][2] = h
      BY <2>5
    <2> QED
      BY <2>1, <2>6, Zenon
  <1> QED
    BY <1>1, <1>2, <1>3, Zenon DEF Resolves

\* The steps of the streams keep the requests for the resolver and their states.
LEMMA StreamsResolve ==
  StateTypes /\ QueueInv /\ WakeInv /\ ResolveInv /\ [Next]_vars => ResolveInv'
  <1> SUFFICES ASSUME StateTypes, QueueInv, WakeInv, ResolveInv, Kinds, Avoids({"pipe"}),
                      NEW s \in State, NEW h \in Hints, Requested(s, "getaddrinfo", h)'
               PROVE  Parked(s)' /\ In(s, "getaddrinfo", h)'
    BY StepKinds, SameRisks, Zenon DEF ResolveInv, Avoids
  <1>1. ASSUME NEW t \in State, NEW op \in {"connect", "write", "shutdown"}, NEW o,
               Takes(t, op, o)
        PROVE  pend'[s] = pend[s]
    <2>1. op # "getaddrinfo"
      OBVIOUS
    <2>2. ASSUME t = s
          PROVE  FALSE
      <3>1. Takes(s, op, o)
        BY <1>1, <2>2, Zenon
      <3> QED
        BY <2>1, <3>1, TakeOnly, Zenon
    <2> QED
      BY <1>1, <2>2, TakeEffect, Zenon
  <1>2. ASSUME NEW t \in State, NEW op, NEW o, Answer(t, op, o)
        PROVE  pend'[s] = pend[s] /\ t # s
    <2>1. pend'[s] # <<>>
      BY DEF Requested
    <2>2. t # s
      BY <1>2, <2>1, AnswerEffect, Zenon
    <2> QED
      BY <1>2, <2>2, AnswerEffect, Zenon
  <1>3. /\ "connect" \in {"connect", "write", "shutdown"}
        /\ "shutdown" \in {"connect", "write", "shutdown"}
        /\ {"connect", "write"} \subseteq {"connect", "write", "shutdown"}
    BY Zenon
  <1>4. pend'[s] = pend[s]
    <2>1. CASE Passes
      BY <1>1, <1>2, <1>3, <2>1, Zenon DEF Passes
    <2>2. ASSUME NEW t \in State, NEW c \in Calls, ParksAside(t, c)
          PROVE  pend'[s] = pend[s]
      BY <1>1, <1>3, <2>2, Zenon DEF ParksAside
    <2>3. ASSUME NEW t \in State, NEW op \in {"read", "shutdown", "close"}, NEW o \in Object,
                 ParksFor(t, op, o)
          PROVE  pend'[s] = pend[s]
      BY <1>1, <1>3, <2>3, Zenon DEF ParksFor
    <2>4. ASSUME NEW t \in State, Wakes(t) \/ Goes(t)
          PROVE  pend'[s] = pend[s]
      BY <1>2, <2>4, Zenon DEF Wakes, Goes
    <2>5. ASSUME NEW o \in Object, Rouses(o)
          PROVE  pend'[s] = pend[s]
      BY <1>2, <2>5, Zenon DEF Rouses
    <2> QED
      BY <2>1, <2>2, <2>3, <2>4, <2>5, Zenon DEF Kinds
  <1>5. Parked(s) /\ In(s, "getaddrinfo", h)
    BY <1>4, Zenon DEF ResolveInv, Requested
  <1>6. \A o \in Object : ~Waits(s, o)
    BY <1>5, CallNames DEF Waits, In
  <1>7. status'[s] = status[s] /\ call'[s] = call[s]
    <2>1. ASSUME NEW t \in State, NEW c \in Calls, Parks(t, c)
          PROVE  status'[s] = status[s] /\ call'[s] = call[s]
      BY <1>5, <2>1, ParkEffect, Zenon DEF Parks, Running, Parked
    <2>2. ASSUME NEW t \in State, NEW op \in {"read", "shutdown", "close"}, NEW o \in Object,
                 ParksFor(t, op, o)
          PROVE  status'[s] = status[s] /\ call'[s] = call[s]
      <3>1. <<op, o>> \in Calls
        BY Zenon DEF Calls
      <3> QED
        BY <2>1, <2>2, <3>1, Zenon DEF ParksFor
    <2>3. ASSUME NEW t \in State, Wakes(t)
          PROVE  status'[s] = status[s] /\ call'[s] = call[s]
      <3>1. <<"sleep">> # <<"getaddrinfo", h>>
        OBVIOUS
      <3>2. t # s
        BY <1>2, <1>5, <2>3, <3>1, Zenon DEF Wakes, In
      <3> QED
        BY <2>3, <3>2, WakeEffect, Zenon DEF Wakes
    <2>4. ASSUME NEW t \in State, Goes(t)
          PROVE  status'[s] = status[s] /\ call'[s] = call[s]
      BY <1>5, <2>4, GoEffect, Zenon DEF Goes, Parked
    <2>5. ASSUME NEW o \in Object, Rouses(o)
          PROVE  status'[s] = status[s] /\ call'[s] = call[s]
      <3>1. PICK t \in State :
              Linked(t, o) /\ \A u \in State : u # t => status'[u] = status[u]
        BY <2>5, HeadLeaves, ZenonT(60)
      <3>2. t # s
        BY <1>6, <3>1, Zenon DEF WakeInv
      <3> QED
        BY <2>5, <3>1, <3>2, Zenon DEF Rouses
    <2> QED
      BY <2>1, <2>2, <2>3, <2>4, <2>5, Zenon DEF Kinds, Passes, ParksAside
  <1> QED
    BY <1>5, <1>7, Zenon DEF Parked, In

\* They wake nobody out of getaddrinfo, and leave alone the values of who is ready.
LEMMA StreamsAddress ==
  BaseInv /\ AddressInv /\ [Next]_vars => AddressInv'
  <1> SUFFICES ASSUME StateTypes, DataTypes, QueueInv, WakeInv, NotReading, OwnRequest,
                      ClosingInv, AddressInv, [Next]_vars, Kinds, OwnsRequest,
                      NEW s \in State, status'[s] = "ready", Resolving(s)'
               PROVE  ret'[s] = <<call'[s][2][1], "port">>
    BY StepKinds, SameRisks, Zenon DEF BaseInv, KeepInv, AddressInv, OwnsRequest, Avoids
  <1>1. call'[s] = call[s] /\ (status[s] = "ready" \/ (Parked(s) /\ WokenBy(s)))
    BY StatusSince, Zenon DEF StatusMoves
  <1>2. call[s][1] = "getaddrinfo"
    BY <1>1, Zenon DEF Resolving
  <1>3. CASE status[s] = "ready"
    <2>1. ret'[s] = ret[s]
      BY <1>3, ReadyKeeps, Zenon
    <2> QED
      BY <1>1, <1>2, <1>3, <2>1, Zenon DEF AddressInv, Resolving
  <1>4. ASSUME Parked(s), WokenBy(s)
        PROVE  FALSE
    <2>1. OwnWakes(s)
      BY <1>4, OwnWake, Zenon
    <2>2. \A op \in {"connect", "write", "shutdown", "read", "close"}, o \in Object : ~In(s, op, o)
      BY <1>2 DEF In
    <2>3. call[s] # <<"sleep">>
      BY <1>2
    <2> QED
      BY <2>1, <2>2, <2>3, Zenon DEF OwnWakes, Waits
  <1> QED
    BY <1>1, <1>3, <1>4, Zenon

NetInv == BaseInv /\ ResolveInv /\ AddressInv

LEMMA AlwaysNet == NetSpec => []NetInv
  <1>1. NetInit => NetInv
    <2> SUFFICES ASSUME Init
                 PROVE  NetInv
      BY Zenon DEF NetInit
    <2>1. \A s \in State : pend[s] = <<>> /\ call[s] = NoCall
      BY SMTT(60) DEF Init, LoopInit
    <2>2. ResolveInv
      BY <2>1 DEF ResolveInv, Requested
    <2>3. AddressInv
      BY <2>1 DEF AddressInv, Resolving, NoCall
    <2> QED
      BY <2>2, <2>3, InitBase, Zenon DEF NetInv
  <1>2. NetInv /\ [NetNext]_allVars => NetInv'
    <2> SUFFICES ASSUME NetInv, [NetNext]_allVars
                 PROVE  NetInv'
      OBVIOUS
    <2>1. CASE [Next]_vars
      <3>1. StateTypes /\ QueueInv /\ WakeInv /\ BaseInv /\ ResolveInv /\ AddressInv
        BY Zenon DEF NetInv, BaseInv
      <3> QED
        BY <2>1, <3>1, StepBase, StreamsResolve, StreamsAddress, Zenon DEF NetInv
    <2>2. ASSUME Resolves
          PROVE  NetInv'
      <3>1. /\ StateTypes /\ DataTypes /\ QueueInv /\ WakeInv /\ NotReading /\ OwnRequest
            /\ ReaderListens /\ ReadInv /\ OrderInv /\ KeepInv /\ LossInv
            /\ ResolveInv /\ AddressInv
        BY Zenon DEF NetInv, BaseInv
      <3>2. StateTypes' /\ QueueInv' /\ WakeInv' /\ OwnRequest' /\ ResolveInv'
        BY <2>2, <3>1, ResolvesWaits, Zenon DEF Resolves
      <3>3. /\ DataTypes' /\ NotReading' /\ ReaderListens' /\ ReadInv' /\ OrderInv' /\ KeepInv'
            /\ LossInv'
        BY <2>2, <3>1, ResolvesStreams, Zenon
      <3>4. AddressInv'
        BY <2>2, <3>1, ResolvesAddress, Zenon
      <3> QED
        BY <3>2, <3>3, <3>4, Zenon DEF NetInv, BaseInv
    <2>3. ASSUME NEW s \in State,
                 \/ luv_getaddrinfo_rejects(s) \/ luv_getaddrinfo(s)
                 \/ _getaddrinfo_cb(s) \/ _getaddrinfo_cb_null(s)
          PROVE  Resolves
      BY <2>3, ResolveKinds, Zenon DEF NetInv, BaseInv
    <2> QED
      BY <2>1, <2>2, <2>3, Zenon DEF NetNext, StreamStep, Crashed, allVars
  <1> QED
    BY <1>1, <1>2, PTL DEF NetSpec

\* getaddrinfo returns the address of the hints its own state passed, whichever
\* others resolve, connect, read, write and close at the same time.
THEOREM AddressesAreOwn == NetSpec => OwnAddress
  <1> DEFINE Own(s) == ret[s] = <<call[s][2][1], "port">>
             Step == \A s \in State : OwnsRequest /\ Resolving(s) /\ call'[s] = NoCall => Own(s)
  <1>1. NetInv /\ [NetNext]_allVars => [Step]_allVars
    <2> SUFFICES ASSUME NetInv, NetNext, NEW s \in State, OwnsRequest, Resolving(s),
                        call'[s] = NoCall
                 PROVE  Own(s)
      BY Zenon
    <2>0. StateTypes /\ DataTypes
      BY Zenon DEF NetInv, BaseInv
    <2>1. call[s] # NoCall
      BY DEF Resolving, NoCall
    <2>2. ASSUME Resolves
          PROVE  FALSE
      <3>1. \A h : <<"getaddrinfo", h>> # NoCall
        BY DEF NoCall
      <3> QED
        BY <2>1, <2>2, <3>1, Zenon DEF Resolves, Keeps, Asks, Told, In
    <2>3. CASE Next
      <3>1. Kinds
        BY <2>3, StepKinds, Zenon
      <3>2. status[s] = "ready"
        BY <2>0, <2>1, <3>1, ReturnsReady, Zenon
      <3> QED
        BY <3>2, Zenon DEF NetInv, AddressInv
    <2>4. CASE Crashed
      BY <2>1, <2>4, Zenon DEF Crashed, allVars, vars, loopVars, pollVars
    <2> QED
      BY <2>0, <2>2, <2>3, <2>4, ResolveKinds, Zenon DEF NetNext, StreamStep
  <1> QED
    BY <1>1, AlwaysNet, PTL DEF NetSpec, OwnAddress

\* With getaddrinfo on the same state->req, the streams keep what they promise: the
\* queues are exact, readers are served, requests are made once, and no chunk is lost.
THEOREM StreamsBesideNet ==
  NetSpec => [](WaitersExact /\ ReaderListens /\ OneRequest /\ NothingLost)
  <1>1. NetInv => WaitersExact /\ ReaderListens /\ OneRequest /\ NothingLost
    BY BaseWaiters, BaseRequests, BaseChunks, Zenon DEF NetInv, BaseInv
  <1> QED
    BY <1>1, AlwaysNet, PTL
=============================================================================
