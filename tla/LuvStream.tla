----------------------------- MODULE LuvStream -----------------------------
(***************************************************************************)
(* Connected streams: luv_stream.c without listen and accept, connect of   *)
(* luv_net.c and luv_pipe.c.  A peer sends chunks, numbered in the order   *)
(* sent, and then ends or resets the connection.                           *)
(*                                                                         *)
(* A state has one request (state->req), which connect, write and shutdown *)
(* hand to libuv.  A second one started before the first has called back   *)
(* overwrites memory libuv uses; the model shows that it happened and lets *)
(* neither call back.                                                      *)
(***************************************************************************)
EXTENDS LuvObject

CONSTANT MaxSent   \* bound: chunks a peer sends on a stream

Risk == {"share", "again", "failed", "shutdown", "start", "pipe", "fail"}

ASSUME StreamAssumption == Cases \subseteq SUBSET Risk /\ MaxSent \in Nat

VARIABLES
  link,     \* the connection: "new", "connecting", "up", "refused"
  wire,     \* what libuv has yet to report of the stream, in order
  sent,     \* chunks sent so far
  buf,      \* the chunk saved in self->buf (buf.base is not NULL), if any
  sized,    \* self->buf.len > 0, the size luvL_alloc_cb allocates
  ended,    \* libuv has reported the end since uv_read_start
  pend,     \* the requests of a state that libuv holds
  seen      \* the chunks that reads have returned (history)

netVars == <<link, wire, sent>>
readVars == <<buf, sized, ended, seen>>
objVars == <<oflags, rouse>>
vars == <<loopVars, objVars, netVars, readVars, pend>>

\* The len of _read_cb: a chunk, nothing to read, and the two errors.
Nothing == 0
Eof == -1
Reset == -2

ReadError == <<"false", "read">>

Requested(s, op, o) == pend[s] = <<<<op, o>>>>
Closing(o) == Is(o, "OCLOSING")

Init ==
  /\ LoopInit
  /\ luvL_object_init
  /\ link = [o \in Object |-> "new"]
  /\ wire = [o \in Object |-> <<>>]
  /\ sent = [o \in Object |-> 0]
  /\ buf = [o \in Object |-> <<>>]
  /\ sized = [o \in Object |-> FALSE]
  /\ ended = [o \in Object |-> FALSE]
  /\ pend = [s \in State |-> <<>>]
  /\ seen = [o \in Object |-> <<>>]

\* libuv takes the request of s.
Request(s, op, o) ==
  /\ Len(pend[s]) < 2
  /\ pend' = [pend EXCEPT ![s] = Append(@, <<op, o>>)]

\* ... and calls back.
Answer(s, op, o) ==
  /\ polling
  /\ Requested(s, op, o)
  /\ pend' = [pend EXCEPT ![s] = <<>>]

\* Risk "share": a state waits for a stream another one is waiting for.
Alone(o) == rouse[o] = <<>> \/ "share" \in risks

-----------------------------------------------------------------------------
(* Connecting *)

luv_tcp_connect_fails(s, o) ==
  /\ Running(s) /\ ~Closing(o)
  /\ Return(s, <<"nil">>)
  /\ UNCHANGED <<objVars, netVars, readVars, pend>>

luv_tcp_connect(s, o) ==
  /\ Running(s) /\ ~Closing(o)
  /\ link[o] = "new"
  /\ link' = [link EXCEPT ![o] = "connecting"]
  /\ Request(s, "connect", o)
  /\ Suspend(s, <<"connect", o>>)
  /\ UNCHANGED <<objVars, wire, sent, readVars>>

\* Risk "pipe": pipe:connect, which does not suspend.
luv_pipe_connect(s, o) ==
  /\ "pipe" \in risks
  /\ Running(s) /\ ~Closing(o)
  /\ link[o] = "new"
  /\ link' = [link EXCEPT ![o] = "connecting"]
  /\ Request(s, "connect", o)
  /\ Return(s, <<>>)
  /\ UNCHANGED <<objVars, wire, sent, readVars>>

\* The status is not looked at: a refused connection shows when it is used.
luvL_connect_cb(s, o) ==
  /\ Answer(s, "connect", o)
  /\ \/ /\ ~Closing(o)
        /\ link' = [link EXCEPT ![o] = "up"]
        /\ UNCHANGED wire
     \/ /\ link' = [link EXCEPT ![o] = "refused"]
        /\ wire' = [wire EXCEPT ![o] = <<Reset>>]
  /\ Wake(s)
  /\ UNCHANGED <<pollVars, ret, objVars, sent, readVars>>

-----------------------------------------------------------------------------
(* Reading *)

\* Mutated: the flag is set and uv_read_start is not called.
luvL_stream_start_mute(o) == Flags(o, {"OSTARTED"}, {}) /\ UNCHANGED ended

\* uv_read_start unless OSTARTED is set.
luvL_stream_start(o) ==
  /\ Flags(o, {"OSTARTED"}, {})
  /\ ended' = [ended EXCEPT ![o] = @ /\ Is(o, "OSTARTED")]

luv_stream_read_closed(s, o) ==
  /\ Running(s) /\ Closing(o)
  /\ Return(s, <<"nil">>)
  /\ UNCHANGED <<objVars, netVars, readVars, pend>>

\* A chunk arrived when nobody was waiting.
luv_stream_read_saved(s, o) ==
  /\ Running(s) /\ ~Closing(o)
  /\ buf[o] # <<>>
  /\ Return(s, <<"data">>)
  /\ seen' = [seen EXCEPT ![o] = IF Head(buf[o]) > 0 THEN Append(@, Head(buf[o])) ELSE @]
  /\ buf' = [buf EXCEPT ![o] = <<>>]
  /\ sized' = [sized EXCEPT ![o] = FALSE]
  /\ UNCHANGED <<objVars, netVars, ended, pend>>

\* The connection may still be being made; without a descriptor libuv aborts.  Risk
\* "again": the stream is used after it has reported its end or closing.
luv_stream_read(s, o) ==
  /\ Running(s) /\ ~Closing(o)
  /\ link[o] # "new" /\ buf[o] = <<>>
  /\ Is(o, "OSTARTED") /\ ended[o] => "again" \in risks
  /\ Alone(o)
  /\ sized' = [sized EXCEPT ![o] = TRUE]
  /\ luvL_stream_start(o)
  /\ luvL_cond_wait(s, "read", o)
  /\ UNCHANGED <<netVars, buf, seen, pend>>

\* Risk "start": the program calls stream:start and stream:stop itself.
luv_stream_start(s, o) ==
  /\ "start" \in risks
  /\ Running(s) /\ ~Closing(o) /\ link[o] # "new"
  /\ luvL_stream_start(o)
  /\ Return(s, <<"true">>)
  /\ UNCHANGED <<rouse, netVars, buf, sized, seen, pend>>

\* uv_read_start refuses a closing handle.
luv_stream_start_fails(s, o) ==
  /\ {"start", "again"} \subseteq risks
  /\ Running(s) /\ Closing(o)
  /\ Flags(o, {"OCLOSING"}, {"OSTARTED"})
  /\ Return(s, <<"false">>)
  /\ UNCHANGED <<rouse, netVars, readVars, pend>>

luv_stream_stop(s, o) ==
  /\ "start" \in risks
  /\ Running(s)
  /\ Flags(o, {}, {"OSTARTED"})
  /\ Return(s, <<"true">>)
  /\ UNCHANGED <<rouse, netVars, readVars, pend>>

\* libuv reports len: the head of the wire, or that there is nothing to read.
\* The end stays; after an error has been reported it is the end that is left.
Reports(o, len) ==
  /\ polling
  /\ Is(o, "OSTARTED") /\ ~ended[o] /\ ~Closing(o) /\ link[o] # "connecting"
  /\ \/ len = Nothing /\ UNCHANGED wire
     \/ /\ wire[o] # <<>> /\ len = Head(wire[o])
        /\ wire' = [wire EXCEPT ![o] = IF len < 0 THEN <<Eof>> ELSE Tail(@)]
  /\ ended' = [ended EXCEPT ![o] = len = Eof]

\* Mutated: reading goes on, and the next chunk replaces the saved one.
_read_cb_saves_on(o, len) ==
  /\ Reports(o, len)
  /\ rouse[o] = <<>>
  /\ buf' = [buf EXCEPT ![o] = IF len >= 0 THEN <<len>> ELSE @]
  /\ UNCHANGED <<loopVars, objVars, link, sent, sized, seen, pend>>

\* Nobody waits: stop, and save what came.  An end or an error is dropped.
_read_cb_saves(o, len) ==
  /\ Reports(o, len)
  /\ rouse[o] = <<>>
  /\ Flags(o, {}, {"OSTARTED"})
  /\ buf' = [buf EXCEPT ![o] = IF len >= 0 THEN <<len>> ELSE @]
  /\ UNCHANGED <<loopVars, rouse, link, sent, sized, seen, pend>>

\* The values _read_cb pushes.
Pushed(len) ==
  CASE len >= 0 -> <<"data">> [] len = Eof -> <<"nil">> [] OTHER -> ReadError

\* Mutated: the state is readied without its result.
_read_cb_rouses_bare(o, len) ==
  /\ Reports(o, len)
  /\ rouse[o] # <<>>
  /\ RouseHead(o)
  /\ UNCHANGED <<pollVars, ret, oflags, seen, link, sent, buf, sized, pend>>

\* The first state in the queue gets the data, whatever it is waiting for.
_read_cb_rouses(o, len) ==
  /\ Reports(o, len)
  /\ rouse[o] # <<>>
  /\ LET s == Head(rouse[o]) IN
       /\ ret' = [ret EXCEPT ![s] = Pushed(len)]
       /\ seen' = [seen EXCEPT ![o] =
                     IF len > 0 /\ In(s, "read", o) THEN Append(@, len) ELSE @]
  /\ Flags(o, IF len = Reset THEN {"OCLOSING"} ELSE {},
              IF len \in {Nothing, Reset} THEN {"OSTARTED"} ELSE {})
  /\ RouseHead(o)
  /\ UNCHANGED <<pollVars, link, sent, buf, sized, pend>>

-----------------------------------------------------------------------------
(* Writing, shutting down, closing *)

\* uv_write has no connection to write to: the stream is closed.
luv_stream_write_fails(s, o) ==
  /\ Running(s)
  /\ link[o] = "new" \/ Closing(o)
  /\ Flags(o, {"OCLOSING"}, {"OSTARTED"})
  /\ Return(s, <<"false">>)
  /\ UNCHANGED <<rouse, netVars, readVars, pend>>

luv_stream_write(s, o) ==
  /\ Running(s)
  /\ link[o] # "new" /\ ~Closing(o)
  /\ Request(s, "write", o)
  /\ Suspend(s, <<"write", o>>)
  /\ UNCHANGED <<objVars, netVars, readVars>>

\* The state that wrote gets the status.  Writes wait for the connection.
_write_cb(s, o) ==
  /\ Answer(s, "write", o)
  /\ link[o] # "connecting" \/ Closing(o)
  /\ ret' = [ret EXCEPT ![s] = <<"status">>]
  /\ Wake(s)
  /\ UNCHANGED <<pollVars, objVars, netVars, readVars>>

\* Only the first shutdown asks libuv.  If the connection is not up, libuv takes the
\* request or refuses it, and always refuses for a stream that is new or closing
\* (risk "again"); the result is not looked at.  Risk "shutdown": the stream is being
\* read from.
ShutsDown(s, o) ==
  /\ Running(s) /\ Alone(o)
  /\ Is(o, "OSTARTED") => "shutdown" \in risks
  /\ ~Is(o, "OSHUTDOWN")
  /\ Flags(o, {"OSHUTDOWN"}, {})
  /\ LET open == link[o] # "new" /\ ~Closing(o) IN
       \/ open /\ Request(s, "shutdown", o)
       \/ (open \/ "again" \in risks) /\ (link[o] # "up" \/ Closing(o)) /\ UNCHANGED pend
  /\ UNCHANGED <<netVars, readVars>>

\* Mutated: the state goes on without waiting for the callback.
luv_stream_shutdown_nowait(s, o) == ShutsDown(s, o) /\ Return(s, Args) /\ UNCHANGED rouse

luv_stream_shutdown(s, o) == ShutsDown(s, o) /\ luvL_cond_wait(s, "shutdown", o)

luv_stream_shutdown_again(s, o) ==
  /\ Running(s)
  /\ Is(o, "OSHUTDOWN")
  /\ Return(s, Args)
  /\ UNCHANGED <<objVars, netVars, readVars, pend>>

\* The state that asked gets the status, the first one in the queue is woken.
\* libuv shuts down when it has connected and written.
_shutdown_cb(s, o) ==
  /\ Answer(s, "shutdown", o)
  /\ \/ Closing(o)
     \/ link[o] # "connecting" /\ \A t \in State : ~Requested(t, "write", o)
  /\ ret' = [ret EXCEPT ![s] = <<"status">>]
  /\ luvL_cond_signal(o)
  /\ UNCHANGED <<pollVars, oflags, netVars, readVars>>

\* close waits for the close callback, even if it has run already.  Risk
\* "failed": a state whose read failed closes the stream.
luv_stream_close(s, o) ==
  /\ Running(s) /\ Alone(o)
  /\ Closing(o) => \/ "again" \in risks
                   \/ "failed" \in risks /\ ret[s] = ReadError
  /\ Flags(o, {"OCLOSING"}, {"OSTARTED"})
  /\ buf' = [buf EXCEPT ![o] = <<>>]
  /\ sized' = [sized EXCEPT ![o] = @ /\ buf[o] = <<>>]
  /\ luvL_cond_wait(s, "close", o)
  /\ UNCHANGED <<netVars, ended, seen, pend>>

\* libuv answers the requests on a handle before it reports it closed.
StreamClosed(o) ==
  /\ \A s \in State : \A op \in {"connect", "write", "shutdown"} : ~Requested(s, op, o)
  /\ luvL_object_close_cb(o)
  /\ UNCHANGED <<netVars, readVars, pend>>

-----------------------------------------------------------------------------
(* The peer, and the scheduler *)

PeerSends(o) ==
  /\ link[o] = "up" /\ sent[o] < MaxSent
  /\ \A i \in DOMAIN wire[o] : wire[o][i] > 0
  /\ sent' = [sent EXCEPT ![o] = @ + 1]
  /\ wire' = [wire EXCEPT ![o] = Append(@, sent[o] + 1)]
  /\ UNCHANGED <<loopVars, objVars, link, readVars, pend>>

PeerEnds(o) ==
  /\ link[o] = "up"
  /\ \A i \in DOMAIN wire[o] : wire[o][i] > 0
  /\ \E e \in {Eof, Reset} : wire' = [wire EXCEPT ![o] = Append(@, e)]
  /\ UNCHANGED <<loopVars, objVars, link, sent, readVars, pend>>

Sleeps(s) == luv_sleep(s) /\ UNCHANGED <<objVars, netVars, readVars, pend>>
SleepCb(s) == sleep_cb(s) /\ UNCHANGED <<objVars, netVars, readVars, pend>>
\* Of what a call returned, a program may remember that a read failed.
Resumes(s) ==
  /\ ResumeWith(s, IF ret[s] = ReadError THEN ReadError ELSE Args)
  /\ UNCHANGED <<objVars, netVars, readVars, pend>>

LuaCalls(s, o) ==
  \/ luv_tcp_connect_fails(s, o) \/ luv_tcp_connect(s, o) \/ luv_pipe_connect(s, o)
  \/ luv_stream_read_closed(s, o) \/ luv_stream_read_saved(s, o) \/ luv_stream_read(s, o)
  \/ luv_stream_start(s, o) \/ luv_stream_start_fails(s, o) \/ luv_stream_stop(s, o)
  \/ luv_stream_write_fails(s, o) \/ luv_stream_write(s, o)
  \/ luv_stream_shutdown(s, o) \/ luv_stream_shutdown_again(s, o)
  \/ luv_stream_close(s, o)

ReadCb(o) ==
  \E len \in Reset .. MaxSent : _read_cb_saves(o, len) \/ _read_cb_rouses(o, len)

RequestCb(s, o) == luvL_connect_cb(s, o) \/ _write_cb(s, o) \/ _shutdown_cb(s, o)

Next ==
  \/ \E s \in State, o \in Object : LuaCalls(s, o) \/ RequestCb(s, o)
  \/ \E o \in Object : ReadCb(o) \/ StreamClosed(o) \/ PeerSends(o) \/ PeerEnds(o)
  \/ \E s \in State : Sleeps(s) \/ SleepCb(s) \/ Resumes(s)

Spec == Init /\ [][Next]_vars

-----------------------------------------------------------------------------
(* Properties *)

\* The types of the variables.
TypeOK ==
  /\ LoopTypeOK /\ ObjectTypeOK
  /\ link \in [Object -> {"new", "connecting", "up", "refused"}]
  /\ wire \in [Object -> Seq(Reset .. MaxSent)]
  /\ sent \in [Object -> 0 .. MaxSent]
  /\ buf \in [Object -> Seq(0 .. MaxSent)]
  /\ sized \in [Object -> BOOLEAN] /\ ended \in [Object -> BOOLEAN]
  /\ pend \in [State -> Seq({"connect", "write", "shutdown"} \X Object)]
  /\ seen \in [Object -> Seq(1 .. MaxSent)]

\* What reads have returned, then what is saved in the object, then what is still
\* to come: these are chunks in the order sent, none twice, whatever the program
\* does.  While the stream is open they are all that the peer sent: no chunk is
\* lost or handed to another call, over any sequence of reads that wait, reads of
\* saved data and empty reads.
NothingLost ==
  \A o \in Object :
    LET all == seen[o] \o buf[o] \o wire[o] IN
      /\ \A i, j \in DOMAIN all : i < j /\ all[i] > 0 /\ all[j] > 0 => all[i] < all[j]
      /\ Avoids({"share", "start", "shutdown", "pipe"}) /\ ~Closing(o) =>
           1 .. sent[o] \subseteq Range(all)

\* A state that waits in read is served: reading is started in libuv,
\* luvL_alloc_cb has a size for the buffer, and nothing is saved that the read
\* should have returned instead.
ReaderListens ==
  \A s \in State, o \in Object :
    Avoids({"share", "again", "start"}) /\ In(s, "read", o) /\ status[s] = "parked" /\ ~Closing(o)
      => Is(o, "OSTARTED") /\ ~ended[o] /\ sized[o] /\ buf[o] = <<>>

\* A state that waits for a stream is in its queue, so that the event finds it;
\* and unless pipe:connect wakes it by the way, a state that has stopped waiting
\* has left the queue, so that no later event wakes it out of another call.
WaitersExact ==
  \A s \in State, o \in Object :
    LET linked == s \in Range(rouse[o])
        waits == /\ \E op \in {"read", "shutdown", "close"} : In(s, op, o)
                 /\ status[s] = "parked"
    IN (waits => linked) /\ (Avoids({"pipe"}) => (linked => waits))

\* These let a state go on before the callback of its request, or wake it early.
OwnsRequest == Avoids({"share", "shutdown", "start", "pipe"})

\* A state never hands libuv its request while libuv still holds it.
OneRequest == OwnsRequest => \A s \in State : Len(pend[s]) <= 1

\* The values that the call op may return after having waited.
Returns(op) ==
  CASE op = "read" -> {<<"data">>, <<"nil">>, ReadError}
    [] op \in {"write", "shutdown"} -> {<<"status">>}
    [] OTHER -> {Args}

\* A call that has waited returns its own result: a state is not woken by the
\* event of another call and handed, or left with, the wrong values.  In
\* particular stream:close returns when the handle is closed, and not before.
OwnResult ==
  [][\A s \in State : call[s] # NoCall /\ call'[s] = NoCall =>
       /\ OwnsRequest /\ Avoids({"again"}) => ret[s] \in Returns(call[s][1])
       /\ OwnsRequest => \A o \in Object : In(s, "close", o) => Is(o, "OCLOSED")]_vars

\* The last two hold under the fairness of LuvNet, with getaddrinfo beside.

\* A read ends when there is something to report.
ReadEnds ==
  \A s \in State, o \in Object :
    Avoids({"share", "again", "start", "fail"}) /\ In(s, "read", o) /\ wire[o] # <<>>
      ~> ~In(s, "read", o)

\* Closing ends.
CloseEnds ==
  \A s \in State, o \in Object :
    Avoids({"share", "again", "failed", "fail"}) /\ In(s, "close", o) ~> ~In(s, "close", o)
=============================================================================
