------------------------------- MODULE LuvZmq -------------------------------
(***************************************************************************)
(* A 0MQ socket: luv_zmq.c.                                                *)
(*                                                                         *)
(* 0MQ is outside the repository.  Its descriptor, which libuv polls, is   *)
(* readable while commands wait in the socket's mailbox.  The peer posts a *)
(* command for a message only if the socket's last look found no message,  *)
(* and for room only if its last look found none.  Every look handles the  *)
(* commands; a send or receive that succeeds may handle them or not, and   *)
(* so may an operation that fails.                                         *)
(*                                                                         *)
(* Messages are numbered: those of the peer in the order they arrive, those*)
(* of the program in the order of the calls of send.                       *)
(***************************************************************************)
EXTENDS LuvObject

CONSTANTS
  MaxMsg,   \* bound: messages of the peer, and messages passed to send
  Hwm       \* the messages the outgoing pipe holds

ASSUME ZmqRisksAssumption == Cases \subseteq SUBSET {"share", "duplex", "close", "fail"}
ASSUME ZmqBoundsAssumption == Object # {} /\ MaxMsg \in Nat /\ Hwm \in Nat

Socket == CHOOSE o \in Object : TRUE

VARIABLES
  sendq,    \* self->queue, the states waiting to send
  inbox,    \* messages that have arrived, numbered in order
  arrived,  \* how many have arrived so far
  got,      \* the messages recv has returned to each state (history)
  out,      \* how many messages are in the outgoing pipe
  passed,   \* how many messages have been passed to send
  accepted, \* how often 0MQ has accepted each message (history)
  told,     \* how often send has returned each as sent (history)
  posted,   \* commands wait in the mailbox: the descriptor is readable
  rasleep,  \* the last look found no message
  wasleep,  \* the last look found no room
  open      \* zmq_close has not been called

objVars == <<oflags, rouse>>
inVars == <<inbox, arrived, got, rasleep>>
outVars == <<out, passed, accepted, told, wasleep>>
vars == <<loopVars, objVars, inVars, outVars, sendq, posted, open>>

\* The flag bits of a socket are those of two object flags (luv.h).
WSEND == "OWAITING"
WRECV == "OCLOSING"

Init ==
  /\ LoopInit
  /\ luvL_object_init
  /\ sendq = <<>>
  /\ inbox = <<>> /\ arrived = 0 /\ rasleep = TRUE
  /\ got = [s \in State |-> <<>>]
  /\ out = 0 /\ passed = 0 /\ wasleep = FALSE
  /\ accepted = [n \in 1 .. MaxMsg |-> 0] /\ told = [n \in 1 .. MaxMsg |-> 0]
  /\ posted = FALSE /\ open = TRUE

\* Risk "share": several states receive, or send, at a time.  Risk "duplex": a
\* state sends while another waits to receive, or the other way round.
MayRecv ==
  /\ rouse[Socket] # <<>> => "share" \in risks
  /\ sendq # <<>> => "duplex" \in risks
MaySend ==
  /\ sendq # <<>> => "share" \in risks
  /\ rouse[Socket] # <<>> => "duplex" \in risks

Readable == inbox # <<>>
Writable == out < Hwm

\* zmq_msg_send, when it succeeds.
Accepts(n) ==
  /\ out' = out + 1
  /\ accepted' = [accepted EXCEPT ![n] = @ + 1]

\* recv returns message k to s; send returns that message n is sent.
Gets(s, k) == got' = [got EXCEPT ![s] = Append(@, k)]
Tells(n) == told' = [told EXCEPT ![n] = @ + 1]

\* zmq_poll: both directions are looked at, and the commands are handled.
zmq_poll ==
  /\ posted' = FALSE
  /\ rasleep' = ~Readable /\ wasleep' = ~Writable

-----------------------------------------------------------------------------
(* Calls *)

luv_zmq_socket_recv_now(s) ==
  /\ Running(s) /\ MayRecv /\ open /\ Readable
  /\ inbox' = Tail(inbox)
  /\ Gets(s, Head(inbox))
  /\ posted' \in {posted, FALSE}
  /\ Return(s, Args)
  /\ UNCHANGED <<objVars, arrived, rasleep, outVars, sendq, open>>

RecvWaits(s) ==
  /\ Running(s) /\ MayRecv /\ open
  /\ rasleep' = TRUE /\ posted' = FALSE
  /\ luvL_cond_wait(s, "recv", Socket)
  /\ UNCHANGED <<inbox, arrived, got, outVars, sendq, open>>

\* Mutated: WRECV is not set.
luv_zmq_socket_recv_unmarked(s) == ~Readable /\ RecvWaits(s) /\ UNCHANGED oflags

luv_zmq_socket_recv(s) == ~Readable /\ RecvWaits(s) /\ Flags(Socket, {WRECV}, {})

luv_zmq_socket_send_now(s) ==
  /\ Running(s) /\ MaySend /\ open /\ Writable /\ passed < MaxMsg
  /\ passed' = passed + 1
  /\ Accepts(passed + 1) /\ Tells(passed + 1)
  /\ posted' \in {posted, FALSE}
  /\ Return(s, Args)
  /\ UNCHANGED <<objVars, inVars, wasleep, sendq, open>>

\* The message stays on the stack.
SendWaits(s) ==
  /\ Running(s) /\ MaySend /\ open /\ ~Writable /\ passed < MaxMsg
  /\ passed' = passed + 1
  /\ wasleep' = TRUE /\ posted' = FALSE
  /\ sendq' = Append(sendq, s)
  /\ SuspendWith(s, <<"send", Socket>>, <<"data", passed + 1>>)
  /\ UNCHANGED <<rouse, inVars, out, accepted, told, open>>

luv_zmq_socket_send(s) == SendWaits(s) /\ Flags(Socket, {WSEND}, {})

\* zmq_msg_recv and zmq_msg_send of a closed socket fail.  Risk "fail": any
\* operation of 0MQ may.
luv_zmq_socket_fails(s) ==
  /\ Running(s) /\ (MayRecv \/ MaySend)
  /\ ~open \/ "fail" \in risks
  /\ Return(s, <<"false">>)
  /\ posted' \in {posted, FALSE}
  /\ UNCHANGED <<objVars, inVars, outVars, sendq, open>>

\* close does not suspend.  Risk "close": while a state waits.  WRECV looks
\* like OCLOSING, so with a waiting receiver nothing is done.
luv_zmq_socket_close(s) ==
  /\ Running(s)
  /\ rouse[Socket] # <<>> \/ sendq # <<>> => "close" \in risks
  /\ IF Is(Socket, "OCLOSING")
       THEN UNCHANGED <<oflags, open>>
       ELSE open' = FALSE /\ luvL_object_close(Socket)
  /\ Return(s, <<"closed">>)
  /\ UNCHANGED <<rouse, inVars, outVars, sendq, posted>>

SocketClosed ==
  /\ ~open
  /\ luvL_object_close_cb(Socket)
  /\ UNCHANGED <<inVars, outVars, sendq, posted, open>>

-----------------------------------------------------------------------------
(* _zmq_poll_cb, when the descriptor is readable *)

Polled == polling /\ posted /\ open

\* The head of rouse is readied, with v on its stack.
RecvRoused(v) ==
  /\ ret' = [ret EXCEPT ![Head(rouse[Socket])] = v]
  /\ RouseHead(Socket)
  /\ UNCHANGED <<pollVars, arrived, got, out, passed, accepted, told, sendq, open>>

RecvPolled(v) ==
  /\ Polled /\ Is(Socket, WRECV) /\ Readable
  /\ zmq_poll
  /\ inbox' = Tail(inbox)
  /\ RecvRoused(v)

\* Mutated: the message is lost; WRECV is not cleared.
_zmq_poll_cb_recv_drops == RecvPolled(Args) /\ Flags(Socket, {}, {WRECV})
_zmq_poll_cb_recv_marked == RecvPolled(<<"msg", Head(inbox)>>) /\ UNCHANGED oflags

\* A state waits to receive and a message is there.
_zmq_poll_cb_recv == RecvPolled(<<"msg", Head(inbox)>>) /\ Flags(Socket, {}, {WRECV})

\* zmq_poll fails, or zmq_msg_recv after it; of EAGAIN the state is not told.
_zmq_poll_cb_recv_fails ==
  /\ Polled /\ Is(Socket, WRECV) /\ "fail" \in risks
  /\ \/ posted' \in {posted, FALSE} /\ UNCHANGED <<rasleep, wasleep>> /\ RecvRoused(<<"false">>)
     \/ Readable /\ zmq_poll /\ \E v \in {Args, <<"false">>} : RecvRoused(v)
  /\ Flags(Socket, {}, {WRECV})
  /\ UNCHANGED inbox

SendPolled == Polled /\ ~(Is(Socket, WRECV) /\ Readable) /\ Is(Socket, WSEND)

\* The head of sendq is readied, with v on its stack.
SendRoused(v) ==
  /\ Flags(Socket, {}, {WSEND})
  /\ ret' = [ret EXCEPT ![Head(sendq)] = v]
  /\ sendq' = Tail(sendq)
  /\ Wake(Head(sendq))
  /\ UNCHANGED <<pollVars, rouse, inbox, arrived, got, passed, told, open>>

\* Otherwise a state waits to send and there is room.
_zmq_poll_cb_send ==
  /\ SendPolled /\ Writable
  /\ zmq_poll
  /\ LET L == ret[Head(sendq)] IN Accepts(L[2]) /\ SendRoused(L)

\* zmq_poll fails, or zmq_msg_send after it.
SendFails ==
  /\ SendPolled /\ "fail" \in risks
  /\ \/ posted' \in {posted, FALSE} /\ UNCHANGED <<rasleep, wasleep>>
     \/ Writable /\ zmq_poll
  /\ UNCHANGED <<out, accepted>>

\* Mutated: the failure is not put on the stack.
_zmq_poll_cb_send_fails_silent == SendFails /\ SendRoused(ret[Head(sendq)])

_zmq_poll_cb_send_fails == SendFails /\ SendRoused(<<"false">>)

\* Otherwise nothing is done; the commands stay if nobody waits at all.
_zmq_poll_cb_none ==
  /\ Polled
  /\ ~(Is(Socket, WRECV) /\ Readable) /\ ~(Is(Socket, WSEND) /\ Writable)
  /\ IF {WRECV, WSEND} \cap oflags[Socket] = {}
       THEN UNCHANGED <<posted, rasleep, wasleep>>
       ELSE zmq_poll
  /\ UNCHANGED <<loopVars, objVars, inbox, arrived, got, out, passed, accepted, told, sendq,
                 open>>

-----------------------------------------------------------------------------
(* The peer, and the scheduler *)

PeerSends ==
  /\ arrived < MaxMsg
  /\ arrived' = arrived + 1
  /\ inbox' = Append(inbox, arrived + 1)
  /\ posted' = (posted \/ rasleep) /\ rasleep' = FALSE
  /\ UNCHANGED <<loopVars, objVars, got, outVars, sendq, open>>

PeerReceives ==
  /\ out > 0
  /\ out' = out - 1
  /\ posted' = (posted \/ wasleep) /\ wasleep' = FALSE
  /\ UNCHANGED <<loopVars, objVars, inVars, passed, accepted, told, sendq, open>>

Sleeps(s) == luv_sleep(s) /\ UNCHANGED <<objVars, inVars, outVars, sendq, posted, open>>
SleepCb(s) == sleep_cb(s) /\ UNCHANGED <<objVars, inVars, outVars, sendq, posted, open>>

\* What s is about to return from the call it waited in.
Brings(s, k) == In(s, "recv", Socket) /\ status[s] = "ready" /\ ret[s] = <<"msg", k>>
Reports(s, n) == In(s, "send", Socket) /\ status[s] = "ready" /\ ret[s] = <<"data", n>>

Resumes(s) ==
  /\ ResumeWith(s, Args)
  /\ \/ \E k \in 1 .. MaxMsg : Brings(s, k) /\ Gets(s, k)
     \/ ~(\E k \in 1 .. MaxMsg : Brings(s, k)) /\ UNCHANGED got
  /\ \/ \E n \in 1 .. MaxMsg : Reports(s, n) /\ Tells(n)
     \/ ~(\E n \in 1 .. MaxMsg : Reports(s, n)) /\ UNCHANGED told
  /\ UNCHANGED <<objVars, inbox, arrived, rasleep, out, passed, accepted, wasleep, sendq,
                 posted, open>>

PollCb ==
  \/ _zmq_poll_cb_recv \/ _zmq_poll_cb_recv_fails
  \/ _zmq_poll_cb_send \/ _zmq_poll_cb_send_fails
  \/ _zmq_poll_cb_none

Next ==
  \/ \E s \in State : \/ luv_zmq_socket_recv_now(s) \/ luv_zmq_socket_recv(s)
                      \/ luv_zmq_socket_send_now(s) \/ luv_zmq_socket_send(s)
                      \/ luv_zmq_socket_fails(s) \/ luv_zmq_socket_close(s)
                      \/ Sleeps(s) \/ SleepCb(s) \/ Resumes(s)
  \/ PollCb \/ SocketClosed \/ PeerSends \/ PeerReceives

Spec == Init /\ [][Next]_vars

\* Fairness as in LuvNet; the peer goes on reading.
FairSpec ==
  /\ Spec
  /\ WF_vars(\E s \in State : Sleeps(s)) /\ \A s \in State : SF_vars(Resumes(s))
  /\ SF_vars(PollCb) /\ SF_vars(SocketClosed) /\ WF_vars(PeerReceives)

-----------------------------------------------------------------------------
(* Properties *)

\* The types of the variables.
TypeOK ==
  /\ LoopTypeOK /\ ObjectTypeOK
  /\ sendq \in Seq(State)
  /\ inbox \in Seq(1 .. MaxMsg) /\ arrived \in 0 .. MaxMsg
  /\ got \in [State -> Seq(1 .. MaxMsg)]
  /\ out \in 0 .. Hwm /\ passed \in 0 .. MaxMsg
  /\ accepted \in [1 .. MaxMsg -> Nat] /\ told \in [1 .. MaxMsg -> Nat]
  /\ posted \in BOOLEAN /\ rasleep \in BOOLEAN /\ wasleep \in BOOLEAN
  /\ open \in BOOLEAN

\* A state gets messages in the order they arrived, and every message that has
\* left 0MQ goes to exactly one recv, which has returned it or is about to: none is
\* lost or duplicated, with several receivers and when operations fail.
MessagesInOrder ==
  LET gone == arrived - Len(inbox) IN
    /\ \A i \in DOMAIN inbox : inbox[i] = gone + i
    /\ \A s \in State : /\ \A i, j \in DOMAIN got[s] : i < j => got[s][i] < got[s][j]
                        /\ Range(got[s]) \subseteq 1 .. gone
    /\ \A k \in 1 .. gone :
         /\ \E s \in State : Brings(s, k) \/ k \in Range(got[s])
         /\ \A s, t \in State : Brings(s, k) => k \notin Range(got[t]) /\ (Brings(t, k) => s = t)
         /\ \A s, t \in State : k \in Range(got[s]) \cap Range(got[t]) => s = t

\* send says that a message is sent only if 0MQ has accepted it, and whenever it
\* has; no message is sent twice.  For a send that waited this is known only when
\* it returns.
SentIsAccepted ==
  \A n \in 1 .. MaxMsg :
    /\ accepted[n] <= 1 /\ told[n] <= accepted[n]
    /\ accepted[n] = 1 /\ told[n] = 0 <=> \E s \in State : Reports(s, n)

\* When close has returned, the socket is closed.
CloseCloses ==
  Avoids({"close"}) => \A s \in State : ret[s] = <<"closed">> => ~open

\* A state in recv returns when there is a message, if no other state takes it,
\* and a state in send returns: no wake-up is lost although 0MQ announces a
\* message, or room, only once.  With several waiting states it may be: one
\* state's look at the socket uses the announcement up.
WaitersServed ==
  \A s \in State :
    /\ Avoids({"share", "duplex", "close"}) /\ In(s, "recv", Socket) /\ Readable
         ~> ~In(s, "recv", Socket) \/ ~Readable
    /\ Avoids({"share", "duplex", "close"}) /\ In(s, "send", Socket)
         ~> ~In(s, "send", Socket)
=============================================================================
