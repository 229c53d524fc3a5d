----------------------------- MODULE LuvServer -----------------------------
(***************************************************************************)
(* A listening stream: listen, accept and close of luv_stream.c.           *)
(*                                                                         *)
(* libuv takes connections from the kernel one at a time: it holds one and *)
(* reports it with _listen_cb, and goes on when uv_accept has fetched it.  *)
(* A report may also say that taking one failed; then uv_accept fails too. *)
(* Connections are numbered in the order they arrive.                      *)
(***************************************************************************)
EXTENDS LuvObject

CONSTANTS
  MaxConn,    \* bound: connections that arrive
  MaxFault    \* bound: failed reports

\* "share": several states wait; "again": use after close
ASSUME ServerRisksAssumption == Cases \subseteq SUBSET {"share", "again"}
ASSUME ServerBoundsAssumption == Object # {} /\ MaxConn \in Nat /\ MaxFault \in Nat

Server == CHOOSE o \in Object : TRUE

VARIABLES
  listening,  \* uv_listen has been called
  count,      \* self->count: reports nobody was waiting for
  held,       \* the connection libuv holds, 0 if none
  arrived,    \* connections that have arrived
  taken,      \* connections libuv has taken from the kernel
  client,     \* the connection in the stream that a state passed to accept,
              \* until accept returns; 0 if there is none
  given,      \* how often accept returned each connection as its result; 0 is
              \* a stream without one (history)
  faults      \* failed reports so far

objVars == <<oflags, rouse>>
netVars == <<listening, held, arrived, taken, faults>>
clientVars == <<client, given>>
vars == <<loopVars, objVars, netVars, count, clientVars>>

Closing == Is(Server, "OCLOSING")
Waits(s) == In(s, "accept", Server) /\ status[s] = "parked"

Init ==
  /\ LoopInit
  /\ luvL_object_init
  /\ listening = FALSE
  /\ count = 0 /\ held = 0 /\ arrived = 0 /\ taken = 0 /\ faults = 0
  /\ client = [s \in State |-> 0]
  /\ given = [c \in 0 .. MaxConn |-> 0]

Alone == rouse[Server] = <<>> \/ "share" \in risks

\* accept returns the stream it was passed, with the connection c in it.
Gives(c) == given' = [given EXCEPT ![c] = @ + 1]

luv_stream_listen(s) ==
  /\ Running(s) /\ ~Closing
  /\ listening' = TRUE
  /\ Return(s, <<>>)
  /\ UNCHANGED <<objVars, held, arrived, taken, faults, count, clientVars>>

\* A connection was reported before: uv_accept fetches it, or fails.
luv_stream_accept_counted(s) ==
  /\ Running(s) /\ listening
  /\ count > 0
  /\ count' = count - 1
  /\ held' = 0
  /\ \/ held # 0 /\ Gives(held) /\ Return(s, Args)
     \/ held = 0 /\ Return(s, <<"nil">>) /\ UNCHANGED given
  /\ UNCHANGED <<objVars, listening, arrived, taken, faults, client>>

\* Mutated: the callback is not told that a state waits.
luv_stream_accept_unmarked(s) ==
  /\ Running(s) /\ listening
  /\ Closing => "again" \in risks
  /\ Alone
  /\ count = 0
  /\ luvL_cond_wait(s, "accept", Server)
  /\ UNCHANGED <<oflags, netVars, count, clientVars>>

luv_stream_accept(s) ==
  /\ Running(s) /\ listening
  /\ Closing => "again" \in risks
  /\ Alone
  /\ count = 0
  /\ Flags(Server, {"OWAITING"}, {})
  /\ luvL_cond_wait(s, "accept", Server)
  /\ UNCHANGED <<netVars, count, clientVars>>

luv_stream_close(s) ==
  /\ Running(s) /\ Alone
  /\ Closing => "again" \in risks
  /\ luvL_object_close(Server)
  /\ held' = 0
  /\ luvL_cond_wait(s, "close", Server)
  /\ UNCHANGED <<listening, arrived, taken, faults, count, clientVars>>

ServerClosed ==
  /\ luvL_object_close_cb(Server)
  /\ UNCHANGED <<netVars, count, clientVars>>

\* libuv reports the connection h it has taken, or a failure: h = 0.
Reports(h) ==
  /\ polling
  /\ listening /\ ~Closing /\ held = 0
  /\ \/ h = 0 /\ faults < MaxFault /\ faults' = faults + 1 /\ UNCHANGED taken
     \/ h = taken + 1 /\ h <= arrived /\ taken' = h /\ UNCHANGED faults

\* Mutated: no uv_accept, and libuv keeps the connection.
_listen_cb_accepts_none(h) ==
  /\ Reports(h)
  /\ Is(Server, "OWAITING")
  /\ held' = h
  /\ Flags(Server, {}, {"OWAITING"})
  /\ luvL_cond_signal(Server)
  /\ UNCHANGED <<pollVars, ret, listening, arrived, count, clientVars>>

\* A state waits: uv_accept fetches the connection into the stream that the first
\* one passed, or fails, and the state is woken.
_listen_cb_accepts(h) ==
  /\ Reports(h)
  /\ Is(Server, "OWAITING")
  /\ LET s == Head(rouse[Server]) IN
       /\ client' = [client EXCEPT ![s] = h]
       /\ ret' = IF h = 0 THEN [ret EXCEPT ![s] = <<"nil">>] ELSE ret
  /\ Flags(Server, {}, {"OWAITING"})
  /\ luvL_cond_signal(Server)
  /\ UNCHANGED <<pollVars, listening, held, arrived, count, given>>

\* Mutated: the report is not counted.
_listen_cb_counts_not(h) ==
  /\ Reports(h)
  /\ ~Is(Server, "OWAITING")
  /\ held' = h
  /\ UNCHANGED <<loopVars, objVars, listening, arrived, count, clientVars>>

_listen_cb_counts(h) ==
  /\ Reports(h)
  /\ ~Is(Server, "OWAITING")
  /\ count' = count + 1
  /\ held' = h
  /\ UNCHANGED <<loopVars, objVars, listening, arrived, clientVars>>

Arrives ==
  /\ listening /\ ~Closing /\ arrived < MaxConn
  /\ arrived' = arrived + 1
  /\ UNCHANGED <<loopVars, objVars, listening, held, taken, faults, count, clientVars>>

Sleeps(s) == luv_sleep(s) /\ UNCHANGED <<objVars, netVars, count, clientVars>>
SleepCb(s) == sleep_cb(s) /\ UNCHANGED <<objVars, netVars, count, clientVars>>

\* The call s was suspended in returns; an accept that did not fail, what it has got.
Resumes(s) ==
  /\ Resume(s)
  /\ \/ In(s, "accept", Server) /\ ret[s] = Args /\ Gives(client[s])
     \/ ~(In(s, "accept", Server) /\ ret[s] = Args) /\ UNCHANGED given
  /\ client' = [client EXCEPT ![s] = 0]
  /\ UNCHANGED <<objVars, netVars, count>>

ListenCb == \E h \in 0 .. MaxConn : _listen_cb_accepts(h) \/ _listen_cb_counts(h)

Next ==
  \/ \E s \in State : \/ luv_stream_listen(s) \/ luv_stream_accept_counted(s)
                      \/ luv_stream_accept(s) \/ luv_stream_close(s)
                      \/ Sleeps(s) \/ SleepCb(s) \/ Resumes(s)
  \/ ListenCb \/ ServerClosed \/ Arrives

Spec == Init /\ [][Next]_vars

\* Fairness as in LuvNet.
FairSpec ==
  /\ Spec
  /\ WF_vars(\E s \in State : Sleeps(s)) /\ \A s \in State : SF_vars(Resumes(s))
  /\ SF_vars(taken < arrived /\ ListenCb) /\ SF_vars(ServerClosed)

-----------------------------------------------------------------------------
(* Properties *)

\* The types of the variables.
TypeOK ==
  /\ LoopTypeOK /\ ObjectTypeOK
  /\ listening \in BOOLEAN
  /\ count \in 0 .. MaxConn + MaxFault
  /\ held \in 0 .. MaxConn /\ arrived \in 0 .. MaxConn /\ taken \in 0 .. MaxConn
  /\ faults \in 0 .. MaxFault
  /\ client \in [State -> 0 .. MaxConn]
  /\ given \in [0 .. MaxConn -> Nat]

\* An accept that returns its stream returns it with a connection; no connection
\* is in two streams, returned or to be returned, or both there and with libuv;
\* and while the server is open none that libuv took is lost.  With any number of
\* states that accept; only if several wait when it is closed may one get nothing.
ConnsOnce ==
  /\ given[0] = 0 \/ (Closing /\ "share" \in risks)
  /\ \A c \in 1 .. MaxConn :
       LET inStream == {s \in State : client[s] = c} IN
         /\ given[c] <= 1
         /\ given[c] = 1 => inStream = {} /\ held # c
         /\ \A s \in inStream : inStream = {s} /\ held # c
         /\ ~Closing /\ c <= taken => given[c] = 1 \/ inStream # {} \/ held = c

\* A connection that libuv holds is counted, so the next accept fetches it.
HeldIsCounted == ~Closing /\ held # 0 => count > 0

\* accept ends when a connection has arrived that libuv has not yet taken, if no
\* other state accepts at the same time.
AcceptEnds ==
  \A s \in State : Avoids({"share"}) /\ In(s, "accept", Server) /\ taken < arrived
                     ~> ~In(s, "accept", Server) \/ Closing
=============================================================================
