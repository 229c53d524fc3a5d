------------------------------- MODULE LuvNet -------------------------------
(***************************************************************************)
(* getaddrinfo (luv_net.c) beside the streams of the same states.  A state *)
(* asks with the one request it also connects, writes and shuts down with, *)
(* and suspends; the resolver, outside the repository, answers in its own  *)
(* time with an address for the hints, or (risk "fail") fails and gives    *)
(* none.                                                                   *)
(***************************************************************************)
EXTENDS LuvStream

CONSTANTS Family, Socktype, Protocol  \* the option strings a program passes

Unset == "unset"

ASSUME NetAssumption == Unset \notin Family \cup Socktype \cup Protocol

VARIABLE crashed   \* the callback has followed a null pointer

streamVars == <<objVars, netVars, readVars>>
allVars == <<vars, crashed>>

Rejected == "rejected"

\* The chains of strcmp.  The first of the six comparisons tests for equality; the
\* other five hold when the strings differ.
family(f) == CASE f \in {Unset, "INET"} -> "PF_INET"
               [] f \notin {Unset, "INET", "INET6"} -> "PF_INET6"
               [] OTHER -> Rejected
socktype(t) == CASE t = Unset \/ t # "STREAM" -> "SOCK_STREAM"
                 [] OTHER -> "SOCK_DGRAM"
protocol(p) == CASE p = Unset \/ p # "TCP" -> "IPPROTO_TCP"
                 [] OTHER -> "IPPROTO_UDP"

Hints == {<<family(f), socktype(t), protocol(p)>> :
            f \in {g \in Family \cup {Unset} : family(g) # Rejected},
            t \in Socktype \cup {Unset}, p \in Protocol \cup {Unset}}

NetInit == Init /\ crashed = FALSE

\* An option that is not supported raises an error; so does a request that
\* libuv does not take.
luv_getaddrinfo_rejects(s) ==
  /\ Running(s) /\ ~crashed
  /\ (\E f \in Family : family(f) = Rejected) \/ "fail" \in risks
  /\ Return(s, <<"error">>)
  /\ UNCHANGED <<streamVars, pend, crashed>>

Resolving(s) == call[s][1] = "getaddrinfo"

\* Mutated: all states resolve with one request.
luv_getaddrinfo_shared(s) == \E hints \in Hints :
  /\ Running(s) /\ ~crashed
  /\ pend' = [r \in State |-> IF r = s \/ Resolving(r) THEN <<<<"getaddrinfo", hints>>>> ELSE pend[r]]
  /\ Suspend(s, <<"getaddrinfo", hints>>)
  /\ UNCHANGED <<streamVars, crashed>>

luv_getaddrinfo(s) == \E hints \in Hints :
  /\ Running(s) /\ ~crashed
  /\ Request(s, "getaddrinfo", hints)
  /\ Suspend(s, <<"getaddrinfo", hints>>)
  /\ UNCHANGED <<streamVars, crashed>>

\* Mutated: the state is not readied.
_getaddrinfo_cb_silent(s) == \E hints \in Hints :
  /\ ~crashed
  /\ Answer(s, "getaddrinfo", hints)
  /\ ret' = [ret EXCEPT ![s] = <<hints[1], "port">>]
  /\ UNCHANGED <<status, pollVars, streamVars, crashed>>

\* The resolver has found an address of the family asked for ...
_getaddrinfo_cb(s) == \E hints \in Hints :
  /\ ~crashed
  /\ Answer(s, "getaddrinfo", hints)
  /\ ret' = [ret EXCEPT ![s] = <<hints[1], "port">>]
  /\ Wake(s)
  /\ UNCHANGED <<pollVars, streamVars, crashed>>

\* ... or none.  The callback does not look at its status argument.
_getaddrinfo_cb_null(s) == \E hints \in Hints :
  /\ ~crashed /\ "fail" \in risks
  /\ Answer(s, "getaddrinfo", hints)
  /\ crashed' = TRUE
  /\ UNCHANGED <<loopVars, streamVars>>

StreamStep == ~crashed /\ Next /\ UNCHANGED crashed
Crashed == crashed /\ UNCHANGED allVars

NetNext ==
  \/ StreamStep
  \/ \E s \in State : \/ luv_getaddrinfo_rejects(s) \/ luv_getaddrinfo(s)
                      \/ _getaddrinfo_cb(s) \/ _getaddrinfo_cb_null(s)
  \/ Crashed

NetSpec == NetInit /\ [][NetNext]_allVars

Beside(A) == ~crashed /\ A /\ UNCHANGED crashed

\* The callback of the one request of s, when it waits for nothing but libuv and
\* the resolver.  A write waits for the peer, unless there is no connection.
OwnCb(s) ==
  \/ Beside(\E o \in Object : \/ luvL_connect_cb(s, o) \/ _shutdown_cb(s, o)
                              \/ (link[o] = "refused" \/ Closing(o)) /\ _write_cb(s, o))
  \/ _getaddrinfo_cb(s) \/ _getaddrinfo_cb_null(s)

\* Fairness.  A running state sooner or later waits; a ready one gets its turn,
\* since the ready queue is first in, first out; libuv reports what there is,
\* connects or gives up, and the resolver answers.
NetFairSpec ==
  /\ NetSpec
  /\ WF_allVars(\E s \in State : Beside(Sleeps(s)))
  /\ \A s \in State : SF_allVars(Beside(Resumes(s))) /\ SF_allVars(OwnCb(s))
  /\ \A o \in Object : /\ SF_allVars(Beside(StreamClosed(o)))
                       /\ SF_allVars(Beside(wire[o] # <<>> /\ ReadCb(o)))

-----------------------------------------------------------------------------
(* Properties *)

\* A state gets the address it asked for itself, with others asking for other
\* families at the same time.
OwnAddress ==
  [][\A s \in State : OwnsRequest /\ Resolving(s) /\ call'[s] = NoCall =>
       ret[s] = <<call[s][2][1], "port">>]_allVars

\* The calls that wait for the one request of the state end: connecting and
\* resolving; writing to a connection that was refused or is closed; and shutting
\* down, if libuv has taken the request and all that is being written gets written.
RequestEnds ==
  \A s \in State :
    /\ OwnsRequest /\ call[s][1] \in {"connect", "getaddrinfo"}
         ~> call[s][1] \notin {"connect", "getaddrinfo"} \/ crashed
    /\ \A o \in Object :
         /\ OwnsRequest /\ In(s, "write", o) /\ (link[o] = "refused" \/ Closing(o))
              ~> ~In(s, "write", o) \/ crashed
         /\ []<>(\A t \in State : ~Requested(t, "write", o)) =>
              (OwnsRequest /\ Requested(s, "shutdown", o)
                 ~> ~In(s, "shutdown", o) \/ crashed)
=============================================================================
