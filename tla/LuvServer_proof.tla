-------------------------- MODULE LuvServer_proof --------------------------
(***************************************************************************)
(* ConnsOnce and HeldIsCounted of LuvServer, for any number of fibers and  *)
(* connections and for every set of risks.                                 *)
(***************************************************************************)
EXTENDS LuvServer, TLAPS

Call == {NoCall, <<"sleep">>, <<"accept", Server>>, <<"close", Server>>}
Value == {Args, <<"nil">>, <<>>}

\* The part of the type invariant that the proofs need.
TypeInv ==
  /\ ObjectTypeOK
  /\ status \in [State -> States!Status]
  /\ call \in [State -> Call] /\ ret \in [State -> Value]
  /\ count \in Nat /\ held \in 0 .. MaxConn /\ taken \in Nat
  /\ client \in [State -> 0 .. MaxConn]
  /\ given \in [0 .. MaxConn -> Nat]

Accepts(s) == In(s, "accept", Server)
Linked(s) == s \in Range(rouse[Server])
Distinct(q) == \A i, j \in DOMAIN q : q[i] = q[j] => i = j

\* A state is in the queue once, parked, with its arguments on the stack and an
\* empty stream; it accepts, as long as the server is open.
QueueInv ==
  /\ Distinct(rouse[Server])
  /\ \A s \in State : Linked(s) =>
       /\ status[s] = "parked" /\ ret[s] = Args /\ client[s] = 0
       /\ Accepts(s) \/ (In(s, "close", Server) /\ Closing)

\* Who has a connection in its stream is about to return it, and who runs is in no
\* call.
ClientInv ==
  \A s \in State :
    /\ client[s] # 0 => status[s] = "ready" /\ Accepts(s) /\ ret[s] = Args
    /\ status[s] = "running" => call[s] = NoCall

\* A state that waits no more has a connection or was told of a failure, unless
\* several waited when the server was closed.
Shared == Closing /\ "share" \in risks
ServedInv ==
  /\ given[0] = 0 \/ Shared
  /\ \A s \in State : Accepts(s) /\ ~Linked(s) => ret[s] # Args \/ client[s] # 0 \/ Shared

\* Until the server is closed its closer waits, and nobody else does but with "share".
CloseInv ==
  Closing /\ ~Is(Server, "OCLOSED") =>
    /\ rouse[Server] # <<>>
    /\ "share" \notin risks => \A s \in State : Linked(s) => ~Accepts(s)

\* ConnsOnce piece by piece, with what it needs of the connections still to come.
Nowhere(c) == given[c] = 0 /\ held # c /\ \A s \in State : client[s] # c
Placed(c) ==
  /\ given[c] = 0 \/ (given[c] = 1 /\ held # c)
  /\ \A s \in State : client[s] = c => given[c] = 0 /\ held # c
  /\ \A s, t \in State : client[s] = c /\ client[t] = c => s = t
  /\ c <= taken => Closing \/ ~Nowhere(c)
  /\ c > taken => Nowhere(c)
PlaceInv == \A c \in 1 .. MaxConn : Placed(c)

\* While the server is open, and so may call back, OWAITING says that somebody
\* waits: _listen_cb takes the head of the queue without a test.
WaitingInv == ~Closing /\ Is(Server, "OWAITING") => rouse[Server] # <<>>

IInv ==
  /\ TypeInv /\ QueueInv /\ ClientInv /\ ServedInv /\ CloseInv /\ PlaceInv
  /\ HeldIsCounted /\ WaitingInv

-----------------------------------------------------------------------------
(* Sequences *)

\* A queue with one more, and a queue without its head.
LEMMA Appended ==
  ASSUME NEW q \in Seq(State), NEW e \in State
  PROVE  /\ Append(q, e) \in Seq(State) /\ Append(q, e) # <<>>
         /\ Range(Append(q, e)) = Range(q) \cup {e}
         /\ e \notin Range(q) /\ Distinct(q) => Distinct(Append(q, e))
  <1>1. /\ Append(q, e) \in Seq(State) /\ Append(q, e) # <<>>
        /\ Len(q) \in Nat /\ DOMAIN q = 1 .. Len(q)
        /\ DOMAIN Append(q, e) = 1 .. Len(q) + 1
        /\ \A i \in 1 .. Len(q) : Append(q, e)[i] = q[i]
        /\ Append(q, e)[Len(q) + 1] = e
    OBVIOUS
  <1>2. Range(Append(q, e)) = Range(q) \cup {e}
    BY <1>1 DEF Range
  <1>3. e \notin Range(q) /\ Distinct(q) => Distinct(Append(q, e))
    BY <1>1 DEF Range, Distinct
  <1> QED
    BY <1>1, <1>2, <1>3, Zenon

LEMMA Removed ==
  ASSUME NEW q \in Seq(State), q # <<>>, Distinct(q)
  PROVE  /\ Head(q) \in State /\ Tail(q) \in Seq(State)
         /\ Head(q) \in Range(q)
         /\ Range(Tail(q)) = Range(q) \ {Head(q)}
         /\ Distinct(Tail(q))
  <1>1. /\ Head(q) \in State /\ Tail(q) \in Seq(State)
        /\ Len(q) \in Nat \ {0} /\ DOMAIN q = 1 .. Len(q) /\ Head(q) = q[1]
        /\ DOMAIN Tail(q) = 1 .. Len(q) - 1
        /\ \A i \in 1 .. Len(q) - 1 : Tail(q)[i] = q[i + 1]
    OBVIOUS
  <1>2. Head(q) \in Range(q)
    BY <1>1 DEF Range
  <1>3. ASSUME NEW i \in DOMAIN q, q[i] # Head(q)
        PROVE  q[i] \in Range(Tail(q))
    <2>1. i - 1 \in DOMAIN Tail(q) /\ Tail(q)[i - 1] = q[i]
      BY <1>1, <1>3
    <2> QED
      BY <2>1, Zenon DEF Range
  <1>4. ASSUME NEW i \in DOMAIN Tail(q)
        PROVE  Tail(q)[i] \in Range(q) /\ Tail(q)[i] # Head(q)
    <2>1. i + 1 \in DOMAIN q /\ 1 \in DOMAIN q /\ Tail(q)[i] = q[i + 1] /\ i + 1 # 1
      BY <1>1
    <2> QED
      BY <1>1, <2>1, Zenon DEF Range, Distinct
  <1>5. Distinct(Tail(q))
    BY <1>1 DEF Distinct
  <1>6. Range(Tail(q)) = Range(q) \ {Head(q)}
    <2>1. \A x : x \in Range(Tail(q)) => x \in Range(q) /\ x # Head(q)
      BY <1>4, Zenon DEF Range
    <2>2. \A x : x \in Range(q) /\ x # Head(q) => x \in Range(Tail(q))
      BY <1>3, Zenon DEF Range
    <2> QED
      BY <2>1, <2>2, Zenon
  <1> QED
    BY <1>1, <1>2, <1>5, <1>6, Zenon

-----------------------------------------------------------------------------
(* What the steps do *)

\* There is a server, and the calls are different.
LEMMA ServerObject == Server \in Object
  BY ServerBoundsAssumption, Zenon DEF Server
LEMMA CallsDiffer ==
  /\ <<"accept", Server>> \in Call /\ <<"close", Server>> \in Call
  /\ <<"sleep">> \in Call /\ NoCall \in Call
  /\ <<"accept", Server>> # <<"close", Server>>
  /\ <<"accept", Server>> # <<"sleep">> /\ <<"accept", Server>> # NoCall
  /\ <<"close", Server>> # <<"sleep">> /\ <<"close", Server>> # NoCall
  /\ Args \in Value /\ <<"nil">> \in Value /\ <<>> \in Value
  /\ <<"nil">> # Args /\ <<>> # Args
  BY DEF Call, NoCall, Value, Args

\* luvL_cond_wait of s in the call op.
Parks(s, op) ==
  /\ status[s] = "running" /\ status' = [status EXCEPT ![s] = "parked"]
  /\ call' = [call EXCEPT ![s] = <<op, Server>>] /\ ret' = [ret EXCEPT ![s] = Args]
  /\ UNCHANGED risks
  /\ rouse' \in [Object -> Seq(State)]
  /\ rouse'[Server] # <<>>
  /\ ~Linked(s) /\ Range(rouse'[Server]) = Range(rouse[Server]) \cup {s}
  /\ Distinct(rouse[Server]) => Distinct(rouse'[Server])
LEMMA ParkEffect ==
  ASSUME ObjectTypeOK, NEW s \in State, NEW op, luvL_cond_wait(s, op, Server)
  PROVE  Parks(s, op)
  <1>1. rouse[Server] \in Seq(State) /\ rouse \in [Object -> Seq(State)]
    BY ServerObject, Zenon DEF ObjectTypeOK
  <1>2. /\ rouse' = [rouse EXCEPT ![Server] = Append(rouse[Server], s)]
        /\ ~Linked(s)
    BY ServerObject, Zenon DEF luvL_cond_wait, Linked
  <1>3. /\ rouse' \in [Object -> Seq(State)]
        /\ rouse'[Server] = Append(rouse[Server], s)
    BY <1>1, <1>2, Appended, ServerObject, Zenon
  <1>4. /\ rouse'[Server] # <<>>
        /\ Range(rouse'[Server]) = Range(rouse[Server]) \cup {s}
        /\ Distinct(rouse[Server]) => Distinct(rouse'[Server])
    BY <1>1, <1>2, <1>3, Appended, Zenon DEF Linked
  <1>5. /\ status[s] = "running" /\ status' = [status EXCEPT ![s] = "parked"]
        /\ call' = [call EXCEPT ![s] = <<op, Server>>] /\ ret' = [ret EXCEPT ![s] = Args]
        /\ UNCHANGED risks
    BY Zenon DEF luvL_cond_wait, Suspend, SuspendWith, States!Suspend, States!Move
  <1> QED
    BY <1>2, <1>3, <1>4, <1>5, Zenon DEF Parks

\* A signal when somebody waits: the first one is ready.
Rouses ==
  LET s == Head(rouse[Server]) IN
    /\ s \in State /\ Linked(s)
    /\ status' = [status EXCEPT ![s] = "ready"]
    /\ rouse' \in [Object -> Seq(State)]
    /\ Range(rouse'[Server]) = Range(rouse[Server]) \ {s}
    /\ Distinct(rouse'[Server])
LEMMA RouseEffect ==
  ASSUME TypeInv, QueueInv, rouse[Server] # <<>>, luvL_cond_signal(Server)
  PROVE  Rouses
  <1> DEFINE s == Head(rouse[Server])
  <1>1. rouse[Server] \in Seq(State) /\ rouse \in [Object -> Seq(State)]
    BY ServerObject, Zenon DEF TypeInv, ObjectTypeOK
  <1>2. RouseHead(Server)
    BY Zenon DEF luvL_cond_signal
  <1>3. /\ s \in State /\ Linked(s) /\ Tail(rouse[Server]) \in Seq(State)
        /\ Range(Tail(rouse[Server])) = Range(rouse[Server]) \ {s}
        /\ Distinct(Tail(rouse[Server]))
    BY <1>1, Removed, Zenon DEF QueueInv, Linked
  <1>4. /\ rouse' \in [Object -> Seq(State)]
        /\ rouse'[Server] = Tail(rouse[Server])
    BY <1>1, <1>2, <1>3, ServerObject, Zenon DEF RouseHead
  <1>5. status' = [status EXCEPT ![s] = "ready"]
    <2>1. status[s] = "parked"
      BY <1>3, Zenon DEF QueueInv
    <2> QED
      BY <1>2, <2>1, Zenon DEF RouseHead, Wake, States!Ready, States!Move
  <1> QED
    BY <1>3, <1>4, <1>5, Zenon DEF Rouses

\* What changing the flags of the server does.
LEMMA FlagEffect ==
  ASSUME ObjectTypeOK, NEW set \in SUBSET OFlag, NEW clear \in SUBSET OFlag,
         Flags(Server, set, clear)
  PROVE  /\ oflags' \in [Object -> SUBSET OFlag]
         /\ \A x : Is(Server, x)' <=> x \in set \/ (Is(Server, x) /\ x \notin clear)
  BY ServerObject, Zenon DEF ObjectTypeOK, Flags, Is
LEMMA FlagNames ==
  /\ {} \in SUBSET OFlag /\ {"OWAITING"} \in SUBSET OFlag
  /\ {"OCLOSING"} \in SUBSET OFlag /\ {"OCLOSED"} \in SUBSET OFlag
  /\ "OWAITING" # "OCLOSING" /\ "OWAITING" # "OCLOSED" /\ "OCLOSING" # "OCLOSED"
  BY Zenon DEF OFlag

-----------------------------------------------------------------------------
(* IInv is inductive *)

\* The invariant holds before the server listens.
LEMMA InitIInv == Init => IInv
  <1> SUFFICES ASSUME Init
               PROVE  IInv
    OBVIOUS
  <1>1. TypeInv
    BY ServerBoundsAssumption
       DEF Init, LoopInit, luvL_object_init, TypeInv, ObjectTypeOK, States!Status, Call, Value
  <1>2. /\ rouse[Server] = <<>> /\ Range(<<>>) = {} /\ Distinct(<<>>)
        /\ \A x : ~Is(Server, x)
    BY ServerObject DEF Init, luvL_object_init, Is, Range, Distinct
  <1>3. /\ \A s \in State : call[s] = NoCall /\ client[s] = 0
        /\ \A c \in 0 .. MaxConn : given[c] = 0
        /\ held = 0 /\ taken = 0
    BY Zenon DEF Init, LoopInit
  <1>4. QueueInv /\ ClientInv /\ CloseInv /\ HeldIsCounted /\ WaitingInv
    BY <1>2, <1>3, Zenon
       DEF QueueInv, ClientInv, CloseInv, HeldIsCounted, WaitingInv, Linked, Closing
  <1>5. ServedInv
    BY <1>3, CallsDiffer, ServerBoundsAssumption DEF ServedInv, Accepts, In
  <1>6. PlaceInv
    BY <1>3, ServerBoundsAssumption DEF PlaceInv, Placed, Nowhere
  <1> QED
    BY <1>1, <1>4, <1>5, <1>6, Zenon DEF IInv

\* A step that leaves the connections, the count and the object alone, and moves
\* only states that neither wait for the server nor are about to return from it.
LEMMA Elsewhere ==
  ASSUME IInv, UNCHANGED <<objVars, count, held, taken, clientVars, risks>>,
         status' \in [State -> States!Status], call' \in [State -> Call],
         ret' \in [State -> Value],
         \A s \in State :
           \/ status'[s] = status[s] /\ call'[s] = call[s] /\ ret'[s] = ret[s]
           \/ /\ ~Linked(s) /\ client[s] = 0 /\ ~Accepts(s)'
              /\ status'[s] = "running" => call'[s] = NoCall
  PROVE  IInv'
  <1>1. TypeInv'
    BY Zenon DEF IInv, TypeInv, ObjectTypeOK, objVars, clientVars
  <1>2. /\ \A s \in State : Linked(s)' <=> Linked(s)
        /\ \A x : Is(Server, x)' <=> Is(Server, x)
        /\ Closing' <=> Closing
        /\ Shared' <=> Shared
    BY Zenon DEF Linked, Is, Closing, Shared, objVars
  <1>3. QueueInv'
    BY <1>2, Zenon DEF IInv, QueueInv, Accepts, In, objVars, clientVars
  <1>4. ClientInv'
    BY <1>2, Zenon DEF IInv, ClientInv, Accepts, In, clientVars
  <1>5. ServedInv'
    BY <1>2, Zenon DEF IInv, ServedInv, Accepts, In, clientVars
  <1>6. CloseInv'
    BY <1>2, Zenon DEF IInv, CloseInv, Accepts, In, objVars
  <1>7. PlaceInv' /\ HeldIsCounted' /\ WaitingInv'
    BY <1>2, Zenon DEF IInv, PlaceInv, Placed, Nowhere, HeldIsCounted, WaitingInv, objVars, clientVars
  <1> QED
    BY <1>1, <1>3, <1>4, <1>5, <1>6, <1>7, Zenon DEF IInv

\* The state that runs neither waits nor has a connection it did not return.
LEMMA RunningFree ==
  ASSUME IInv, NEW s \in State, status[s] = "running"
  PROVE  ~Linked(s) /\ client[s] = 0 /\ ~Accepts(s)
  BY CallsDiffer, Zenon DEF IInv, QueueInv, ClientInv, Accepts, In

\* Calls that return at once and have nothing to do with connections, and sleep.
LEMMA AsideStep ==
  ASSUME IInv, NEW s \in State, luv_stream_listen(s) \/ Sleeps(s) \/ SleepCb(s)
  PROVE  IInv'
  <1> USE DEF IInv, TypeInv
  <1>u. UNCHANGED <<objVars, count, held, taken, clientVars, risks>>
    BY Zenon DEF luv_stream_listen, Sleeps, SleepCb, Return, luv_sleep, Suspend, SuspendWith,
                 sleep_cb, netVars, pollVars
  <1>1. CASE luv_stream_listen(s)
    <2>1. /\ status[s] = "running" /\ UNCHANGED <<status, call>>
          /\ ret' = [ret EXCEPT ![s] = <<>>]
      BY <1>1, Zenon DEF luv_stream_listen, Return, Running, pollVars
    <2>2. ret' \in [State -> Value] /\ \A t \in State \ {s} : ret'[t] = ret[t]
      BY <2>1, CallsDiffer, Zenon
    <2>3. ~Linked(s) /\ client[s] = 0 /\ ~Accepts(s)' /\ call'[s] = NoCall
      BY <2>1, RunningFree, Zenon DEF Accepts, In, ClientInv
    <2> QED
      BY <1>u, <2>1, <2>2, <2>3, Elsewhere, Zenon
  <1>2. CASE Sleeps(s)
    <2>1. /\ status[s] = "running" /\ status' = [status EXCEPT ![s] = "parked"]
          /\ call' = [call EXCEPT ![s] = <<"sleep">>] /\ ret' = [ret EXCEPT ![s] = Args]
      BY <1>2, Zenon DEF Sleeps, luv_sleep, Suspend, SuspendWith, States!Suspend, States!Move
    <2>2. /\ status' \in [State -> States!Status] /\ call' \in [State -> Call]
          /\ ret' \in [State -> Value]
          /\ \A t \in State \ {s} :
               status'[t] = status[t] /\ call'[t] = call[t] /\ ret'[t] = ret[t]
      BY <2>1, CallsDiffer, Zenon DEF States!Status
    <2>3. ~Linked(s) /\ client[s] = 0 /\ ~Accepts(s)' /\ status'[s] # "running"
      BY <2>1, RunningFree, CallsDiffer, Zenon DEF Accepts, In
    <2> QED
      BY <1>u, <2>2, <2>3, Elsewhere, Zenon
  <1>3. CASE SleepCb(s)
    <2>1. /\ status[s] = "parked" /\ call[s] = <<"sleep">>
          /\ status' = [status EXCEPT ![s] = "ready"] /\ UNCHANGED <<call, ret>>
      BY <1>3, Zenon DEF SleepCb, sleep_cb, Wake, States!Ready, States!Move, pollVars
    <2>2. /\ status' \in [State -> States!Status]
          /\ \A t \in State \ {s} : status'[t] = status[t]
      BY <2>1, Zenon DEF States!Status
    <2>3. ~Linked(s) /\ client[s] = 0 /\ ~Accepts(s)' /\ status'[s] # "running"
      BY <2>1, CallsDiffer, Zenon DEF Accepts, In, QueueInv, ClientInv
    <2> QED
      BY <1>u, <2>1, <2>2, <2>3, Elsewhere, Zenon
  <1> QED
    BY <1>1, <1>2, <1>3, Zenon

\* Where the connections are after one of them has moved to an accept that returns.
LEMMA PlaceGiven ==
  ASSUME IInv, NEW c \in 1 .. MaxConn, taken' = taken, Closing' <=> Closing,
         given' = [given EXCEPT ![c] = @ + 1],
         client' \in [State -> 0 .. MaxConn],
         \/ held = c /\ held' = 0 /\ client' = client
         \/ /\ held' = held
            /\ \E s \in State : client[s] = c /\ client' = [client EXCEPT ![s] = 0]
  PROVE  PlaceInv'
  <1> USE DEF IInv, TypeInv
  <1>1. /\ c \in 0 .. MaxConn /\ c # 0 /\ given[c] = 0 /\ given'[c] = 1
        /\ \A d \in 1 .. MaxConn : d # c => given'[d] = given[d]
    BY ServerBoundsAssumption DEF PlaceInv, Placed
  <1>2. /\ held' # c /\ \A s \in State : client'[s] # c
        /\ c <= taken
    BY <1>1 DEF PlaceInv, Placed, Nowhere
  <1>3. ASSUME NEW d \in 1 .. MaxConn, d # c
        PROVE  /\ held' = d <=> held = d
               /\ \A s \in State : client'[s] = d <=> client[s] = d
    BY <1>1, <1>3
  <1> QED
    BY <1>1, <1>2, <1>3 DEF PlaceInv, Placed, Nowhere

\* Where they are when none moves, but for the one that libuv drops at a close.
LEMMA PlaceKept ==
  ASSUME IInv, UNCHANGED <<taken, given, client>>,
         \/ UNCHANGED held /\ (Closing => Closing')
         \/ held' = 0 /\ Closing'
  PROVE  PlaceInv'
  BY DEF IInv, PlaceInv, Placed, Nowhere

\* The call a state was suspended in returns.
LEMMA ResumesStep ==
  ASSUME IInv, NEW s \in State, Resumes(s)
  PROVE  IInv'
  <1> USE DEF IInv, TypeInv
  <1>1. /\ status[s] = "ready" /\ status' = [status EXCEPT ![s] = "running"]
        /\ call' = [call EXCEPT ![s] = NoCall] /\ ret' = [ret EXCEPT ![s] = ret[s]]
        /\ client' = [client EXCEPT ![s] = 0]
        /\ UNCHANGED <<oflags, rouse, count, held, taken, risks>>
    BY Zenon DEF Resumes, Resume, ResumeWith, States!Resume, States!Move, objVars, netVars
  <1>2. /\ status' \in [State -> States!Status] /\ call' \in [State -> Call]
        /\ ret' = ret /\ client' \in [State -> 0 .. MaxConn]
        /\ status'[s] = "running" /\ call'[s] = NoCall /\ client'[s] = 0
        /\ \A t \in State \ {s} :
             status'[t] = status[t] /\ call'[t] = call[t] /\ client'[t] = client[t]
    <2>1. 0 \in 0 .. MaxConn
      BY ServerBoundsAssumption
    <2> QED
      BY <1>1, <2>1, CallsDiffer, Zenon DEF States!Status
  <1>3. /\ \A t \in State : Linked(t)' <=> Linked(t)
        /\ \A x : Is(Server, x)' <=> Is(Server, x)
        /\ Closing' <=> Closing
        /\ Shared' <=> Shared
        /\ ~Linked(s) /\ ~Accepts(s)'
    BY <1>1, <1>2, CallsDiffer, Zenon DEF Linked, Is, Closing, Shared, QueueInv, Accepts, In
  <1>4. QueueInv' /\ ClientInv' /\ CloseInv' /\ HeldIsCounted' /\ WaitingInv'
    <2>1. QueueInv'
      BY <1>1, <1>2, <1>3, Zenon DEF QueueInv, Accepts, In
    <2>2. ClientInv'
      BY <1>2, Zenon DEF ClientInv, Accepts, In
    <2>3. CloseInv'
      BY <1>1, <1>2, <1>3, Zenon DEF CloseInv, Accepts, In
    <2>4. HeldIsCounted' /\ WaitingInv'
      BY <1>1, <1>3, Zenon DEF HeldIsCounted, WaitingInv
    <2> QED
      BY <2>1, <2>2, <2>3, <2>4, Zenon
  <1>5. CASE Accepts(s) /\ ret[s] = Args
    <2>1. given' = [given EXCEPT ![client[s]] = @ + 1]
      BY <1>5, Zenon DEF Resumes, Gives, Accepts
    <2>2. given' \in [0 .. MaxConn -> Nat]
      BY <2>1
    <2>3. given'[0] = 0 \/ Shared
      <3>1. client[s] # 0 \/ Shared
        BY <1>3, <1>5, Zenon DEF ServedInv
      <3>2. client[s] # 0 => given'[0] = given[0]
        BY <2>1, ServerBoundsAssumption
      <3> QED
        BY <3>1, <3>2, Zenon DEF ServedInv
    <2>4. PlaceInv'
      <3>1. CASE client[s] # 0
        <4>1. client[s] \in 1 .. MaxConn
          BY <3>1
        <4> QED
          BY <1>1, <1>2, <1>3, <2>1, <4>1, PlaceGiven, ZenonT(60)
      <3>2. CASE client[s] = 0
        <4>1. client' = client
          BY <1>1, <3>2
        <4>2. \A c \in 1 .. MaxConn : given'[c] = given[c]
          BY <2>1, <3>2
        <4> QED
          BY <1>1, <1>3, <4>1, <4>2 DEF PlaceInv, Placed, Nowhere
      <3> QED
        BY <3>1, <3>2, Zenon
    <2>5. ServedInv'
      BY <1>2, <1>3, <2>3, Zenon DEF ServedInv, Accepts, In
    <2> QED
      BY <1>1, <1>2, <1>4, <2>2, <2>4, <2>5, Zenon DEF ObjectTypeOK
  <1>6. CASE ~(Accepts(s) /\ ret[s] = Args)
    <2>1. given' = given
      BY <1>6, Zenon DEF Resumes, Accepts
    <2>2. client' = client
      <3>1. client[s] = 0
        BY <1>6, Zenon DEF ClientInv
      <3> QED
        BY <1>1, <3>1
    <2>3. PlaceInv'
      BY <1>1, <1>3, <2>1, <2>2, PlaceKept, Zenon
    <2>4. ServedInv'
      BY <1>2, <1>3, <2>1, Zenon DEF ServedInv, Accepts, In
    <2> QED
      BY <1>1, <1>2, <1>4, <2>1, <2>3, <2>4, Zenon DEF ObjectTypeOK
  <1> QED
    BY <1>5, <1>6, Zenon

\* A report that was counted is used up together with the connection held.
LEMMA CountedStep ==
  ASSUME IInv, NEW s \in State, luv_stream_accept_counted(s)
  PROVE  IInv'
  <1> USE DEF IInv, TypeInv
  <1>1. /\ status[s] = "running" /\ count > 0 /\ count' = count - 1 /\ held' = 0
        /\ UNCHANGED <<oflags, rouse, taken, client, status, call, risks>>
    BY Zenon DEF luv_stream_accept_counted, Running, Return, objVars, pollVars
  <1>2. /\ ret' \in [State -> Value]
        /\ \A t \in State \ {s} : ret'[t] = ret[t]
    BY CallsDiffer, Zenon DEF luv_stream_accept_counted, Return
  <1>3. ~Linked(s) /\ client[s] = 0 /\ ~Accepts(s)
    BY <1>1, RunningFree, Zenon
  <1>4. /\ \A t \in State : (Linked(t)' <=> Linked(t)) /\ (Accepts(t)' <=> Accepts(t))
        /\ \A x : Is(Server, x)' <=> Is(Server, x)
        /\ Closing' <=> Closing
        /\ Shared' <=> Shared
    BY <1>1, Zenon DEF Linked, Is, Closing, Shared, Accepts, In
  <1>5. given' \in [0 .. MaxConn -> Nat] /\ given'[0] = given[0] /\ PlaceInv'
    <2>1. CASE held # 0
      <3>1. given' = [given EXCEPT ![held] = @ + 1] /\ held \in 1 .. MaxConn
        BY <2>1 DEF luv_stream_accept_counted, Gives
      <3>2. PlaceInv'
        <4>1. client' \in [State -> 0 .. MaxConn]
          BY <1>1, Zenon
        <4> QED
          BY <1>1, <1>4, <3>1, <4>1, PlaceGiven, ZenonT(60)
      <3> QED
        BY <3>1, <3>2, ServerBoundsAssumption
    <2>2. CASE held = 0
      <3>1. given' = given
        BY <2>2, Zenon DEF luv_stream_accept_counted
      <3> QED
        BY <1>1, <1>4, <2>2, <3>1, PlaceKept, Zenon
    <2> QED
      BY <2>1, <2>2, Zenon
  <1>6. QueueInv'
    BY <1>1, <1>2, <1>3, <1>4, Zenon DEF QueueInv, In
  <1>7. ClientInv' /\ ServedInv'
    BY <1>1, <1>2, <1>3, <1>4, <1>5, Zenon DEF ClientInv, ServedInv
  <1>8. CloseInv' /\ HeldIsCounted' /\ WaitingInv'
    BY <1>1, <1>4, Zenon DEF CloseInv, HeldIsCounted, WaitingInv
  <1>9. TypeInv'
    BY <1>1, <1>2, <1>5, ServerBoundsAssumption DEF ObjectTypeOK
  <1> QED
    BY <1>5, <1>6, <1>7, <1>8, <1>9, Zenon

\* A state waits in accept, or asks for the close and waits for it.
LEMMA WaitStep ==
  ASSUME IInv, NEW s \in State, NEW op \in {"accept", "close"},
         luvL_cond_wait(s, op, Server), Alone,
         UNCHANGED <<taken, count, clientVars>>,
         \/ op = "accept" /\ Flags(Server, {"OWAITING"}, {}) /\ UNCHANGED held
         \/ op = "close" /\ Flags(Server, {"OCLOSING"}, {}) /\ held' = 0
  PROVE  IInv'
  <1> USE DEF IInv, TypeInv
  <1>1. Parks(s, op)
    BY ParkEffect, Zenon
  <1>2. /\ oflags' \in [Object -> SUBSET OFlag]
        /\ Closing' <=> Closing \/ op = "close"
        /\ Is(Server, "OCLOSED")' <=> Is(Server, "OCLOSED")
    <2>o. ObjectTypeOK /\ "accept" # "close"
      OBVIOUS
    <2> HIDE DEF IInv, TypeInv
    <2>1. CASE op = "accept" /\ Flags(Server, {"OWAITING"}, {})
      BY <2>o, <2>1, FlagEffect, FlagNames, ZenonT(60) DEF Closing
    <2>2. CASE op = "close" /\ Flags(Server, {"OCLOSING"}, {})
      BY <2>o, <2>2, FlagEffect, FlagNames, ZenonT(60) DEF Closing
    <2> QED
      BY <2>1, <2>2, Zenon
  <1>3. /\ status' \in [State -> States!Status] /\ call' \in [State -> Call]
        /\ ret' \in [State -> Value]
        /\ \A t \in State \ {s} :
             status'[t] = status[t] /\ call'[t] = call[t] /\ ret'[t] = ret[t]
        /\ status[s] = "running" /\ status'[s] = "parked"
        /\ call'[s] = <<op, Server>> /\ ret'[s] = Args
    BY <1>1, CallsDiffer, Zenon DEF Parks, States!Status
  <1>4. /\ ~Linked(s) /\ client[s] = 0 /\ client' = client /\ given' = given
        /\ \A t \in State : Linked(t)' <=> Linked(t) \/ t = s
    BY <1>1, <1>3, RunningFree, Zenon DEF Parks, Linked, clientVars
  <1>5. /\ Accepts(s)' <=> op = "accept"
        /\ In(s, "close", Server)' <=> op = "close"
        /\ \A t \in State \ {s} :
             /\ Accepts(t)' <=> Accepts(t)
             /\ In(t, "close", Server)' <=> In(t, "close", Server)
    BY <1>3, CallsDiffer, Zenon DEF Accepts, In
  <1>6. TypeInv'
    <2>1. held' \in 0 .. MaxConn
      BY ServerBoundsAssumption
    <2> QED
      BY <1>1, <1>2, <1>3, <1>4, <2>1, Zenon DEF Parks, ObjectTypeOK
  <1>7. QueueInv'
    BY <1>1, <1>2, <1>3, <1>4, <1>5, Zenon DEF Parks, QueueInv
  <1>8. ClientInv'
    BY <1>3, <1>4, <1>5, Zenon DEF ClientInv
  <1>9. ServedInv'
    <2>1. Shared => Shared'
      BY <1>1, <1>2, Zenon DEF Shared, Parks
    <2> QED
      BY <1>3, <1>4, <1>5, <2>1, Zenon DEF ServedInv
  <1>10. CloseInv'
    <2> SUFFICES ASSUME Closing', ~Is(Server, "OCLOSED")', "share" \notin risks,
                        NEW t \in State, Linked(t)'
                 PROVE  ~Accepts(t)'
      BY <1>1, Zenon DEF CloseInv, Parks
    <2>1. rouse[Server] = <<>>
      BY Zenon DEF Alone
    <2>2. op = "close"
      BY <1>2, <2>1, Zenon DEF CloseInv
    <2>3. t = s
      <3>1. ~Linked(t)
        BY <2>1 DEF Linked, Range
      <3> QED
        BY <1>4, <3>1, Zenon
    <2> QED
      BY <1>5, <2>2, <2>3, Zenon
  <1>11. PlaceInv'
    BY <1>2, <1>4, PlaceKept, Zenon
  <1>12. HeldIsCounted' /\ WaitingInv'
    BY <1>1, <1>2, Zenon DEF HeldIsCounted, WaitingInv, Parks
  <1> QED
    BY <1>6, <1>7, <1>8, <1>9, <1>10, <1>11, <1>12, Zenon

\* What is reported is a failure, or the next connection, of which nobody knows.
LEMMA Reported ==
  ASSUME IInv, NEW h \in 0 .. MaxConn, Reports(h)
  PROVE  /\ ~Closing /\ held = 0 /\ taken' \in Nat
         /\ \/ h = 0 /\ taken' = taken
            \/ h = taken + 1 /\ taken' = h /\ h \in 1 .. MaxConn /\ Nowhere(h)
  <1>1. ~Closing /\ held = 0
    BY Zenon DEF Reports
  <1>2. CASE h = 0 /\ taken' = taken
    BY <1>1, <1>2, Zenon DEF IInv, TypeInv
  <1>3. CASE h = taken + 1 /\ taken' = h
    <2>1. h \in 1 .. MaxConn /\ h > taken /\ h \in Nat
      BY <1>3, ServerBoundsAssumption DEF IInv, TypeInv
    <2> QED
      BY <1>1, <1>3, <2>1, Zenon DEF IInv, PlaceInv, Placed
  <1> QED
    BY <1>2, <1>3, Zenon DEF Reports

\* Where the connections are after a report: a new one is with libuv or in a stream.
LEMMA PlaceReported ==
  ASSUME IInv, NEW h \in 0 .. MaxConn, Reports(h), UNCHANGED given, Closing' <=> Closing,
         \/ held' = h /\ client' = client
         \/ /\ held' = held
            /\ \E s \in State : client[s] = 0 /\ client' = [client EXCEPT ![s] = h]
  PROVE  PlaceInv'
  <1> USE DEF IInv, TypeInv
  <1>1. CASE h = 0 /\ taken' = taken
    <2>1. held' = held /\ client' = client
      BY <1>1, Reported
    <2> QED
      BY <1>1, <2>1, PlaceKept, Zenon
  <1>2. CASE h = taken + 1 /\ taken' = h /\ h \in 1 .. MaxConn /\ Nowhere(h)
    <2>1. /\ held = 0 /\ given[h] = 0 /\ \A s \in State : client[s] # h
      BY <1>2, Reported, Zenon DEF Nowhere
    <2>2. ASSUME NEW c \in 1 .. MaxConn, c # h
          PROVE  /\ held' = c <=> held = c
                 /\ \A s \in State : client'[s] = c <=> client[s] = c
                 /\ c <= taken' <=> c <= taken
                 /\ c > taken' <=> c > taken
      BY <1>2, <2>1, <2>2
    <2>3. /\ \A s, t \in State : client'[s] = h /\ client'[t] = h => s = t
          /\ \A s \in State : client'[s] = h => held' # h
          /\ held' = h \/ \E s \in State : client'[s] = h
      BY <1>2, <2>1
    <2>4. ~(h > taken')
      BY <1>2
    <2>5. Placed(h)'
      BY <2>1, <2>3, <2>4 DEF Placed, Nowhere
    <2>6. ASSUME NEW c \in 1 .. MaxConn, c # h
          PROVE  Placed(c)'
      <3>1. Placed(c)
        BY Zenon DEF PlaceInv
      <3>2. Nowhere(c)' <=> Nowhere(c)
        BY <2>2, <2>6, Zenon DEF Nowhere
      <3> HIDE DEF IInv
      <3> QED
        BY <2>2, <2>6, <3>1, <3>2, Zenon DEF Placed
    <2> QED
      BY <1>2, <2>5, <2>6, Zenon DEF PlaceInv
  <1> QED
    BY <1>1, <1>2, Reported, Zenon

\* The connection goes to the first state that waits.
LEMMA AcceptsStep ==
  ASSUME IInv, NEW h \in 0 .. MaxConn, _listen_cb_accepts(h)
  PROVE  IInv'
  <1> DEFINE s == Head(rouse[Server])
  <1>1. /\ ~Closing /\ held = 0 /\ taken' \in Nat /\ Reports(h)
        /\ rouse[Server] # <<>>
    BY Reported, Zenon DEF _listen_cb_accepts, WaitingInv, IInv
  <1>2. Rouses
    BY <1>1, RouseEffect, Zenon DEF _listen_cb_accepts, IInv
  <1> HIDE DEF s
  <1>s. /\ s \in State /\ Linked(s)
        /\ status' = [status EXCEPT ![s] = "ready"]
        /\ rouse' \in [Object -> Seq(State)]
        /\ Range(rouse'[Server]) = Range(rouse[Server]) \ {s}
        /\ Distinct(rouse'[Server])
    BY <1>2, Zenon DEF s, Rouses
  <1>3. /\ client' = [client EXCEPT ![s] = h]
        /\ ret' = IF h = 0 THEN [ret EXCEPT ![s] = <<"nil">>] ELSE ret
        /\ UNCHANGED <<call, risks, held, count, given>>
    BY Zenon DEF s, _listen_cb_accepts, pollVars
  <1>4. /\ oflags' \in [Object -> SUBSET OFlag]
        /\ ~Is(Server, "OWAITING")' /\ (Closing' <=> Closing)
    <2>1. ObjectTypeOK /\ Flags(Server, {}, {"OWAITING"})
      BY Zenon DEF _listen_cb_accepts, IInv, TypeInv
    <2> QED
      BY <2>1, FlagEffect, FlagNames, ZenonT(60) DEF Closing
  <1> USE DEF IInv, TypeInv
  <1>5. Accepts(s) /\ ret[s] = Args /\ client[s] = 0 /\ status[s] = "parked"
    BY <1>1, <1>s, Zenon DEF QueueInv
  <1>6. /\ status' \in [State -> States!Status] /\ ret' \in [State -> Value]
        /\ client' \in [State -> 0 .. MaxConn]
        /\ status'[s] = "ready" /\ client'[s] = h
        /\ IF h = 0 THEN ret'[s] = <<"nil">> ELSE ret'[s] = Args
        /\ \A t \in State \ {s} :
             status'[t] = status[t] /\ ret'[t] = ret[t] /\ client'[t] = client[t]
        /\ \A t \in State :
             /\ Linked(t)' <=> Linked(t) /\ t # s
             /\ Accepts(t)' <=> Accepts(t)
             /\ In(t, "close", Server)' <=> In(t, "close", Server)
    <2>1. CASE h = 0
      BY <1>s, <1>3, <1>5, <2>1, CallsDiffer, Zenon DEF States!Status, Linked, Accepts, In
    <2>2. CASE h # 0
      BY <1>s, <1>3, <1>5, <2>2, Zenon DEF States!Status, Linked, Accepts, In
    <2> QED
      BY <2>1, <2>2, Zenon
  <1>7. QueueInv'
    BY <1>1, <1>s, <1>4, <1>6, Zenon DEF QueueInv
  <1>8. ClientInv'
    BY <1>3, <1>5, <1>6, Zenon DEF ClientInv
  <1>9. ServedInv'
    <2>1. Shared' <=> Shared
      BY <1>3, <1>4, Zenon DEF Shared
    <2> QED
      BY <1>3, <1>6, <2>1, CallsDiffer, Zenon DEF ServedInv
  <1>10. PlaceInv'
    BY <1>1, <1>s, <1>3, <1>4, <1>5, PlaceReported, Zenon
  <1>11. CloseInv' /\ HeldIsCounted' /\ WaitingInv'
    BY <1>1, <1>3, <1>4, Zenon DEF CloseInv, HeldIsCounted, WaitingInv
  <1>12. TypeInv'
    BY <1>1, <1>s, <1>3, <1>4, <1>6, Zenon DEF ObjectTypeOK
  <1> QED
    BY <1>7, <1>8, <1>9, <1>10, <1>11, <1>12, Zenon

\* Nobody waits: the connection stays with libuv, and the report is counted.
LEMMA CountsStep ==
  ASSUME IInv, NEW h \in 0 .. MaxConn, _listen_cb_counts(h)
  PROVE  IInv'
  <1> USE DEF IInv, TypeInv
  <1>1. /\ held' = h /\ count' = count + 1
        /\ UNCHANGED <<oflags, rouse, status, call, ret, client, given, risks>>
    BY Zenon DEF _listen_cb_counts, objVars, clientVars, loopVars, pollVars
  <1>2. ~Closing /\ taken' \in Nat /\ Reports(h)
    BY Reported, Zenon DEF _listen_cb_counts
  <1>3. /\ \A t \in State : (Linked(t)' <=> Linked(t)) /\ (Accepts(t)' <=> Accepts(t))
        /\ \A x : Is(Server, x)' <=> Is(Server, x)
        /\ Closing' <=> Closing
        /\ Shared' <=> Shared
    BY <1>1, Zenon DEF Linked, Is, Closing, Shared, Accepts, In
  <1>4. QueueInv' /\ ClientInv' /\ ServedInv' /\ CloseInv' /\ WaitingInv'
    BY <1>1, <1>3, Zenon DEF QueueInv, ClientInv, ServedInv, CloseInv, WaitingInv, In
  <1>5. PlaceInv'
    BY <1>1, <1>2, <1>3, PlaceReported, Zenon
  <1>6. TypeInv' /\ HeldIsCounted'
    BY <1>1, <1>2 DEF ObjectTypeOK, HeldIsCounted
  <1> QED
    BY <1>4, <1>5, <1>6, Zenon

\* The close callback comes when the server is closing already, and wakes the first
\* that waits: its closer, but with "share".
LEMMA ClosedStep ==
  ASSUME IInv, ServerClosed
  PROVE  IInv'
  <1> DEFINE s == Head(rouse[Server])
  <1>1. /\ Closing /\ ~Is(Server, "OCLOSED")
        /\ Flags(Server, {"OCLOSED"}, {}) /\ luvL_cond_signal(Server)
        /\ UNCHANGED <<call, ret, risks, count, held, taken, client, given>>
    BY Zenon DEF ServerClosed, luvL_object_close_cb, Closing, netVars, clientVars, pollVars
  <1>2. Rouses
    BY <1>1, RouseEffect, Zenon DEF CloseInv, IInv
  <1> HIDE DEF s
  <1>s. /\ s \in State /\ Linked(s)
        /\ status' = [status EXCEPT ![s] = "ready"]
        /\ rouse' \in [Object -> Seq(State)]
        /\ Range(rouse'[Server]) = Range(rouse[Server]) \ {s}
        /\ Distinct(rouse'[Server])
    BY <1>2, Zenon DEF s, Rouses
  <1>3. /\ oflags' \in [Object -> SUBSET OFlag]
        /\ Closing' /\ Is(Server, "OCLOSED")'
    <2>1. ObjectTypeOK
      BY Zenon DEF IInv, TypeInv
    <2> QED
      BY <1>1, <2>1, FlagEffect, FlagNames, ZenonT(60) DEF Closing
  <1> USE DEF IInv, TypeInv
  <1>4. /\ status' \in [State -> States!Status] /\ status'[s] = "ready"
        /\ \A t \in State \ {s} : status'[t] = status[t]
        /\ \A t \in State :
             /\ Linked(t)' <=> Linked(t) /\ t # s
             /\ Accepts(t)' <=> Accepts(t)
             /\ In(t, "close", Server)' <=> In(t, "close", Server)
    BY <1>1, <1>s, Zenon DEF States!Status, Linked, Accepts, In
  <1>5. QueueInv'
    BY <1>1, <1>s, <1>3, <1>4, Zenon DEF QueueInv
  <1>6. ClientInv'
    BY <1>1, <1>4, Zenon DEF ClientInv
  <1>7. ServedInv'
    <2>1. Shared' <=> Shared
      BY <1>1, <1>3, Zenon DEF Shared
    <2>2. Accepts(s) => Shared
      BY <1>1, <1>s, Zenon DEF CloseInv, Shared
    <2> QED
      BY <1>1, <1>4, <2>1, <2>2, Zenon DEF ServedInv
  <1>8. PlaceInv'
    BY <1>1, <1>3, PlaceKept, Zenon
  <1>9. CloseInv' /\ HeldIsCounted' /\ WaitingInv'
    BY <1>3, Zenon DEF CloseInv, HeldIsCounted, WaitingInv
  <1>10. TypeInv'
    BY <1>1, <1>s, <1>3, <1>4, Zenon DEF ObjectTypeOK
  <1> QED
    BY <1>5, <1>6, <1>7, <1>8, <1>9, <1>10, Zenon

\* Every behaviour satisfies the invariant.
LEMMA Invariance == Spec => []IInv
  <1>1. IInv /\ [Next]_vars => IInv'
    <2> SUFFICES ASSUME IInv, [Next]_vars
                 PROVE  IInv'
      OBVIOUS
    <2>1. CASE UNCHANGED vars \/ Arrives
      <3>1. UNCHANGED <<objVars, count, held, taken, clientVars, risks, status, call, ret>>
        BY <2>1, Zenon DEF vars, Arrives, loopVars, pollVars, netVars
      <3> QED
        BY <3>1, Elsewhere, Zenon DEF IInv, TypeInv
    <2>2. ASSUME NEW s \in State, luv_stream_listen(s) \/ Sleeps(s) \/ SleepCb(s)
          PROVE  IInv'
      BY <2>2, AsideStep, Zenon
    <2>3. ASSUME NEW s \in State, luv_stream_accept_counted(s) \/ Resumes(s)
          PROVE  IInv'
      BY <2>3, CountedStep, ResumesStep, Zenon
    <2>4. ASSUME NEW s \in State, luv_stream_accept(s)
          PROVE  IInv'
      <3>1. /\ luvL_cond_wait(s, "accept", Server) /\ Flags(Server, {"OWAITING"}, {})
            /\ Alone /\ UNCHANGED <<taken, count, clientVars>> /\ UNCHANGED held
        BY <2>4, Zenon DEF luv_stream_accept, netVars
      <3> QED
        BY <3>1, WaitStep, Zenon
    <2>5. ASSUME NEW s \in State, luv_stream_close(s)
          PROVE  IInv'
      <3>1. /\ luvL_cond_wait(s, "close", Server) /\ Flags(Server, {"OCLOSING"}, {})
            /\ Alone /\ UNCHANGED <<taken, count, clientVars>> /\ held' = 0
        BY <2>5, Zenon DEF luv_stream_close, luvL_object_close
      <3> QED
        BY <3>1, WaitStep, Zenon
    <2>6. ASSUME NEW h \in 0 .. MaxConn, _listen_cb_accepts(h) \/ _listen_cb_counts(h)
          PROVE  IInv'
      BY <2>6, AcceptsStep, CountsStep, Zenon
    <2>7. CASE ServerClosed
      BY <2>7, ClosedStep, Zenon
    <2> QED
      BY <2>1, <2>2, <2>3, <2>4, <2>5, <2>6, <2>7, Zenon DEF Next, ListenCb
  <1> QED
    BY InitIInv, <1>1, PTL DEF Spec

-----------------------------------------------------------------------------
(* Theorems *)

\* What accept returns as a success has a connection in it, whether it came at once
\* (luv_stream_accept) or through _listen_cb, and every connection is returned to one
\* accept only and is not lost, with any number of fibers that accept.
THEOREM AcceptsOnce == Spec => []ConnsOnce
  <1>1. IInv => ConnsOnce
    <2> SUFFICES ASSUME IInv
                 PROVE  ConnsOnce
      OBVIOUS
    <2>1. given[0] = 0 \/ (Closing /\ "share" \in risks)
      BY Zenon DEF IInv, ServedInv, Shared
    <2>2. ASSUME NEW c \in 1 .. MaxConn
          PROVE  /\ given[c] <= 1
                 /\ given[c] = 1 => {s \in State : client[s] = c} = {} /\ held # c
                 /\ \A s \in {t \in State : client[t] = c} :
                      {t \in State : client[t] = c} = {s} /\ held # c
                 /\ ~Closing /\ c <= taken =>
                      given[c] = 1 \/ {s \in State : client[s] = c} # {} \/ held = c
      BY DEF IInv, PlaceInv, Placed, Nowhere
    <2> QED
      BY <2>1, <2>2, Zenon DEF ConnsOnce
  <1> QED
    BY Invariance, <1>1, PTL

\* A connection libuv holds is never forgotten: self->count says that it is there.
THEOREM CountCoversHeld == Spec => []HeldIsCounted
  <1>1. IInv => HeldIsCounted
    BY Zenon DEF IInv
  <1> QED
    BY Invariance, <1>1, PTL

\* When _listen_cb finds OWAITING set, the queue whose head it takes is not empty,
\* however many states accept and close.
THEOREM ListenFindsWaiter == Spec => []WaitingInv
  <1>1. IInv => WaitingInv
    BY Zenon DEF IInv
  <1> QED
    BY Invariance, <1>1, PTL
=============================================================================
