--------------------------- MODULE LuvZmq_proof ---------------------------
(***************************************************************************)
(* MessagesInOrder, SentIsAccepted and CloseCloses of LuvZmq, for any      *)
(* number of fibers and messages, any high-water mark and every set of     *)
(* risks.                                                                  *)
(***************************************************************************)
EXTENDS LuvZmq, TLAPS

Msg == 1 .. MaxMsg
Call == {NoCall, <<"sleep">>, <<"recv", Socket>>, <<"send", Socket>>}

\* What a call of the socket may find on the stack.
Value ==
  {Args, <<"false">>, <<"closed">>} \cup {<<"msg", k>> : k \in Msg}
    \cup {<<"data", n>> : n \in Msg}

\* The part of the type invariant that the proofs need.
TypeInv ==
  /\ ObjectTypeOK
  /\ status \in [State -> States!Status]
  /\ call \in [State -> Call] /\ ret \in [State -> Value]
  /\ sendq \in Seq(State)
  /\ inbox \in Seq(Nat) /\ arrived \in 0 .. MaxMsg /\ got \in [State -> Seq(Nat)]
  /\ passed \in 0 .. MaxMsg
  /\ accepted \in [Msg -> Nat] /\ told \in [Msg -> Nat]

Linked(s) == s \in Range(rouse[Socket])
Queued(s) == s \in Range(sendq)
Distinct(q) == \A i, j \in DOMAIN q : q[i] = q[j] => i = j

\* s is in send with message n on its stack.
Holds(s, n) == In(s, "send", Socket) /\ ret[s] = <<"data", n>>

\* A state is in one queue at most, once and parked, a receiver with its arguments
\* on the stack, a sender with its message; and who runs is in no call.
QueueInv ==
  /\ Distinct(rouse[Socket]) /\ Distinct(sendq)
  /\ \A s \in State :
       /\ Linked(s) => status[s] = "parked" /\ In(s, "recv", Socket) /\ ret[s] = Args
       /\ Queued(s) => status[s] = "parked" /\ \E n \in Msg : Holds(s, n)
       /\ status[s] = "running" => call[s] = NoCall

\* A flag says that somebody waits: _zmq_poll_cb takes the head of the queue
\* without a test.  WRECV is also OCLOSING, so this holds of it until the socket
\* is closed.
FlagsInv ==
  /\ open /\ Is(Socket, WRECV) => rouse[Socket] # <<>>
  /\ Is(Socket, WSEND) => sendq # <<>>

\* MessagesInOrder piece by piece: the messages that 0MQ has, those that a state has
\* got, and where a message is that 0MQ has given away.
Gone == arrived - Len(inbox)
Numbered(q, g) == \A i \in DOMAIN q : q[i] = g + i
Rising(q) == \A i, j \in DOMAIN q : i < j => q[i] < q[j]
Below(q, k) == \A i \in DOMAIN q : q[i] < k
With(s, k) == Brings(s, k) \/ k \in Range(got[s])
InboxInv == Gone \in Nat /\ Numbered(inbox, Gone)
GotInv ==
  \A s \in State :
    /\ Rising(got[s])
    /\ \A k \in Range(got[s]) : k \in 1 .. Gone
    /\ \A k \in Msg : Brings(s, k) => k \in 1 .. Gone /\ Below(got[s], k)
OnceInv ==
  \A k \in 1 .. Gone :
    /\ \E s \in State : With(s, k)
    /\ \A s, t \in State : With(s, k) /\ With(t, k) => s = t

\* SentIsAccepted piece by piece.  A message on the stack of a sender is accepted if
\* the sender is ready, and not if it still waits.
Sends(n) ==
  /\ accepted[n] \in {0, 1} /\ told[n] \in {0, 1} /\ (told[n] = 1 => accepted[n] = 1)
  /\ n > passed => accepted[n] = 0 /\ \A s \in State : ~Holds(s, n)
  /\ accepted[n] = 1 /\ told[n] = 0 => \E s \in State : Holds(s, n)
  /\ \A s \in State : Holds(s, n) =>
       /\ told[n] = 0
       /\ \/ accepted[n] = 1 /\ status[s] = "ready"
          \/ accepted[n] = 0 /\ status[s] = "parked"
  /\ \A s, t \in State : Holds(s, n) /\ Holds(t, n) => s = t
SendInv == \A n \in Msg : Sends(n)

IInv ==
  /\ TypeInv /\ QueueInv /\ FlagsInv
  /\ InboxInv /\ GotInv /\ OnceInv /\ SendInv /\ CloseCloses

-----------------------------------------------------------------------------
(* Sequences *)

\* A queue with one more, and a queue without its head.
LEMMA Appended ==
  ASSUME NEW S, NEW q \in Seq(S), NEW e \in S
  PROVE  /\ Append(q, e) \in Seq(S) /\ Append(q, e) # <<>>
         /\ Range(Append(q, e)) = Range(q) \cup {e}
         /\ e \notin Range(q) /\ Distinct(q) => Distinct(Append(q, e))
  <1>1. /\ Append(q, e) \in Seq(S) /\ Append(q, e) # <<>>
        /\ Len(q) \in Nat /\ DOMAIN q = 1 .. Len(q)
        /\ DOMAIN Append(q, e) = 1 .. Len(q) + 1
        /\ \A i \in 1 .. Len(q) : Append(q, e)[i] = q[i]
        /\ Append(q, e)[Len(q) + 1] = e
    OBVIOUS
  <1>2. Range(Append(q, e)) = Range(q) \cup {e}
    BY <1>1 DEF Range
  <1>3. e \notin Range(q) /\ Distinct(q) => Distinct(Append(q, e))
    BY <1>1 DEF Range, Distinct
  <1> QED
    BY <1>1, <1>2, <1>3, Zenon

LEMMA Removed ==
  ASSUME NEW q \in Seq(State), q # <<>>, Distinct(q)
  PROVE  /\ Head(q) \in State /\ Tail(q) \in Seq(State)
         /\ Head(q) \in Range(q)
         /\ Range(Tail(q)) = Range(q) \ {Head(q)}
         /\ Distinct(Tail(q))
  <1>1. /\ Head(q) \in State /\ Tail(q) \in Seq(State)
        /\ Len(q) \in Nat \ {0} /\ DOMAIN q = 1 .. Len(q) /\ Head(q) = q[1]
        /\ DOMAIN Tail(q) = 1 .. Len(q) - 1
        /\ \A i \in 1 .. Len(q) - 1 : Tail(q)[i] = q[i + 1]
    OBVIOUS
  <1>2. Head(q) \in Range(q)
    BY <1>1 DEF Range
  <1>3. ASSUME NEW i \in DOMAIN q, q[i] # Head(q)
        PROVE  q[i] \in Range(Tail(q))
    <2>1. i - 1 \in DOMAIN Tail(q) /\ Tail(q)[i - 1] = q[i]
      BY <1>1, <1>3
    <2> QED
      BY <2>1, Zenon DEF Range
  <1>4. ASSUME NEW i \in DOMAIN Tail(q)
        PROVE  Tail(q)[i] \in Range(q) /\ Tail(q)[i] # Head(q)
    <2>1. i + 1 \in DOMAIN q /\ 1 \in DOMAIN q /\ Tail(q)[i] = q[i + 1] /\ i + 1 # 1
      BY <1>1
    <2> QED
      BY <1>1, <2>1, Zenon DEF Range, Distinct
  <1>5. Distinct(Tail(q))
    BY <1>1 DEF Distinct
  <1>6. Range(Tail(q)) = Range(q) \ {Head(q)}
    <2>1. \A x : x \in Range(Tail(q)) => x \in Range(q) /\ x # Head(q)
      BY <1>4, Zenon DEF Range
    <2>2. \A x : x \in Range(q) /\ x # Head(q) => x \in Range(Tail(q))
      BY <1>3, Zenon DEF Range
    <2> QED
      BY <2>1, <2>2, Zenon
  <1> QED
    BY <1>1, <1>2, <1>5, <1>6, Zenon

\* Consecutive numbers with one more, and without the first.
LEMMA Numbers ==
  ASSUME NEW q \in Seq(Nat), NEW g \in Nat, Numbered(q, g)
  PROVE  /\ Append(q, g + Len(q) + 1) \in Seq(Nat)
         /\ Numbered(Append(q, g + Len(q) + 1), g)
         /\ Len(Append(q, g + Len(q) + 1)) = Len(q) + 1
         /\ q # <<>> => /\ Head(q) = g + 1 /\ Tail(q) \in Seq(Nat)
                        /\ Numbered(Tail(q), g + 1) /\ Len(Tail(q)) = Len(q) - 1
  <1>1. /\ Append(q, g + Len(q) + 1) \in Seq(Nat)
        /\ Len(Append(q, g + Len(q) + 1)) = Len(q) + 1
    OBVIOUS
  <1>2. Numbered(Append(q, g + Len(q) + 1), g)
    BY DEF Numbered
  <1>3. ASSUME q # <<>>
        PROVE  /\ Head(q) = g + 1 /\ Tail(q) \in Seq(Nat)
               /\ Numbered(Tail(q), g + 1) /\ Len(Tail(q)) = Len(q) - 1
    <2>1. /\ Tail(q) \in Seq(Nat) /\ Len(Tail(q)) = Len(q) - 1
          /\ Len(q) \in Nat \ {0} /\ DOMAIN q = 1 .. Len(q) /\ Head(q) = q[1]
          /\ DOMAIN Tail(q) = 1 .. Len(q) - 1
          /\ \A i \in 1 .. Len(q) - 1 : Tail(q)[i] = q[i + 1]
      BY <1>3
    <2> QED
      BY <2>1 DEF Numbered
  <1> QED
    BY <1>1, <1>2, <1>3, Zenon

\* A message that is larger than those before it.
LEMMA Rises ==
  ASSUME NEW q \in Seq(Nat), NEW k \in Nat, Rising(q), Below(q, k)
  PROVE  /\ Append(q, k) \in Seq(Nat) /\ Range(Append(q, k)) = Range(q) \cup {k}
         /\ Rising(Append(q, k))
  <1>1. /\ Len(q) \in Nat /\ DOMAIN q = 1 .. Len(q)
        /\ DOMAIN Append(q, k) = 1 .. Len(q) + 1
        /\ \A i \in 1 .. Len(q) : Append(q, k)[i] = q[i]
        /\ Append(q, k)[Len(q) + 1] = k
    OBVIOUS
  <1>2. Append(q, k) \in Seq(Nat) /\ Range(Append(q, k)) = Range(q) \cup {k}
    BY <1>1 DEF Range
  <1>3. Rising(Append(q, k))
    BY <1>1 DEF Rising, Below
  <1> QED
    BY <1>2, <1>3, Zenon

-----------------------------------------------------------------------------
(* What the steps do *)

\* There is a socket.
LEMMA SocketObject == Socket \in Object
  BY ZmqBoundsAssumption, Zenon DEF Socket

\* The values and the calls are different.
LEMMA Differ ==
  /\ Args \in Value /\ <<"false">> \in Value /\ <<"closed">> \in Value
  /\ \A k \in Msg : <<"msg", k>> \in Value /\ <<"data", k>> \in Value
  /\ Args # <<"closed">> /\ <<"false">> # <<"closed">>
  /\ \A k : /\ <<"msg", k>> # Args /\ <<"msg", k>> # <<"false">> /\ <<"msg", k>> # <<"closed">>
            /\ <<"data", k>> # Args /\ <<"data", k>> # <<"false">>
            /\ <<"data", k>> # <<"closed">>
  /\ \A k, n : /\ <<"msg", k>> # <<"data", n>>
               /\ <<"msg", k>> = <<"msg", n>> => k = n
               /\ <<"data", k>> = <<"data", n>> => k = n
               /\ <<"data", k>>[2] = k
  BY DEF Value, Args
LEMMA CallsDiffer ==
  /\ NoCall \in Call /\ <<"sleep">> \in Call
  /\ <<"recv", Socket>> \in Call /\ <<"send", Socket>> \in Call
  /\ <<"recv", Socket>> # <<"send", Socket>>
  /\ <<"recv", Socket>> # NoCall /\ <<"recv", Socket>> # <<"sleep">>
  /\ <<"send", Socket>> # NoCall /\ <<"send", Socket>> # <<"sleep">>
  BY DEF Call, NoCall

\* What changing the flags of the socket does.
LEMMA FlagEffect ==
  ASSUME ObjectTypeOK, NEW set \in SUBSET OFlag, NEW clear \in SUBSET OFlag,
         Flags(Socket, set, clear)
  PROVE  /\ oflags' \in [Object -> SUBSET OFlag]
         /\ \A x : Is(Socket, x)' <=> x \in set \/ (Is(Socket, x) /\ x \notin clear)
  BY SocketObject, Zenon DEF ObjectTypeOK, Flags, Is
LEMMA FlagNames ==
  /\ {} \in SUBSET OFlag /\ {WSEND} \in SUBSET OFlag /\ {WRECV} \in SUBSET OFlag
  /\ {"OCLOSING"} \in SUBSET OFlag /\ {"OCLOSED"} \in SUBSET OFlag
  /\ WSEND # WRECV /\ WSEND # "OCLOSING" /\ WSEND # "OCLOSED" /\ WRECV # "OCLOSED"
  /\ WRECV = "OCLOSING"
  BY Zenon DEF OFlag, WSEND, WRECV

\* Only s moves.
Others(s) ==
  \A t \in State \ {s} : status'[t] = status[t] /\ call'[t] = call[t] /\ ret'[t] = ret[t]
Moved(s, st, c, v) ==
  /\ status' \in [State -> States!Status] /\ call' \in [State -> Call]
  /\ ret' \in [State -> Value]
  /\ Others(s) /\ status'[s] = st /\ call'[s] = c /\ ret'[s] = v
LEMMA Moves ==
  ASSUME TypeInv, NEW s \in State, NEW st \in States!Status, NEW c \in Call, NEW v \in Value,
         status' = [status EXCEPT ![s] = st], call' = [call EXCEPT ![s] = c],
         ret' = [ret EXCEPT ![s] = v]
  PROVE  Moved(s, st, c, v)
  BY Zenon DEF TypeInv, Moved, Others

\* Nobody moves, as far as waiting goes; s may get another value.
LEMMA Returns ==
  ASSUME TypeInv, NEW s \in State, NEW v \in Value, Return(s, v)
  PROVE  Moved(s, status[s], call[s], v) /\ UNCHANGED risks
  BY Zenon DEF TypeInv, Moved, Others, Return, pollVars

\* s waits.
LEMMA Parks ==
  ASSUME TypeInv, NEW s \in State, NEW c \in Call, NEW v \in Value, SuspendWith(s, c, v)
  PROVE  Moved(s, "parked", c, v) /\ status[s] = "running" /\ UNCHANGED risks
  <1>1. /\ status' = [status EXCEPT ![s] = "parked"] /\ status[s] = "running"
        /\ call' = [call EXCEPT ![s] = c] /\ ret' = [ret EXCEPT ![s] = v] /\ UNCHANGED risks
    BY Zenon DEF SuspendWith, States!Suspend, States!Move
  <1>2. "parked" \in States!Status
    BY Zenon DEF States!Status
  <1> QED
    BY <1>1, <1>2, Moves, Zenon

\* A state that waits is readied, with v on its stack.
LEMMA Wakes ==
  ASSUME TypeInv, NEW s \in State, status[s] = "parked", Wake(s), NEW v \in Value,
         ret' = [ret EXCEPT ![s] = v], UNCHANGED call
  PROVE  Moved(s, "ready", call[s], v)
  <1>1. status' = [status EXCEPT ![s] = "ready"]
    BY Zenon DEF Wake, States!Ready, States!Move
  <1>2. "ready" \in States!Status /\ call[s] \in Call /\ call' = [call EXCEPT ![s] = call[s]]
    BY Zenon DEF States!Status, TypeInv
  <1> QED
    BY <1>1, <1>2, Moves, Zenon

-----------------------------------------------------------------------------
(* What keeps the parts of the invariant *)

\* s has no message, received or to be sent, on its stack.
Empty(s) == \A k \in Msg : ~Holds(s, k) /\ ~Brings(s, k)

LEMMA EmptyCall ==
  ASSUME NEW s, call[s] = NoCall \/ call[s] = <<"sleep">>
                  \/ ret[s] \in {Args, <<"false">>, <<"closed">>}
  PROVE  Empty(s)
  BY Differ, CallsDiffer, Zenon DEF Empty, Holds, Brings, In

\* No message is received.
SameBrings == \A t \in State, k \in Msg : Brings(t, k)' <=> Brings(t, k)
LEMMA RecvKept ==
  ASSUME IInv, UNCHANGED <<inbox, arrived, got>>, SameBrings
  PROVE  InboxInv' /\ GotInv' /\ OnceInv'
  <1>1. Gone' = Gone /\ InboxInv'
    BY Zenon DEF IInv, InboxInv, Gone
  <1>2. GotInv'
    BY <1>1, Zenon DEF IInv, GotInv, SameBrings
  <1>3. 1 .. Gone \subseteq Msg
    BY ZmqBoundsAssumption DEF IInv, TypeInv, Gone, InboxInv, Msg
  <1>4. \A t \in State, k \in 1 .. Gone : With(t, k)' <=> With(t, k)
    BY <1>3, Zenon DEF With, SameBrings
  <1>5. OnceInv'
    BY <1>1, <1>4, Zenon DEF IInv, OnceInv
  <1> QED
    BY <1>1, <1>2, <1>5, Zenon

\* No message is sent.
SameHolds ==
  \A t \in State, n \in Msg :
    (Holds(t, n)' <=> Holds(t, n)) /\ (Holds(t, n) => status'[t] = status[t])
LEMMA SendKept ==
  ASSUME IInv, UNCHANGED <<passed, accepted, told>>, SameHolds
  PROVE  SendInv'
  <1> SUFFICES ASSUME NEW n \in Msg
               PROVE  Sends(n)'
    BY Zenon DEF SendInv
  <1>1. Sends(n)
    BY Zenon DEF IInv, SendInv
  <1>2. \A t \in State : (Holds(t, n)' <=> Holds(t, n)) /\ (Holds(t, n) => status'[t] = status[t])
    BY Zenon DEF SameHolds
  <1> QED
    BY <1>1, <1>2, Zenon DEF Sends

\* A state without a message moves.
LEMMA AsideKept ==
  ASSUME NEW s \in State, Others(s), Empty(s), Empty(s)'
  PROVE  SameBrings /\ SameHolds
  <1> SUFFICES ASSUME NEW t \in State, NEW k \in Msg
               PROVE  /\ Brings(t, k)' <=> Brings(t, k)
                      /\ Holds(t, k)' <=> Holds(t, k)
                      /\ Holds(t, k) => status'[t] = status[t]
    BY Zenon DEF SameBrings, SameHolds
  <1>1. CASE t = s
    BY <1>1, Zenon DEF Empty
  <1>2. CASE t # s
    BY <1>2, Zenon DEF Others, Brings, Holds, In
  <1> QED
    BY <1>1, <1>2, Zenon

\* The queues when s moves.
LEMMA QueueKept ==
  ASSUME QueueInv, NEW s \in State, Others(s),
         Distinct(rouse[Socket])', Distinct(sendq)',
         \A t \in State \ {s} : (Linked(t)' => Linked(t)) /\ (Queued(t)' => Queued(t)),
         Linked(s)' => status'[s] = "parked" /\ In(s, "recv", Socket)' /\ ret'[s] = Args,
         Queued(s)' => status'[s] = "parked" /\ \E n \in Msg : Holds(s, n)',
         status'[s] = "running" => call'[s] = NoCall
  PROVE  QueueInv'
  <1> SUFFICES ASSUME NEW t \in State
               PROVE  /\ Linked(t)' => /\ status'[t] = "parked" /\ In(t, "recv", Socket)'
                                       /\ ret'[t] = Args
                      /\ Queued(t)' => status'[t] = "parked" /\ \E n \in Msg : Holds(t, n)'
                      /\ status'[t] = "running" => call'[t] = NoCall
    BY Zenon DEF QueueInv
  <1>1. CASE t = s
    BY <1>1, Zenon
  <1>2. CASE t # s
    <2>1. status'[t] = status[t] /\ call'[t] = call[t] /\ ret'[t] = ret[t]
      BY <1>2, Zenon DEF Others
    <2>2. (Linked(t)' => Linked(t)) /\ (Queued(t)' => Queued(t))
      BY <1>2, Zenon
    <2> QED
      BY <2>1, <2>2, Zenon DEF QueueInv, Holds, In
  <1> QED
    BY <1>1, <1>2, Zenon

\* No value but that of close says that the socket is closed.
LEMMA NotClosed ==
  ASSUME CloseCloses, NEW s \in State, Others(s), ret'[s] # <<"closed">>,
         UNCHANGED <<risks, open>>
  PROVE  CloseCloses'
  <1>1. \A t \in State : ret'[t] = <<"closed">> => ret[t] = <<"closed">>
    BY Zenon DEF Others
  <1> QED
    BY <1>1, Zenon DEF CloseCloses, Avoids

-----------------------------------------------------------------------------
(* IInv is inductive *)

\* The invariant holds of a new socket.
LEMMA InitIInv == Init => IInv
  <1> SUFFICES ASSUME Init
               PROVE  IInv
    OBVIOUS
  <1>1. TypeInv
    <2>1. 0 \in 0 .. MaxMsg /\ <<>> \in Seq(Nat) /\ <<>> \in Seq(State)
      BY ZmqBoundsAssumption
    <2> QED
      BY <2>1, Differ, CallsDiffer
         DEF Init, LoopInit, luvL_object_init, TypeInv, ObjectTypeOK, States!Status, Msg
  <1>2. /\ rouse[Socket] = <<>> /\ sendq = <<>> /\ inbox = <<>> /\ arrived = 0 /\ passed = 0
        /\ Range(<<>>) = {} /\ Distinct(<<>>) /\ Rising(<<>>) /\ Len(<<>>) = 0
        /\ \A x : ~Is(Socket, x)
    BY SocketObject DEF Init, luvL_object_init, Is, Range, Distinct, Rising
  <1>3. /\ \A s \in State : call[s] = NoCall /\ got[s] = <<>> /\ ret[s] = Args
        /\ \A n \in Msg : accepted[n] = 0 /\ told[n] = 0
    BY Zenon DEF Init, LoopInit, Msg
  <1>4. \A s \in State, n \in Msg : ~Holds(s, n) /\ ~Brings(s, n)
    BY <1>3, CallsDiffer, Zenon DEF Holds, Brings, In
  <1>5. QueueInv /\ FlagsInv
    BY <1>2, <1>3, Zenon DEF QueueInv, FlagsInv, Linked, Queued
  <1>6. Gone = 0 /\ 1 .. Gone = {} /\ InboxInv
    <2>0. arrived = 0 /\ Len(inbox) = 0
      BY <1>2, Zenon
    <2>1. Gone = 0
      BY <2>0 DEF Gone
    <2>2. Numbered(<<>>, 0)
      BY DEF Numbered
    <2> QED
      BY <1>2, <2>1, <2>2 DEF InboxInv
  <1>7. GotInv /\ OnceInv
    BY <1>2, <1>3, <1>4, <1>6, Zenon DEF GotInv, OnceInv
  <1>8. SendInv
    BY <1>3, <1>4 DEF SendInv, Sends
  <1>9. CloseCloses
    BY <1>3, Differ, Zenon DEF CloseCloses
  <1> QED
    BY <1>1, <1>5, <1>6, <1>7, <1>8, <1>9, Zenon DEF IInv

\* The state that runs has no message on its stack and is in no queue.
LEMMA RunningFree ==
  ASSUME IInv, NEW s \in State, status[s] = "running"
  PROVE  call[s] = NoCall /\ Empty(s) /\ ~Linked(s) /\ ~Queued(s)
  <1>1. call[s] = NoCall /\ ~Linked(s) /\ ~Queued(s)
    BY Zenon DEF IInv, QueueInv
  <1> QED
    BY <1>1, EmptyCall, Zenon

\* A step of the running state that returns at once.
LEMMA ReturnKept ==
  ASSUME IInv, NEW s \in State, Running(s), NEW v \in Value, Return(s, v),
         UNCHANGED <<rouse, sendq>>
  PROVE  /\ Moved(s, "running", NoCall, v) /\ Empty(s) /\ Empty(s)'
         /\ SameBrings /\ SameHolds /\ QueueInv' /\ UNCHANGED risks
  <1>1. status[s] = "running" /\ call[s] = NoCall /\ Empty(s) /\ ~Linked(s) /\ ~Queued(s)
    BY RunningFree, Zenon DEF Running
  <1>2. Moved(s, "running", NoCall, v) /\ UNCHANGED risks
    BY <1>1, Returns, Zenon DEF IInv
  <1>3. Others(s) /\ call'[s] = NoCall
    BY <1>2, Zenon DEF Moved
  <1>4. Empty(s)'
    BY <1>3, CallsDiffer, Zenon DEF Empty, Holds, Brings, In
  <1>5. SameBrings /\ SameHolds
    BY <1>1, <1>3, <1>4, AsideKept, Zenon
  <1>6. QueueInv'
    <2>1. /\ \A t \in State : (Linked(t)' <=> Linked(t)) /\ (Queued(t)' <=> Queued(t))
          /\ Distinct(rouse[Socket])' /\ Distinct(sendq)' /\ QueueInv
      BY Zenon DEF Linked, Queued, IInv, QueueInv
    <2> QED
      BY <1>1, <1>3, <2>1, QueueKept, Zenon
  <1> QED
    BY <1>1, <1>2, <1>4, <1>5, <1>6, Zenon

\* A message has left 0MQ for s, who has returned it or is about to.
LEMMA RecvMoved ==
  ASSUME IInv, NEW s \in State, inbox # <<>>, inbox' = Tail(inbox), arrived' = arrived,
         \A t \in State \ {s}, k \in Msg : Brings(t, k)' <=> Brings(t, k),
         \A k \in Msg : ~Brings(s, k),
         \/ got' = [got EXCEPT ![s] = Append(@, Head(inbox))] /\ \A k \in Msg : ~Brings(s, k)'
         \/ got' = got /\ \A k \in Msg : Brings(s, k)' <=> k = Head(inbox)
  PROVE  /\ inbox' \in Seq(Nat) /\ got' \in [State -> Seq(Nat)]
         /\ InboxInv' /\ GotInv' /\ OnceInv'
  <1> USE DEF IInv, TypeInv
  <1>0. PICK h : h = Head(inbox)
    OBVIOUS
  <1>1. /\ Gone \in Nat /\ h = Gone + 1 /\ inbox' \in Seq(Nat)
        /\ Gone' = Gone + 1 /\ Numbered(inbox', Gone + 1) /\ Gone + 1 <= MaxMsg
    <2>1. Gone \in Nat /\ Numbered(inbox, Gone) /\ Len(inbox) \in Nat
      BY DEF InboxInv
    <2>2. /\ h = Gone + 1 /\ inbox' \in Seq(Nat) /\ Numbered(inbox', Gone + 1)
          /\ Len(inbox') = Len(inbox) - 1
      BY <1>0, <2>1, Numbers, Zenon
    <2>3. Len(inbox') \in Nat /\ arrived \in Nat /\ arrived <= MaxMsg
      BY <2>2, ZmqBoundsAssumption
    <2> HIDE DEF IInv, TypeInv
    <2> QED
      BY <2>1, <2>2, <2>3, ZmqBoundsAssumption DEF Gone
  <1>2. InboxInv'
    BY <1>1 DEF InboxInv
  <1>3. h \in Msg /\ \A k \in 1 .. Gone' : k \in Msg /\ (k \in 1 .. Gone \/ k = h)
    <2> HIDE DEF IInv, TypeInv
    <2> QED
      BY <1>1, ZmqBoundsAssumption DEF Msg
  <1>4. /\ got' \in [State -> Seq(Nat)]
        /\ \A t \in State \ {s} : got'[t] = got[t]
        /\ Rising(got'[s])
        /\ \A k : With(s, k)' /\ k \in Msg => With(s, k) \/ k = h
        /\ \A k \in Msg : With(s, k) => With(s, k)'
        /\ With(s, h)'
        /\ \A k \in Range(got'[s]) : k \in Range(got[s]) \/ k = h
        /\ \A k \in Msg : Brings(s, k)' => k = h /\ Below(got'[s], h)
    <2>1. Rising(got[s]) /\ Below(got[s], h) /\ got[s] \in Seq(Nat) /\ h \in Nat
      <3>1. /\ Rising(got[s]) /\ got[s] \in Seq(Nat)
            /\ \A i \in DOMAIN got[s] : got[s][i] \in 1 .. Gone
        BY Zenon DEF GotInv, Range
      <3> QED
        BY <1>1, <3>1 DEF Below
    <2>2. CASE got' = [got EXCEPT ![s] = Append(@, h)] /\ \A k \in Msg : ~Brings(s, k)'
      <3>1. /\ Append(got[s], h) \in Seq(Nat) /\ Range(Append(got[s], h)) = Range(got[s]) \cup {h}
            /\ Rising(Append(got[s], h))
        <4> HIDE DEF IInv, TypeInv
        <4> QED
          BY <2>1, Rises, Zenon
      <3>2. /\ got' \in [State -> Seq(Nat)] /\ got'[s] = Append(got[s], h)
            /\ \A t \in State \ {s} : got'[t] = got[t]
        BY <2>2, <3>1, Zenon
      <3> HIDE DEF IInv, TypeInv
      <3>3. \A k : k \in Range(got[s])' <=> k \in Range(got[s]) \/ k = h
        BY <3>1, <3>2, Zenon
      <3>4. \A k \in Msg : (With(s, k)' <=> With(s, k) \/ k = h) /\ ~Brings(s, k)'
        BY <2>2, <3>3, Zenon DEF With
      <3> QED
        BY <1>3, <3>1, <3>2, <3>3, <3>4, Zenon
    <2>3. CASE got' = got /\ \A k \in Msg : Brings(s, k)' <=> k = h
      <3>1. \A k \in Msg : With(s, k)' <=> With(s, k) \/ k = h
        BY <2>3, Zenon DEF With
      <3>2. got \in [State -> Seq(Nat)]
        BY Zenon
      <3> HIDE DEF IInv, TypeInv
      <3> QED
        BY <1>3, <2>1, <2>3, <3>1, <3>2, Zenon
    <2> QED
      BY <1>0, <2>2, <2>3, Zenon
  <1>5. GotInv'
    <2> SUFFICES ASSUME NEW t \in State
                 PROVE  /\ Rising(got'[t])
                        /\ \A k \in Range(got'[t]) : k \in 1 .. Gone'
                        /\ \A k \in Msg : Brings(t, k)' => k \in 1 .. Gone' /\ Below(got'[t], k)
      BY Zenon DEF GotInv
    <2>1. \A k : k \in 1 .. Gone \/ k = h => k \in 1 .. Gone'
      BY <1>1
    <2>2. CASE t = s
      BY <1>4, <2>1, <2>2, Zenon DEF GotInv
    <2>3. CASE t # s
      BY <1>4, <2>1, <2>3, Zenon DEF GotInv
    <2> QED
      BY <2>2, <2>3, Zenon
  <1>6. \A t \in State \ {s}, k \in Msg : With(t, k)' <=> With(t, k)
    BY <1>4, Zenon DEF With
  <1>7. \A t \in State : ~With(t, h)
    <2>1. ASSUME NEW t \in State, With(t, h)
          PROVE  h \in 1 .. Gone
      BY <1>3, <2>1, Zenon DEF With, GotInv
    <2>2. h \notin 1 .. Gone
      BY <1>1
    <2> QED
      BY <2>1, <2>2, Zenon
  <1>8. OnceInv'
    <2> SUFFICES ASSUME NEW k \in 1 .. Gone'
                 PROVE  /\ \E t \in State : With(t, k)'
                        /\ \A t, u \in State : With(t, k)' /\ With(u, k)' => t = u
      BY Zenon DEF OnceInv
    <2>1. CASE k = h
      <3> HIDE DEF IInv, TypeInv
      <3>1. \A t \in State \ {s} : ~With(t, k)'
        BY <1>3, <1>6, <1>7, <2>1, Zenon
      <3> QED
        BY <1>4, <2>1, <3>1, Zenon
    <2>2. CASE k # h
      <3>1. k \in 1 .. Gone /\ k \in Msg
        BY <1>3, <2>2, Zenon
      <3>2. \A t \in State : With(t, k)' <=> With(t, k)
        BY <1>4, <1>6, <2>2, <3>1, Zenon
      <3> QED
        BY <3>1, <3>2, Zenon DEF OnceInv
    <2> QED
      BY <2>1, <2>2, Zenon
  <1> QED
    BY <1>1, <1>2, <1>4, <1>5, <1>8, Zenon

\* recv returns the message that s waited for.
LEMMA RecvReturned ==
  ASSUME IInv, NEW s \in State, NEW h \in Msg, Brings(s, h), UNCHANGED <<inbox, arrived>>,
         got' = [got EXCEPT ![s] = Append(@, h)],
         \A t \in State \ {s}, k \in Msg : Brings(t, k)' <=> Brings(t, k),
         \A k \in Msg : ~Brings(s, k)'
  PROVE  got' \in [State -> Seq(Nat)] /\ InboxInv' /\ GotInv' /\ OnceInv'
  <1>1. Gone' = Gone /\ InboxInv' /\ 1 .. Gone \subseteq Msg
    <2>1. Gone' = Gone /\ InboxInv'
      BY Zenon DEF IInv, InboxInv, Gone
    <2>2. 1 .. Gone \subseteq Msg
      BY ZmqBoundsAssumption DEF IInv, TypeInv, Gone, InboxInv, Msg
    <2> QED
      BY <2>1, <2>2, Zenon
  <1>2. /\ got \in [State -> Seq(Nat)] /\ got[s] \in Seq(Nat) /\ h \in Nat
        /\ Rising(got[s]) /\ Below(got[s], h) /\ h \in 1 .. Gone
    <2>1. h \in Nat
      BY DEF Msg
    <2> QED
      BY <2>1, Zenon DEF IInv, TypeInv, GotInv
  <1>3. /\ Append(got[s], h) \in Seq(Nat)
        /\ Range(Append(got[s], h)) = Range(got[s]) \cup {h}
        /\ Rising(Append(got[s], h))
    BY <1>2, Rises, Zenon
  <1>4. /\ got' \in [State -> Seq(Nat)] /\ got'[s] = Append(got[s], h)
        /\ \A t \in State \ {s} : got'[t] = got[t]
    BY <1>2, <1>3, Zenon
  <1>5. GotInv'
    <2> SUFFICES ASSUME NEW t \in State
                 PROVE  /\ Rising(got'[t])
                        /\ \A k \in Range(got'[t]) : k \in 1 .. Gone
                        /\ \A k \in Msg : Brings(t, k)' => k \in 1 .. Gone /\ Below(got'[t], k)
      BY <1>1, Zenon DEF GotInv
    <2>1. CASE t = s
      BY <1>2, <1>3, <1>4, <2>1, Zenon DEF IInv, GotInv
    <2>2. CASE t # s
      BY <1>4, <2>2, Zenon DEF IInv, GotInv
    <2> QED
      BY <2>1, <2>2, Zenon
  <1>6. OnceInv'
    <2> SUFFICES ASSUME NEW k \in 1 .. Gone
                 PROVE  /\ \E t \in State : With(t, k)'
                        /\ \A t, u \in State : With(t, k)' /\ With(u, k)' => t = u
      BY <1>1, Zenon DEF OnceInv
    <2>1. k \in Msg
      BY <1>1, Zenon
    <2>2. \A t \in State \ {s} : With(t, k)' <=> With(t, k)
      BY <1>4, <2>1, Zenon DEF With
    <2>3. With(s, k)' <=> With(s, k)
      <3>1. k \in Range(got[s])' <=> k \in Range(got[s]) \/ k = h
        BY <1>3, <1>4, Zenon
      <3>2. Brings(s, k) <=> k = h
        BY Differ, Zenon DEF Brings
      <3> QED
        BY <2>1, <3>1, <3>2, Zenon DEF With
    <2> QED
      BY <2>2, <2>3, Zenon DEF IInv, OnceInv
  <1> QED
    BY <1>1, <1>4, <1>5, <1>6, Zenon

\* Only message n is concerned: the others are where they were.
OnlyHolds(s, n) ==
  /\ \A t \in State \ {s}, m \in Msg :
       (Holds(t, m)' <=> Holds(t, m)) /\ (Holds(t, m) => status'[t] = status[t])
  /\ \A m \in Msg \ {n} : ~Holds(s, m) /\ ~Holds(s, m)'
LEMMA SendOthers ==
  ASSUME IInv, NEW s \in State, NEW n \in Msg, OnlyHolds(s, n),
         NEW m \in Msg \ {n}, accepted'[m] = accepted[m], told'[m] = told[m],
         m > passed' => m > passed
  PROVE  Sends(m)'
  <1>1. Sends(m)
    BY Zenon DEF IInv, SendInv
  <1>2. \A t \in State :
          (Holds(t, m)' <=> Holds(t, m)) /\ (Holds(t, m) => status'[t] = status[t])
    BY Zenon DEF OnlyHolds
  <1> QED
    BY <1>1, <1>2, Zenon DEF Sends

\* Message n is passed to send: it is accepted at once and send says so, or it waits.
LEMMA SendPassed ==
  ASSUME IInv, NEW s \in State, NEW n \in Msg, n = passed + 1, passed' = n, OnlyHolds(s, n),
         \/ /\ accepted' = [accepted EXCEPT ![n] = @ + 1] /\ told' = [told EXCEPT ![n] = @ + 1]
            /\ ~Holds(s, n)'
         \/ /\ UNCHANGED <<accepted, told>>
            /\ Holds(s, n)' /\ status'[s] = "parked"
  PROVE  accepted' \in [Msg -> Nat] /\ told' \in [Msg -> Nat] /\ SendInv'
  <1>1. /\ accepted \in [Msg -> Nat] /\ told \in [Msg -> Nat] /\ passed \in Nat
        /\ Sends(n) /\ n > passed /\ ~(n > passed')
    BY ZmqBoundsAssumption DEF IInv, TypeInv, SendInv
  <1>2. accepted[n] = 0 /\ told[n] = 0 /\ \A t \in State : ~Holds(t, n)
    <2>1. accepted[n] = 0 /\ \A t \in State : ~Holds(t, n)
      BY <1>1, Zenon DEF Sends
    <2> QED
      BY <1>1, <2>1 DEF Sends
  <1>3. \A t \in State \ {s} : ~Holds(t, n)'
    BY <1>2, Zenon DEF OnlyHolds
  <1>4. /\ accepted' \in [Msg -> Nat] /\ told' \in [Msg -> Nat]
        /\ \A m \in Msg \ {n} : accepted'[m] = accepted[m] /\ told'[m] = told[m]
        /\ \/ accepted'[n] = 1 /\ told'[n] = 1 /\ ~Holds(s, n)'
           \/ accepted'[n] = 0 /\ told'[n] = 0 /\ Holds(s, n)' /\ status'[s] = "parked"
    BY <1>1, <1>2
  <1>5. Sends(n)'
    BY <1>1, <1>3, <1>4 DEF Sends
  <1>6. ASSUME NEW m \in Msg \ {n}
        PROVE  Sends(m)'
    <2>1. m > passed' => m > passed
      BY <1>1 DEF Msg
    <2> QED
      BY <1>4, <2>1, SendOthers, Zenon
  <1> QED
    BY <1>4, <1>5, <1>6, Zenon DEF SendInv

\* A message that waited is accepted, or given up.
LEMMA SendEnds ==
  ASSUME IInv, NEW s \in State, NEW n \in Msg, Holds(s, n), status[s] = "parked",
         UNCHANGED <<passed, told>>, OnlyHolds(s, n), status'[s] = "ready",
         \/ accepted' = [accepted EXCEPT ![n] = @ + 1] /\ Holds(s, n)'
         \/ accepted' = accepted /\ ~Holds(s, n)'
  PROVE  accepted' \in [Msg -> Nat] /\ SendInv'
  <1>1. accepted \in [Msg -> Nat] /\ told \in [Msg -> Nat] /\ Sends(n)
    BY Zenon DEF IInv, TypeInv, SendInv
  <1>2. /\ accepted[n] = 0 /\ told[n] = 0 /\ ~(n > passed)
        /\ \A t \in State \ {s} : ~Holds(t, n)
    BY <1>1, Zenon DEF Sends
  <1>3. \A t \in State \ {s} : ~Holds(t, n)'
    BY <1>2, Zenon DEF OnlyHolds
  <1>4. /\ accepted' \in [Msg -> Nat]
        /\ \A m \in Msg \ {n} : accepted'[m] = accepted[m] /\ told'[m] = told[m]
        /\ told'[n] = 0
        /\ \/ accepted'[n] = 1 /\ Holds(s, n)'
           \/ accepted'[n] = 0 /\ ~Holds(s, n)'
    BY <1>1, <1>2
  <1>5. Sends(n)'
    BY <1>2, <1>3, <1>4 DEF Sends
  <1>6. ASSUME NEW m \in Msg \ {n}
        PROVE  Sends(m)'
    BY <1>4, SendOthers, Zenon
  <1> QED
    BY <1>4, <1>5, <1>6, Zenon DEF SendInv

\* send returns that message n is sent.
LEMMA SendReturned ==
  ASSUME IInv, NEW s \in State, NEW n \in Msg, Reports(s, n), OnlyHolds(s, n), ~Holds(s, n)',
         UNCHANGED <<passed, accepted>>, told' = [told EXCEPT ![n] = @ + 1]
  PROVE  told' \in [Msg -> Nat] /\ SendInv'
  <1>1. told \in [Msg -> Nat] /\ Sends(n) /\ Holds(s, n) /\ status[s] = "ready"
    BY Zenon DEF IInv, TypeInv, SendInv, Reports, Holds
  <1>2. accepted[n] = 1 /\ told[n] = 0 /\ ~(n > passed) /\ \A t \in State \ {s} : ~Holds(t, n)
    BY <1>1, Zenon DEF Sends
  <1>3. \A t \in State : ~Holds(t, n)'
    BY <1>2, Zenon DEF OnlyHolds
  <1>4. /\ told' \in [Msg -> Nat] /\ told'[n] = 1
        /\ \A m \in Msg \ {n} : told'[m] = told[m]
    BY <1>1, <1>2
  <1>5. Sends(n)'
    BY <1>2, <1>3, <1>4 DEF Sends
  <1>6. ASSUME NEW m \in Msg \ {n}
        PROVE  Sends(m)'
    BY <1>4, SendOthers, Zenon
  <1> QED
    BY <1>4, <1>5, <1>6, Zenon DEF SendInv

-----------------------------------------------------------------------------
(* Step by step *)

\* recv, with a message there.
LEMMA RecvNowStep ==
  ASSUME IInv, NEW s \in State, luv_zmq_socket_recv_now(s)
  PROVE  IInv'
  <1>1. /\ Running(s) /\ inbox # <<>> /\ inbox' = Tail(inbox)
        /\ got' = [got EXCEPT ![s] = Append(@, Head(inbox))]
        /\ Return(s, Args)
        /\ UNCHANGED <<oflags, rouse, arrived, passed, accepted, told, sendq, open>>
    BY Zenon DEF luv_zmq_socket_recv_now, Readable, Gets, objVars, outVars
  <1>2. /\ Moved(s, "running", NoCall, Args) /\ Empty(s) /\ Empty(s)'
        /\ SameBrings /\ SameHolds /\ QueueInv' /\ UNCHANGED risks
    BY <1>1, Differ, ReturnKept, Zenon
  <1>3. /\ inbox' \in Seq(Nat) /\ got' \in [State -> Seq(Nat)]
        /\ InboxInv' /\ GotInv' /\ OnceInv'
    <2>1. /\ \A k \in Msg : ~Brings(s, k) /\ ~Brings(s, k)'
          /\ \A t \in State \ {s}, k \in Msg : Brings(t, k)' <=> Brings(t, k)
      BY <1>2, Zenon DEF Empty, SameBrings
    <2> QED
      BY <1>1, <2>1, RecvMoved, Zenon
  <1>4. SendInv'
    BY <1>1, <1>2, SendKept, Zenon
  <1>5. CloseCloses'
    BY <1>1, <1>2, NotClosed, Differ, Zenon DEF IInv, Moved
  <1> QED
    BY <1>1, <1>2, <1>3, <1>4, <1>5, Zenon
       DEF IInv, TypeInv, ObjectTypeOK, FlagsInv, Is, Moved

\* A state is linked to rouse, and its head leaves it.
LEMMA LinkEffect ==
  ASSUME IInv, NEW s \in State, ~Linked(s), rouse' = [rouse EXCEPT ![Socket] = Append(@, s)]
  PROVE  /\ rouse' \in [Object -> Seq(State)] /\ rouse'[Socket] # <<>>
         /\ Distinct(rouse[Socket])'
         /\ \A t \in State : Linked(t)' <=> Linked(t) \/ t = s
  <1>1. rouse \in [Object -> Seq(State)] /\ rouse[Socket] \in Seq(State) /\ Distinct(rouse[Socket])
    BY SocketObject, Zenon DEF IInv, TypeInv, ObjectTypeOK, QueueInv
  <1>2. /\ Append(rouse[Socket], s) \in Seq(State) /\ Append(rouse[Socket], s) # <<>>
        /\ Range(Append(rouse[Socket], s)) = Range(rouse[Socket]) \cup {s}
        /\ Distinct(Append(rouse[Socket], s))
    <2>1. rouse[Socket] \in Seq(State) /\ s \notin Range(rouse[Socket])
      BY <1>1, Zenon DEF Linked
    <2> QED
      BY <1>1, <2>1, Appended, SMTT(30)
  <1>3. rouse' \in [Object -> Seq(State)] /\ rouse'[Socket] = Append(rouse[Socket], s)
    BY <1>1, <1>2, SocketObject, Zenon
  <1> QED
    BY <1>2, <1>3, Zenon DEF Linked
LEMMA RouseEffect ==
  ASSUME IInv, rouse[Socket] # <<>>, RouseHead(Socket), NEW s, s = Head(rouse[Socket])
  PROVE  /\ rouse' \in [Object -> Seq(State)]
         /\ Distinct(rouse[Socket])'
         /\ s \in State /\ Linked(s) /\ Wake(s)
         /\ \A t \in State : Linked(t)' <=> Linked(t) /\ t # s
  <1>1. rouse \in [Object -> Seq(State)] /\ rouse[Socket] \in Seq(State) /\ Distinct(rouse[Socket])
    BY SocketObject, Zenon DEF IInv, TypeInv, ObjectTypeOK, QueueInv
  <1>2. /\ s \in State /\ Tail(rouse[Socket]) \in Seq(State)
        /\ s \in Range(rouse[Socket])
        /\ Range(Tail(rouse[Socket])) = Range(rouse[Socket]) \ {s}
        /\ Distinct(Tail(rouse[Socket]))
    BY <1>1, Removed, Zenon
  <1>3. /\ rouse' \in [Object -> Seq(State)] /\ rouse'[Socket] = Tail(rouse[Socket])
        /\ Wake(s)
    BY <1>1, <1>2, SocketObject, Zenon DEF RouseHead
  <1> QED
    BY <1>2, <1>3, Zenon DEF Linked

\* recv, without one.
LEMMA RecvStep ==
  ASSUME IInv, NEW s \in State, luv_zmq_socket_recv(s)
  PROVE  IInv'
  <1>1. /\ Running(s) /\ rouse' = [rouse EXCEPT ![Socket] = Append(@, s)]
        /\ SuspendWith(s, <<"recv", Socket>>, Args) /\ Flags(Socket, {WRECV}, {})
        /\ UNCHANGED <<inbox, arrived, got, passed, accepted, told, sendq, open>>
    BY Zenon DEF luv_zmq_socket_recv, RecvWaits, luvL_cond_wait, Suspend, outVars
  <1>2. Empty(s) /\ ~Linked(s) /\ ~Queued(s)
    BY <1>1, RunningFree, Zenon DEF Running
  <1>3. Moved(s, "parked", <<"recv", Socket>>, Args) /\ UNCHANGED risks
    BY <1>1, Parks, Differ, CallsDiffer, Zenon DEF IInv
  <1>4. /\ Others(s) /\ status'[s] = "parked" /\ In(s, "recv", Socket)' /\ ret'[s] = Args
        /\ Empty(s)'
    <2>1. /\ Others(s) /\ status'[s] = "parked" /\ In(s, "recv", Socket)' /\ ret'[s] = Args
      BY <1>3, Zenon DEF Moved, In
    <2> QED
      BY <2>1, Differ, Zenon DEF Empty, Holds, Brings
  <1>5. /\ rouse' \in [Object -> Seq(State)] /\ rouse'[Socket] # <<>>
        /\ Distinct(rouse[Socket])'
        /\ \A t \in State : Linked(t)' <=> Linked(t) \/ t = s
    BY <1>1, <1>2, LinkEffect, Zenon
  <1>6. QueueInv'
    <2>1. /\ \A t \in State : Queued(t)' <=> Queued(t)
          /\ Distinct(sendq)' /\ QueueInv
      BY <1>1, Zenon DEF Queued, IInv, QueueInv
    <2>2. /\ \A t \in State \ {s} : (Linked(t)' => Linked(t)) /\ (Queued(t)' => Queued(t))
          /\ ~Queued(s)' /\ status'[s] # "running"
      BY <1>2, <1>4, <1>5, <2>1, Zenon
    <2> QED
      BY <1>4, <1>5, <2>1, <2>2, QueueKept, Zenon
  <1>7. SameBrings /\ SameHolds
    BY <1>2, <1>4, AsideKept, Zenon
  <1>8. InboxInv' /\ GotInv' /\ OnceInv' /\ SendInv'
    BY <1>1, <1>7, RecvKept, SendKept, Zenon
  <1>9. CloseCloses'
    BY <1>1, <1>3, <1>4, NotClosed, Differ, Zenon DEF IInv
  <1>10. oflags' \in [Object -> SUBSET OFlag] /\ (Is(Socket, WSEND)' => Is(Socket, WSEND))
    <2>1. ObjectTypeOK
      BY Zenon DEF IInv, TypeInv
    <2>2. /\ oflags' \in [Object -> SUBSET OFlag]
          /\ \A x : Is(Socket, x)' <=> x \in {WRECV} \/ (Is(Socket, x) /\ x \notin {})
      BY <1>1, <2>1, FlagEffect, FlagNames, Zenon
    <2> QED
      BY <2>2, FlagNames, Zenon
  <1>11. FlagsInv'
    BY <1>1, <1>5, <1>10, Zenon DEF IInv, FlagsInv
  <1> QED
    BY <1>1, <1>3, <1>5, <1>6, <1>8, <1>9, <1>10, <1>11, Zenon
       DEF IInv, TypeInv, ObjectTypeOK, Moved

\* Only s moves, so the messages of the others stay where they are.
LEMMA OthersKept ==
  ASSUME NEW s \in State, Others(s)
  PROVE  \A t \in State \ {s}, k \in Msg :
           /\ Brings(t, k)' <=> Brings(t, k)
           /\ Holds(t, k)' <=> Holds(t, k)
           /\ status'[t] = status[t]
  BY Zenon DEF Others, Brings, Holds, In

\* send, with room.
LEMMA SendNowStep ==
  ASSUME IInv, NEW s \in State, luv_zmq_socket_send_now(s)
  PROVE  IInv'
  <1>0. PICK n : n = passed + 1
    OBVIOUS
  <1>1. /\ Running(s) /\ passed < MaxMsg /\ passed' = n /\ Return(s, Args)
        /\ accepted' = [accepted EXCEPT ![n] = @ + 1] /\ told' = [told EXCEPT ![n] = @ + 1]
        /\ UNCHANGED <<oflags, rouse, inbox, arrived, got, sendq, open>>
    BY <1>0, Zenon DEF luv_zmq_socket_send_now, Accepts, Tells, objVars, inVars
  <1>2. /\ Moved(s, "running", NoCall, Args) /\ Empty(s) /\ Empty(s)'
        /\ SameBrings /\ SameHolds /\ QueueInv' /\ UNCHANGED risks
    BY <1>1, Differ, ReturnKept, Zenon
  <1>3. n \in Msg /\ n \in 0 .. MaxMsg
    BY <1>0, <1>1, ZmqBoundsAssumption DEF IInv, TypeInv, Msg
  <1>4. accepted' \in [Msg -> Nat] /\ told' \in [Msg -> Nat] /\ SendInv'
    <2>1. OnlyHolds(s, n) /\ ~Holds(s, n)'
      BY <1>2, <1>3, Zenon DEF OnlyHolds, Empty, SameHolds
    <2> QED
      BY <1>0, <1>1, <1>3, <2>1, SendPassed, Zenon
  <1>5. InboxInv' /\ GotInv' /\ OnceInv'
    BY <1>1, <1>2, RecvKept, Zenon
  <1>6. CloseCloses'
    BY <1>1, <1>2, NotClosed, Differ, Zenon DEF IInv, Moved
  <1> QED
    BY <1>1, <1>2, <1>3, <1>4, <1>5, <1>6, Zenon
       DEF IInv, TypeInv, ObjectTypeOK, FlagsInv, Is, Moved

\* send, without.
LEMMA SendStep ==
  ASSUME IInv, NEW s \in State, luv_zmq_socket_send(s)
  PROVE  IInv'
  <1>0. PICK n : n = passed + 1
    OBVIOUS
  <1>1. /\ Running(s) /\ passed < MaxMsg /\ passed' = n /\ sendq' = Append(sendq, s)
        /\ SuspendWith(s, <<"send", Socket>>, <<"data", n>>) /\ Flags(Socket, {WSEND}, {})
        /\ UNCHANGED <<rouse, inbox, arrived, got, accepted, told, open>>
    BY <1>0, Zenon DEF luv_zmq_socket_send, SendWaits, inVars
  <1>2. Empty(s) /\ ~Linked(s) /\ ~Queued(s)
    BY <1>1, RunningFree, Zenon DEF Running
  <1>3. n \in Msg /\ n \in 0 .. MaxMsg
    BY <1>0, <1>1, ZmqBoundsAssumption DEF IInv, TypeInv, Msg
  <1>4. Moved(s, "parked", <<"send", Socket>>, <<"data", n>>) /\ UNCHANGED risks
    BY <1>1, <1>3, Parks, Differ, CallsDiffer, Zenon DEF IInv
  <1>5. /\ Others(s) /\ status'[s] = "parked" /\ ret'[s] = <<"data", n>> /\ Holds(s, n)'
        /\ \A k \in Msg : ~Brings(s, k)' /\ (k # n => ~Holds(s, k)')
    <2>1. /\ Others(s) /\ status'[s] = "parked" /\ ret'[s] = <<"data", n>> /\ Holds(s, n)'
      BY <1>4, Zenon DEF Moved, Holds, In
    <2> QED
      BY <2>1, Differ, Zenon DEF Holds, Brings
  <1>6. /\ sendq' \in Seq(State) /\ sendq' # <<>> /\ Distinct(sendq)'
        /\ \A t \in State : Queued(t)' <=> Queued(t) \/ t = s
    <2>1. sendq \in Seq(State) /\ Distinct(sendq) /\ s \notin Range(sendq)
      BY <1>2, Zenon DEF IInv, TypeInv, QueueInv, Queued
    <2>2. /\ Append(sendq, s) \in Seq(State) /\ Append(sendq, s) # <<>>
          /\ Range(Append(sendq, s)) = Range(sendq) \cup {s}
          /\ Distinct(Append(sendq, s))
      BY <2>1, Appended, SMTT(30)
    <2> QED
      BY <1>1, <2>2, Zenon DEF Queued
  <1>7. QueueInv'
    <2>1. /\ \A t \in State : Linked(t)' <=> Linked(t)
          /\ Distinct(rouse[Socket])' /\ QueueInv
      BY <1>1, Zenon DEF Linked, IInv, QueueInv
    <2>2. /\ \A t \in State \ {s} : (Linked(t)' => Linked(t)) /\ (Queued(t)' => Queued(t))
          /\ ~Linked(s)' /\ status'[s] # "running" /\ \E m \in Msg : Holds(s, m)'
      BY <1>2, <1>3, <1>5, <1>6, <2>1, Zenon
    <2> QED
      BY <1>5, <1>6, <2>1, <2>2, QueueKept, Zenon
  <1>8. SameBrings /\ OnlyHolds(s, n)
    BY <1>2, <1>5, OthersKept, Zenon DEF SameBrings, OnlyHolds, Empty
  <1>9. InboxInv' /\ GotInv' /\ OnceInv'
    BY <1>1, <1>8, RecvKept, Zenon
  <1>10. SendInv'
    BY <1>0, <1>1, <1>3, <1>5, <1>8, SendPassed, Zenon
  <1>11. CloseCloses'
    BY <1>1, <1>4, <1>5, NotClosed, Differ, Zenon DEF IInv
  <1>12. oflags' \in [Object -> SUBSET OFlag] /\ (Is(Socket, WRECV)' => Is(Socket, WRECV))
    <2>1. ObjectTypeOK
      BY Zenon DEF IInv, TypeInv
    <2>2. /\ oflags' \in [Object -> SUBSET OFlag]
          /\ \A x : Is(Socket, x)' <=> x \in {WSEND} \/ (Is(Socket, x) /\ x \notin {})
      BY <1>1, <2>1, FlagEffect, FlagNames, Zenon
    <2> QED
      BY <2>2, FlagNames, Zenon
  <1>13. FlagsInv'
    BY <1>1, <1>6, <1>12, Zenon DEF IInv, FlagsInv
  <1> QED
    BY <1>1, <1>3, <1>4, <1>6, <1>7, <1>9, <1>10, <1>11, <1>12, <1>13, Zenon
       DEF IInv, TypeInv, ObjectTypeOK, Moved

\* An operation fails.
LEMMA FailsStep ==
  ASSUME IInv, NEW s \in State, luv_zmq_socket_fails(s)
  PROVE  IInv'
  <1>1. /\ Running(s) /\ Return(s, <<"false">>)
        /\ UNCHANGED <<oflags, rouse, inbox, arrived, got, passed, accepted, told, sendq, open>>
    BY Zenon DEF luv_zmq_socket_fails, objVars, inVars, outVars
  <1>2. /\ Moved(s, "running", NoCall, <<"false">>)
        /\ SameBrings /\ SameHolds /\ QueueInv' /\ UNCHANGED risks
    BY <1>1, Differ, ReturnKept, Zenon
  <1>3. InboxInv' /\ GotInv' /\ OnceInv' /\ SendInv'
    BY <1>1, <1>2, RecvKept, SendKept, Zenon
  <1>4. CloseCloses'
    BY <1>1, <1>2, NotClosed, Differ, Zenon DEF IInv, Moved
  <1> QED
    BY <1>1, <1>2, <1>3, <1>4, Zenon DEF IInv, TypeInv, ObjectTypeOK, FlagsInv, Is, Moved

\* close: with a receiver waiting nothing is done, otherwise the socket is closed.
LEMMA CloseStep ==
  ASSUME IInv, NEW s \in State, luv_zmq_socket_close(s)
  PROVE  IInv'
  <1>1. /\ Running(s) /\ Return(s, <<"closed">>)
        /\ UNCHANGED <<rouse, inbox, arrived, got, passed, accepted, told, sendq>>
    BY Zenon DEF luv_zmq_socket_close, inVars, outVars
  <1>2. \/ Is(Socket, WRECV) /\ UNCHANGED <<oflags, open>>
        \/ ~open' /\ Flags(Socket, {"OCLOSING"}, {})
    BY Zenon DEF luv_zmq_socket_close, luvL_object_close, WRECV
  <1>3. /\ Moved(s, "running", NoCall, <<"closed">>)
        /\ SameBrings /\ SameHolds /\ QueueInv' /\ UNCHANGED risks
    BY <1>1, Differ, ReturnKept, Zenon
  <1>4. InboxInv' /\ GotInv' /\ OnceInv' /\ SendInv'
    BY <1>1, <1>3, RecvKept, SendKept, Zenon
  <1>5. /\ oflags' \in [Object -> SUBSET OFlag]
        /\ Is(Socket, WSEND)' => Is(Socket, WSEND)
    <2>0. ObjectTypeOK
      BY Zenon DEF IInv, TypeInv
    <2>1. CASE Is(Socket, WRECV) /\ UNCHANGED <<oflags, open>>
      BY <2>0, <2>1, Zenon DEF ObjectTypeOK, Is
    <2>2. CASE ~open' /\ Flags(Socket, {"OCLOSING"}, {})
      <3>1. /\ oflags' \in [Object -> SUBSET OFlag]
            /\ \A x : Is(Socket, x)' <=> x \in {"OCLOSING"} \/ (Is(Socket, x) /\ x \notin {})
        BY <2>0, <2>2, FlagEffect, FlagNames, Zenon
      <3> QED
        BY <3>1, FlagNames, Zenon
    <2> QED
      BY <1>2, <2>1, <2>2, Zenon
  <1>6. FlagsInv'
    <2>1. CASE Is(Socket, WRECV) /\ UNCHANGED <<oflags, open>>
      BY <1>1, <2>1, Zenon DEF IInv, FlagsInv, Is
    <2>2. CASE ~open'
      BY <1>1, <1>5, <2>2, Zenon DEF IInv, FlagsInv
    <2> QED
      BY <1>2, <2>1, <2>2, Zenon
  <1>7. CloseCloses'
    <2> SUFFICES ASSUME Avoids({"close"})
                 PROVE  ~open'
      BY <1>3, Zenon DEF CloseCloses, Avoids
    <2>1. rouse[Socket] = <<>>
      BY Zenon DEF luv_zmq_socket_close, Avoids
    <2> QED
      BY <1>2, <2>1, Zenon DEF IInv, FlagsInv
  <1> QED
    BY <1>1, <1>3, <1>4, <1>5, <1>6, <1>7, Zenon DEF IInv, TypeInv, ObjectTypeOK, Moved

\* A state that waits to receive is readied; v is not a message.
LEMMA RousedAside ==
  ASSUME IInv, NEW s \in State, Linked(s), Wake(s), NEW v \in {Args, <<"false">>},
         ret' = [ret EXCEPT ![s] = v], UNCHANGED <<call, sendq>>,
         Distinct(rouse[Socket])', \A t \in State : Linked(t)' <=> Linked(t) /\ t # s
  PROVE  /\ Moved(s, "ready", call[s], v) /\ QueueInv' /\ SameBrings /\ SameHolds
         /\ v # <<"closed">>
  <1>1. status[s] = "parked" /\ In(s, "recv", Socket) /\ ret[s] = Args /\ ~Queued(s)
    <2>1. status[s] = "parked" /\ In(s, "recv", Socket) /\ ret[s] = Args
      BY Zenon DEF IInv, QueueInv
    <2> QED
      BY <2>1, Differ, Zenon DEF IInv, QueueInv, Holds
  <1>2. Moved(s, "ready", call[s], v)
    BY <1>1, Wakes, Differ, Zenon DEF IInv
  <1>3. Others(s) /\ status'[s] = "ready" /\ ret'[s] = v
    BY <1>2, Zenon DEF Moved
  <1>4. Empty(s) /\ Empty(s)'
    <2>1. \A k : <<"msg", k>> # v /\ <<"data", k>> # v
      BY Differ, Zenon
    <2> QED
      BY <1>1, <1>3, <2>1, Differ, Zenon DEF Empty, Holds, Brings
  <1>5. QueueInv'
    <2>1. /\ \A t \in State : Queued(t)' <=> Queued(t)
          /\ Distinct(sendq)' /\ QueueInv
      BY Zenon DEF Queued, IInv, QueueInv
    <2>2. ~Linked(s)' /\ ~Queued(s)' /\ status'[s] # "running"
      BY <1>1, <1>3, <2>1, Zenon
    <2> QED
      BY <1>3, <2>1, <2>2, QueueKept, Zenon
  <1> QED
    BY <1>2, <1>3, <1>4, <1>5, AsideKept, Differ, Zenon

\* The close callback rouses a state; the socket has been closed before.
LEMMA ClosedStep ==
  ASSUME IInv, SocketClosed
  PROVE  IInv'
  <1>1. /\ ~open /\ Flags(Socket, {"OCLOSED"}, {}) /\ luvL_cond_signal(Socket)
        /\ UNCHANGED <<ret, call, inbox, arrived, got, passed, accepted, told, sendq, open,
                       risks>>
    BY Zenon DEF SocketClosed, luvL_object_close_cb, pollVars, inVars, outVars
  <1>2. /\ oflags' \in [Object -> SUBSET OFlag]
        /\ Is(Socket, WSEND)' => Is(Socket, WSEND)
    <2>0. ObjectTypeOK
      BY Zenon DEF IInv, TypeInv
    <2>1. /\ oflags' \in [Object -> SUBSET OFlag]
          /\ \A x : Is(Socket, x)' <=> x \in {"OCLOSED"} \/ (Is(Socket, x) /\ x \notin {})
      BY <1>1, <2>0, FlagEffect, FlagNames, Zenon
    <2> QED
      BY <2>1, FlagNames, Zenon
  <1>3. FlagsInv'
    BY <1>1, <1>2, Zenon DEF IInv, FlagsInv
  <1>4. /\ status' \in [State -> States!Status] /\ rouse' \in [Object -> Seq(State)]
        /\ QueueInv' /\ SameBrings /\ SameHolds
    <2>1. CASE rouse[Socket] = <<>> /\ UNCHANGED <<rouse, status>>
      <3>1. status' \in [State -> States!Status] /\ rouse' \in [Object -> Seq(State)]
        BY <2>1, Zenon DEF IInv, TypeInv, ObjectTypeOK
      <3>2. QueueInv'
        BY <1>1, <2>1, Zenon DEF IInv, QueueInv, Linked, Queued, Holds, In
      <3>3. SameBrings /\ SameHolds
        BY <1>1, <2>1, Zenon DEF SameBrings, SameHolds, Holds, Brings, In
      <3> QED
        BY <3>1, <3>2, <3>3, Zenon
    <2>2. CASE rouse[Socket] # <<>> /\ RouseHead(Socket)
      <3>0. PICK s : s = Head(rouse[Socket])
        OBVIOUS
      <3>1. /\ rouse' \in [Object -> Seq(State)] /\ Distinct(rouse[Socket])'
            /\ s \in State /\ Linked(s) /\ Wake(s)
            /\ \A t \in State : Linked(t)' <=> Linked(t) /\ t # s
        BY <2>2, <3>0, RouseEffect, Zenon
      <3>2. ret' = [ret EXCEPT ![s] = Args]
        <4>1. ret[s] = Args /\ ret \in [State -> Value]
          BY <3>1, Zenon DEF IInv, QueueInv, TypeInv
        <4> QED
          BY <1>1, <4>1, Zenon
      <3>3. Moved(s, "ready", call[s], Args) /\ QueueInv' /\ SameBrings /\ SameHolds
        BY <1>1, <3>1, <3>2, RousedAside, Zenon
      <3> QED
        BY <3>1, <3>3, Zenon DEF Moved
    <2> QED
      BY <1>1, <2>1, <2>2, Zenon DEF luvL_cond_signal
  <1>5. InboxInv' /\ GotInv' /\ OnceInv' /\ SendInv'
    BY <1>1, <1>4, RecvKept, SendKept, Zenon
  <1>6. CloseCloses'
    BY <1>1, Zenon DEF IInv, CloseCloses, Avoids
  <1> QED
    BY <1>1, <1>2, <1>3, <1>4, <1>5, <1>6, Zenon DEF IInv, TypeInv, ObjectTypeOK

\* _zmq_poll_cb clears the flag of the direction it serves.
LEMMA FlagCleared ==
  ASSUME IInv, NEW f \in {WSEND, WRECV}, Flags(Socket, {}, {f})
  PROVE  /\ oflags' \in [Object -> SUBSET OFlag]
         /\ ~Is(Socket, f)' /\ \A x : Is(Socket, x)' => Is(Socket, x)
  <1>1. ObjectTypeOK /\ {f} \in SUBSET OFlag /\ {} \in SUBSET OFlag
    BY FlagNames, Zenon DEF IInv, TypeInv
  <1>2. /\ oflags' \in [Object -> SUBSET OFlag]
        /\ \A x : Is(Socket, x)' <=> x \in {} \/ (Is(Socket, x) /\ x \notin {f})
    BY <1>1, FlagEffect, Zenon
  <1> QED
    BY <1>2, Zenon

\* The next message is one of those the peer may send.
LEMMA HeadMsg ==
  ASSUME IInv, inbox # <<>>
  PROVE  Head(inbox) \in Msg
  <1>1. /\ inbox \in Seq(Nat) /\ Gone \in Nat /\ Numbered(inbox, Gone) /\ arrived \in 0 .. MaxMsg
    BY Zenon DEF IInv, TypeInv, InboxInv
  <1>2. Head(inbox) = Gone + 1
    BY <1>1, Numbers, Zenon
  <1>3. Len(inbox) \in Nat \ {0}
    BY <1>1
  <1> QED
    BY <1>1, <1>2, <1>3, ZmqBoundsAssumption DEF Gone, Msg

\* _zmq_poll_cb receives for the first state that waits.
LEMMA PollRecvStep ==
  ASSUME IInv, _zmq_poll_cb_recv
  PROVE  IInv'
  <1>0. PICK s : s = Head(rouse[Socket])
    OBVIOUS
  <1>h. PICK h : h = Head(inbox)
    OBVIOUS
  <1>1. /\ open /\ Is(Socket, WRECV) /\ inbox # <<>> /\ inbox' = Tail(inbox)
        /\ ret' = [ret EXCEPT ![s] = <<"msg", h>>]
        /\ RouseHead(Socket) /\ Flags(Socket, {}, {WRECV})
        /\ UNCHANGED <<call, risks, arrived, got, passed, accepted, told, sendq, open>>
    BY <1>0, <1>h, Zenon
       DEF _zmq_poll_cb_recv, RecvPolled, RecvRoused, Polled, Readable, pollVars
  <1>2. /\ rouse' \in [Object -> Seq(State)] /\ Distinct(rouse[Socket])'
        /\ s \in State /\ Linked(s) /\ Wake(s)
        /\ \A t \in State : Linked(t)' <=> Linked(t) /\ t # s
    <2>1. rouse[Socket] # <<>>
      BY <1>1, Zenon DEF IInv, FlagsInv
    <2> QED
      BY <1>0, <1>1, <2>1, RouseEffect, Zenon
  <1>3. status[s] = "parked" /\ In(s, "recv", Socket) /\ ret[s] = Args /\ ~Queued(s)
    <2>1. status[s] = "parked" /\ In(s, "recv", Socket) /\ ret[s] = Args
      BY <1>2, Zenon DEF IInv, QueueInv
    <2> QED
      BY <1>2, <2>1, Differ, Zenon DEF IInv, QueueInv, Holds
  <1>4. h \in Msg /\ <<"msg", h>> \in Value
    BY <1>1, <1>h, HeadMsg, Differ, Zenon
  <1>5. Moved(s, "ready", call[s], <<"msg", h>>)
    BY <1>1, <1>2, <1>3, <1>4, Wakes, Zenon DEF IInv
  <1>6. /\ Others(s) /\ status'[s] = "ready" /\ ret'[s] = <<"msg", h>>
        /\ In(s, "recv", Socket)'
    BY <1>3, <1>5, Zenon DEF Moved, In
  <1>7. QueueInv'
    <2>1. /\ \A t \in State : Queued(t)' <=> Queued(t)
          /\ Distinct(sendq)' /\ QueueInv
      BY <1>1, Zenon DEF Queued, IInv, QueueInv
    <2>2. ~Linked(s)' /\ ~Queued(s)' /\ status'[s] # "running"
      BY <1>2, <1>3, <1>6, <2>1, Zenon
    <2> QED
      BY <1>2, <1>6, <2>1, <2>2, QueueKept, Zenon
  <1>8. /\ \A k \in Msg : ~Brings(s, k) /\ ~Holds(s, k) /\ ~Holds(s, k)'
        /\ \A k \in Msg : Brings(s, k)' <=> k = h
    <2>1. \A k \in Msg : ~Brings(s, k) /\ ~Holds(s, k) /\ ~Holds(s, k)'
      BY <1>3, <1>6, Differ, Zenon DEF Brings, Holds
    <2>2. \A k \in Msg : Brings(s, k)' <=> k = h
      BY <1>6, Differ, Zenon DEF Brings
    <2> QED
      BY <2>1, <2>2, Zenon
  <1>9. /\ inbox' \in Seq(Nat) /\ got' \in [State -> Seq(Nat)]
        /\ InboxInv' /\ GotInv' /\ OnceInv'
    <2>1. \A t \in State \ {s}, k \in Msg : Brings(t, k)' <=> Brings(t, k)
      BY <1>2, <1>6, OthersKept, Zenon
    <2>2. \A k \in Msg : Brings(s, k)' <=> k = Head(inbox)
      BY <1>h, <1>8, Zenon
    <2> QED
      BY <1>1, <1>2, <1>8, <2>1, <2>2, RecvMoved, Zenon
  <1>10. SendInv'
    <2>1. SameHolds
      BY <1>2, <1>6, <1>8, OthersKept, Zenon DEF SameHolds
    <2> QED
      BY <1>1, <2>1, SendKept, Zenon
  <1>11. CloseCloses'
    BY <1>1, <1>2, <1>6, NotClosed, Differ, Zenon DEF IInv
  <1>12. /\ oflags' \in [Object -> SUBSET OFlag]
         /\ ~Is(Socket, WRECV)' /\ (Is(Socket, WSEND)' => Is(Socket, WSEND))
    BY <1>1, FlagCleared, Zenon
  <1>13. FlagsInv'
    BY <1>1, <1>12, Zenon DEF IInv, FlagsInv
  <1> QED
    BY <1>1, <1>2, <1>5, <1>7, <1>9, <1>10, <1>11, <1>12, <1>13, Zenon
       DEF IInv, TypeInv, ObjectTypeOK, Moved

\* It fails to: the state is readied without a message.
LEMMA PollRecvFailsStep ==
  ASSUME IInv, _zmq_poll_cb_recv_fails
  PROVE  IInv'
  <1>0. PICK s : s = Head(rouse[Socket])
    OBVIOUS
  <1>1. PICK v \in {Args, <<"false">>} :
          /\ open /\ Is(Socket, WRECV) /\ RouseHead(Socket) /\ Flags(Socket, {}, {WRECV})
          /\ ret' = [ret EXCEPT ![s] = v]
          /\ UNCHANGED <<call, risks, inbox, arrived, got, passed, accepted, told, sendq, open>>
    <2>1. \E v \in {Args, <<"false">>} : RecvRoused(v)
      BY Zenon DEF _zmq_poll_cb_recv_fails
    <2>2. PICK v \in {Args, <<"false">>} : RecvRoused(v)
      BY <2>1, Zenon
    <2> QED
      BY <1>0, <2>2, Zenon DEF _zmq_poll_cb_recv_fails, RecvRoused, Polled, pollVars
  <1>2. /\ rouse' \in [Object -> Seq(State)] /\ Distinct(rouse[Socket])'
        /\ s \in State /\ Linked(s) /\ Wake(s)
        /\ \A t \in State : Linked(t)' <=> Linked(t) /\ t # s
    <2>1. rouse[Socket] # <<>>
      BY <1>1, Zenon DEF IInv, FlagsInv
    <2> QED
      BY <1>0, <1>1, <2>1, RouseEffect, Zenon
  <1>3. /\ Moved(s, "ready", call[s], v) /\ QueueInv' /\ SameBrings /\ SameHolds
        /\ v # <<"closed">>
    BY <1>1, <1>2, RousedAside, Zenon
  <1>4. InboxInv' /\ GotInv' /\ OnceInv' /\ SendInv'
    BY <1>1, <1>3, RecvKept, SendKept, Zenon
  <1>5. CloseCloses'
    BY <1>1, <1>2, <1>3, NotClosed, Zenon DEF IInv, Moved
  <1>6. /\ oflags' \in [Object -> SUBSET OFlag]
        /\ ~Is(Socket, WRECV)' /\ (Is(Socket, WSEND)' => Is(Socket, WSEND))
    BY <1>1, FlagCleared, Zenon
  <1>7. FlagsInv'
    BY <1>1, <1>6, Zenon DEF IInv, FlagsInv
  <1> QED
    BY <1>1, <1>2, <1>3, <1>4, <1>5, <1>6, <1>7, Zenon
       DEF IInv, TypeInv, ObjectTypeOK, Moved

\* _zmq_poll_cb sends for the first state that waits, or fails to.
LEMMA PollSendStep ==
  ASSUME IInv, NEW s, s = Head(sendq), NEW v, SendPolled, SendRoused(v),
         \/ v = ret[s] /\ accepted' = [accepted EXCEPT ![ret[s][2]] = @ + 1]
         \/ v = <<"false">> /\ accepted' = accepted
  PROVE  IInv'
  <1>1. /\ Is(Socket, WSEND) /\ Flags(Socket, {}, {WSEND})
        /\ ret' = [ret EXCEPT ![s] = v] /\ sendq' = Tail(sendq) /\ Wake(s)
        /\ UNCHANGED <<call, risks, rouse, inbox, arrived, got, passed, told, open>>
    BY Zenon DEF SendPolled, SendRoused, pollVars
  <1>2. /\ s \in State /\ Queued(s) /\ sendq' \in Seq(State) /\ Distinct(sendq)'
        /\ \A t \in State : Queued(t)' <=> Queued(t) /\ t # s
    <2>1. sendq \in Seq(State) /\ sendq # <<>> /\ Distinct(sendq)
      BY <1>1, Zenon DEF IInv, TypeInv, FlagsInv, QueueInv
    <2>2. /\ s \in State /\ Tail(sendq) \in Seq(State) /\ s \in Range(sendq)
          /\ Range(Tail(sendq)) = Range(sendq) \ {s} /\ Distinct(Tail(sendq))
      BY <2>1, Removed, Zenon
    <2> QED
      BY <1>1, <2>2, Zenon DEF Queued
  <1>3. PICK n \in Msg : Holds(s, n)
    BY <1>2, Zenon DEF IInv, QueueInv
  <1>4. /\ status[s] = "parked" /\ In(s, "send", Socket) /\ ret[s] = <<"data", n>>
        /\ ret[s][2] = n /\ ~Linked(s)
    <2>1. status[s] = "parked" /\ In(s, "send", Socket) /\ ret[s] = <<"data", n>>
      BY <1>2, <1>3, Zenon DEF IInv, QueueInv, Holds
    <2> QED
      BY <1>2, <2>1, Differ, Zenon DEF IInv, QueueInv
  <1>5. v \in Value /\ v # <<"closed">> /\ \A k : v # <<"msg", k>>
    BY <1>4, Differ, Zenon
  <1>6. Moved(s, "ready", call[s], v)
    BY <1>1, <1>2, <1>4, <1>5, Wakes, Zenon DEF IInv
  <1>7. Others(s) /\ status'[s] = "ready" /\ ret'[s] = v /\ In(s, "send", Socket)'
    BY <1>4, <1>6, Zenon DEF Moved, In
  <1>8. QueueInv'
    <2>1. /\ \A t \in State : Linked(t)' <=> Linked(t)
          /\ Distinct(rouse[Socket])' /\ QueueInv
      BY <1>1, Zenon DEF Linked, IInv, QueueInv
    <2>2. ~Linked(s)' /\ ~Queued(s)' /\ status'[s] # "running"
      BY <1>2, <1>4, <1>7, <2>1, Zenon
    <2> QED
      BY <1>2, <1>7, <2>1, <2>2, QueueKept, Zenon
  <1>9. /\ \A k \in Msg : ~Brings(s, k) /\ ~Brings(s, k)'
        /\ \A m \in Msg \ {n} : ~Holds(s, m) /\ ~Holds(s, m)'
    <2>1. \A m \in Msg \ {n} : <<"data", m>> # v /\ <<"data", m>> # ret[s]
      BY <1>4, Differ, Zenon
    <2> QED
      BY <1>4, <1>5, <1>7, <2>1, Differ, Zenon DEF Brings, Holds
  <1>10. InboxInv' /\ GotInv' /\ OnceInv'
    <2>1. SameBrings
      BY <1>2, <1>7, <1>9, OthersKept, Zenon DEF SameBrings
    <2> QED
      BY <1>1, <2>1, RecvKept, Zenon
  <1>11. accepted' \in [Msg -> Nat] /\ SendInv'
    <2>1. OnlyHolds(s, n)
      BY <1>2, <1>7, <1>9, OthersKept, Zenon DEF OnlyHolds
    <2>2. \/ accepted' = [accepted EXCEPT ![n] = @ + 1] /\ Holds(s, n)'
          \/ accepted' = accepted /\ ~Holds(s, n)'
      <3>1. CASE v = ret[s] /\ accepted' = [accepted EXCEPT ![ret[s][2]] = @ + 1]
        BY <1>4, <1>7, <3>1, Zenon DEF Holds
      <3>2. CASE v = <<"false">> /\ accepted' = accepted
        BY <1>7, <3>2, Differ, Zenon DEF Holds
      <3> QED
        BY <3>1, <3>2, Zenon
    <2> QED
      BY <1>1, <1>2, <1>3, <1>4, <1>7, <2>1, <2>2, SendEnds, Zenon
  <1>12. CloseCloses'
    BY <1>1, <1>2, <1>5, <1>7, NotClosed, Zenon DEF IInv
  <1>13. /\ oflags' \in [Object -> SUBSET OFlag]
         /\ ~Is(Socket, WSEND)' /\ (Is(Socket, WRECV)' => Is(Socket, WRECV))
    BY <1>1, FlagCleared, Zenon
  <1>14. FlagsInv'
    BY <1>1, <1>13, Zenon DEF IInv, FlagsInv
  <1> QED
    BY <1>1, <1>2, <1>6, <1>8, <1>10, <1>11, <1>12, <1>13, <1>14, Zenon
       DEF IInv, TypeInv, ObjectTypeOK, Moved

\* A message arrives.
LEMMA PeerSendsStep ==
  ASSUME IInv, PeerSends
  PROVE  IInv'
  <1>1. /\ arrived < MaxMsg /\ arrived' = arrived + 1 /\ inbox' = Append(inbox, arrived + 1)
        /\ UNCHANGED <<status, call, ret, risks, oflags, rouse, sendq, got, passed, accepted,
                       told, open>>
    BY Zenon DEF PeerSends, loopVars, pollVars, objVars, outVars
  <1>2. /\ inbox' \in Seq(Nat) /\ arrived' \in 0 .. MaxMsg /\ Gone' = Gone /\ InboxInv'
    <2>1. inbox \in Seq(Nat) /\ Gone \in Nat /\ Numbered(inbox, Gone) /\ arrived \in 0 .. MaxMsg
      BY Zenon DEF IInv, TypeInv, InboxInv
    <2>2. arrived + 1 = Gone + Len(inbox) + 1 /\ arrived' \in 0 .. MaxMsg /\ Len(inbox) \in Nat
      BY <1>1, <2>1, ZmqBoundsAssumption DEF Gone
    <2>3. /\ inbox' \in Seq(Nat) /\ Numbered(inbox', Gone) /\ Len(inbox') = Len(inbox) + 1
      <3>1. /\ Append(inbox, Gone + Len(inbox) + 1) \in Seq(Nat)
            /\ Numbered(Append(inbox, Gone + Len(inbox) + 1), Gone)
            /\ Len(Append(inbox, Gone + Len(inbox) + 1)) = Len(inbox) + 1
        BY <2>1, Numbers, Zenon
      <3>2. inbox' = Append(inbox, Gone + Len(inbox) + 1)
        BY <1>1, <2>2, Zenon
      <3> QED
        BY <3>1, <3>2, Zenon
    <2>4. Gone' = Gone
      BY <1>1, <2>1, <2>2, <2>3 DEF Gone
    <2> QED
      BY <2>1, <2>2, <2>3, <2>4, Zenon DEF InboxInv
  <1>3. GotInv' /\ OnceInv'
    BY <1>1, <1>2, Zenon DEF IInv, GotInv, OnceInv, With, Brings, In
  <1>4. QueueInv' /\ FlagsInv'
    BY <1>1, Zenon DEF IInv, QueueInv, FlagsInv, Linked, Queued, Holds, In, Is
  <1>5. SendInv' /\ CloseCloses'
    BY <1>1, Zenon DEF IInv, SendInv, Sends, Holds, In, CloseCloses, Avoids
  <1> QED
    BY <1>1, <1>2, <1>3, <1>4, <1>5, Zenon DEF IInv, TypeInv, ObjectTypeOK

\* The steps that leave the messages, the flags and the queues alone.
LEMMA Elsewhere ==
  ASSUME IInv, UNCHANGED <<status, call, ret, risks, oflags, rouse, sendq, inbox, arrived, got,
                           passed, accepted, told, open>>
  PROVE  IInv'
  <1>1. SameBrings /\ SameHolds
    BY Zenon DEF SameBrings, SameHolds, Brings, Holds, In
  <1>2. InboxInv' /\ GotInv' /\ OnceInv' /\ SendInv'
    BY <1>1, RecvKept, SendKept, Zenon
  <1>3. QueueInv' /\ FlagsInv' /\ CloseCloses'
    BY Zenon
       DEF IInv, QueueInv, FlagsInv, CloseCloses, Avoids, Linked, Queued, Holds, In, Is
  <1> QED
    BY <1>2, <1>3, Zenon DEF IInv, TypeInv, ObjectTypeOK

\* A state that is in none of the calls of the socket moves.
LEMMA AsideStep ==
  ASSUME IInv, NEW s \in State, NEW st, NEW c, NEW v \in {Args, ret[s]}, Moved(s, st, c, v),
         Empty(s), Empty(s)', ~Linked(s), ~Queued(s), st = "running" => c = NoCall,
         UNCHANGED <<risks, oflags, rouse, sendq, inbox, arrived, got, passed, accepted, told,
                     open>>
  PROVE  IInv'
  <1>1. Others(s) /\ status'[s] = st /\ call'[s] = c /\ ret'[s] = v
    BY Zenon DEF Moved
  <1>2. SameBrings /\ SameHolds
    BY <1>1, AsideKept, Zenon
  <1>3. InboxInv' /\ GotInv' /\ OnceInv' /\ SendInv'
    BY <1>2, RecvKept, SendKept, Zenon
  <1>4. QueueInv'
    <2>1. /\ \A t \in State : (Linked(t)' <=> Linked(t)) /\ (Queued(t)' <=> Queued(t))
          /\ Distinct(rouse[Socket])' /\ Distinct(sendq)' /\ QueueInv
      BY Zenon DEF Linked, Queued, IInv, QueueInv
    <2> QED
      BY <1>1, <2>1, QueueKept, Zenon
  <1>5. CloseCloses'
    <2>1. \A t \in State : ret'[t] = <<"closed">> => ret[t] = <<"closed">>
      BY <1>1, Differ, Zenon DEF Others
    <2> QED
      BY <2>1, Zenon DEF IInv, CloseCloses, Avoids
  <1> QED
    BY <1>3, <1>4, <1>5, Zenon DEF IInv, TypeInv, ObjectTypeOK, FlagsInv, Is, Moved

LEMMA SleepSteps ==
  ASSUME IInv, NEW s \in State, Sleeps(s) \/ SleepCb(s)
  PROVE  IInv'
  <1>0. TypeInv
    BY Zenon DEF IInv
  <1>1. UNCHANGED <<risks, oflags, rouse, sendq, inbox, arrived, got, passed, accepted, told, open>>
    BY Zenon DEF Sleeps, SleepCb, luv_sleep, sleep_cb, Suspend, SuspendWith, pollVars, objVars,
                 inVars, outVars
  <1>2. CASE Sleeps(s)
    <2>1. SuspendWith(s, <<"sleep">>, Args) /\ status[s] = "running"
      BY <1>2, Zenon DEF Sleeps, luv_sleep, Suspend, SuspendWith, States!Suspend, States!Move
    <2>2. Empty(s) /\ ~Linked(s) /\ ~Queued(s)
      BY <2>1, RunningFree, Zenon
    <2>3. Moved(s, "parked", <<"sleep">>, Args)
      BY <1>0, <2>1, Parks, Differ, CallsDiffer, Zenon
    <2>4. Empty(s)'
      BY <2>3, CallsDiffer, Zenon DEF Moved, Empty, Holds, Brings, In
    <2> QED
      BY <1>1, <2>2, <2>3, <2>4, AsideStep, Zenon
  <1>3. CASE SleepCb(s)
    <2>1. /\ call[s] = <<"sleep">> /\ status[s] = "parked" /\ Wake(s) /\ UNCHANGED <<call, ret>>
      BY <1>3, Zenon DEF SleepCb, sleep_cb, pollVars
    <2>2. Moved(s, "ready", call[s], ret[s])
      <3>1. ret[s] \in Value /\ ret' = [ret EXCEPT ![s] = ret[s]]
        BY <1>0, <2>1, Zenon DEF TypeInv
      <3> QED
        BY <1>0, <2>1, <3>1, Wakes, Zenon
    <2>3. Empty(s) /\ Empty(s)' /\ ~Linked(s) /\ ~Queued(s)
      <3>1. Empty(s) /\ Empty(s)'
        BY <2>1, CallsDiffer, Zenon DEF Empty, Holds, Brings, In
      <3> QED
        BY <2>1, <3>1, CallsDiffer, Zenon DEF IInv, QueueInv, Holds, In
    <2> QED
      BY <1>1, <2>2, <2>3, AsideStep, Zenon
  <1> QED
    BY <1>2, <1>3, Zenon

\* A state returns from its call, with what it waited for.
LEMMA ResumesStep ==
  ASSUME IInv, NEW s \in State, Resumes(s)
  PROVE  IInv'
  <1>1. /\ status[s] = "ready" /\ status' = [status EXCEPT ![s] = "running"]
        /\ call' = [call EXCEPT ![s] = NoCall] /\ ret' = [ret EXCEPT ![s] = Args]
        /\ UNCHANGED <<risks, oflags, rouse, sendq, inbox, arrived, passed, accepted, open>>
    BY Zenon DEF Resumes, ResumeWith, States!Resume, States!Move, objVars
  <1>2. Moved(s, "running", NoCall, Args)
    <2>1. "running" \in States!Status /\ TypeInv
      BY Zenon DEF States!Status, IInv
    <2> QED
      BY <1>1, <2>1, Moves, Differ, CallsDiffer, Zenon
  <1>3. /\ Others(s) /\ status'[s] = "running" /\ call'[s] = NoCall /\ ret'[s] = Args
        /\ Empty(s)' /\ ~Linked(s) /\ ~Queued(s)
    <2>1. Others(s) /\ status'[s] = "running" /\ call'[s] = NoCall /\ ret'[s] = Args
      BY <1>2, Zenon DEF Moved
    <2>2. Empty(s)'
      BY <2>1, CallsDiffer, Zenon DEF Empty, Holds, Brings, In
    <2> QED
      BY <1>1, <2>1, <2>2, Zenon DEF IInv, QueueInv
  <1>4. \A t \in State \ {s}, k \in Msg :
          /\ Brings(t, k)' <=> Brings(t, k)
          /\ Holds(t, k)' <=> Holds(t, k)
          /\ status'[t] = status[t]
    BY <1>3, OthersKept, Zenon
  <1>5. QueueInv'
    <2>1. /\ \A t \in State : (Linked(t)' <=> Linked(t)) /\ (Queued(t)' <=> Queued(t))
          /\ Distinct(rouse[Socket])' /\ Distinct(sendq)' /\ QueueInv
      BY <1>1, Zenon DEF Linked, Queued, IInv, QueueInv
    <2> QED
      BY <1>3, <2>1, QueueKept, Zenon
  <1>6. got' \in [State -> Seq(Nat)] /\ InboxInv' /\ GotInv' /\ OnceInv'
    <2>1. ASSUME NEW k \in Msg, Brings(s, k), Gets(s, k)
          PROVE  got' \in [State -> Seq(Nat)] /\ InboxInv' /\ GotInv' /\ OnceInv'
      <3>1. got' = [got EXCEPT ![s] = Append(@, k)] /\ \A m \in Msg : ~Brings(s, m)'
        BY <1>3, <2>1, Zenon DEF Gets, Empty
      <3> QED
        BY <1>1, <1>4, <2>1, <3>1, RecvReturned, Zenon
    <2>2. CASE ~(\E k \in Msg : Brings(s, k)) /\ UNCHANGED got
      <3>1. SameBrings
        BY <1>3, <1>4, <2>2, Zenon DEF SameBrings, Empty
      <3>2. got' \in [State -> Seq(Nat)]
        BY <2>2, Zenon DEF IInv, TypeInv
      <3> QED
        BY <1>1, <2>2, <3>1, <3>2, RecvKept, Zenon
    <2> QED
      BY <2>1, <2>2, Zenon DEF Resumes, Msg
  <1>7. told' \in [Msg -> Nat] /\ SendInv'
    <2>1. ASSUME NEW n \in Msg, Reports(s, n), Tells(n)
          PROVE  told' \in [Msg -> Nat] /\ SendInv'
      <3>1. told' = [told EXCEPT ![n] = @ + 1] /\ ~Holds(s, n)'
        BY <1>3, <2>1, Zenon DEF Tells, Empty
      <3>2. \A m \in Msg \ {n} : ~Holds(s, m) /\ ~Holds(s, m)'
        BY <1>3, <2>1, Differ, Zenon DEF Reports, Holds, Empty
      <3>3. OnlyHolds(s, n)
        BY <1>4, <3>2, Zenon DEF OnlyHolds
      <3> QED
        BY <1>1, <2>1, <3>1, <3>3, SendReturned, Zenon
    <2>2. CASE ~(\E n \in Msg : Reports(s, n)) /\ UNCHANGED told
      <3>1. \A n \in Msg : ~Holds(s, n)
        BY <1>1, <2>2, Zenon DEF Reports, Holds
      <3>2. SameHolds
        BY <1>3, <1>4, <3>1, Zenon DEF SameHolds, Empty
      <3>3. told' \in [Msg -> Nat]
        BY <2>2, Zenon DEF IInv, TypeInv
      <3> QED
        BY <1>1, <2>2, <3>2, <3>3, SendKept, Zenon
    <2> QED
      BY <2>1, <2>2, Zenon DEF Resumes, Msg
  <1>8. CloseCloses'
    BY <1>1, <1>3, NotClosed, Differ, Zenon DEF IInv
  <1> QED
    BY <1>1, <1>2, <1>5, <1>6, <1>7, <1>8, Zenon
       DEF IInv, TypeInv, ObjectTypeOK, FlagsInv, Is, Moved

\* Every step keeps the invariant.
LEMMA NextIInv == IInv /\ [Next]_vars => IInv'
  <1> SUFFICES ASSUME IInv, [Next]_vars
               PROVE  IInv'
    OBVIOUS
  <1>1. ASSUME NEW s \in State,
               \/ luv_zmq_socket_recv_now(s) \/ luv_zmq_socket_recv(s)
               \/ luv_zmq_socket_send_now(s) \/ luv_zmq_socket_send(s)
               \/ luv_zmq_socket_fails(s) \/ luv_zmq_socket_close(s)
               \/ Sleeps(s) \/ SleepCb(s) \/ Resumes(s)
        PROVE  IInv'
    BY <1>1, RecvNowStep, RecvStep, SendNowStep, SendStep, FailsStep, CloseStep, SleepSteps,
       ResumesStep, Zenon
  <1>2. CASE _zmq_poll_cb_send
    BY <1>2, PollSendStep, Zenon DEF _zmq_poll_cb_send, Accepts
  <1>3. CASE _zmq_poll_cb_send_fails
    BY <1>3, PollSendStep, Zenon DEF _zmq_poll_cb_send_fails, SendFails
  <1>4. CASE _zmq_poll_cb_none
    BY <1>4, Elsewhere, Zenon DEF _zmq_poll_cb_none, loopVars, pollVars, objVars
  <1>5. CASE PeerReceives
    BY <1>5, Elsewhere, Zenon DEF PeerReceives, loopVars, pollVars, objVars, inVars
  <1>6. CASE UNCHANGED vars
    BY <1>6, Elsewhere, Zenon DEF vars, loopVars, pollVars, objVars, inVars, outVars
  <1> QED
    BY <1>1, <1>2, <1>3, <1>4, <1>5, <1>6, PollRecvStep, PollRecvFailsStep, ClosedStep,
       PeerSendsStep, Zenon DEF Next, PollCb

LEMMA Invariance == Spec => []IInv
  BY InitIInv, NextIInv, PTL DEF Spec

-----------------------------------------------------------------------------
(* Theorems *)

\* recv returns the messages in the order they arrived, each to exactly one state:
\* _zmq_poll_cb gives a message that it takes from 0MQ to the state it readies.
THEOREM ReceivedInOrder == Spec => []MessagesInOrder
  <1>1. IInv => MessagesInOrder
    <2> SUFFICES ASSUME IInv
                 PROVE  MessagesInOrder
      OBVIOUS
    <2>1. /\ \A i \in DOMAIN inbox : inbox[i] = Gone + i
          /\ \A s \in State : /\ \A i, j \in DOMAIN got[s] : i < j => got[s][i] < got[s][j]
                              /\ Range(got[s]) \subseteq 1 .. Gone
      BY Zenon DEF IInv, InboxInv, Numbered, GotInv, Rising
    <2>2. ASSUME NEW k \in 1 .. Gone, NEW s \in State, Brings(s, k)
          PROVE  k \notin Range(got[s])
      <3>1. k \in Msg
        BY ZmqBoundsAssumption DEF IInv, TypeInv, Gone, InboxInv, Msg
      <3>2. \A i \in DOMAIN got[s] : got[s][i] < k
        BY <2>2, <3>1, Zenon DEF IInv, GotInv, Below
      <3> QED
        BY <3>2 DEF Range
    <2>3. ASSUME NEW k \in 1 .. Gone
          PROVE  /\ \E s \in State : Brings(s, k) \/ k \in Range(got[s])
                 /\ \A s, t \in State :
                      Brings(s, k) => k \notin Range(got[t]) /\ (Brings(t, k) => s = t)
                 /\ \A s, t \in State : k \in Range(got[s]) \cap Range(got[t]) => s = t
      BY <2>2, Zenon DEF IInv, OnceInv, With
    <2> QED
      BY <2>1, <2>3, Zenon DEF MessagesInOrder, Gone
  <1> QED
    BY <1>1, Invariance, PTL

\* send returns that a message is sent if, and only if, 0MQ has accepted it, also
\* when the send that _zmq_poll_cb makes for a waiting state fails.
THEOREM SendReportsAccepted == Spec => []SentIsAccepted
  <1>1. IInv => SentIsAccepted
    <2> SUFFICES ASSUME IInv, NEW n \in Msg
                 PROVE  /\ accepted[n] <= 1 /\ told[n] <= accepted[n]
                        /\ accepted[n] = 1 /\ told[n] = 0 <=> \E s \in State : Reports(s, n)
      BY Zenon DEF SentIsAccepted, Msg
    <2>1. Sends(n)
      BY Zenon DEF IInv, SendInv
    <2>2. accepted[n] <= 1 /\ told[n] <= accepted[n]
      BY <2>1 DEF Sends
    <2>3. \A s \in State : Reports(s, n) <=> Holds(s, n) /\ status[s] = "ready"
      BY Zenon DEF Reports, Holds
    <2>4. accepted[n] = 1 => accepted[n] # 0
      OBVIOUS
    <2>5. \A s \in State : status[s] = "ready" => status[s] # "parked"
      OBVIOUS
    <2>6. accepted[n] = 1 /\ told[n] = 0 => \E s \in State : Reports(s, n)
      BY <2>1, <2>3, <2>4, Zenon DEF Sends
    <2>7. ASSUME NEW s \in State, Reports(s, n)
          PROVE  accepted[n] = 1 /\ told[n] = 0
      BY <2>1, <2>3, <2>5, <2>7, Zenon DEF Sends
    <2> QED
      BY <2>2, <2>6, <2>7, Zenon
  <1> QED
    BY <1>1, Invariance, PTL

\* Although WRECV has the bit of OCLOSING, socket:close closes the socket, unless it
\* is called while a state waits.
THEOREM CloseDoesClose == Spec => []CloseCloses
  <1>1. IInv => CloseCloses
    BY Zenon DEF IInv
  <1> QED
    BY Invariance, <1>1, PTL

\* When _zmq_poll_cb acts on WRECV or WSEND, the queue whose head it takes is not
\* empty, however many states send and receive and whenever the socket is closed.
THEOREM PollFindsWaiter == Spec => []FlagsInv
  <1>1. IInv => FlagsInv
    BY Zenon DEF IInv
  <1> QED
    BY Invariance, <1>1, PTL
=============================================================================
