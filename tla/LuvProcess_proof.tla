-------------------------- MODULE LuvProcess_proof --------------------------
(***************************************************************************)
(* RightFile, FdsAccounted, BuffersFreed and OwnResults of LuvFs and       *)
(* LuvProcess, for any number of fibers, files, descriptors and processes  *)
(* and for every set of risks.                                             *)
(***************************************************************************)
EXTENDS LuvProcess, WellFoundedInduction, TLAPS

Parked(s) == status[s] = "parked"

\* The operations on an open file; with open and close, those that have a file.
UseOp == {"read", "write", "sync", "fstat", "sendfile"}
Op == PathOp \cup {"open", "close"} \cup UseOp

Calls == {NoCall, <<"sleep">>} \cup {"fs"} \X Op \cup {"spawn"} \X Object

LoopTypes ==
  /\ status \in [State -> States!Status]
  /\ call \in [State -> Calls]
  /\ DOMAIN ret = State
  /\ risks \subseteq Risk

Requests == [op : Op \cup {"none"}, file : File \cup {NoFile},
             fd : Fd \cup {-1}, done : {"no", "ok", "fail"}]

FsTypes ==
  /\ req \in [State -> Requests]
  /\ hfile \in [File -> Fd \cup {-1}]
  /\ fdtab \in [Fd -> File \cup {NoFile}]
  /\ life \in [File -> {"new", "busy", "open", "closed"}]
  /\ bufs \in [State -> Int]
  /\ datum \in [State -> {"none", "held", "loose", "freed"}]
  /\ outcome \in [State -> {"none", "ok", "fail"}]
  /\ misdone \in BOOLEAN /\ panic \in BOOLEAN

ProcTypes ==
  /\ plife \in [Object -> {"new", "runs", "over"}]
  /\ spawner \in [Object -> State]
  /\ rouse \in [Object -> Seq(State)]

TypeInv == LoopTypes /\ FsTypes /\ ProcTypes

\* Only the state that spawned a process waits for it, in spawn, until it exits.
LinkInv ==
  \A o \in Object : rouse[o] # <<>> =>
    /\ plife[o] = "runs" /\ rouse[o] = <<spawner[o]>>
    /\ Parked(spawner[o]) /\ In(spawner[o], "spawn", o)

\* state->req is in use only while its fiber is suspended in the call that uses it.
\* What it says of the file is what the call was made for.
ReqInv ==
  \A s \in State : LET q == req[s] IN
    /\ q.op = "none" => q = NoReq
    /\ q.op # "none" => s # Main /\ Parked(s) /\ call[s] = <<"fs", q.op>>
    /\ q.op \in PathOp => q.file = NoFile /\ q.fd = -1
    /\ q.op \in Op \ PathOp => q.file \in File

\* A file is opened once, and has no descriptor before.
OpenInv ==
  /\ \A f \in File : life[f] = "new" => hfile[f] = -1
  /\ \A s \in State : req[s].op = "open" =>
       /\ life[req[s].file] # "new" /\ hfile[req[s].file] = -1
       /\ req[s].done # "ok" => req[s].fd = -1
       /\ \A t \in State : req[t].op = "open" /\ req[t].file = req[s].file => t = s

\* A program that uses no closed file: an open file has its descriptor, and so has a
\* request for it.  Who opens or closes a file is alone with it.
OpenFiles == \A f \in File : life[f] = "open" => hfile[f] \in Fd /\ fdtab[hfile[f]] = f
Alone(s) ==
  req[s].op \in {"open", "close"} =>
    life[req[s].file] = "busy" /\ \A t \in State \ {s} : req[t].file # req[s].file
Uses(s) == req[s].op \in UseOp => life[req[s].file] = "open" /\ req[s].fd = hfile[req[s].file]
Holds(s) ==
  \/ req[s].op = "open" /\ req[s].done = "ok"
  \/ req[s].op = "close" /\ req[s].done = "no"
  => req[s].fd \in Fd /\ fdtab[req[s].fd] = req[s].file
FilesInv == OpenFiles /\ \A s \in State : Alone(s) /\ Uses(s) /\ Holds(s)
FileInv == Avoids({"closed"}) => FilesInv

\* The string of a write is not collected.
DatumInv == Avoids({"temp"}) => \A s \in State : datum[s] \in {"none", "held"}

\* Where nothing fails by itself only an open does, for want of descriptors.
FailInv ==
  Avoids({"fail", "closed"}) => \A s \in State : req[s].done = "fail" => req[s].op = "open"

\* The stack of a fiber in a file system call is as the call left it until its own
\* callback, and has the results from then on.
ResultInv ==
  Avoids({"detach"}) =>
    \A s \in State :
      /\ req[s].op # "none" =>
           ret[s] = Kept(req[s].op) /\ (req[s].done # "no" => outcome[s] = req[s].done)
      /\ s # Main /\ status[s] = "ready" =>
           \A op \in Op : call[s] = <<"fs", op>> =>
             ret[s] = luv_fs_result(Kept(op), op, outcome[s])

\* The stack of a state in spawn is as the call left it until the process exits.
Exit == <<"status", "sigterm">>
SpawnInv ==
  Avoids({"detach"}) =>
    /\ \A o \in Object : plife[o] = "runs" => rouse[o] # <<>> /\ ret[spawner[o]] = Args
    /\ \A s \in State, o \in Object :
         status[s] = "ready" /\ In(s, "spawn", o) => plife[o] = "over" /\ ret[s] = Args \o Exit

\* luv_fs_result raises no error in a callback.
NoPanic == Avoids({"sendfile", "detach"}) => ~panic

\* Main's calls are synchronous.
MainInv == \A op \in Op : call[Main] # <<"fs", op>>

-----------------------------------------------------------------------------
(* What the steps do *)

\* The kernel gives the next file a descriptor that is free.
LEMMA FreeLowest ==
  ASSUME Free # {}
  PROVE  Lowest \in Fd /\ fdtab[Lowest] = NoFile
  <1>1. Free \subseteq Nat
    BY FsAssumption DEF Free, Fd
  <1>2. PICK x \in Free : \A y \in Free : ~(<<y, x>> \in OpToRel(<, Nat))
    BY <1>1, NatLessThanWellFounded, WFMin, Zenon
  <1>3. \A y \in Free : x =< y
    <2>1. OpToRel(<, Nat) = {ss \in Nat \X Nat : ss[1] < ss[2]}
      BY Zenon DEF OpToRel
    <2>2. \A y \in Free : ~(y < x)
      BY <1>1, <1>2, <2>1, Zenon
    <2> QED BY <1>1, <2>2
  <1>4. Lowest \in Free
    BY <1>3, Zenon DEF Lowest
  <1> QED BY <1>4, Zenon DEF Free

\* How the table of descriptors changes.
LEMMA KernelTable ==
  ASSUME NEW s, NEW op, NEW f, NEW d, NEW r, Kernel(s, op, f, d, r)
  PROVE  /\ r = "ok" /\ op = "open" => fdtab' = [fdtab EXCEPT ![Lowest] = f]
         /\ r = "ok" /\ op = "close" => fdtab' = [fdtab EXCEPT ![d] = NoFile]
         /\ r # "ok" \/ op \notin {"open", "close"} => fdtab' = fdtab
  BY Zenon DEF Kernel

\* An open needs a free descriptor, other operations but those on paths an open one.
LEMMA PossibleNeeds ==
  ASSUME NEW op \in Op, NEW d
  PROVE  /\ op \in PathOp => Possible(op, d)
         /\ op = "open" => (Possible(op, d) <=> Free # {})
         /\ op \in UseOp \cup {"close"} => (Possible(op, d) <=> d \in Fd \ Free)
  <1>1. /\ "open" \notin PathOp /\ "close" \notin PathOp
        /\ \A o \in UseOp : o \notin PathOp /\ o # "open"
    BY FsAssumption, Zenon DEF UseOp
  <1>2. op \in PathOp => Possible(op, d)
    BY <1>1, Zenon DEF Possible
  <1>3. op = "open" => (Possible(op, d) <=> Free # {})
    BY <1>1, Zenon DEF Possible
  <1>4. op \in UseOp \cup {"close"} => op \notin PathOp /\ op # "open"
    BY <1>1, Zenon
  <1>5. op \in UseOp \cup {"close"} => (Possible(op, d) <=> d \in Fd \ Free)
    BY <1>4, Zenon DEF Possible
  <1> QED BY <1>2, <1>3, <1>5, Zenon

\* One of the file system calls: LUV_FS_CALL with what the caller makes sure of.
Calling(s, op, f, d, str) ==
  /\ op \in Op
  /\ op \in PathOp => f = NoFile /\ d = -1
  /\ op = "open" => f \in File /\ life[f] = "new" /\ d = -1
  /\ op \in UseOp \cup {"close"} => f \in File /\ MayUse(f) /\ d = hfile[f]
  /\ op = "close" => Unused(f)
  /\ op = "read" => bufs[s] = 0
  /\ op = "sendfile" => "sendfile" \in risks
  /\ str \in {"none", "held"} \/ (str = "loose" /\ "temp" \in risks)
  /\ Running(s) /\ ~panic
Fs_sync(s, op, f, d, str) == Calling(s, op, f, d, str) /\ s = Main /\ SyncCall(s, op, f, d)
Fs_async(s, op, f, d, str) ==
  Calling(s, op, f, d, str) /\ s # Main /\ AsyncCall(s, op, f, d, str)

LEMMA CallKinds ==
  ASSUME NEW s \in State,
         \/ PathCall(s) \/ luv_fs_open(s) \/ FileCall(s) \/ luv_file_read(s)
         \/ luv_file_write(s) \/ luv_file_close(s) \/ luv_fs_sendfile(s)
  PROVE  \E op, f, d, str : Fs_sync(s, op, f, d, str) \/ Fs_async(s, op, f, d, str)
  <1> DEFINE Made(op, f, d, str) == Calling(s, op, f, d, str) /\ LUV_FS_CALL(s, op, f, d, str)
  <1>a. /\ "open" \notin PathOp /\ "close" \notin PathOp /\ "read" \notin PathOp
        /\ \A o \in UseOp : o \notin PathOp
    BY FsAssumption, Zenon DEF UseOp
  <1>1. CASE PathCall(s)
    <2>1. PICK op \in PathOp : LUV_FS_CALL(s, op, NoFile, -1, "none")
      BY <1>1, Zenon DEF PathCall
    <2>2. Made(op, NoFile, -1, "none")
      BY <2>1, FsAssumption, Zenon DEF Calling, Op, UseOp, LUV_FS_CALL
    <2> QED BY <2>2, Zenon DEF LUV_FS_CALL, Fs_sync, Fs_async
  <1>2. CASE luv_fs_open(s)
    <2>1. PICK f \in File : life[f] = "new" /\ LUV_FS_CALL(s, "open", f, -1, "none")
      BY <1>2, Zenon DEF luv_fs_open
    <2>2. Made("open", f, -1, "none")
      BY <1>a, <2>1, Zenon DEF Calling, Op, UseOp, LUV_FS_CALL
    <2> QED BY <2>2, Zenon DEF LUV_FS_CALL, Fs_sync, Fs_async
  <1>3. CASE FileCall(s)
    <2>1. PICK f \in File, op \in FileOp :
            MayUse(f) /\ LUV_FS_CALL(s, op, f, hfile[f], "none")
      BY <1>3, Zenon DEF FileCall
    <2>2. Made(op, f, hfile[f], "none")
      BY <1>a, <2>1, Zenon DEF Calling, Op, UseOp, FileOp, LUV_FS_CALL
    <2> QED BY <2>2, Zenon DEF LUV_FS_CALL, Fs_sync, Fs_async
  <1>4. CASE luv_file_read(s)
    <2>1. PICK f \in File :
            MayUse(f) /\ bufs[s] = 0 /\ LUV_FS_CALL(s, "read", f, hfile[f], "none")
      BY <1>4, Zenon DEF luv_file_read
    <2>2. Made("read", f, hfile[f], "none")
      BY <1>a, <2>1, Zenon DEF Calling, Op, UseOp, LUV_FS_CALL
    <2> QED BY <2>2, Zenon DEF LUV_FS_CALL, Fs_sync, Fs_async
  <1>5. CASE luv_file_write(s)
    <2>1. PICK f \in File :
            /\ MayUse(f)
            /\ \/ LUV_FS_CALL(s, "write", f, hfile[f], "held")
               \/ "temp" \in risks /\ LUV_FS_CALL(s, "write", f, hfile[f], "loose")
      BY <1>5, Zenon DEF luv_file_write
    <2>2. Made("write", f, hfile[f], "held") \/ Made("write", f, hfile[f], "loose")
      BY <1>a, <2>1, Zenon DEF Calling, Op, UseOp, LUV_FS_CALL
    <2> QED BY <2>2, Zenon DEF LUV_FS_CALL, Fs_sync, Fs_async
  <1>6. CASE luv_file_close(s)
    <2>1. PICK f \in File :
            MayUse(f) /\ Unused(f) /\ LUV_FS_CALL(s, "close", f, hfile[f], "none")
      BY <1>6, Zenon DEF luv_file_close
    <2>2. Made("close", f, hfile[f], "none")
      BY <1>a, <2>1, Zenon DEF Calling, Op, UseOp, LUV_FS_CALL
    <2> QED BY <2>2, Zenon DEF LUV_FS_CALL, Fs_sync, Fs_async
  <1>7. CASE luv_fs_sendfile(s)
    <2>1. PICK f \in File :
            "sendfile" \in risks /\ MayUse(f) /\ LUV_FS_CALL(s, "sendfile", f, hfile[f], "none")
      BY <1>7, Zenon DEF luv_fs_sendfile
    <2>2. Made("sendfile", f, hfile[f], "none")
      BY <1>a, <2>1, Zenon DEF Calling, Op, UseOp, LUV_FS_CALL
    <2> QED BY <2>2, Zenon DEF LUV_FS_CALL, Fs_sync, Fs_async
  <1> QED BY <1>1, <1>2, <1>3, <1>4, <1>5, <1>6, <1>7, Zenon

\* The steps that concern files, and the others.
FsMove(s) ==
  \/ \E op, f, d, str : Fs_sync(s, op, f, d, str) \/ Fs_async(s, op, f, d, str)
  \/ Collects(s) \/ Works(s) \/ luv_fs_cb(s) \/ luv_fs_cb_panics(s)
ProcMove(s, o) ==
  \/ luv_new_process(s, o) \/ luv_new_process_detached(s, o)
  \/ luv_new_process_fails(s, o) \/ luv_process_kill(s, o)
LoopMove(s) == Sleeps(s) \/ SleepCb(s) \/ Resumes(s)

LEMMA NextKinds ==
  ASSUME [Next]_vars
  PROVE  \/ \E s \in State : FsMove(s) /\ UNCHANGED <<procVars, oflags, rouse>>
         \/ \E s \in State : LoopMove(s)
         \/ \E s \in State, o \in Object : ProcMove(s, o)
         \/ \E o \in Object : _exit_cb(o)
         \/ UNCHANGED vars
  <1>1. ASSUME NEW s \in State, FsSteps(s)
        PROVE  FsMove(s) /\ UNCHANGED <<procVars, oflags, rouse>>
    BY <1>1, CallKinds, Zenon DEF FsSteps, FsStep, FsMove
  <1> QED BY <1>1, Zenon DEF Next, LoopMove, ProcMove, Panicked

-----------------------------------------------------------------------------
(* Types *)

LEMMA InitTypes == Init => TypeInv
  <1> SUFFICES ASSUME Init PROVE TypeInv
    OBVIOUS
  <1> USE DEF Init, LoopInit, FsInit, luvL_object_init
  <1>1. LoopTypes
    BY FsAssumption, Zenon DEF LoopTypes, Calls, States!Status, State, States!State
  <1>2. FsTypes
    <2>1. NoReq \in Requests
      BY Zenon DEF NoReq, Requests
    <2>2. misdone \in BOOLEAN /\ panic \in BOOLEAN
      BY Zenon
    <2> QED BY <2>1, <2>2 DEF FsTypes
  <1>3. ProcTypes
    BY DEF ProcTypes, State, States!State
  <1> QED BY <1>1, <1>2, <1>3, Zenon DEF TypeInv

\* The scheduler's part: what the calls do to states.
LEMMA SuspendTypes ==
  ASSUME LoopTypes, NEW s \in State, NEW c \in Calls, NEW L, SuspendWith(s, c, L)
  PROVE  LoopTypes'
  BY Zenon DEF LoopTypes, SuspendWith, States!Suspend, States!Move, States!Status

LEMMA WakeTypes ==
  ASSUME status \in [State -> States!Status], NEW s, Wake(s)
  PROVE  status' \in [State -> States!Status]
  BY Zenon DEF Wake, States!Ready, States!Move, States!Status

LEMMA ReturnTypes ==
  ASSUME LoopTypes, NEW s \in State, NEW v, Return(s, v)
  PROVE  LoopTypes'
  BY Zenon DEF LoopTypes, Return, pollVars

LEMMA SignalTypes ==
  ASSUME status \in [State -> States!Status], ProcTypes, NEW o \in Object, luvL_cond_signal(o)
  PROVE  status' \in [State -> States!Status] /\ rouse' \in [Object -> Seq(State)]
  <1>1. CASE rouse[o] = <<>>
    BY <1>1, Zenon DEF luvL_cond_signal, ProcTypes
  <1>2. CASE rouse[o] # <<>>
    <2>1. rouse[o] \in Seq(State)
      BY Zenon DEF ProcTypes
    <2>2. Tail(rouse[o]) \in Seq(State)
      BY <1>2, <2>1
    <2> QED BY <1>2, <2>2, WakeTypes, Zenon DEF luvL_cond_signal, RouseHead, ProcTypes
  <1> QED BY <1>1, <1>2, Zenon

LEMMA LoopTypesStep == TypeInv /\ [Next]_vars => LoopTypes'
  <1> SUFFICES ASSUME TypeInv, [Next]_vars PROVE LoopTypes'
    OBVIOUS
  <1>a. LoopTypes /\ ProcTypes
    BY Zenon DEF TypeInv
  <1>b. /\ NoCall \in Calls /\ <<"sleep">> \in Calls
        /\ \A op \in Op : <<"fs", op>> \in Calls
        /\ \A o \in Object : <<"spawn", o>> \in Calls
    BY Zenon DEF Calls
  <1>1. ASSUME NEW s \in State, FsMove(s) PROVE LoopTypes'
    <2>1. ASSUME NEW op, NEW f, NEW d, NEW str, Fs_sync(s, op, f, d, str) PROVE LoopTypes'
      BY <1>a, <2>1, ReturnTypes, Zenon DEF Fs_sync, SyncCall
    <2>2. ASSUME NEW op, NEW f, NEW d, NEW str, Fs_async(s, op, f, d, str) PROVE LoopTypes'
      BY <1>a, <1>b, <2>2, SuspendTypes, Zenon DEF Fs_async, Calling, AsyncCall
    <2>3. CASE Collects(s) \/ Works(s) \/ luv_fs_cb_panics(s)
      BY <1>a, <2>3, Zenon
      DEF Collects, Works, luv_fs_cb_panics, loopVars, pollVars, LoopTypes
    <2>4. CASE luv_fs_cb(s)
      BY <1>a, <2>4, WakeTypes, Zenon DEF luv_fs_cb, pollVars, LoopTypes
    <2> QED BY <1>1, <2>1, <2>2, <2>3, <2>4, Zenon DEF FsMove
  <1>2. ASSUME NEW s \in State, LoopMove(s) PROVE LoopTypes'
    <2>1. CASE Sleeps(s)
      BY <1>a, <1>b, <2>1, SuspendTypes, Zenon DEF Sleeps, luv_sleep, Suspend
    <2>2. CASE SleepCb(s)
      BY <1>a, <2>2, WakeTypes, Zenon DEF SleepCb, sleep_cb, pollVars, LoopTypes
    <2>3. CASE Resumes(s)
      BY <1>a, <1>b, <2>3, Zenon
         DEF Resumes, ResumeWith, States!Resume, States!Move, States!Status, LoopTypes
    <2> QED BY <1>2, <2>1, <2>2, <2>3, Zenon DEF LoopMove
  <1>3. ASSUME NEW s \in State, NEW o \in Object, ProcMove(s, o) PROVE LoopTypes'
    <2>1. CASE luv_new_process(s, o)
      BY <1>a, <1>b, <2>1, SuspendTypes, Zenon DEF luv_new_process, luvL_cond_wait, Suspend
    <2>2. CASE luv_new_process_detached(s, o) \/ luv_new_process_fails(s, o)
      BY <1>a, <2>2, ReturnTypes, Zenon DEF luv_new_process_detached, luv_new_process_fails
    <2>3. CASE luv_process_kill(s, o)
      BY <1>a, <2>3, ReturnTypes, Zenon DEF luv_process_kill
    <2> QED BY <1>3, <2>1, <2>2, <2>3, Zenon DEF ProcMove
  <1>4. ASSUME NEW o \in Object, _exit_cb(o) PROVE LoopTypes'
    BY <1>a, <1>4, SignalTypes, Zenon DEF _exit_cb, pollVars, LoopTypes
  <1>5. CASE UNCHANGED vars
    BY <1>a, <1>5, Zenon DEF vars, loopVars, pollVars, LoopTypes
  <1> QED BY <1>1, <1>2, <1>3, <1>4, <1>5, NextKinds, Zenon

LEMMA KernelTypes ==
  ASSUME FsTypes, NEW s, NEW op \in Op, NEW f \in File \cup {NoFile}, NEW d,
         NEW r \in {"ok", "fail"}, Kernel(s, op, f, d, r)
  PROVE  fdtab' \in [Fd -> File \cup {NoFile}] /\ misdone' \in BOOLEAN
  <1>1. fdtab' \in [Fd -> File \cup {NoFile}]
    BY KernelTable DEF FsTypes
  <1>2. misdone' \in BOOLEAN
    BY Zenon DEF Kernel
  <1> QED BY <1>1, <1>2, Zenon

LEMMA FsTypesStep == TypeInv /\ [Next]_vars => FsTypes'
  <1> SUFFICES ASSUME TypeInv, [Next]_vars PROVE FsTypes'
    OBVIOUS
  <1>a. FsTypes
    BY Zenon DEF TypeInv
  <1>1. ASSUME NEW s \in State, FsMove(s) PROVE FsTypes'
    <2>1. ASSUME NEW op, NEW f, NEW d, NEW str, Fs_sync(s, op, f, d, str) PROVE FsTypes'
      <3>1. op \in Op /\ f \in File \cup {NoFile} /\ (op = "open" => f \in File)
        BY <2>1, Zenon DEF Fs_sync, Calling, Op
      <3>2. PICK r \in {"ok", "fail"} :
              /\ Kernel(s, op, f, d, r)
              /\ StoresFd(op, f, IF Free = {} THEN -1 ELSE Lowest, r)
              /\ Learns(op, f, r)
              /\ bufs' = [bufs EXCEPT ![s] = @ + (IF op = "read" THEN 1 ELSE 0) + FreesBuffer(s, op, r)]
              /\ UNCHANGED <<req, datum, outcome, panic>>
        BY <2>1, Zenon DEF Fs_sync, SyncCall
      <3>3. hfile' \in [File -> Fd \cup {-1}]
        BY <1>a, <3>2, FreeLowest, Zenon DEF StoresFd, FsTypes
      <3>4. life' \in [File -> {"new", "busy", "open", "closed"}]
        BY <1>a, <3>2, Zenon DEF Learns, FsTypes
      <3>5. bufs' \in [State -> Int]
        BY <1>a, <3>2 DEF FreesBuffer, FsTypes
      <3>6. fdtab' \in [Fd -> File \cup {NoFile}] /\ misdone' \in BOOLEAN
        BY <1>a, <3>1, <3>2, KernelTypes, Zenon
      <3> QED BY <1>a, <3>2, <3>3, <3>4, <3>5, <3>6, Zenon DEF FsTypes
    <2>2. ASSUME NEW op, NEW f, NEW d, NEW str, Fs_async(s, op, f, d, str) PROVE FsTypes'
      <3>1. /\ op \in Op /\ f \in File \cup {NoFile} /\ d \in Fd \cup {-1}
            /\ str \in {"none", "held", "loose"}
        BY <1>a, <2>2 DEF Fs_async, Calling, Op, FsTypes
      <3>2. [op |-> op, file |-> f, fd |-> d, done |-> "no"] \in Requests
        BY <3>1, Zenon DEF Requests
      <3>3. req' \in [State -> Requests]
        BY <1>a, <2>2, <3>2, Zenon DEF Fs_async, AsyncCall, FsTypes
      <3>4. life' \in [File -> {"new", "busy", "open", "closed"}]
        BY <1>a, <2>2, Zenon DEF Fs_async, AsyncCall, FsTypes
      <3>5. /\ bufs' \in [State -> Int]
            /\ datum' \in [State -> {"none", "held", "loose", "freed"}]
        BY <1>a, <2>2, <3>1 DEF Fs_async, AsyncCall, FsTypes
      <3> QED BY <1>a, <2>2, <3>3, <3>4, <3>5, Zenon DEF Fs_async, AsyncCall, FsTypes
    <2>3. CASE Collects(s)
      BY <1>a, <2>3, Zenon DEF Collects, fileVars, FsTypes
    <2>4. CASE Works(s)
      <3> DEFINE q == req[s]
      <3>1. PICK r \in {"ok", "fail"} :
              /\ q.op # "none" /\ q.done = "no"
              /\ Kernel(s, q.op, q.file, q.fd, r)
              /\ outcome' = [outcome EXCEPT ![s] = r]
              /\ req' = [req EXCEPT ![s].done = r,
                                    ![s].fd = IF q.op = "open" /\ r = "ok" THEN Lowest ELSE @]
              /\ UNCHANGED <<hfile, life, bufs, datum, panic>>
        BY <2>4, Zenon DEF Works
      <3>2. q \in Requests /\ q.op \in Op /\ q.file \in File \cup {NoFile}
        BY <1>a, <3>1, Zenon DEF Requests, FsTypes
      <3>3. q.op = "open" /\ r = "ok" => Lowest \in Fd
        BY <3>1, <3>2, FreeLowest, PossibleNeeds, Zenon DEF Kernel
      <3>4. req' \in [State -> Requests]
        BY <1>a, <3>1, <3>2, <3>3, ZenonT(60) DEF Requests, FsTypes
      <3>5. fdtab' \in [Fd -> File \cup {NoFile}] /\ misdone' \in BOOLEAN
        BY <1>a, <3>1, <3>2, KernelTypes, Zenon
      <3> QED BY <1>a, <3>1, <3>4, <3>5, Zenon DEF FsTypes
    <2>5. CASE luv_fs_cb(s)
      <3> DEFINE q == req[s]
      <3>1. q \in Requests /\ NoReq \in Requests
        BY <1>a, Zenon DEF Requests, NoReq, FsTypes
      <3>2. hfile' \in [File -> Fd \cup {-1}]
        BY <1>a, <2>5, <3>1, Zenon DEF luv_fs_cb, StoresFd, Requests, FsTypes
      <3>3. life' \in [File -> {"new", "busy", "open", "closed"}]
        BY <1>a, <2>5, Zenon DEF luv_fs_cb, Learns, FsTypes
      <3>4. bufs' \in [State -> Int]
        BY <1>a, <2>5 DEF luv_fs_cb, FreesBuffer, FsTypes
      <3> QED BY <1>a, <2>5, <3>1, <3>2, <3>3, <3>4, Zenon DEF luv_fs_cb, FsTypes
    <2>6. CASE luv_fs_cb_panics(s)
      <3>1. UNCHANGED <<reqVars, fileVars>> /\ panic' \in BOOLEAN
        BY <2>6, Zenon DEF luv_fs_cb_panics
      <3> QED BY <1>a, <3>1, Zenon DEF reqVars, fileVars, FsTypes
    <2> QED BY <1>1, <2>1, <2>2, <2>3, <2>4, <2>5, <2>6, Zenon DEF FsMove
  <1>2. ASSUME NEW s \in State, LoopMove(s) PROVE FsTypes'
    <2>1. CASE Sleeps(s) \/ SleepCb(s)
      BY <1>a, <2>1, Zenon DEF Sleeps, SleepCb, fsVars, reqVars, fileVars, FsTypes
    <2>2. CASE Resumes(s)
      BY <1>a, <2>2, Zenon DEF Resumes, fileVars, FsTypes
    <2> QED BY <1>2, <2>1, <2>2, Zenon DEF LoopMove
  <1>3. ASSUME NEW s \in State, NEW o \in Object, ProcMove(s, o) PROVE FsTypes'
    <2>1. UNCHANGED fsVars
      BY <1>3, Zenon DEF ProcMove, luv_new_process, luv_new_process_detached,
                  luv_new_process_fails, luv_process_kill
    <2> QED BY <1>a, <2>1, Zenon DEF fsVars, reqVars, fileVars, FsTypes
  <1>4. ASSUME NEW o \in Object, _exit_cb(o) PROVE FsTypes'
    BY <1>a, <1>4, Zenon DEF _exit_cb, fsVars, reqVars, fileVars, FsTypes
  <1>5. CASE UNCHANGED vars
    BY <1>a, <1>5, Zenon DEF vars, fsVars, reqVars, fileVars, FsTypes
  <1> QED BY <1>1, <1>2, <1>3, <1>4, <1>5, NextKinds, Zenon

LEMMA ProcTypesStep == TypeInv /\ [Next]_vars => ProcTypes'
  <1> SUFFICES ASSUME TypeInv, [Next]_vars PROVE ProcTypes'
    OBVIOUS
  <1>a. ProcTypes /\ status \in [State -> States!Status]
    BY Zenon DEF TypeInv, LoopTypes
  <1>1. ASSUME NEW s \in State, LoopMove(s) PROVE UNCHANGED <<procVars, rouse>>
    BY <1>1, Zenon DEF LoopMove, Sleeps, SleepCb, Resumes
  <1>2. ASSUME NEW s \in State, NEW o \in Object, ProcMove(s, o) PROVE ProcTypes'
    <2>1. CASE luv_new_process(s, o)
      <3>1. rouse[o] \in Seq(State)
        BY <1>a, Zenon DEF ProcTypes
      <3>2. Append(rouse[o], s) \in Seq(State)
        BY <3>1
      <3> QED BY <1>a, <2>1, <3>2, Zenon
              DEF luv_new_process, luvL_cond_wait, Spawned, ProcTypes
    <2>2. CASE luv_new_process_detached(s, o)
      BY <1>a, <2>2, Zenon DEF luv_new_process_detached, Spawned, ProcTypes
    <2>3. CASE luv_new_process_fails(s, o)
      BY <1>a, <2>3, Zenon DEF luv_new_process_fails, ProcTypes
    <2>4. CASE luv_process_kill(s, o)
      BY <1>a, <2>4, Zenon DEF luv_process_kill, procVars, ProcTypes
    <2> QED BY <1>2, <2>1, <2>2, <2>3, <2>4, Zenon DEF ProcMove
  <1>3. ASSUME NEW o \in Object, _exit_cb(o) PROVE ProcTypes'
    BY <1>a, <1>3, SignalTypes, Zenon DEF _exit_cb, ProcTypes
  <1>4. UNCHANGED <<procVars, rouse>> => ProcTypes'
    BY <1>a, Zenon DEF procVars, ProcTypes
  <1>5. UNCHANGED vars => UNCHANGED <<procVars, rouse>>
    BY Zenon DEF vars
  <1> QED BY <1>1, <1>2, <1>3, <1>4, <1>5, NextKinds, Zenon

-----------------------------------------------------------------------------
(* Who is woken, and out of which call *)

WaitInv == TypeInv /\ LinkInv /\ ReqInv /\ MainInv

\* The calls differ, and a queue with one state has it as its head.
LEMMA CallsDiffer ==
  /\ \A op \in Op : <<"fs", op>> # NoCall /\ <<"fs", op>> # <<"sleep">>
  /\ \A op, op2 \in Op : <<"fs", op>> = <<"fs", op2>> => op = op2
  /\ \A op \in Op, o \in Object : <<"fs", op>> # <<"spawn", o>>
  /\ \A o \in Object : <<"spawn", o>> # NoCall /\ <<"spawn", o>> # <<"sleep">>
  /\ \A o, p \in Object : <<"spawn", o>> = <<"spawn", p>> => o = p
  /\ NoCall # <<"sleep">>
  BY Zenon DEF NoCall

LEMMA Single ==
  ASSUME NEW s
  PROVE  Head(<<s>>) = s /\ Tail(<<s>>) = <<>> /\ <<s>> # <<>> /\ Append(<<>>, s) = <<s>>
  OBVIOUS

\* A request that is in use has an operation.
LEMMA InUse ==
  ASSUME TypeInv, ReqInv, NEW s \in State, req[s].done # "no" \/ req[s].op # "none"
  PROVE  /\ req[s] \in Requests /\ req[s].op \in Op
         /\ s # Main /\ Parked(s) /\ call[s] = <<"fs", req[s].op>>
  <1>1. req[s] \in Requests
    BY Zenon DEF TypeInv, FsTypes
  <1>2. req[s].op # "none"
    BY DEF ReqInv, NoReq
  <1> QED BY <1>1, <1>2, Zenon DEF ReqInv, Requests

\* A suspended state goes on waiting, or is woken: by sleep_cb, by its own luv_fs_cb
\* or by the _exit_cb of the process it spawned.
Woken(t) ==
  /\ status'[t] = "ready"
  /\ \/ call[t] = <<"sleep">>
     \/ luv_fs_cb(t) /\ req[t].op # "none" /\ call[t] = <<"fs", req[t].op>>
     \/ \E o \in Object : _exit_cb(o) /\ rouse[o] = <<t>> /\ call[t] = <<"spawn", o>>

LEMMA ParkedMoves ==
  ASSUME WaitInv, [Next]_vars, NEW t \in State, Parked(t)
  PROVE  call'[t] = call[t] /\ (Parked(t)' \/ Woken(t))
  <1>a. /\ status \in [State -> States!Status] /\ call \in [State -> Calls]
        /\ status[t] = "parked"
    BY Zenon DEF WaitInv, TypeInv, LoopTypes, Parked
  <1>w. ASSUME NEW s \in State, Wake(s)
        PROVE  (s # t /\ status'[t] = "parked") \/ (s = t /\ status'[t] = "ready")
    BY <1>a, <1>w, Zenon DEF Wake, States!Ready, States!Move
  <1>r. ASSUME NEW s \in State, Running(s) PROVE s # t
    BY <1>a, <1>r, Zenon DEF Running
  <1>s. ASSUME NEW s \in State, NEW c, NEW L, SuspendWith(s, c, L)
        PROVE  call'[t] = call[t] /\ status'[t] = "parked"
    BY <1>a, <1>s, Zenon DEF SuspendWith, States!Suspend, States!Move
  <1>n. ASSUME NEW s \in State, NEW v, Return(s, v)
        PROVE  call'[t] = call[t] /\ status'[t] = "parked"
    BY <1>a, <1>n, Zenon DEF Return, pollVars
  <1>1. ASSUME NEW s \in State, FsMove(s)
        PROVE  call'[t] = call[t] /\ (status'[t] = "parked" \/ Woken(t))
    <2>1. ASSUME NEW op, NEW f, NEW d, NEW str, Fs_sync(s, op, f, d, str)
          PROVE  call'[t] = call[t] /\ status'[t] = "parked"
      BY <2>1, <1>n, Zenon DEF Fs_sync, SyncCall
    <2>2. ASSUME NEW op, NEW f, NEW d, NEW str, Fs_async(s, op, f, d, str)
          PROVE  call'[t] = call[t] /\ status'[t] = "parked"
      BY <2>2, <1>s, Zenon DEF Fs_async, AsyncCall
    <2>3. CASE Collects(s) \/ Works(s) \/ luv_fs_cb_panics(s)
      BY <1>a, <2>3, Zenon DEF Collects, Works, luv_fs_cb_panics, loopVars, pollVars
    <2>4. CASE luv_fs_cb(s)
      <3>1. Wake(s) /\ call' = call /\ req[s].done # "no"
        BY <2>4, Zenon DEF luv_fs_cb, FsDone, pollVars
      <3>2. req[s].op # "none" /\ call[s] = <<"fs", req[s].op>>
        BY <3>1, InUse DEF WaitInv, Op, UseOp, ReqInv, NoReq
      <3> QED BY <2>4, <3>1, <3>2, <1>w, Zenon DEF Woken
    <2> QED BY <1>1, <2>1, <2>2, <2>3, <2>4, Zenon DEF FsMove
  <1>2. ASSUME NEW s \in State, LoopMove(s)
        PROVE  call'[t] = call[t] /\ (status'[t] = "parked" \/ Woken(t))
    <2>1. CASE Sleeps(s)
      BY <2>1, <1>s, Zenon DEF Sleeps, luv_sleep, Suspend
    <2>2. CASE SleepCb(s)
      BY <2>2, <1>w, Zenon DEF SleepCb, sleep_cb, pollVars, Woken
    <2>3. CASE Resumes(s)
      BY <1>a, <2>3, Zenon DEF Resumes, ResumeWith, States!Resume, States!Move
    <2> QED BY <1>2, <2>1, <2>2, <2>3, Zenon DEF LoopMove
  <1>3. ASSUME NEW s \in State, NEW o \in Object, ProcMove(s, o)
        PROVE  call'[t] = call[t] /\ status'[t] = "parked"
    <2>1. CASE luv_new_process(s, o)
      BY <2>1, <1>s, Zenon DEF luv_new_process, luvL_cond_wait, Suspend
    <2>2. CASE luv_new_process_detached(s, o) \/ luv_new_process_fails(s, o)
      BY <2>2, <1>n, Zenon DEF luv_new_process_detached, luv_new_process_fails
    <2>3. CASE luv_process_kill(s, o)
      BY <2>3, <1>n, Zenon DEF luv_process_kill
    <2> QED BY <1>3, <2>1, <2>2, <2>3, Zenon DEF ProcMove
  <1>4. ASSUME NEW o \in Object, _exit_cb(o)
        PROVE  call'[t] = call[t] /\ (status'[t] = "parked" \/ Woken(t))
    <2>1. call' = call /\ luvL_cond_signal(o)
      BY <1>4, Zenon DEF _exit_cb, pollVars
    <2>2. CASE rouse[o] = <<>>
      BY <1>a, <2>1, <2>2, Zenon DEF luvL_cond_signal
    <2>3. CASE rouse[o] # <<>>
      <3>1. /\ rouse[o] = <<spawner[o]>> /\ spawner[o] \in State
            /\ call[spawner[o]] = <<"spawn", o>>
        BY <2>3, Zenon DEF WaitInv, LinkInv, In, TypeInv, ProcTypes
      <3>2. Wake(spawner[o])
        BY <2>1, <2>3, <3>1, Single, Zenon DEF luvL_cond_signal, RouseHead
      <3> QED BY <1>4, <2>1, <3>1, <3>2, <1>w, Zenon DEF Woken
    <2> QED BY <2>2, <2>3, Zenon
  <1>5. CASE UNCHANGED vars
    BY <1>a, <1>5, Zenon DEF vars, loopVars, pollVars, Parked
  <1> QED BY <1>1, <1>2, <1>3, <1>4, <1>5, NextKinds, Zenon DEF Parked

\* Steps other than those of files leave requests, files and buffers alone.
Quiet == UNCHANGED <<req, bufs, datum, fileVars, panic, risks>>

LEMMA QuietSteps ==
  ASSUME [Next]_vars
  PROVE  \/ \E s \in State : FsMove(s) /\ UNCHANGED <<procVars, oflags, rouse>>
         \/ Quiet
  <1>1. ASSUME NEW s \in State, LoopMove(s) PROVE Quiet
    <2>1. CASE Sleeps(s)
      BY <2>1, Zenon DEF Sleeps, luv_sleep, Suspend, SuspendWith, fsVars, reqVars, Quiet
    <2>2. CASE SleepCb(s)
      BY <2>2, Zenon DEF SleepCb, sleep_cb, pollVars, fsVars, reqVars, Quiet
    <2>3. CASE Resumes(s)
      BY <2>3, Zenon DEF Resumes, ResumeWith, Quiet
    <2> QED BY <1>1, <2>1, <2>2, <2>3, Zenon DEF LoopMove
  <1>2. ASSUME NEW s \in State, NEW o \in Object, ProcMove(s, o) PROVE Quiet
    <2>1. CASE luv_new_process(s, o)
      BY <2>1, Zenon
      DEF luv_new_process, luvL_cond_wait, Suspend, SuspendWith, fsVars, reqVars, Quiet
    <2>2. CASE luv_new_process_detached(s, o)
      BY <2>2, Zenon DEF luv_new_process_detached, Return, pollVars, fsVars, reqVars, Quiet
    <2>3. CASE luv_new_process_fails(s, o)
      BY <2>3, Zenon DEF luv_new_process_fails, Return, pollVars, fsVars, reqVars, Quiet
    <2>4. CASE luv_process_kill(s, o)
      BY <2>4, Zenon DEF luv_process_kill, Return, pollVars, fsVars, reqVars, Quiet
    <2> QED BY <1>2, <2>1, <2>2, <2>3, <2>4, Zenon DEF ProcMove
  <1>3. ASSUME NEW o \in Object, _exit_cb(o) PROVE Quiet
    BY <1>3, Zenon DEF _exit_cb, pollVars, fsVars, reqVars, Quiet
  <1>4. UNCHANGED vars => Quiet
    BY Zenon DEF vars, loopVars, pollVars, fsVars, reqVars, Quiet
  <1> QED BY <1>1, <1>2, <1>3, <1>4, NextKinds, Zenon

\* How the request of a state changes: not, or the thread pool notes a result, or its
\* callback frees it, or a call of its fiber starts to use it.
Noted(t) ==
  /\ req[t].op # "none" => req'[t].op = req[t].op /\ req'[t].file = req[t].file
  /\ req[t].op = "none" => req'[t] = req[t]
  /\ req[t].op \in PathOp => req'[t].fd = req[t].fd

LEMMA ReqMoves ==
  ASSUME TypeInv, [Next]_vars, NEW t \in State
  PROVE  \/ Noted(t)
         \/ luv_fs_cb(t) /\ req'[t] = NoReq
         \/ \E op, f, d, str :
              /\ Fs_async(t, op, f, d, str)
              /\ req'[t] = [op |-> op, file |-> f, fd |-> d, done |-> "no"]
  <1>a. req \in [State -> Requests]
    BY Zenon DEF TypeInv, FsTypes
  <1>1. req' = req => Noted(t)
    BY Zenon DEF Noted
  <1>2. ASSUME NEW s \in State, FsMove(s), ~Noted(t)
        PROVE  \/ luv_fs_cb(t) /\ req'[t] = NoReq
               \/ \E op, f, d, str :
                    /\ Fs_async(t, op, f, d, str)
                    /\ req'[t] = [op |-> op, file |-> f, fd |-> d, done |-> "no"]
    <2>1. ASSUME NEW op, NEW f, NEW d, NEW str, Fs_sync(s, op, f, d, str) PROVE FALSE
      BY <1>1, <1>2, <2>1, Zenon DEF Fs_sync, SyncCall
    <2>2. ASSUME NEW op, NEW f, NEW d, NEW str, Fs_async(s, op, f, d, str)
          PROVE  /\ Fs_async(t, op, f, d, str)
                 /\ req'[t] = [op |-> op, file |-> f, fd |-> d, done |-> "no"]
      <3>1. req' # req
        BY <1>1, <1>2, Zenon
      <3>2. req' = [req EXCEPT ![s] = [op |-> op, file |-> f, fd |-> d, done |-> "no"]]
        BY <2>2, <3>1, Zenon DEF Fs_async, AsyncCall
      <3>3. s # t => req'[t] = req[t]
        BY <1>a, <3>2, Zenon
      <3>4. s = t
        BY <1>2, <3>3, Zenon DEF Noted
      <3>5. req'[t] = [op |-> op, file |-> f, fd |-> d, done |-> "no"]
        BY <1>a, <3>2, <3>4, Zenon
      <3> QED BY <2>2, <3>4, <3>5, Zenon
    <2>3. CASE Collects(s) \/ luv_fs_cb_panics(s)
      BY <1>1, <1>2, <2>3, Zenon DEF Collects, luv_fs_cb_panics, reqVars
    <2>4. CASE Works(s)
      <3>1. PICK r, fd : /\ req[s].op # "none"
                         /\ req' = [req EXCEPT ![s].done = r, ![s].fd = fd]
                         /\ fd = IF req[s].op = "open" /\ r = "ok" THEN Lowest ELSE req[s].fd
        <4>1. PICK r \in {"ok", "fail"} :
                /\ req[s].op # "none"
                /\ req' = [req EXCEPT ![s].done = r,
                                      ![s].fd = IF req[s].op = "open" /\ r = "ok" THEN Lowest ELSE @]
          BY <2>4, Zenon DEF Works
        <4>2. req' = [req EXCEPT ![s].done = r,
                                 ![s].fd = IF req[s].op = "open" /\ r = "ok" THEN Lowest ELSE req[s].fd]
          BY <1>a, <4>1, Zenon DEF Requests
        <4> QED BY <4>1, <4>2, Zenon
      <3>2. Noted(t)
        BY <1>a, <3>1, FsAssumption DEF Noted, Requests
      <3> QED BY <1>2, <3>2, Zenon
    <2>5. CASE luv_fs_cb(s)
      <3>1. req' = [req EXCEPT ![s] = NoReq]
        BY <2>5, Zenon DEF luv_fs_cb
      <3>2. s # t => req'[t] = req[t]
        BY <1>a, <3>1, Zenon
      <3>3. s = t
        BY <1>2, <3>2, Zenon DEF Noted
      <3>4. req'[t] = NoReq
        BY <1>a, <3>1, <3>3, Zenon
      <3> QED BY <2>5, <3>3, <3>4, Zenon
    <2>6. CASE \E op, f, d, str : Fs_sync(s, op, f, d, str) \/ Fs_async(s, op, f, d, str)
      <3>1. PICK op, f, d, str : Fs_sync(s, op, f, d, str) \/ Fs_async(s, op, f, d, str)
        BY <2>6, Zenon
      <3>2. /\ Fs_async(t, op, f, d, str)
            /\ req'[t] = [op |-> op, file |-> f, fd |-> d, done |-> "no"]
        BY <2>1, <2>2, <3>1, Zenon
      <3> QED BY <3>2, Zenon
    <2> QED BY <1>2, <2>3, <2>4, <2>5, <2>6, Zenon DEF FsMove
  <1>3. Quiet => req' = req
    BY Zenon DEF Quiet
  <1> QED BY <1>1, <1>2, <1>3, QuietSteps, Zenon

LEMMA ReqStep == WaitInv /\ [Next]_vars => ReqInv'
  <1> SUFFICES ASSUME WaitInv, [Next]_vars, NEW t \in State
               PROVE  LET q == req'[t] IN
                        /\ q.op = "none" => q = NoReq
                        /\ q.op # "none" =>
                             t # Main /\ status'[t] = "parked" /\ call'[t] = <<"fs", q.op>>
                        /\ q.op \in PathOp => q.file = NoFile /\ q.fd = -1
                        /\ q.op \in Op \ PathOp => q.file \in File
    BY Zenon DEF ReqInv, Parked
  <1>a. TypeInv /\ ReqInv
    BY Zenon DEF WaitInv
  <1>b. "none" \notin Op /\ NoReq.op = "none"
    BY FsAssumption, Zenon DEF Op, UseOp, NoReq
  <1>1. CASE Noted(t)
    <2>1. CASE req[t].op = "none"
      <3>1. req'[t] = NoReq
        BY <1>a, <1>1, <2>1, Zenon DEF Noted, ReqInv
      <3> QED BY <1>b, <3>1, Zenon DEF Op
    <2>2. CASE req[t].op # "none"
      <3>1. /\ req[t].op \in Op /\ t # Main /\ Parked(t) /\ call[t] = <<"fs", req[t].op>>
            /\ req[t].op \in PathOp => req[t].file = NoFile /\ req[t].fd = -1
            /\ req[t].op \in Op \ PathOp => req[t].file \in File
        BY <1>a, <2>2, InUse, Zenon DEF ReqInv
      <3>2. call'[t] = call[t] /\ (Parked(t)' \/ Woken(t))
        BY <3>1, ParkedMoves, Zenon
      <3>3. ~luv_fs_cb(t)
        <4>1. req \in [State -> Requests]
          BY <1>a, Zenon DEF TypeInv, FsTypes
        <4>2. luv_fs_cb(t) => req'[t] = NoReq
          BY <4>1, Zenon DEF luv_fs_cb
        <4> QED BY <1>1, <1>b, <2>2, <4>2, Zenon DEF Noted
      <3>4. Parked(t)'
        BY <3>1, <3>2, <3>3, CallsDiffer, Zenon DEF Woken
      <3> QED BY <1>1, <2>2, <3>1, <3>2, <3>4, Zenon DEF Noted, Parked
    <2> QED BY <2>1, <2>2, Zenon
  <1>2. CASE req'[t] = NoReq
    BY <1>2, <1>b, Zenon DEF Op
  <1>3. ASSUME NEW op, NEW f, NEW d, NEW str, Fs_async(t, op, f, d, str),
               req'[t] = [op |-> op, file |-> f, fd |-> d, done |-> "no"]
        PROVE  LET q == req'[t] IN
                 /\ q.op = "none" => q = NoReq
                 /\ q.op # "none" =>
                      t # Main /\ status'[t] = "parked" /\ call'[t] = <<"fs", q.op>>
                 /\ q.op \in PathOp => q.file = NoFile /\ q.fd = -1
                 /\ q.op \in Op \ PathOp => q.file \in File
    <2>1. /\ op \in Op /\ t # Main
          /\ op \in PathOp => f = NoFile /\ d = -1
          /\ op \in Op \ PathOp => f \in File
      BY <1>3, Zenon DEF Fs_async, Calling, Op
    <2>2. status'[t] = "parked" /\ call'[t] = <<"fs", op>>
      <3>1. PICK L : SuspendWith(t, <<"fs", op>>, L)
        BY <1>3, Zenon DEF Fs_async, AsyncCall
      <3> QED BY <1>a, <3>1, Zenon
              DEF SuspendWith, States!Suspend, States!Move, TypeInv, LoopTypes
    <2> QED BY <1>3, <1>b, <2>1, <2>2
  <1> QED BY <1>a, <1>1, <1>2, <1>3, ReqMoves, Zenon

LEMMA MainStep == WaitInv /\ [Next]_vars => MainInv'
  <1> SUFFICES ASSUME WaitInv, [Next]_vars PROVE \A op \in Op : call'[Main] # <<"fs", op>>
    BY Zenon DEF MainInv
  <1>a. /\ call \in [State -> Calls] /\ Main \in State
        /\ \A op \in Op : call[Main] # <<"fs", op>>
    BY Zenon DEF WaitInv, MainInv, TypeInv, LoopTypes, State, States!State
  <1>s. ASSUME NEW s \in State, NEW c, NEW L, SuspendWith(s, c, L)
        PROVE  call'[Main] = call[Main] \/ (s = Main /\ call'[Main] = c)
    BY <1>a, <1>s, Zenon DEF SuspendWith
  <1>n. ASSUME NEW s \in State, NEW v, Return(s, v) PROVE call' = call
    BY <1>n, Zenon DEF Return, pollVars
  <1> DEFINE Fine == \/ call'[Main] = call[Main] \/ call'[Main] \in {NoCall, <<"sleep">>}
                     \/ \E o \in Object : call'[Main] = <<"spawn", o>>
  <1>1. ASSUME NEW s \in State, FsMove(s) PROVE Fine
    <2>1. ASSUME NEW op, NEW f, NEW d, NEW str, Fs_sync(s, op, f, d, str) PROVE Fine
      BY <2>1, <1>n, Zenon DEF Fs_sync, SyncCall
    <2>2. ASSUME NEW op, NEW f, NEW d, NEW str, Fs_async(s, op, f, d, str) PROVE Fine
      <3>1. s # Main /\ \E L : SuspendWith(s, <<"fs", op>>, L)
        BY <2>2, Zenon DEF Fs_async, AsyncCall
      <3> QED BY <3>1, <1>s, Zenon
    <2>3. CASE Collects(s) \/ Works(s) \/ luv_fs_cb(s) \/ luv_fs_cb_panics(s)
      BY <2>3, Zenon DEF Collects, Works, luv_fs_cb, luv_fs_cb_panics, loopVars, pollVars
    <2> QED BY <1>1, <2>1, <2>2, <2>3, Zenon DEF FsMove
  <1>2. ASSUME NEW s \in State, LoopMove(s) PROVE Fine
    <2>1. CASE Sleeps(s)
      BY <2>1, <1>s, Zenon DEF Sleeps, luv_sleep, Suspend
    <2>2. CASE SleepCb(s) \/ Resumes(s)
      BY <1>a, <2>2, Zenon DEF SleepCb, sleep_cb, Resumes, ResumeWith, pollVars
    <2> QED BY <1>2, <2>1, <2>2, Zenon DEF LoopMove
  <1>3. ASSUME NEW s \in State, NEW o \in Object, ProcMove(s, o) PROVE Fine
    <2>1. CASE luv_new_process(s, o)
      BY <2>1, <1>s, Zenon DEF luv_new_process, luvL_cond_wait, Suspend
    <2>2. CASE ~luv_new_process(s, o)
      BY <1>3, <1>n, <2>2, Zenon
         DEF ProcMove, luv_new_process_detached, luv_new_process_fails, luv_process_kill
    <2> QED BY <2>1, <2>2, Zenon
  <1>4. ASSUME NEW o \in Object, _exit_cb(o) PROVE Fine
    BY <1>4, Zenon DEF _exit_cb, pollVars
  <1>5. UNCHANGED vars => Fine
    BY Zenon DEF vars, loopVars, pollVars
  <1>6. Fine
    BY <1>1, <1>2, <1>3, <1>4, <1>5, NextKinds, Zenon
  <1> QED BY <1>a, <1>6, CallsDiffer, Zenon

LEMMA LinkStep == WaitInv /\ [Next]_vars => LinkInv'
  <1> SUFFICES ASSUME WaitInv, [Next]_vars, NEW p \in Object, rouse'[p] # <<>>
               PROVE  /\ plife'[p] = "runs" /\ rouse'[p] = <<spawner'[p]>>
                      /\ status'[spawner'[p]] = "parked"
                      /\ call'[spawner'[p]] = <<"spawn", p>>
    BY Zenon DEF LinkInv, Parked, In
  <1>a. /\ plife \in [Object -> {"new", "runs", "over"}] /\ spawner \in [Object -> State]
        /\ rouse \in [Object -> Seq(State)]
        /\ status \in [State -> States!Status] /\ call \in [State -> Calls]
    BY Zenon DEF WaitInv, TypeInv, ProcTypes, LoopTypes
  <1>b. rouse[p] # <<>> =>
          /\ plife[p] = "runs" /\ rouse[p] = <<spawner[p]>> /\ spawner[p] \in State
          /\ Parked(spawner[p]) /\ call[spawner[p]] = <<"spawn", p>>
    BY <1>a, Zenon DEF WaitInv, LinkInv, In
  <1>1. CASE /\ plife'[p] = plife[p] /\ spawner'[p] = spawner[p] /\ rouse'[p] = rouse[p]
             /\ ~_exit_cb(p)
    <2>1. /\ plife[p] = "runs" /\ rouse[p] = <<spawner[p]>> /\ spawner[p] \in State
          /\ Parked(spawner[p]) /\ call[spawner[p]] = <<"spawn", p>>
      BY <1>1, <1>b, Zenon
    <2>2. PICK u \in State : u = spawner[p]
      BY <2>1, Zenon
    <2>3. call'[u] = <<"spawn", p>> /\ (Parked(u)' \/ Woken(u))
      BY <2>1, <2>2, ParkedMoves, Zenon
    <2>4. ~Woken(u)
      <3>1. ASSUME NEW o \in Object, _exit_cb(o), call[u] = <<"spawn", o>> PROVE FALSE
        BY <1>1, <2>1, <2>2, <3>1, CallsDiffer, Zenon
      <3>2. ASSUME req[u].op # "none", call[u] = <<"fs", req[u].op>> PROVE FALSE
        BY <2>1, <2>2, <3>2, InUse, CallsDiffer, Zenon DEF WaitInv
      <3>3. call[u] # <<"sleep">>
        BY <2>1, <2>2, CallsDiffer, Zenon
      <3> QED BY <3>1, <3>2, <3>3, Zenon DEF Woken
    <2>5. status'[u] = "parked"
      BY <2>3, <2>4, Zenon DEF Parked
    <2> QED BY <1>1, <2>1, <2>2, <2>3, <2>5, Zenon
  <1>2. ASSUME NEW s \in State, FsMove(s), UNCHANGED <<procVars, oflags, rouse>>
        PROVE  plife'[p] = plife[p] /\ spawner'[p] = spawner[p] /\ rouse'[p] = rouse[p]
    BY <1>2, Zenon DEF procVars
  <1>3. ASSUME NEW s \in State, LoopMove(s)
        PROVE  plife'[p] = plife[p] /\ spawner'[p] = spawner[p] /\ rouse'[p] = rouse[p]
    BY <1>3, Zenon DEF LoopMove, Sleeps, SleepCb, Resumes, procVars
  <1>4. ASSUME NEW s \in State, NEW o \in Object, ProcMove(s, o),
               ~(plife'[p] = plife[p] /\ spawner'[p] = spawner[p] /\ rouse'[p] = rouse[p])
        PROVE  luv_new_process(s, p)
    <2>1. (o = p /\ plife[p] = "new") \/ luv_process_kill(s, o)
      BY <1>a, <1>4, Zenon DEF ProcMove, luv_new_process, luv_new_process_detached,
                        luv_new_process_fails, Spawned, luvL_cond_wait
    <2>2. ~luv_process_kill(s, o)
      BY <1>4, Zenon DEF luv_process_kill, procVars
    <2>3. rouse[p] = <<>>
      BY <1>b, <2>1, <2>2, Zenon
    <2>4. ~luv_new_process_detached(s, p) /\ ~luv_new_process_fails(s, p)
      BY <2>3, Zenon DEF luv_new_process_detached, luv_new_process_fails
    <2> QED BY <1>4, <2>1, <2>2, <2>4, Zenon DEF ProcMove
  <1>5. ASSUME NEW s \in State, luv_new_process(s, p)
        PROVE  /\ plife'[p] = "runs" /\ rouse'[p] = <<spawner'[p]>>
               /\ status'[spawner'[p]] = "parked" /\ call'[spawner'[p]] = <<"spawn", p>>
    <2>1. rouse[p] = <<>>
      BY <1>b, <1>5, Zenon DEF luv_new_process
    <2>2. rouse'[p] = <<s>>
      BY <1>a, <1>5, <2>1, Single, Zenon DEF luv_new_process, luvL_cond_wait
    <2>3. plife'[p] = "runs" /\ spawner'[p] = s
      BY <1>a, <1>5, Zenon DEF luv_new_process, Spawned
    <2>4. status'[s] = "parked" /\ call'[s] = <<"spawn", p>>
      BY <1>a, <1>5, Zenon DEF luv_new_process, luvL_cond_wait, Suspend, SuspendWith,
                        States!Suspend, States!Move
    <2> QED BY <2>2, <2>3, <2>4, Zenon
  <1>6. ASSUME NEW o \in Object, _exit_cb(o)
        PROVE  plife'[p] = plife[p] /\ spawner'[p] = spawner[p] /\ rouse'[p] = rouse[p] /\ o # p
    <2>1. luvL_cond_signal(o) /\ plife' = [plife EXCEPT ![o] = "over"] /\ spawner' = spawner
      BY <1>6, Zenon DEF _exit_cb
    <2>2. o # p
      <3>1. SUFFICES ASSUME o = p PROVE FALSE
        OBVIOUS
      <3>2. rouse'[p] = <<>>
        BY <1>a, <1>b, <2>1, <3>1, Single DEF luvL_cond_signal, RouseHead
      <3> QED BY <3>2, Zenon
    <2> QED BY <1>a, <2>1, <2>2, Zenon DEF luvL_cond_signal, RouseHead
  <1>7. UNCHANGED vars => plife'[p] = plife[p] /\ spawner'[p] = spawner[p] /\ rouse'[p] = rouse[p]
    BY Zenon DEF vars, procVars
  <1>8. _exit_cb(p) => FALSE
    BY <1>6, Zenon
  <1>9. \/ plife'[p] = plife[p] /\ spawner'[p] = spawner[p] /\ rouse'[p] = rouse[p]
        \/ \E s \in State : luv_new_process(s, p)
    BY <1>2, <1>3, <1>4, <1>6, <1>7, NextKinds, Zenon
  <1> QED BY <1>1, <1>5, <1>8, <1>9, Zenon

LEMMA WaitStep == WaitInv /\ [Next]_vars => WaitInv'
  BY LoopTypesStep, FsTypesStep, ProcTypesStep, LinkStep, ReqStep, MainStep, Zenon
  DEF WaitInv, TypeInv

LEMMA InitWait == Init => WaitInv
  <1> SUFFICES ASSUME Init PROVE WaitInv
    OBVIOUS
  <1>1. TypeInv
    BY InitTypes, Zenon
  <1>2. /\ Main \in State
        /\ \A s \in State : req[s] = NoReq /\ call[s] = NoCall
        /\ \A o \in Object : rouse[o] = <<>>
    BY Zenon DEF Init, LoopInit, FsInit, luvL_object_init, State, States!State
  <1>3. LinkInv
    BY <1>2, Zenon DEF LinkInv
  <1>4. ReqInv
    BY <1>2, FsAssumption DEF ReqInv, NoReq, Op, UseOp
  <1>5. MainInv
    BY <1>2, CallsDiffer, Zenon DEF MainInv
  <1> QED BY <1>1, <1>3, <1>4, <1>5, Zenon DEF WaitInv

-----------------------------------------------------------------------------
(* What the steps do to files *)

LEMMA RisksStay == [Next]_vars => risks' = risks
  <1> SUFFICES ASSUME [Next]_vars PROVE risks' = risks
    OBVIOUS
  <1>1. ASSUME NEW s \in State, FsMove(s) PROVE risks' = risks
    <2>1. ASSUME NEW op, NEW f, NEW d, NEW str, Fs_sync(s, op, f, d, str) PROVE risks' = risks
      BY <2>1, Zenon DEF Fs_sync, SyncCall, Return, pollVars
    <2>2. ASSUME NEW op, NEW f, NEW d, NEW str, Fs_async(s, op, f, d, str) PROVE risks' = risks
      BY <2>2, Zenon DEF Fs_async, AsyncCall, SuspendWith
    <2>3. CASE Collects(s) \/ Works(s) \/ luv_fs_cb(s) \/ luv_fs_cb_panics(s)
      BY <2>3, Zenon DEF Collects, Works, luv_fs_cb, luv_fs_cb_panics, loopVars, pollVars
    <2> QED BY <1>1, <2>1, <2>2, <2>3, Zenon DEF FsMove
  <1> QED BY <1>1, QuietSteps, Zenon DEF Quiet

\* Steps that leave requests and files alone.
Idle == UNCHANGED <<req, hfile, fdtab, life>>

\* A call or a callback that has the result r of an operation.
Stored(op, f, fd, r) ==
  /\ op = "open" /\ r = "ok" =>
       hfile' = [hfile EXCEPT ![f] = fd] /\ life' = [life EXCEPT ![f] = "open"]
  /\ op = "open" /\ r # "ok" => hfile' = hfile /\ life' = [life EXCEPT ![f] = "closed"]
  /\ op = "close" => hfile' = hfile /\ life' = [life EXCEPT ![f] = "closed"]
  /\ op \notin {"open", "close"} => hfile' = hfile /\ life' = life

\* A result notes down how the operation of a request went, and the descriptor.
Done(s, r, fd) ==
  /\ req'[s].op = req[s].op /\ req'[s].file = req[s].file
  /\ req'[s].fd = fd /\ req'[s].done = r
  /\ \A t \in State \ {s} : req'[t] = req[t]

LEMMA StoresLearns ==
  ASSUME NEW op, NEW f, NEW fd, NEW r, StoresFd(op, f, fd, r), Learns(op, f, r)
  PROVE  Stored(op, f, fd, r)
  BY Zenon DEF StoresFd, Learns, Stored

\* A call of Main.
LEMMA SyncDoes ==
  ASSUME NEW s \in State, NEW op, NEW f, NEW d, NEW str, Fs_sync(s, op, f, d, str)
  PROVE  \E r \in {"ok", "fail"} :
           /\ Kernel(s, op, f, d, r) /\ req' = req
           /\ op = "open" /\ r = "ok" => Free # {}
           /\ Stored(op, f, Lowest, r)
  <1>1. PICK r \in {"ok", "fail"} :
          /\ Kernel(s, op, f, d, r) /\ req' = req
          /\ StoresFd(op, f, IF Free = {} THEN -1 ELSE Lowest, r) /\ Learns(op, f, r)
    BY Zenon DEF Fs_sync, SyncCall
  <1>2. op = "open" /\ r = "ok" => Free # {}
    BY <1>1, PossibleNeeds, Zenon DEF Fs_sync, Calling, Kernel
  <1>3. Stored(op, f, Lowest, r)
    <2>1. Stored(op, f, IF Free = {} THEN -1 ELSE Lowest, r)
      BY <1>1, StoresLearns, Zenon
    <2> QED BY <1>2, <2>1, Zenon DEF Stored
  <1> QED BY <1>1, <1>2, <1>3, Zenon

\* The thread pool does the operation of a request.
LEMMA WorksDoes ==
  ASSUME TypeInv, ReqInv, NEW s \in State, Works(s)
  PROVE  \E r \in {"ok", "fail"}, fd \in Fd \cup {-1} :
           /\ Kernel(s, req[s].op, req[s].file, req[s].fd, r)
           /\ req[s].op \in Op /\ req[s].done = "no"
           /\ Done(s, r, fd) /\ UNCHANGED <<hfile, life, bufs, datum, panic, loopVars>>
           /\ outcome' = [outcome EXCEPT ![s] = r]
           /\ req[s].op = "open" /\ r = "ok" => Free # {} /\ fd = Lowest
           /\ req[s].op # "open" \/ r # "ok" => fd = req[s].fd
  <1> DEFINE q == req[s]
  <1>1. PICK r \in {"ok", "fail"} :
          /\ q.op # "none" /\ q.done = "no"
          /\ Kernel(s, q.op, q.file, q.fd, r)
          /\ outcome' = [outcome EXCEPT ![s] = r]
          /\ req' = [req EXCEPT ![s].done = r,
                                ![s].fd = IF q.op = "open" /\ r = "ok" THEN Lowest ELSE @]
          /\ UNCHANGED <<hfile, life, bufs, datum, panic, loopVars>>
    BY Zenon DEF Works
  <1>2. q \in Requests /\ q.op \in Op /\ req \in [State -> Requests]
    BY <1>1, InUse, Zenon DEF TypeInv, FsTypes
  <1>3. q.op = "open" /\ r = "ok" => Free # {} /\ Lowest \in Fd
    BY <1>1, <1>2, FreeLowest, PossibleNeeds, Zenon DEF Kernel
  <1>4. PICK fd \in Fd \cup {-1} : fd = IF q.op = "open" /\ r = "ok" THEN Lowest ELSE q.fd
    BY <1>2, <1>3, Zenon DEF Requests
  <1>5. Done(s, r, fd)
    BY <1>1, <1>2, <1>4, Zenon DEF Done, Requests
  <1> QED BY <1>1, <1>2, <1>3, <1>4, <1>5, Zenon

\* The callback of a request.
LEMMA CbDoes ==
  ASSUME WaitInv, NEW s \in State, luv_fs_cb(s)
  PROVE  /\ req[s].op \in Op /\ req[s].done \in {"ok", "fail"}
         /\ req' = [req EXCEPT ![s] = NoReq] /\ fdtab' = fdtab
         /\ Stored(req[s].op, req[s].file, req[s].fd, req[s].done)
  <1>1. req[s].op \in Op /\ req[s] \in Requests /\ req[s].done # "no"
    BY InUse, Zenon DEF luv_fs_cb, FsDone, WaitInv
  <1> QED BY <1>1, StoresLearns, Zenon DEF luv_fs_cb, Requests

\* A call of a fiber: the request was free.
LEMMA AsyncDoes ==
  ASSUME WaitInv, NEW s \in State, NEW op, NEW f, NEW d, NEW str, Fs_async(s, op, f, d, str)
  PROVE  /\ req[s] = NoReq
         /\ \/ req' = [req EXCEPT ![s] = [op |-> op, file |-> f, fd |-> d, done |-> "no"]]
            \/ "start" \in risks /\ req' = req
         /\ hfile' = hfile /\ fdtab' = fdtab
         /\ op \in {"open", "close"} => life' = [life EXCEPT ![f] = "busy"]
         /\ op \notin {"open", "close"} => life' = life
  <1>1. status[s] = "running"
    BY Zenon DEF Fs_async, Calling, Running
  <1>2. req[s].op = "none"
    BY <1>1, InUse, Zenon DEF WaitInv, Parked
  <1> QED BY <1>2, Zenon DEF Fs_async, AsyncCall, WaitInv, ReqInv

\* The kinds of steps, for files.
LEMMA FileKinds ==
  ASSUME [Next]_vars
  PROVE  \/ Idle
         \/ \E s \in State : \E op, f, d, str : Fs_sync(s, op, f, d, str)
         \/ \E s \in State : \E op, f, d, str : Fs_async(s, op, f, d, str)
         \/ \E s \in State : Works(s)
         \/ \E s \in State : luv_fs_cb(s)
  <1>1. ASSUME NEW s \in State, Collects(s) \/ luv_fs_cb_panics(s) PROVE Idle
    BY <1>1, Zenon DEF Collects, luv_fs_cb_panics, reqVars, fileVars, Idle
  <1>2. Quiet => Idle
    BY Zenon DEF Quiet, Idle, fileVars
  <1> QED BY <1>1, <1>2, QuietSteps, Zenon DEF FsMove

-----------------------------------------------------------------------------
(* No descriptor is lost *)

FdInv == OpenInv /\ FdsAccounted

\* The facts about types that the steps below use.
LEMMA FileFacts ==
  ASSUME WaitInv
  PROVE  /\ req \in [State -> Requests] /\ hfile \in [File -> Fd \cup {-1}]
         /\ fdtab \in [Fd -> File \cup {NoFile}]
         /\ life \in [File -> {"new", "busy", "open", "closed"}]
         /\ NoFile \notin File /\ -1 \notin Fd
         /\ \A t \in State : req[t].op \in Op \cup {"none"}
         /\ \A t \in State : req[t].op \in Op \ PathOp => req[t].file \in File
         /\ \A t \in State : req[t].op \notin Op \ PathOp => req[t].file = NoFile /\ req[t].fd = -1
         /\ "open" \in Op \ PathOp /\ "close" \in Op \ PathOp /\ UseOp \subseteq Op \ PathOp
  <1>1. /\ req \in [State -> Requests] /\ hfile \in [File -> Fd \cup {-1}]
        /\ fdtab \in [Fd -> File \cup {NoFile}]
        /\ life \in [File -> {"new", "busy", "open", "closed"}]
    BY Zenon DEF WaitInv, TypeInv, FsTypes
  <1>2. NoFile \notin File /\ -1 \notin Fd
    BY FileAssumption, FsAssumption DEF Fd
  <1>3. "open" \in Op \ PathOp /\ "close" \in Op \ PathOp /\ UseOp \subseteq Op \ PathOp
    BY FsAssumption, Zenon DEF Op, UseOp
  <1>4. \A t \in State : req[t].op \in Op \cup {"none"}
    BY <1>1, Zenon DEF Requests
  <1>5. \A t \in State : req[t].op \in Op \ PathOp => req[t].file \in File
    BY Zenon DEF WaitInv, ReqInv
  <1>6. \A t \in State : req[t].op \notin Op \ PathOp => req[t].file = NoFile /\ req[t].fd = -1
    BY <1>4 DEF WaitInv, ReqInv, NoReq
  <1> QED BY <1>1, <1>2, <1>3, <1>4, <1>5, <1>6, Zenon

LEMMA InitFd == Init => FdInv
  BY FsAssumption DEF Init, FsInit, FdInv, OpenInv, FdsAccounted, NoReq

LEMMA FdSync ==
  ASSUME WaitInv, FdInv,
         NEW s \in State, NEW op, NEW f, NEW d, NEW str, Fs_sync(s, op, f, d, str)
  PROVE  FdInv'
  <1>1. PICK r \in {"ok", "fail"} :
          /\ Kernel(s, op, f, d, r) /\ req' = req
          /\ op = "open" /\ r = "ok" => Free # {}
          /\ Stored(op, f, Lowest, r)
    BY SyncDoes, Zenon
  <1>2. CASE op = "open"
    <2>1. f \in File /\ life[f] = "new" /\ hfile[f] = -1
      BY <1>2, Zenon DEF Fs_sync, Calling, FdInv, OpenInv
    <2>2. \A t \in State : req[t].op = "open" => req[t].file # f /\ req[t].file \in File
      BY <2>1, FileFacts, Zenon DEF FdInv, OpenInv
    <2>3. /\ life'[f] # "new"
          /\ \A g \in File \ {f} : life'[g] = life[g] /\ hfile'[g] = hfile[g]
      BY <1>1, <1>2, <2>1, FileFacts DEF Stored
    <2>4. OpenInv'
      BY <1>1, <2>2, <2>3 DEF FdInv, OpenInv
    <2>5. ASSUME NEW e \in Fd, fdtab'[e] # NoFile
          PROVE  \/ hfile'[fdtab'[e]] = e
                 \/ \E t \in State : req'[t].op = "open" /\ req'[t].file = fdtab'[e] /\ req'[t].fd = e
      <3>1. CASE r = "ok" /\ e = Lowest
        <4>1. fdtab' = [fdtab EXCEPT ![Lowest] = f] /\ hfile' = [hfile EXCEPT ![f] = Lowest]
          BY <1>1, <1>2, <3>1, KernelTable DEF Stored
        <4> QED BY <2>1, <3>1, <4>1, FileFacts, Zenon
      <3>2. CASE ~(r = "ok" /\ e = Lowest)
        <4>1. fdtab'[e] = fdtab[e] /\ fdtab[e] \in File
          BY <1>1, <1>2, <2>5, <3>2, KernelTable, FileFacts
        <4>2. hfile[fdtab[e]] = e => hfile'[fdtab[e]] = e
          BY <2>1, <2>3, <4>1, FileFacts, Zenon
        <4> QED BY <1>1, <2>5, <4>1, <4>2 DEF FdInv, FdsAccounted
      <3> QED BY <3>1, <3>2, Zenon
    <2> QED BY <2>4, <2>5, Zenon DEF FdInv, FdsAccounted
  <1>3. CASE op # "open"
    <2>1. /\ hfile' = hfile
          /\ \A g \in File : life'[g] = life[g] \/ life'[g] = "closed"
      BY <1>1, <1>3, FileFacts, Zenon DEF Stored
    <2>2. \A e \in Fd : fdtab'[e] = fdtab[e] \/ fdtab'[e] = NoFile
      BY <1>1, <1>3, KernelTable, FileFacts, SMTT(60)
    <2>3. OpenInv'
      BY <1>1, <2>1, FileFacts DEF FdInv, OpenInv
    <2>4. FdsAccounted'
      BY <1>1, <2>1, <2>2 DEF FdInv, FdsAccounted
    <2> QED BY <2>3, <2>4, Zenon DEF FdInv
  <1> QED BY <1>2, <1>3, Zenon

LEMMA FdAsync ==
  ASSUME WaitInv, FdInv,
         NEW s \in State, NEW op, NEW f, NEW d, NEW str, Fs_async(s, op, f, d, str)
  PROVE  FdInv'
  <1>1. req[s] = NoReq /\ hfile' = hfile /\ fdtab' = fdtab
    BY AsyncDoes, Zenon
  <1>2. \A g \in File : life'[g] = life[g] \/ life'[g] = "busy"
    BY AsyncDoes, FileFacts
  <1>3. \A t \in State \ {s} : req'[t] = req[t]
    BY AsyncDoes, FileFacts
  <1>4. req'[s] = req[s] \/ req'[s] = [op |-> op, file |-> f, fd |-> d, done |-> "no"]
    BY AsyncDoes, FileFacts
  <1>5. req'[s].op = "open" =>
          /\ op = "open" /\ req'[s].file = f /\ req'[s].fd = -1 /\ f \in File
          /\ life[f] = "new" /\ life'[f] = "busy"
    <2>1. req'[s].op = "open" => op = "open" /\ req'[s].file = f /\ req'[s].fd = d
      BY <1>1, <1>4 DEF NoReq
    <2>2. op = "open" => f \in File /\ life[f] = "new" /\ d = -1
      BY Zenon DEF Fs_async, Calling
    <2>3. op = "open" => life'[f] = "busy"
      BY <2>2, AsyncDoes, FileFacts
    <2> QED BY <2>1, <2>2, <2>3, Zenon
  <1>6. \A t \in State : req[t].op = "open" => req[t].file \in File
    BY FileFacts, Zenon
  <1>7. OpenInv'
    <2>1. \A g \in File : life'[g] = "new" => hfile'[g] = -1
      BY <1>1, <1>2, Zenon DEF FdInv, OpenInv
    <2>2. ASSUME NEW t \in State, req'[t].op = "open"
          PROVE  /\ life'[req'[t].file] # "new" /\ hfile'[req'[t].file] = -1
                 /\ req'[t].done # "ok" => req'[t].fd = -1
      <3>1. CASE t = s
        BY <1>1, <1>5, <2>2, <3>1, Zenon DEF FdInv, OpenInv
      <3>2. CASE t # s
        BY <1>1, <1>2, <1>3, <1>6, <2>2, <3>2 DEF FdInv, OpenInv
      <3> QED BY <3>1, <3>2, Zenon
    <2>3. ASSUME NEW t \in State, NEW u \in State, req'[t].op = "open", req'[u].op = "open",
                 req'[t].file = req'[u].file
          PROVE  t = u
      <3>1. CASE t # s /\ u # s
        BY <1>3, <2>3, <3>1 DEF FdInv, OpenInv
      <3>2. CASE t = s /\ u # s
        BY <1>3, <1>5, <2>3, <3>2 DEF FdInv, OpenInv
      <3>3. CASE t # s /\ u = s
        BY <1>3, <1>5, <2>3, <3>3 DEF FdInv, OpenInv
      <3> QED BY <3>1, <3>2, <3>3, Zenon
    <2> QED BY <2>1, <2>2, <2>3, Zenon DEF OpenInv
  <1>8. FdsAccounted'
    <2>1. \A t \in State : req[t].op = "open" => req'[t] = req[t]
      BY <1>1, <1>3 DEF NoReq
    <2> QED BY <1>1, <2>1 DEF FdInv, FdsAccounted
  <1> QED BY <1>7, <1>8, Zenon DEF FdInv

LEMMA FdWorks ==
  ASSUME WaitInv, FdInv, NEW s \in State, Works(s)
  PROVE  FdInv'
  <1>1. PICK r \in {"ok", "fail"}, fd \in Fd \cup {-1} :
          /\ Kernel(s, req[s].op, req[s].file, req[s].fd, r)
          /\ req[s].op \in Op /\ req[s].done = "no"
          /\ Done(s, r, fd) /\ hfile' = hfile /\ life' = life
          /\ req[s].op = "open" /\ r = "ok" => Free # {} /\ fd = Lowest
          /\ req[s].op # "open" \/ r # "ok" => fd = req[s].fd
    BY WorksDoes, Zenon DEF WaitInv
  <1>2. /\ \A t \in State : req'[t].op = req[t].op /\ req'[t].file = req[t].file
        /\ \A t \in State \ {s} : req'[t] = req[t]
        /\ req'[s].done = r /\ req'[s].fd = fd
    BY <1>1, Zenon DEF Done
  <1>3. req[s].op = "open" => req[s].fd = -1
    BY <1>1, Zenon DEF FdInv, OpenInv
  <1>4. OpenInv'
    <2>1. \A t \in State : req[t].op = "open" /\ req'[t].done # "ok" => req'[t].fd = -1
      BY <1>1, <1>2, <1>3 DEF FdInv, OpenInv
    <2> QED BY <1>1, <1>2, <2>1, SMTT(60) DEF FdInv, OpenInv
  <1>5. ASSUME NEW e \in Fd, fdtab'[e] # NoFile
        PROVE  \/ hfile'[fdtab'[e]] = e
               \/ \E t \in State : req'[t].op = "open" /\ req'[t].file = fdtab'[e] /\ req'[t].fd = e
    <2>1. CASE req[s].op = "open" /\ r = "ok" /\ e = Lowest
      <3>1. fdtab'[e] = req[s].file
        BY <1>1, <2>1, KernelTable, FileFacts
      <3> QED BY <1>1, <1>2, <2>1, <3>1, Zenon
    <2>2. CASE ~(req[s].op = "open" /\ r = "ok" /\ e = Lowest)
      <3>1. fdtab'[e] = fdtab[e]
        BY <1>1, <1>5, <2>2, KernelTable, FileFacts
      <3>2. CASE hfile[fdtab[e]] = e
        BY <1>1, <3>1, <3>2, Zenon
      <3>3. CASE \E t \in State : req[t].op = "open" /\ req[t].file = fdtab[e] /\ req[t].fd = e
        <4>1. PICK t \in State : req[t].op = "open" /\ req[t].file = fdtab[e] /\ req[t].fd = e
          BY <3>3, Zenon
        <4>2. t # s
          BY <1>3, <4>1, FileFacts, Zenon
        <4> QED BY <1>2, <3>1, <4>1, <4>2, Zenon
      <3> QED BY <1>5, <3>1, <3>2, <3>3, Zenon DEF FdInv, FdsAccounted
    <2> QED BY <2>1, <2>2, Zenon
  <1> QED BY <1>4, <1>5, Zenon DEF FdInv, FdsAccounted

LEMMA FdCb ==
  ASSUME WaitInv, FdInv, NEW s \in State, luv_fs_cb(s)
  PROVE  FdInv'
  <1> DEFINE q == req[s]
  <1>1. /\ q.op \in Op /\ q.done \in {"ok", "fail"}
        /\ req' = [req EXCEPT ![s] = NoReq] /\ fdtab' = fdtab
        /\ Stored(q.op, q.file, q.fd, q.done)
    BY CbDoes, Zenon
  <1>2. req'[s].op # "open" /\ \A t \in State \ {s} : req'[t] = req[t]
    BY <1>1, FileFacts, Zenon DEF NoReq
  <1>3. CASE q.op = "open"
    <2>1. /\ q.file \in File /\ hfile[q.file] = -1
          /\ \A t \in State \ {s} : req[t].op = "open" => req[t].file # q.file
      BY <1>3, FileFacts, Zenon DEF FdInv, OpenInv
    <2>2. /\ life'[q.file] # "new"
          /\ \A g \in File \ {q.file} : life'[g] = life[g] /\ hfile'[g] = hfile[g]
          /\ q.done = "ok" => hfile'[q.file] = q.fd
          /\ q.done # "ok" => hfile' = hfile /\ q.fd = -1
      BY <1>1, <1>3, <2>1, FileFacts, SMTT(60) DEF Stored, FdInv, OpenInv
    <2>3. OpenInv'
      BY <1>2, <2>1, <2>2, FileFacts DEF FdInv, OpenInv
    <2>4. ASSUME NEW e \in Fd, fdtab[e] # NoFile
          PROVE  \/ hfile'[fdtab[e]] = e
                 \/ \E t \in State : req'[t].op = "open" /\ req'[t].file = fdtab[e] /\ req'[t].fd = e
      <3>1. CASE hfile[fdtab[e]] = e
        BY <2>1, <2>2, <2>4, <3>1, FileFacts
      <3>2. CASE \E t \in State : req[t].op = "open" /\ req[t].file = fdtab[e] /\ req[t].fd = e
        <4>1. PICK t \in State : req[t].op = "open" /\ req[t].file = fdtab[e] /\ req[t].fd = e
          BY <3>2, Zenon
        <4>2. CASE t = s
          BY <2>2, <4>1, <4>2, FileFacts, Zenon
        <4>3. CASE t # s
          BY <1>2, <4>1, <4>3, Zenon
        <4> QED BY <4>2, <4>3, Zenon
      <3> QED BY <2>4, <3>1, <3>2, Zenon DEF FdInv, FdsAccounted
    <2> QED BY <1>1, <2>3, <2>4 DEF FdInv, FdsAccounted
  <1>4. CASE q.op # "open"
    <2>1. hfile' = hfile /\ \A g \in File : life'[g] = life[g] \/ life'[g] = "closed"
      BY <1>1, <1>4, FileFacts DEF Stored
    <2>2. \A t \in State : req[t].op = "open" => req'[t] = req[t]
      BY <1>2, <1>4, Zenon
    <2>3. \A t \in State : req'[t].op = "open" => req'[t] = req[t] /\ req[t].file \in File
      BY <1>2, FileFacts
    <2>4. OpenInv'
      BY <2>1, <2>3 DEF FdInv, OpenInv
    <2>5. FdsAccounted'
      BY <1>1, <2>1, <2>2 DEF FdInv, FdsAccounted
    <2> QED BY <2>4, <2>5, Zenon DEF FdInv
  <1> QED BY <1>3, <1>4, Zenon

LEMMA FdStep == WaitInv /\ FdInv /\ [Next]_vars => FdInv'
  <1> SUFFICES ASSUME WaitInv, FdInv, [Next]_vars PROVE FdInv'
    OBVIOUS
  <1>1. Idle => FdInv'
    BY DEF Idle, FdInv, OpenInv, FdsAccounted
  <1> QED BY <1>1, FdSync, FdAsync, FdWorks, FdCb, FileKinds, Zenon

-----------------------------------------------------------------------------
(* A request has the descriptor of its file *)

LEMMA InitFile == Init => FileInv
  <1> SUFFICES ASSUME Init PROVE FilesInv
    BY Zenon DEF FileInv
  <1>1. /\ \A s \in State : req[s] = NoReq
        /\ \A f \in File : life[f] = "new"
    BY Zenon DEF Init, FsInit
  <1> QED BY <1>1, FsAssumption DEF NoReq, FilesInv, OpenFiles, Alone, Uses, Holds, UseOp

\* Nobody has a request for a file that is new or closed; different open files have
\* different descriptors.
LEMMA FileUse ==
  ASSUME WaitInv, FilesInv
  PROVE  /\ \A t \in State : req[t].op \in {"open", "close"} \cup UseOp =>
              req[t].file \in File /\ life[req[t].file] \in {"busy", "open"}
         /\ \A t \in State : req[t].op \notin {"open", "close"} \cup UseOp => req[t].file = NoFile
         /\ Free # {} => /\ Lowest \in Fd /\ fdtab[Lowest] = NoFile
                         /\ \A f \in File : life[f] = "open" => hfile[f] # Lowest
  <1>1. \A t \in State : req[t].op \in {"open", "close"} \cup UseOp =>
              req[t].file \in File /\ life[req[t].file] \in {"busy", "open"}
    BY FileFacts DEF FilesInv, Alone, Uses
  <1>2. \A t \in State : req[t].op \notin {"open", "close"} \cup UseOp => req[t].file = NoFile
    <2>1. \A op \in Op \ PathOp : op \in {"open", "close"} \cup UseOp
      BY Zenon DEF Op
    <2> QED BY <2>1, FileFacts, Zenon
  <1>3. Free # {} => /\ Lowest \in Fd /\ fdtab[Lowest] = NoFile
                     /\ \A f \in File : life[f] = "open" => hfile[f] # Lowest
    BY FreeLowest, FileFacts, Zenon DEF FilesInv, OpenFiles
  <1> QED BY <1>1, <1>2, <1>3, Zenon

\* What a careful program's calls are about.
LEMMA FileCalls ==
  ASSUME WaitInv, FilesInv, Avoids({"closed"}), NEW s \in State,
         NEW op, NEW f, NEW d, NEW str, Calling(s, op, f, d, str)
  PROVE  /\ op = "open" => f \in File /\ life[f] = "new" /\ \A t \in State : req[t].file # f
         /\ op \in UseOp \cup {"close"} => /\ f \in File /\ life[f] = "open" /\ d = hfile[f]
                                           /\ d \in Fd /\ fdtab[d] = f
         /\ op = "close" => \A t \in State : req[t].file # f
         /\ op \notin {"open", "close"} \cup UseOp => d = -1
  <1>1. op = "open" => f \in File /\ life[f] = "new" /\ \A t \in State : req[t].file # f
    BY FileUse, FileFacts DEF Calling
  <1>2. op \in UseOp \cup {"close"} => f \in File /\ life[f] = "open" /\ d = hfile[f]
    BY Zenon DEF Calling, MayUse, Avoids
  <1>3. op = "close" => \A t \in State : req[t].file # f
    BY Zenon DEF Calling, Unused, Avoids
  <1>4. op \notin {"open", "close"} \cup UseOp => d = -1
    BY Zenon DEF Calling, Op
  <1> QED BY <1>1, <1>2, <1>3, <1>4, Zenon DEF FilesInv, OpenFiles

LEMMA FileSync ==
  ASSUME WaitInv, FilesInv, Avoids({"closed"}),
         NEW s \in State, NEW op, NEW f, NEW d, NEW str, Fs_sync(s, op, f, d, str)
  PROVE  FilesInv'
  <1>1. PICK r \in {"ok", "fail"} :
          /\ Kernel(s, op, f, d, r) /\ req' = req
          /\ op = "open" /\ r = "ok" => Free # {}
          /\ Stored(op, f, Lowest, r)
    BY SyncDoes, Zenon
  <1>c. Calling(s, op, f, d, str)
    BY Zenon DEF Fs_sync
  <1>o. OpenFiles /\ \A t \in State : Alone(t) /\ Uses(t) /\ Holds(t)
    BY Zenon DEF FilesInv
  <1>2. CASE op \in {"open", "close"}
    <2>1. f \in File /\ \A t \in State : req[t].file # f
      BY <1>2, <1>c, FileCalls
    <2>2. \A g \in File \ {f} : life'[g] = life[g] /\ hfile'[g] = hfile[g]
      BY <1>1, <1>2, <2>1, FileFacts DEF Stored
    <2>3. \A e \in Fd : fdtab[e] \in File \ {f} => fdtab'[e] = fdtab[e]
      <3>1. CASE r = "ok" /\ op = "open"
        BY <1>1, <3>1, KernelTable, FileUse, FileFacts, SMTT(60)
      <3>2. CASE r = "ok" /\ op = "close"
        BY <1>1, <1>c, <3>2, KernelTable, FileCalls, FileFacts
      <3>3. CASE r # "ok"
        BY <1>1, <3>3, KernelTable, Zenon
      <3> QED BY <1>2, <3>1, <3>2, <3>3, Zenon
    <2>4. life'[f] = "open" => hfile'[f] \in Fd /\ fdtab'[hfile'[f]] = f
      <3>1. life'[f] = "open" => op = "open" /\ r = "ok"
        BY <1>1, <1>2, <2>1, FileFacts, Zenon DEF Stored
      <3>2. op = "open" /\ r = "ok" => hfile'[f] = Lowest /\ Lowest \in Fd /\ fdtab'[Lowest] = f
        BY <1>1, <2>1, KernelTable, FileUse, FileFacts, SMTT(60) DEF Stored
      <3> QED BY <3>1, <3>2, Zenon
    <2>5. OpenFiles'
      BY <1>o, <2>2, <2>3, <2>4 DEF OpenFiles
    <2>6. ASSUME NEW t \in State, req[t].op \in {"open", "close"} \cup UseOp
          PROVE  req[t].file \in File \ {f}
      BY <2>1, <2>6, FileUse, Zenon
    <2>7. ASSUME NEW t \in State PROVE Alone(t)' /\ Uses(t)' /\ Holds(t)'
      <3>1. Alone(t)'
        BY <1>1, <1>o, <2>2, <2>6, Zenon DEF Alone
      <3>2. Uses(t)'
        BY <1>1, <1>o, <2>2, <2>6, Zenon DEF Uses
      <3>3. Holds(t)'
        BY <1>1, <1>o, <2>3, <2>6, ZenonT(60) DEF Holds
      <3> QED BY <3>1, <3>2, <3>3, Zenon
    <2> QED BY <2>5, <2>7, Zenon DEF FilesInv
  <1>3. CASE op \notin {"open", "close"}
    <2>1. hfile' = hfile /\ life' = life /\ fdtab' = fdtab
      BY <1>1, <1>3, KernelTable, Zenon DEF Stored
    <2> QED BY <1>1, <2>1 DEF FilesInv, OpenFiles, Alone, Uses, Holds
  <1> QED BY <1>2, <1>3, Zenon

LEMMA FileAsync ==
  ASSUME WaitInv, FilesInv, Avoids({"closed"}),
         NEW s \in State, NEW op, NEW f, NEW d, NEW str, Fs_async(s, op, f, d, str)
  PROVE  FilesInv'
  <1>c. Calling(s, op, f, d, str) /\ op \in Op
    BY Zenon DEF Fs_async, Calling
  <1>o. OpenFiles /\ \A t \in State : Alone(t) /\ Uses(t) /\ Holds(t)
    BY Zenon DEF FilesInv
  <1>1. req[s] = NoReq /\ hfile' = hfile /\ fdtab' = fdtab
    BY AsyncDoes, Zenon
  <1>2. \A t \in State \ {s} : req'[t] = req[t]
    BY AsyncDoes, FileFacts, SMTT(60)
  <1>3. \/ req'[s] = NoReq
        \/ req'[s].op = op /\ req'[s].file = f /\ req'[s].fd = d /\ req'[s].done = "no"
    <2>1. req'[s] = NoReq \/ req'[s] = [op |-> op, file |-> f, fd |-> d, done |-> "no"]
      BY <1>1, AsyncDoes, FileFacts
    <2> QED BY <2>1
  <1>4. /\ op \in {"open", "close"} => /\ f \in File /\ life'[f] = "busy"
                                       /\ \A t \in State : req[t].file # f
        /\ \A g \in File : life'[g] = life[g] \/ (op \in {"open", "close"} /\ g = f)
    <2>1. op \in {"open", "close"} => f \in File /\ \A t \in State : req[t].file # f
      BY <1>c, FileCalls
    <2> QED BY <2>1, AsyncDoes, FileFacts, SMTT(60)
  <1>5. OpenFiles'
    BY <1>o, <1>1, <1>4, Zenon DEF OpenFiles
  <1>6. ASSUME NEW t \in State, t # s PROVE Alone(t)' /\ Uses(t)' /\ Holds(t)'
    <2>1. req'[t] = req[t]
      BY <1>2, <1>6, Zenon
    <2>2. req[t].op \in {"open", "close"} \cup UseOp =>
            req[t].file \in File /\ life'[req[t].file] = life[req[t].file]
      BY <1>4, FileUse, Zenon
    <2>3. req[t].op \in {"open", "close"} => req'[s].file # req[t].file
      <3>1. SUFFICES ASSUME req[t].op \in {"open", "close"} PROVE req'[s].file # req[t].file
        OBVIOUS
      <3>2. req[t].file \in File /\ life[req[t].file] = "busy"
        BY <1>o, <3>1, FileUse, ZenonT(60) DEF Alone
      <3>3. CASE req'[s] = NoReq
        BY <3>2, <3>3, FileFacts DEF NoReq
      <3>4. CASE req'[s].file = f
        <4>1. op \in {"open", "close"} => f # req[t].file
          BY <1>4, Zenon
        <4>2. op \in UseOp => life[f] = "open"
          BY <1>c, FileCalls
        <4>3. op \in PathOp => f = NoFile
          BY <1>c, Zenon DEF Calling
        <4> QED BY <1>c, <3>2, <3>4, <4>1, <4>2, <4>3, FileFacts, Zenon DEF Op
      <3> QED BY <1>3, <3>3, <3>4, Zenon
    <2>4. Alone(t)'
      BY <1>o, <1>2, <2>1, <2>2, <2>3 DEF Alone
    <2>5. Uses(t)'
      BY <1>o, <1>1, <2>1, <2>2, Zenon DEF Uses
    <2>6. Holds(t)'
      BY <1>o, <1>1, <2>1, Zenon DEF Holds
    <2> QED BY <2>4, <2>5, <2>6, Zenon
  <1>7. Alone(s)' /\ Uses(s)' /\ Holds(s)'
    <2>1. CASE req'[s] = NoReq
      BY <2>1, FsAssumption DEF NoReq, Alone, Uses, Holds, UseOp
    <2>2. CASE req'[s].op = op /\ req'[s].file = f /\ req'[s].fd = d /\ req'[s].done = "no"
      <3>1. Alone(s)'
        BY <1>2, <1>4, <2>2, Zenon DEF Alone
      <3>2. Uses(s)'
        <4>1. op \in UseOp => f \in File /\ life[f] = "open" /\ d = hfile[f] /\ op \notin {"open", "close"}
          BY <1>c, FileCalls DEF UseOp
        <4> QED BY <1>1, <1>4, <2>2, <4>1, Zenon DEF Uses
      <3>3. Holds(s)'
        <4>1. op = "close" => d \in Fd /\ fdtab[d] = f
          BY <1>c, FileCalls
        <4> QED BY <1>1, <2>2, <4>1, Zenon DEF Holds
      <3> QED BY <3>1, <3>2, <3>3, Zenon
    <2> QED BY <1>3, <2>1, <2>2, Zenon
  <1> QED BY <1>5, <1>6, <1>7, Zenon DEF FilesInv

LEMMA FileWorks ==
  ASSUME WaitInv, FilesInv, NEW s \in State, Works(s)
  PROVE  FilesInv'
  <1>1. PICK r \in {"ok", "fail"}, fd \in Fd \cup {-1} :
          /\ Kernel(s, req[s].op, req[s].file, req[s].fd, r)
          /\ req[s].op \in Op /\ req[s].done = "no"
          /\ Done(s, r, fd) /\ hfile' = hfile /\ life' = life
          /\ req[s].op = "open" /\ r = "ok" => Free # {} /\ fd = Lowest
          /\ req[s].op # "open" \/ r # "ok" => fd = req[s].fd
    BY WorksDoes, Zenon DEF WaitInv
  <1>2. /\ \A t \in State : req'[t].op = req[t].op /\ req'[t].file = req[t].file
        /\ \A t \in State \ {s} : req'[t] = req[t]
        /\ req'[s].done = r /\ req'[s].fd = fd
    BY <1>1, Zenon DEF Done
  <1>o. OpenFiles /\ \A t \in State : Alone(t) /\ Uses(t) /\ Holds(t)
    BY Zenon DEF FilesInv
  <1>3. \A e \in Fd : fdtab[e] \in File => \/ fdtab'[e] = fdtab[e]
                                           \/ req[s].op = "close" /\ fdtab[e] = req[s].file
    <2>1. CASE r = "ok" /\ req[s].op = "open"
      BY <1>1, <2>1, KernelTable, FileUse, FileFacts, SMTT(60)
    <2>2. CASE r = "ok" /\ req[s].op = "close"
      BY <1>1, <1>o, <2>2, KernelTable, FileFacts, SMTT(60) DEF Holds
    <2>3. CASE ~(r = "ok" /\ req[s].op \in {"open", "close"})
      BY <1>1, <2>3, KernelTable, SMTT(60)
    <2> QED BY <2>1, <2>2, <2>3, ZenonT(60)
  <1>4. OpenFiles'
    <2>1. \A g \in File : life[g] = "open" => ~(req[s].op = "close" /\ g = req[s].file)
      BY <1>o, Zenon DEF Alone
    <2> QED BY <1>1, <1>3, <1>o, <2>1 DEF OpenFiles
  <1>5. ASSUME NEW t \in State PROVE Alone(t)' /\ Uses(t)' /\ Holds(t)'
    <2>1. Alone(t)'
      BY <1>1, <1>2, <1>o, SMTT(60) DEF Alone
    <2>2. Uses(t)'
      BY <1>1, <1>2, <1>o, FileFacts DEF Uses, UseOp
    <2>3. Holds(t)'
      <3>1. CASE t = s
        <4>1. req[s].op = "open" /\ r = "ok" => fd \in Fd /\ fdtab'[fd] = req[s].file
          BY <1>1, KernelTable, FileUse, FileFacts, SMTT(60)
        <4> QED BY <1>2, <3>1, <4>1, ZenonT(60) DEF Holds
      <3>2. CASE t # s
        <4>1. req[s].op = "close" => req[t].file # req[s].file
          BY <1>o, <3>2, Zenon DEF Alone
        <4>2. req[t].op \in {"open", "close"} => req[t].file \in File
          BY FileFacts
        <4> QED BY <1>2, <1>3, <1>o, <3>2, <4>1, <4>2 DEF Holds
      <3> QED BY <3>1, <3>2, Zenon
    <2> QED BY <2>1, <2>2, <2>3, Zenon
  <1> QED BY <1>4, <1>5, Zenon DEF FilesInv

LEMMA FileCb ==
  ASSUME WaitInv, FilesInv, NEW s \in State, luv_fs_cb(s)
  PROVE  FilesInv'
  <1> DEFINE q == req[s]
  <1>1. /\ q.op \in Op /\ q.done \in {"ok", "fail"}
        /\ req' = [req EXCEPT ![s] = NoReq] /\ fdtab' = fdtab
        /\ Stored(q.op, q.file, q.fd, q.done)
    BY CbDoes, Zenon
  <1>2. req'[s] = NoReq /\ \A t \in State \ {s} : req'[t] = req[t]
    BY <1>1, FileFacts, Zenon
  <1>o. OpenFiles /\ \A t \in State : Alone(t) /\ Uses(t) /\ Holds(t)
    BY Zenon DEF FilesInv
  <1>3. q.op \in {"open", "close"} =>
          q.file \in File /\ \A t \in State \ {s} : req[t].file # q.file
    BY <1>o, FileFacts, Zenon DEF Alone
  <1>4. \A g \in File : \/ life'[g] = life[g] /\ hfile'[g] = hfile[g]
                        \/ q.op \in {"open", "close"} /\ g = q.file
    BY <1>1, <1>3, FileFacts DEF Stored
  <1>5. OpenFiles'
    <2>1. q.op \in {"open", "close"} /\ life'[q.file] = "open" =>
            hfile'[q.file] \in Fd /\ fdtab[hfile'[q.file]] = q.file
      <3>1. q.op \in {"open", "close"} /\ life'[q.file] = "open" =>
              q.op = "open" /\ q.done = "ok" /\ hfile'[q.file] = q.fd
        BY <1>1, <1>3, FileFacts DEF Stored
      <3> QED BY <1>o, <3>1, Zenon DEF Holds
    <2> QED BY <1>1, <1>4, <1>o, <2>1, Zenon DEF OpenFiles
  <1>6. ASSUME NEW t \in State PROVE Alone(t)' /\ Uses(t)' /\ Holds(t)'
    <2>1. CASE t = s
      BY <1>2, <2>1, FsAssumption DEF NoReq, Alone, Uses, Holds, UseOp
    <2>2. CASE t # s
      <3>1. req[t].op \in {"open", "close"} \cup UseOp =>
              /\ req[t].file \in File
              /\ life'[req[t].file] = life[req[t].file] /\ hfile'[req[t].file] = hfile[req[t].file]
        BY <1>3, <1>4, <2>2, FileUse, Zenon
      <3>2. req[t].op \in {"open", "close"} => req'[s].file # req[t].file
        BY <1>2, <3>1, FileFacts, SMTT(60) DEF NoReq
      <3>3. Alone(t)'
        BY <1>2, <1>o, <2>2, <3>1, <3>2 DEF Alone
      <3>4. Uses(t)'
        BY <1>2, <1>o, <2>2, <3>1, Zenon DEF Uses
      <3>5. Holds(t)'
        BY <1>1, <1>2, <1>o, <2>2, Zenon DEF Holds
      <3> QED BY <3>3, <3>4, <3>5, Zenon
    <2> QED BY <2>1, <2>2, Zenon
  <1> QED BY <1>5, <1>6, Zenon DEF FilesInv

LEMMA FileStep == WaitInv /\ FileInv /\ [Next]_vars => FileInv'
  <1> SUFFICES ASSUME WaitInv, FileInv, [Next]_vars, Avoids({"closed"})' PROVE FilesInv'
    BY Zenon DEF FileInv
  <1>1. Avoids({"closed"}) /\ FilesInv
    BY RisksStay, ZenonT(60) DEF Avoids, FileInv
  <1>2. Idle => FilesInv'
    BY <1>1 DEF Idle, FilesInv, OpenFiles, Alone, Uses, Holds
  <1> QED BY <1>1, <1>2, FileSync, FileAsync, FileWorks, FileCb, FileKinds, Zenon

-----------------------------------------------------------------------------
(* Every operation works on its own file, with its own data *)

\* Collecting strings and a panic change neither requests nor files; a panic changes
\* nothing else.
LEMMA OtherMoves ==
  ASSUME NEW s \in State
  PROVE  /\ Collects(s) => /\ UNCHANGED <<req, bufs, misdone, panic, outcome>>
                           /\ datum[s] = "loose" /\ datum' = [datum EXCEPT ![s] = "freed"]
         /\ luv_fs_cb_panics(s) => UNCHANGED <<req, bufs, misdone, datum, outcome>>
  BY Zenon DEF Collects, luv_fs_cb_panics, fileVars, reqVars

LEMMA DatumStep == TypeInv /\ DatumInv /\ [Next]_vars => DatumInv'
  <1> SUFFICES ASSUME TypeInv, DatumInv, [Next]_vars, Avoids({"temp"})', NEW t \in State
               PROVE  datum'[t] \in {"none", "held"}
    BY Zenon DEF DatumInv
  <1>1. Avoids({"temp"}) /\ \A s \in State : datum[s] \in {"none", "held"}
    BY RisksStay, Zenon DEF Avoids, DatumInv
  <1>2. datum \in [State -> {"none", "held", "loose", "freed"}]
    BY Zenon DEF TypeInv, FsTypes
  <1>3. ASSUME NEW s \in State, FsMove(s) PROVE datum'[t] \in {"none", "held"}
    <2>1. ASSUME NEW op, NEW f, NEW d, NEW str, Fs_sync(s, op, f, d, str)
          PROVE  datum'[t] \in {"none", "held"}
      BY <1>1, <2>1, Zenon DEF Fs_sync, SyncCall
    <2>2. ASSUME NEW op, NEW f, NEW d, NEW str, Fs_async(s, op, f, d, str)
          PROVE  datum'[t] \in {"none", "held"}
      <3>1. datum' = [datum EXCEPT ![s] = str] /\ str \in {"none", "held"}
        BY <1>1, <2>2, Zenon DEF Fs_async, AsyncCall, Calling, Avoids
      <3> QED BY <1>1, <1>2, <3>1, Zenon
    <2>3. ~Collects(s)
      BY <1>1, OtherMoves, Zenon
    <2>4. CASE Works(s) \/ luv_fs_cb_panics(s)
      BY <1>1, <2>4, Zenon DEF Works, luv_fs_cb_panics, reqVars
    <2>5. CASE luv_fs_cb(s)
      BY <1>1, <1>2, <2>5, Zenon DEF luv_fs_cb
    <2> QED BY <1>3, <2>1, <2>2, <2>3, <2>4, <2>5, Zenon DEF FsMove
  <1>4. Quiet => datum'[t] \in {"none", "held"}
    BY <1>1, Zenon DEF Quiet
  <1> QED BY <1>3, <1>4, QuietSteps, Zenon

\* The descriptor of a request that is still to be carried out is its file's.
LEMMA OwnDescriptor ==
  ASSUME WaitInv, FdInv, FilesInv, NEW s \in State, req[s].op \in Op, req[s].done = "no"
  PROVE  /\ req[s].op \in PathOp \cup {"open"} => req[s].fd \notin Fd
         /\ req[s].op \in UseOp \cup {"close"} =>
              req[s].fd \in Fd \ Free /\ fdtab[req[s].fd] = req[s].file
  <1>1. req[s].op \in PathOp => req[s].fd \notin Fd
    BY FileFacts, Zenon
  <1>2. req[s].op = "open" => req[s].fd \notin Fd
    BY FileFacts, Zenon DEF FdInv, OpenInv
  <1>3. req[s].op \in UseOp => req[s].fd \in Fd /\ fdtab[req[s].fd] = req[s].file
    BY FileFacts, Zenon DEF FilesInv, OpenFiles, Uses
  <1>4. req[s].op = "close" => req[s].fd \in Fd /\ fdtab[req[s].fd] = req[s].file
    BY Zenon DEF FilesInv, Holds
  <1>5. req[s].op \in UseOp \cup {"close"} => req[s].file # NoFile
    BY FileFacts, Zenon
  <1> QED BY <1>1, <1>2, <1>3, <1>4, <1>5, Zenon DEF Free

\* An operation on its own file, or on none, with its own data.
LEMMA KernelRight ==
  ASSUME NEW s, NEW op, NEW f, NEW d, NEW r, Kernel(s, op, f, d, r),
         ~misdone, datum[s] # "freed", d \in Fd \ Free => fdtab[d] = f
  PROVE  ~misdone'
  BY Zenon DEF Kernel

LEMMA RightStep ==
  WaitInv /\ FdInv /\ FileInv /\ DatumInv /\ RightFile /\ [Next]_vars => RightFile'
  <1> SUFFICES ASSUME WaitInv, FdInv, FileInv, DatumInv, RightFile, [Next]_vars,
                      Avoids({"closed", "temp"})'
               PROVE  ~misdone'
    BY Zenon DEF RightFile
  <1>1. Avoids({"closed", "temp"}) /\ Avoids({"closed"}) /\ Avoids({"temp"})
    BY RisksStay, Zenon DEF Avoids
  <1>2. ~misdone /\ FilesInv /\ \A s \in State : datum[s] # "freed"
    BY <1>1, Zenon DEF RightFile, FileInv, DatumInv
  <1>3. ASSUME NEW s \in State, FsMove(s) PROVE ~misdone'
    <2>1. ASSUME NEW op, NEW f, NEW d, NEW str, Fs_sync(s, op, f, d, str) PROVE ~misdone'
      <3>1. Calling(s, op, f, d, str)
        BY <2>1, Zenon DEF Fs_sync
      <3>2. d \in Fd => fdtab[d] = f
        <4>1. op \in UseOp \cup {"close"} => fdtab[d] = f
          BY <1>1, <1>2, <3>1, FileCalls
        <4>2. op \notin UseOp \cup {"close"} => d \notin Fd
          BY <3>1, FileFacts, Zenon DEF Calling, Op
        <4> QED BY <4>1, <4>2, ZenonT(60)
      <3>3. PICK r : Kernel(s, op, f, d, r)
        BY <2>1, SyncDoes, Zenon
      <3> QED BY <1>2, <3>2, <3>3, KernelRight, Zenon
    <2>2. ASSUME NEW op, NEW f, NEW d, NEW str, Fs_async(s, op, f, d, str) PROVE ~misdone'
      BY <1>2, <2>2, Zenon DEF Fs_async, AsyncCall
    <2>3. CASE Collects(s) \/ luv_fs_cb_panics(s)
      BY <1>2, <2>3, OtherMoves, Zenon
    <2>4. CASE Works(s)
      <3>1. PICK r : /\ Kernel(s, req[s].op, req[s].file, req[s].fd, r)
                     /\ req[s].op \in Op /\ req[s].done = "no"
        BY <2>4, WorksDoes, Zenon DEF WaitInv
      <3>2. req[s].fd \in Fd => fdtab[req[s].fd] = req[s].file
        BY <1>2, <3>1, OwnDescriptor, Zenon DEF Op
      <3> QED BY <1>2, <3>1, <3>2, KernelRight, Zenon
    <2>5. CASE luv_fs_cb(s)
      BY <1>2, <2>5, Zenon DEF luv_fs_cb
    <2> QED BY <1>3, <2>1, <2>2, <2>3, <2>4, <2>5, Zenon DEF FsMove
  <1>4. Quiet => ~misdone'
    BY <1>2, Zenon DEF Quiet, fileVars
  <1> QED BY <1>3, <1>4, QuietSteps, Zenon

-----------------------------------------------------------------------------
(* The buffers of reads *)

\* Where no operation fails by itself, those with an open descriptor work.
LEMMA KernelWorks ==
  ASSUME NEW s, NEW op \in UseOp \cup {"close"}, NEW f, NEW d \in Fd \ Free,
         NEW r \in {"ok", "fail"}, Kernel(s, op, f, d, r), Avoids({"fail"})
  PROVE  r = "ok"
  <1>1. Possible(op, d)
    BY PossibleNeeds, Zenon DEF Op
  <1> QED BY <1>1, Zenon DEF Kernel, Avoids

LEMMA FailStep == WaitInv /\ FdInv /\ FileInv /\ FailInv /\ [Next]_vars => FailInv'
  <1> SUFFICES ASSUME WaitInv, FdInv, FileInv, FailInv, [Next]_vars, Avoids({"fail", "closed"})',
                      NEW t \in State, req'[t].done = "fail"
               PROVE  req'[t].op = "open"
    BY Zenon DEF FailInv
  <1>1. Avoids({"fail", "closed"}) /\ Avoids({"closed"}) /\ Avoids({"fail"})
    BY RisksStay, Zenon DEF Avoids
  <1>2. FilesInv /\ \A s \in State : req[s].done = "fail" => req[s].op = "open"
    BY <1>1, Zenon DEF FileInv, FailInv
  <1>3. Idle => req'[t].op = "open"
    BY <1>2, Zenon DEF Idle
  <1>4. ASSUME NEW s \in State, NEW op, NEW f, NEW d, NEW str, Fs_sync(s, op, f, d, str)
        PROVE  req'[t].op = "open"
    BY <1>2, <1>4, SyncDoes, Zenon
  <1>5. ASSUME NEW s \in State, NEW op, NEW f, NEW d, NEW str, Fs_async(s, op, f, d, str)
        PROVE  req'[t].op = "open"
    <2>1. req'[t] = req[t] \/ req'[t] = [op |-> op, file |-> f, fd |-> d, done |-> "no"]
      BY <1>5, AsyncDoes, FileFacts
    <2> QED BY <1>2, <2>1, SMTT(60)
  <1>6. ASSUME NEW s \in State, Works(s) PROVE req'[t].op = "open"
    <2>1. PICK r \in {"ok", "fail"}, fd \in Fd \cup {-1} :
            /\ Kernel(s, req[s].op, req[s].file, req[s].fd, r)
            /\ req[s].op \in Op /\ req[s].done = "no" /\ Done(s, r, fd)
      BY <1>6, WorksDoes, Zenon DEF WaitInv
    <2>2. r = "fail" => req[s].op = "open"
      <3>1. req[s].op \in UseOp \cup {"close"} => r = "ok"
        BY <1>1, <1>2, <2>1, OwnDescriptor, KernelWorks, SMTT(60)
      <3>2. req[s].op \in PathOp => r = "ok"
        BY <1>1, <2>1, PossibleNeeds, Zenon DEF Kernel, Avoids
      <3> QED BY <2>1, <3>1, <3>2, ZenonT(60) DEF Op
    <2> QED BY <1>2, <2>1, <2>2, Zenon DEF Done
  <1>7. ASSUME NEW s \in State, luv_fs_cb(s) PROVE req'[t].op = "open"
    BY <1>2, <1>7, CbDoes, FileFacts DEF NoReq
  <1> QED BY <1>3, <1>4, <1>5, <1>6, <1>7, FileKinds, Zenon

LEMMA BuffersStep ==
  WaitInv /\ FileInv /\ FailInv /\ BuffersFreed /\ [Next]_vars => BuffersFreed'
  <1> SUFFICES ASSUME WaitInv, FileInv, FailInv, BuffersFreed, [Next]_vars,
                      Avoids({"fail", "start", "closed"})', NEW t \in State
               PROVE  bufs'[t] = IF req'[t].op = "read" THEN 1 ELSE 0
    BY Zenon DEF BuffersFreed
  <1>1. /\ Avoids({"fail", "start", "closed"}) /\ Avoids({"fail", "closed"})
        /\ Avoids({"closed"}) /\ Avoids({"fail"}) /\ "start" \notin risks
    BY RisksStay, Zenon DEF Avoids
  <1>2. FilesInv /\ \A s \in State : req[s].done = "fail" => req[s].op = "open"
    BY <1>1, Zenon DEF FileInv, FailInv
  <1>3. \A s \in State : bufs[s] = IF req[s].op = "read" THEN 1 ELSE 0
    BY <1>1, Zenon DEF BuffersFreed
  <1>4. bufs \in [State -> Int] /\ req \in [State -> Requests]
    BY Zenon DEF WaitInv, TypeInv, FsTypes
  <1>5. bufs' = bufs /\ req'[t].op = req[t].op => bufs'[t] = IF req'[t].op = "read" THEN 1 ELSE 0
    BY <1>3, Zenon
  <1>6. ASSUME NEW s \in State, FsMove(s)
        PROVE  bufs'[t] = IF req'[t].op = "read" THEN 1 ELSE 0
    <2>1. ASSUME NEW op, NEW f, NEW d, NEW str, Fs_sync(s, op, f, d, str)
          PROVE  bufs' = bufs /\ req'[t].op = req[t].op
      <3>1. PICK r \in {"ok", "fail"} :
              /\ Kernel(s, op, f, d, r) /\ req' = req
              /\ bufs' = [bufs EXCEPT ![s] = @ + (IF op = "read" THEN 1 ELSE 0) + FreesBuffer(s, op, r)]
        BY <2>1, Zenon DEF Fs_sync, SyncCall
      <3>2. op = "read" => r = "ok"
        <4>1. op = "read" => d \in Fd /\ fdtab[d] = f /\ f \in File
          BY <1>1, <1>2, <2>1, FileCalls DEF Fs_sync, UseOp
        <4>2. op = "read" => d \in Fd \ Free
          BY <4>1, FileFacts, Zenon DEF Free
        <4> QED BY <1>1, <3>1, <4>2, KernelWorks, ZenonT(60) DEF UseOp
      <3>3. bufs'[s] = bufs[s]
        BY <1>4, <3>1, <3>2 DEF FreesBuffer
      <3>4. bufs' = [bufs EXCEPT ![s] = bufs'[s]]
        BY <1>4, <3>1, Zenon
      <3> QED BY <1>4, <3>1, <3>3, <3>4, Zenon
    <2>2. ASSUME NEW op, NEW f, NEW d, NEW str, Fs_async(s, op, f, d, str)
          PROVE  bufs'[t] = IF req'[t].op = "read" THEN 1 ELSE 0
      <3>1. /\ req[s] = NoReq
            /\ req' = [req EXCEPT ![s] = [op |-> op, file |-> f, fd |-> d, done |-> "no"]]
        BY <1>1, <2>2, AsyncDoes
      <3>2. bufs' = [bufs EXCEPT ![s] = @ + (IF op = "read" THEN 1 ELSE 0)]
        BY <2>2, ZenonT(60) DEF Fs_async, AsyncCall
      <3>3. bufs[s] = 0
        BY <1>3, <3>1 DEF NoReq
      <3>4. CASE t = s
        <4>1. req'[t].op = op
          BY <1>4, <3>1, <3>4, Zenon
        <4>2. bufs'[t] = IF op = "read" THEN 1 ELSE 0
          BY <1>4, <3>2, <3>3, <3>4
        <4> QED BY <4>1, <4>2, Zenon
      <3>5. CASE t # s
        BY <1>3, <1>4, <3>1, <3>2, <3>5, Zenon
      <3> QED BY <3>4, <3>5, Zenon
    <2>3. CASE Collects(s) \/ luv_fs_cb_panics(s)
      BY <1>5, <2>3, OtherMoves, Zenon
    <2>4. CASE Works(s)
      <3>1. PICK r, fd : Done(s, r, fd) /\ bufs' = bufs
        BY <2>4, WorksDoes, Zenon DEF WaitInv
      <3> QED BY <1>5, <3>1, Zenon DEF Done
    <2>5. CASE luv_fs_cb(s)
      <3>1. /\ req[s].done \in {"ok", "fail"} /\ req' = [req EXCEPT ![s] = NoReq]
            /\ bufs' = [bufs EXCEPT ![s] = @ + FreesBuffer(s, req[s].op, req[s].done)]
        BY <2>5, CbDoes, Zenon DEF luv_fs_cb
      <3>2. req[s].op = "read" => req[s].done = "ok"
        BY <1>2, <3>1, Zenon
      <3>3. bufs'[s] = 0
        BY <1>3, <1>4, <3>1, <3>2 DEF FreesBuffer
      <3>4. req'[s].op = "none"
        BY <1>4, <3>1, Zenon DEF NoReq
      <3>5. t # s => bufs'[t] = bufs[t] /\ req'[t] = req[t]
        BY <1>4, <3>1, Zenon
      <3> QED BY <1>3, <3>3, <3>4, <3>5, Zenon
    <2> QED BY <1>5, <1>6, <2>1, <2>2, <2>3, <2>4, <2>5, Zenon DEF FsMove
  <1>7. Quiet => bufs' = bufs /\ req'[t].op = req[t].op
    BY Zenon DEF Quiet
  <1> QED BY <1>5, <1>6, <1>7, QuietSteps, Zenon

-----------------------------------------------------------------------------
(* Results *)

\* How a step concerns a state: it runs, and calls luv or not; or it is resumed; or it
\* does not run, and only its own callbacks touch its stack.
Runs(t) ==
  /\ status[t] = "running"
  /\ status'[t] = "parked" \/ (status'[t] = "running" /\ call'[t] = call[t])
Waits(t) ==
  /\ status[t] # "running" /\ call'[t] = call[t]
  /\ status'[t] = status[t] \/ (status[t] = "parked" /\ status'[t] = "ready")
  /\ ret'[t] = ret[t] \/ luv_fs_cb(t) \/ \E o \in Object : _exit_cb(o) /\ spawner[o] = t
  /\ outcome'[t] = outcome[t] \/ Works(t)

LEMMA StateMoves ==
  ASSUME WaitInv, [Next]_vars, NEW t \in State
  PROVE  Runs(t) \/ Resumes(t) \/ Waits(t)
  <1>a. /\ status \in [State -> States!Status] /\ call \in [State -> Calls]
        /\ DOMAIN ret = State /\ outcome \in [State -> {"none", "ok", "fail"}]
    BY Zenon DEF WaitInv, TypeInv, LoopTypes, FsTypes
  <1>w. ASSUME NEW s \in State, Wake(s)
        PROVE  status'[t] = status[t] \/ (status[t] = "parked" /\ status'[t] = "ready")
    BY <1>a, <1>w, Zenon DEF Wake, States!Ready, States!Move
  <1>s. ASSUME NEW s \in State, NEW c, NEW L, SuspendWith(s, c, L), outcome' = outcome
        PROVE  Runs(t) \/ Waits(t)
    <2>1. /\ status[s] = "running" /\ status'[s] = "parked"
          /\ t # s => status'[t] = status[t] /\ call'[t] = call[t] /\ ret'[t] = ret[t]
      <3>1. /\ status[s] = "running" /\ status' = [status EXCEPT ![s] = "parked"]
            /\ call' = [call EXCEPT ![s] = c] /\ ret' = [ret EXCEPT ![s] = L]
        BY <1>s, Zenon DEF SuspendWith, States!Suspend, States!Move
      <3> QED BY <1>a, <3>1, Zenon
    <2> QED BY <1>s, <2>1, Zenon DEF Runs, Waits
  <1>n. ASSUME NEW s \in State, NEW v, Running(s), Return(s, v), outcome' = outcome
        PROVE  Runs(t) \/ Waits(t)
    <2>1. /\ status[s] = "running" /\ status' = status /\ call' = call
          /\ t # s => ret'[t] = ret[t]
      BY <1>a, <1>n, Zenon DEF Return, Running, pollVars
    <2> QED BY <1>n, <2>1, Zenon DEF Runs, Waits
  <1>q. ASSUME status' = status, call' = call, ret' = ret,
               outcome'[t] = outcome[t] \/ Works(t)
        PROVE  Runs(t) \/ Waits(t)
    BY <1>q, Zenon DEF Runs, Waits
  <1>1. ASSUME NEW s \in State, FsMove(s) PROVE Runs(t) \/ Waits(t)
    <2>1. ASSUME NEW op, NEW f, NEW d, NEW str, Fs_sync(s, op, f, d, str)
          PROVE  Runs(t) \/ Waits(t)
      <3>1. PICK v : Running(s) /\ Return(s, v) /\ outcome' = outcome
        BY <2>1, Zenon DEF Fs_sync, SyncCall, Calling
      <3> QED BY <1>n, <3>1, Zenon
    <2>2. ASSUME NEW op, NEW f, NEW d, NEW str, Fs_async(s, op, f, d, str)
          PROVE  Runs(t) \/ Waits(t)
      <3>1. PICK L : SuspendWith(s, <<"fs", op>>, L) /\ outcome' = outcome
        BY <2>2, Zenon DEF Fs_async, AsyncCall
      <3> QED BY <1>s, <3>1, Zenon
    <2>3. CASE Collects(s) \/ luv_fs_cb_panics(s)
      BY <1>q, <2>3, Zenon DEF Collects, luv_fs_cb_panics, loopVars, pollVars, reqVars
    <2>4. CASE Works(s)
      <3>1. /\ status' = status /\ call' = call /\ ret' = ret
            /\ t # s => outcome'[t] = outcome[t]
        BY <1>a, <2>4, Zenon DEF Works, loopVars, pollVars
      <3> QED BY <1>q, <2>4, <3>1, Zenon
    <2>5. CASE luv_fs_cb(s)
      <3>1. /\ Wake(s) /\ call' = call /\ outcome' = outcome
            /\ t # s => ret'[t] = ret[t]
        BY <1>a, <2>5, Zenon DEF luv_fs_cb, pollVars
      <3>2. status'[t] = status[t] \/ (status[t] = "parked" /\ status'[t] = "ready")
        BY <1>w, <3>1, Zenon
      <3> QED BY <2>5, <3>1, <3>2, Zenon DEF Runs, Waits
    <2> QED BY <1>1, <2>1, <2>2, <2>3, <2>4, <2>5, Zenon DEF FsMove
  <1>2. ASSUME NEW s \in State, LoopMove(s) PROVE Runs(t) \/ Resumes(t) \/ Waits(t)
    <2>1. CASE Sleeps(s)
      BY <1>s, <2>1, Zenon DEF Sleeps, luv_sleep, Suspend, fsVars, reqVars
    <2>2. CASE SleepCb(s)
      <3>1. Wake(s) /\ call' = call /\ ret' = ret /\ outcome' = outcome
        BY <2>2, Zenon DEF SleepCb, sleep_cb, pollVars, fsVars, reqVars
      <3>2. status'[t] = status[t] \/ (status[t] = "parked" /\ status'[t] = "ready")
        BY <1>w, <3>1, Zenon
      <3> QED BY <3>1, <3>2, Zenon DEF Runs, Waits
    <2>3. CASE Resumes(s) /\ s # t
      <3>1. /\ status[t] # "running" /\ status'[t] = status[t] /\ call'[t] = call[t]
            /\ ret'[t] = ret[t] /\ outcome'[t] = outcome[t]
        <4>1. /\ \A u \in State : status[u] # "running"
              /\ status' = [status EXCEPT ![s] = "running"] /\ call' = [call EXCEPT ![s] = NoCall]
              /\ ret' = [ret EXCEPT ![s] = Args] /\ outcome' = [outcome EXCEPT ![s] = "none"]
          BY <2>3, Zenon
          DEF Resumes, ResumeWith, States!Resume, States!NobodyRuns, States!Move, State
        <4> QED BY <1>a, <2>3, <4>1, Zenon
      <3> QED BY <3>1, Zenon DEF Waits
    <2> QED BY <1>2, <2>1, <2>2, <2>3, Zenon DEF LoopMove
  <1>3. ASSUME NEW s \in State, NEW o \in Object, ProcMove(s, o) PROVE Runs(t) \/ Waits(t)
    <2>1. CASE luv_new_process(s, o)
      BY <1>s, <2>1, Zenon DEF luv_new_process, luvL_cond_wait, Suspend, fsVars, reqVars
    <2>2. CASE luv_new_process_detached(s, o) \/ luv_new_process_fails(s, o)
      BY <1>n, <2>2, Zenon
      DEF luv_new_process_detached, luv_new_process_fails, fsVars, reqVars
    <2>3. CASE luv_process_kill(s, o)
      BY <1>n, <2>3, Zenon DEF luv_process_kill, fsVars, reqVars
    <2> QED BY <1>3, <2>1, <2>2, <2>3, Zenon DEF ProcMove
  <1>4. ASSUME NEW o \in Object, _exit_cb(o) PROVE Runs(t) \/ Waits(t)
    <2>1. /\ call' = call /\ outcome' = outcome /\ luvL_cond_signal(o)
          /\ t # spawner[o] => ret'[t] = ret[t]
      BY <1>a, <1>4, Zenon DEF _exit_cb, pollVars, fsVars, reqVars
    <2>2. status' = status \/ Wake(spawner[o])
      BY <2>1, Single, Zenon DEF luvL_cond_signal, RouseHead, WaitInv, LinkInv
    <2>3. spawner[o] \in State
      BY Zenon DEF WaitInv, TypeInv, ProcTypes
    <2>4. status'[t] = status[t] \/ (status[t] = "parked" /\ status'[t] = "ready")
      BY <1>w, <2>2, <2>3, Zenon
    <2> QED BY <1>4, <2>1, <2>4, Zenon DEF Runs, Waits
  <1>5. CASE UNCHANGED vars
    BY <1>q, <1>5, Zenon DEF vars, loopVars, pollVars, fsVars, reqVars
  <1> QED BY <1>1, <1>2, <1>3, <1>4, <1>5, NextKinds, Zenon

\* The results of a request are noted down by the thread pool only.
LEMMA OnlyOwn ==
  ASSUME WaitInv, [Next]_vars, NEW t \in State, Parked(t), ~luv_fs_cb(t), ~Works(t)
  PROVE  req'[t] = req[t]
  <1>1. Idle => req'[t] = req[t]
    BY Zenon DEF Idle
  <1>2. ASSUME NEW s \in State, NEW op, NEW f, NEW d, NEW str, Fs_sync(s, op, f, d, str)
        PROVE  req'[t] = req[t]
    BY <1>2, SyncDoes, Zenon
  <1>3. ASSUME NEW s \in State, NEW op, NEW f, NEW d, NEW str, Fs_async(s, op, f, d, str)
        PROVE  req'[t] = req[t]
    <2>1. s # t
      BY <1>3, Zenon DEF Fs_async, Calling, Running, Parked
    <2> QED BY <1>3, <2>1, AsyncDoes, FileFacts
  <1>4. ASSUME NEW s \in State, Works(s) PROVE req'[t] = req[t]
    <2>1. PICK r, fd : Done(s, r, fd)
      BY <1>4, WorksDoes, Zenon DEF WaitInv
    <2> QED BY <1>4, <2>1, Zenon DEF Done
  <1>5. ASSUME NEW s \in State, luv_fs_cb(s) PROVE req'[t] = req[t]
    BY <1>5, CbDoes, FileFacts, Zenon
  <1> QED BY <1>1, <1>2, <1>3, <1>4, <1>5, FileKinds, Zenon

\* A state that runs is in no call.
CallInv == \A s \in State : Running(s) => call[s] = NoCall

LEMMA CallStep == WaitInv /\ CallInv /\ [Next]_vars => CallInv'
  <1> SUFFICES ASSUME WaitInv, CallInv, [Next]_vars, NEW t \in State, status'[t] = "running"
               PROVE  call'[t] = NoCall
    BY Zenon DEF CallInv, Running
  <1>1. CASE Runs(t)
    BY <1>1, Zenon DEF Runs, CallInv, Running
  <1>2. CASE Resumes(t)
    BY <1>2, Zenon DEF Resumes, ResumeWith, WaitInv, TypeInv, LoopTypes
  <1>3. ~Waits(t)
    BY Zenon DEF Waits
  <1> QED BY <1>1, <1>2, <1>3, StateMoves, Zenon

\* Where no spawn is detached, whoever spawned the process that exits waits for it.
LEMMA ExitOf ==
  ASSUME WaitInv, SpawnInv, Avoids({"detach"}), NEW o \in Object, plife[o] = "runs"
  PROVE  /\ spawner[o] \in State /\ Parked(spawner[o]) /\ call[spawner[o]] = <<"spawn", o>>
         /\ rouse[o] = <<spawner[o]>> /\ ret[spawner[o]] = Args
  BY Zenon DEF SpawnInv, WaitInv, LinkInv, In, TypeInv, ProcTypes

\* So nothing but the callback of its own request touches the stack of a fiber in a file
\* system call.
LEMMA StackKept ==
  ASSUME WaitInv, SpawnInv, Avoids({"detach"}), NEW t \in State, Waits(t), ~luv_fs_cb(t),
         NEW op \in Op, call[t] = <<"fs", op>>
  PROVE  ret'[t] = ret[t]
  <1>1. ASSUME NEW o \in Object, _exit_cb(o), spawner[o] = t PROVE FALSE
    <2>1. plife[o] = "runs"
      BY <1>1, Zenon DEF _exit_cb
    <2> QED BY <1>1, <2>1, ExitOf, CallsDiffer
  <1> QED BY <1>1, Zenon DEF Waits

LEMMA ResultStep ==
  WaitInv /\ SpawnInv /\ ResultInv /\ [Next]_vars => ResultInv'
  <1> SUFFICES ASSUME WaitInv, SpawnInv, ResultInv, [Next]_vars, Avoids({"detach"})',
                      NEW t \in State
               PROVE  /\ req'[t].op # "none" =>
                           /\ ret'[t] = Kept(req'[t].op)
                           /\ req'[t].done # "no" => outcome'[t] = req'[t].done
                      /\ t # Main /\ status'[t] = "ready" =>
                           \A op \in Op : call'[t] = <<"fs", op>> =>
                             ret'[t] = luv_fs_result(Kept(op), op, outcome'[t])
    BY Zenon DEF ResultInv
  <1>1. Avoids({"detach"})
    BY RisksStay, Zenon DEF Avoids
  <1>2. /\ req[t].op # "none" =>
             ret[t] = Kept(req[t].op) /\ (req[t].done # "no" => outcome[t] = req[t].done)
        /\ t # Main /\ status[t] = "ready" =>
             \A op \in Op : call[t] = <<"fs", op>> =>
               ret[t] = luv_fs_result(Kept(op), op, outcome[t])
    BY <1>1, Zenon DEF ResultInv
  <1>3. TypeInv /\ ReqInv /\ req \in [State -> Requests] /\ DOMAIN ret = State
    BY Zenon DEF WaitInv, TypeInv, FsTypes, LoopTypes
  <1>n. NoReq.op = "none" /\ "none" \notin Op
    BY FsAssumption, Zenon DEF NoReq, Op, UseOp
  <1>4. ASSUME req'[t].op # "none"
        PROVE  /\ ret'[t] = Kept(req'[t].op)
               /\ req'[t].done # "no" => outcome'[t] = req'[t].done
    <2>1. CASE Noted(t)
      <3>1. req[t].op # "none" /\ req'[t].op = req[t].op
        BY <1>4, <2>1, Zenon DEF Noted
      <3>2. req[t].op \in Op /\ status[t] = "parked" /\ call[t] = <<"fs", req[t].op>>
        BY <1>3, <3>1, InUse, Zenon DEF Parked
      <3>3. ~luv_fs_cb(t)
        <4>1. luv_fs_cb(t) => req'[t] = NoReq
          BY <1>3, Zenon DEF luv_fs_cb
        <4> QED BY <1>4, <1>n, <4>1
      <3>4. Waits(t)
        BY <3>2, StateMoves, ZenonT(60) DEF Runs, Resumes, ResumeWith, States!Resume, States!Move
      <3>5. ret'[t] = ret[t]
        BY <1>1, <3>2, <3>3, <3>4, StackKept
      <3>6. CASE Works(t)
        <4>1. PICK r, fd : Done(t, r, fd) /\ outcome' = [outcome EXCEPT ![t] = r]
          BY <1>3, <3>6, WorksDoes, Zenon
        <4>2. outcome'[t] = r /\ req'[t].done = r
          BY <4>1, Zenon DEF Done, WaitInv, TypeInv, FsTypes
        <4> QED BY <1>2, <3>1, <3>5, <4>2
      <3>7. CASE ~Works(t)
        <4>1. outcome'[t] = outcome[t]
          BY <3>4, <3>7, Zenon DEF Waits
        <4>2. req'[t].done = req[t].done
          BY <3>2, <3>3, <3>7, OnlyOwn DEF Parked
        <4> QED BY <1>2, <3>1, <3>5, <4>1, <4>2, SMTT(60)
      <3> QED BY <3>6, <3>7, Zenon
    <2>2. ~(req'[t] = NoReq)
      BY <1>4, <1>n, Zenon
    <2>3. ASSUME NEW op, NEW f, NEW d, NEW str, Fs_async(t, op, f, d, str),
                 req'[t] = [op |-> op, file |-> f, fd |-> d, done |-> "no"]
          PROVE  /\ ret'[t] = Kept(req'[t].op)
                 /\ req'[t].done # "no" => outcome'[t] = req'[t].done
      <3>1. req'[t].op = op /\ req'[t].done = "no"
        BY <2>3
      <3>2. req[t] = NoReq
        BY <2>3, AsyncDoes, Zenon
      <3>3. req' # req
        BY <1>4, <1>n, <3>2
      <3>4. SuspendWith(t, <<"fs", op>>, Kept(op))
        BY <2>3, <3>3, Zenon DEF Fs_async, AsyncCall
      <3>5. ret' = [ret EXCEPT ![t] = Kept(op)]
        BY <3>4, Zenon DEF SuspendWith
      <3>6. ret'[t] = Kept(op)
        BY <1>3, <3>5, Zenon
      <3> QED BY <3>1, <3>6, Zenon
    <2> QED BY <1>3, <2>1, <2>2, <2>3, ReqMoves, Zenon
  <1>5. ASSUME t # Main, status'[t] = "ready", NEW op \in Op, call'[t] = <<"fs", op>>
        PROVE  ret'[t] = luv_fs_result(Kept(op), op, outcome'[t])
    <2>1. Waits(t)
      <3>1. ~Runs(t)
        BY <1>5, Zenon DEF Runs
      <3>2. ~Resumes(t)
        BY <1>5, CallsDiffer, Zenon DEF Resumes, ResumeWith, WaitInv, TypeInv, LoopTypes
      <3> QED BY <3>1, <3>2, StateMoves
    <2>2. call[t] = <<"fs", op>> /\ status[t] \in {"ready", "parked"}
      BY <1>5, <2>1, Zenon DEF Waits
    <2>3. CASE status[t] = "ready"
      <3>1. ~luv_fs_cb(t) /\ ~Works(t)
        BY <1>3, <2>3, InUse, SMTT(60) DEF luv_fs_cb, FsDone, Works, Parked
      <3>2. ret'[t] = ret[t]
        BY <1>1, <2>1, <2>2, <3>1, StackKept, SMTT(60)
      <3>3. outcome'[t] = outcome[t]
        BY <2>1, <3>1, ZenonT(60) DEF Waits
      <3> QED BY <1>2, <1>5, <2>2, <2>3, <3>2, <3>3, SMTT(60)
    <2>4. CASE status[t] = "parked"
      <3>1. luv_fs_cb(t) /\ req[t].op # "none" /\ call[t] = <<"fs", req[t].op>>
        <4>1. Woken(t)
          BY <1>5, <2>4, ParkedMoves, ZenonT(60) DEF Parked
        <4> QED BY <2>2, <4>1, CallsDiffer, Zenon DEF Woken
      <3>2. req[t].op = op
        BY <1>3, <2>2, <3>1, InUse, CallsDiffer, SMTT(60)
      <3>3. /\ ret' = [ret EXCEPT ![t] = luv_fs_result(@, op, req[t].done)]
            /\ outcome' = outcome /\ req[t].done # "no"
        BY <3>1, <3>2, Zenon DEF luv_fs_cb, FsDone
      <3>4. ret'[t] = luv_fs_result(ret[t], op, req[t].done)
        BY <1>3, <3>3, Zenon
      <3> QED BY <1>2, <3>1, <3>2, <3>3, <3>4, SMTT(60)
    <2> QED BY <2>2, <2>3, <2>4, Zenon
  <1> QED BY <1>4, <1>5, Zenon

\* How a process changes: not, or it is spawned, or it exits.
LEMMA ObjectMoves ==
  ASSUME WaitInv, [Next]_vars, NEW p \in Object
  PROVE  \/ plife'[p] = plife[p] /\ spawner'[p] = spawner[p] /\ rouse'[p] = rouse[p] /\ ~_exit_cb(p)
         \/ \E s \in State : luv_new_process(s, p)
         \/ "detach" \in risks /\ plife[p] = "new"
         \/ plife[p] = "new" /\ plife'[p] = "over"
         \/ _exit_cb(p) /\ plife'[p] = "over"
  <1>a. /\ plife \in [Object -> {"new", "runs", "over"}] /\ spawner \in [Object -> State]
        /\ rouse \in [Object -> Seq(State)]
    BY Zenon DEF WaitInv, TypeInv, ProcTypes
  <1>b. _exit_cb(p) => plife'[p] = "over"
    BY <1>a, Zenon DEF _exit_cb
  <1>1. UNCHANGED <<procVars, rouse>> =>
          plife'[p] = plife[p] /\ spawner'[p] = spawner[p] /\ rouse'[p] = rouse[p]
    BY Zenon DEF procVars
  <1>2. ASSUME NEW s \in State, LoopMove(s) PROVE UNCHANGED <<procVars, rouse>>
    BY <1>2, Zenon DEF LoopMove, Sleeps, SleepCb, Resumes
  <1>3. ASSUME NEW s \in State, NEW o \in Object, ProcMove(s, o)
        PROVE  \/ plife'[p] = plife[p] /\ spawner'[p] = spawner[p] /\ rouse'[p] = rouse[p]
               \/ luv_new_process(s, p)
               \/ "detach" \in risks /\ plife[p] = "new"
               \/ plife[p] = "new" /\ plife'[p] = "over"
    <2>1. CASE luv_new_process(s, o)
      <3>1. o # p => plife'[p] = plife[p] /\ spawner'[p] = spawner[p] /\ rouse'[p] = rouse[p]
        BY <1>a, <2>1, Zenon DEF luv_new_process, Spawned, luvL_cond_wait
      <3> QED BY <2>1, <3>1, Zenon
    <2>2. CASE luv_new_process_detached(s, o)
      <3>1. o # p => plife'[p] = plife[p] /\ spawner'[p] = spawner[p] /\ rouse'[p] = rouse[p]
        BY <1>a, <2>2, Zenon DEF luv_new_process_detached, Spawned
      <3> QED BY <2>2, <3>1, Zenon DEF luv_new_process_detached
    <2>3. CASE luv_new_process_fails(s, o)
      BY <1>a, <2>3, Zenon DEF luv_new_process_fails
    <2>4. CASE luv_process_kill(s, o)
      BY <1>1, <2>4, Zenon DEF luv_process_kill
    <2> QED BY <1>3, <2>1, <2>2, <2>3, <2>4, Zenon DEF ProcMove
  <1>4. ASSUME NEW o \in Object, _exit_cb(o), o # p
        PROVE  plife'[p] = plife[p] /\ spawner'[p] = spawner[p] /\ rouse'[p] = rouse[p]
    BY <1>a, <1>4, Zenon DEF _exit_cb, luvL_cond_signal, RouseHead
  <1>5. UNCHANGED vars => UNCHANGED <<procVars, rouse>>
    BY Zenon DEF vars
  <1> QED BY <1>b, <1>1, <1>2, <1>3, <1>4, <1>5, NextKinds, Zenon

LEMMA SpawnStep == WaitInv /\ SpawnInv /\ [Next]_vars => SpawnInv'
  <1> SUFFICES ASSUME WaitInv, SpawnInv, [Next]_vars, Avoids({"detach"})'
               PROVE  /\ \A o \in Object : plife'[o] = "runs" =>
                           rouse'[o] # <<>> /\ ret'[spawner'[o]] = Args
                      /\ \A s \in State, o \in Object :
                           status'[s] = "ready" /\ call'[s] = <<"spawn", o>> =>
                             plife'[o] = "over" /\ ret'[s] = Args \o Exit
    BY Zenon DEF SpawnInv, In
  <1>1. Avoids({"detach"}) /\ "detach" \notin risks
    BY RisksStay, Zenon DEF Avoids
  <1>2. \A s \in State, o \in Object :
          status[s] = "ready" /\ call[s] = <<"spawn", o>> => plife[o] = "over" /\ ret[s] = Args \o Exit
    BY <1>1, Zenon DEF SpawnInv, In
  <1>3. /\ DOMAIN ret = State /\ plife \in [Object -> {"new", "runs", "over"}]
        /\ spawner \in [Object -> State] /\ rouse \in [Object -> Seq(State)]
    BY Zenon DEF WaitInv, TypeInv, LoopTypes, ProcTypes
  <1>4. ASSUME NEW o \in Object, plife'[o] = "runs"
        PROVE  rouse'[o] # <<>> /\ ret'[spawner'[o]] = Args
    <2>1. CASE /\ plife'[o] = plife[o] /\ spawner'[o] = spawner[o] /\ rouse'[o] = rouse[o]
               /\ ~_exit_cb(o)
      <3>1. /\ spawner[o] \in State /\ Parked(spawner[o]) /\ call[spawner[o]] = <<"spawn", o>>
            /\ rouse[o] = <<spawner[o]>> /\ ret[spawner[o]] = Args
        BY <1>1, <1>4, <2>1, ExitOf, Zenon
      <3>2. PICK u \in State : u = spawner[o]
        BY <3>1, Zenon
      <3>3. Waits(u)
        BY <3>1, <3>2, StateMoves, Zenon
        DEF Parked, Runs, Resumes, ResumeWith, States!Resume, States!Move
      <3>4. ~luv_fs_cb(u)
        <4>1. luv_fs_cb(u) => req[u].done # "no"
          BY Zenon DEF luv_fs_cb, FsDone
        <4> QED BY <3>1, <3>2, <4>1, InUse, CallsDiffer, Zenon DEF WaitInv
      <3>5. ASSUME NEW p \in Object, _exit_cb(p), spawner[p] = u PROVE FALSE
        <4>1. plife[p] = "runs"
          BY <3>5, ZenonT(60) DEF _exit_cb
        <4>2. p = o
          BY <1>1, <3>1, <3>2, <3>5, <4>1, ExitOf, CallsDiffer, SMTT(60)
        <4> QED BY <2>1, <3>5, <4>2, Zenon
      <3>6. ret'[u] = ret[u]
        BY <3>3, <3>4, <3>5, Zenon DEF Waits
      <3> QED BY <2>1, <3>1, <3>2, <3>6, Single, Zenon
    <2>2. ASSUME NEW s \in State, luv_new_process(s, o)
          PROVE  rouse'[o] # <<>> /\ ret'[spawner'[o]] = Args
      <3>1. /\ rouse' = [rouse EXCEPT ![o] = Append(@, s)]
            /\ ret' = [ret EXCEPT ![s] = Args] /\ spawner' = [spawner EXCEPT ![o] = s]
        BY <2>2, Zenon DEF luv_new_process, Spawned, luvL_cond_wait, Suspend, SuspendWith
      <3>2. spawner'[o] = s /\ ret'[s] = Args
        BY <1>3, <3>1, Zenon
      <3>3. rouse'[o] = Append(rouse[o], s) /\ rouse[o] \in Seq(State)
        BY <1>3, <3>1, Zenon
      <3> QED BY <3>2, <3>3
    <2> QED BY <1>1, <1>4, <2>1, <2>2, ObjectMoves, Zenon
  <1>5. ASSUME NEW s \in State, NEW o \in Object, status'[s] = "ready", call'[s] = <<"spawn", o>>
        PROVE  plife'[o] = "over" /\ ret'[s] = Args \o Exit
    <2>1. Waits(s)
      <3>1. ~Runs(s)
        BY <1>5, Zenon DEF Runs
      <3>2. ~Resumes(s)
        BY <1>5, CallsDiffer, Zenon DEF Resumes, ResumeWith, WaitInv, TypeInv, LoopTypes
      <3> QED BY <3>1, <3>2, StateMoves, Zenon
    <2>2. call[s] = <<"spawn", o>> /\ status[s] \in {"ready", "parked"}
      BY <1>5, <2>1, ZenonT(60) DEF Waits
    <2>3. ~luv_fs_cb(s)
      BY <2>2, InUse, CallsDiffer DEF luv_fs_cb, FsDone, WaitInv
    <2>4. CASE status[s] = "ready"
      <3>1. plife[o] = "over" /\ ret[s] = Args \o Exit
        BY <1>2, <2>2, <2>4, Zenon
      <3>2. ASSUME NEW p \in Object, _exit_cb(p), spawner[p] = s PROVE FALSE
        <4>1. plife[p] = "runs"
          BY <3>2, Zenon DEF _exit_cb
        <4> QED BY <1>1, <2>4, <3>2, <4>1, ExitOf, Zenon DEF Parked
      <3>3. ret'[s] = ret[s]
        BY <2>1, <2>3, <3>2, Zenon DEF Waits
      <3>4. plife'[o] = "over"
        BY <3>1, ObjectMoves, Zenon DEF luv_new_process
      <3> QED BY <3>1, <3>3, <3>4, Zenon
    <2>5. CASE status[s] = "parked"
      <3>1. _exit_cb(o) /\ rouse[o] = <<s>>
        <4>1. Woken(s)
          BY <1>5, <2>5, ParkedMoves, Zenon DEF Parked
        <4>2. call[s] # <<"sleep">>
          BY <2>2, CallsDiffer, Zenon
        <4>3. PICK p \in Object : _exit_cb(p) /\ rouse[p] = <<s>> /\ call[s] = <<"spawn", p>>
          BY <2>3, <4>1, <4>2, Zenon DEF Woken
        <4>4. p = o
          BY <2>2, <4>3, CallsDiffer, Zenon
        <4> QED BY <4>3, <4>4, Zenon
      <3>2. /\ plife[o] = "runs" /\ plife' = [plife EXCEPT ![o] = "over"]
            /\ ret' = [ret EXCEPT ![spawner[o]] = @ \o Exit]
        BY <3>1, ZenonT(60) DEF _exit_cb, Exit
      <3>3. spawner[o] = s /\ ret[s] = Args
        BY <1>1, <3>1, <3>2, ExitOf
      <3>4. ret'[s] = ret[s] \o Exit
        BY <1>3, <3>2, <3>3, Zenon
      <3>5. plife'[o] = "over"
        BY <1>3, <3>2, Zenon
      <3> QED BY <3>3, <3>4, <3>5, Zenon
    <2> QED BY <2>2, <2>4, <2>5, Zenon
  <1> QED BY <1>4, <1>5, Zenon

\* A careful program has no request for sendfile.
SendInv == Avoids({"sendfile"}) => \A s \in State : req[s].op # "sendfile"

LEMMA SendStep == WaitInv /\ SendInv /\ [Next]_vars => SendInv'
  <1> SUFFICES ASSUME WaitInv, SendInv, [Next]_vars, Avoids({"sendfile"})', NEW t \in State
               PROVE  req'[t].op # "sendfile"
    BY Zenon DEF SendInv
  <1>1. Avoids({"sendfile"}) /\ req[t].op # "sendfile"
    BY RisksStay, Zenon DEF Avoids, SendInv
  <1>2. Noted(t) => req'[t].op # "sendfile"
    BY <1>1, Zenon DEF Noted
  <1>3. req'[t] = NoReq => req'[t].op # "sendfile"
    BY SMTT(60) DEF NoReq
  <1>4. ASSUME NEW op, NEW f, NEW d, NEW str, Fs_async(t, op, f, d, str),
               req'[t] = [op |-> op, file |-> f, fd |-> d, done |-> "no"]
        PROVE  req'[t].op # "sendfile"
    BY <1>1, <1>4 DEF Fs_async, Calling, Avoids
  <1> QED BY <1>2, <1>3, <1>4, ReqMoves, Zenon DEF WaitInv

\* open finds its file object on the stack.
LEMMA OpenKeeps == ~Raises(Kept("open"), "open", "ok")
  <1>1. Kept("open") = <<"file">>
    BY Zenon DEF Kept
  <1> QED BY <1>1 DEF Raises

LEMMA PanicStep ==
  WaitInv /\ ResultInv /\ SendInv /\ NoPanic /\ [Next]_vars => NoPanic'
  <1> SUFFICES ASSUME WaitInv, ResultInv, SendInv, NoPanic, [Next]_vars,
                      Avoids({"sendfile", "detach"})'
               PROVE  ~panic'
    BY Zenon DEF NoPanic
  <1>1. Avoids({"sendfile", "detach"}) /\ Avoids({"sendfile"}) /\ Avoids({"detach"})
    BY RisksStay, Zenon DEF Avoids
  <1>2. ~panic
    BY <1>1, Zenon DEF NoPanic
  <1>3. ASSUME NEW s \in State, FsMove(s) PROVE ~panic'
    <2>1. ASSUME NEW op, NEW f, NEW d, NEW str, Fs_sync(s, op, f, d, str) PROVE ~panic'
      BY <1>2, <2>1 DEF Fs_sync, SyncCall
    <2>2. ASSUME NEW op, NEW f, NEW d, NEW str, Fs_async(s, op, f, d, str) PROVE ~panic'
      BY <1>2, <2>2, Zenon DEF Fs_async, AsyncCall
    <2>3. CASE Collects(s) \/ Works(s) \/ luv_fs_cb(s)
      BY <1>2, <2>3, Zenon DEF Collects, Works, luv_fs_cb
    <2>4. ~luv_fs_cb_panics(s)
      <3>1. SUFFICES ASSUME req[s].done # "no", Raises(ret[s], req[s].op, req[s].done) PROVE FALSE
        BY Zenon DEF luv_fs_cb_panics, FsDone
      <3>2. req[s].op \in Op
        BY <3>1, InUse, Zenon DEF WaitInv
      <3>3. ret[s] = Kept(req[s].op)
        BY <1>1, <3>2, FsAssumption, Zenon DEF ResultInv, Op, UseOp
      <3>4. req[s].op # "sendfile"
        BY <1>1, Zenon DEF SendInv
      <3>5. req[s].op = "open" /\ req[s].done = "ok"
        BY <3>1, <3>4, Zenon DEF Raises
      <3> QED BY <3>1, <3>3, <3>5, OpenKeeps, Zenon
    <2> QED BY <1>3, <2>1, <2>2, <2>3, <2>4, Zenon DEF FsMove
  <1>4. Quiet => ~panic'
    BY <1>2, Zenon DEF Quiet
  <1> QED BY <1>3, <1>4, QuietSteps, Zenon

-----------------------------------------------------------------------------
(* The theorems *)

IInv ==
  /\ WaitInv /\ FdInv /\ FileInv /\ DatumInv /\ RightFile /\ FailInv /\ BuffersFreed
  /\ CallInv /\ SpawnInv /\ ResultInv /\ SendInv /\ NoPanic

LEMMA InitIInv == Init => IInv
  <1> SUFFICES ASSUME Init PROVE IInv
    OBVIOUS
  <1>1. WaitInv /\ FdInv /\ FileInv
    BY InitWait, InitFd, InitFile, Zenon
  <1>2. /\ Main \in State /\ ~misdone /\ ~panic
        /\ \A s \in State : /\ req[s] = NoReq /\ call[s] = NoCall /\ bufs[s] = 0
                            /\ datum[s] = "none"
        /\ \A o \in Object : plife[o] = "new"
    BY Zenon DEF Init, LoopInit, FsInit, State, States!State
  <1>3. DatumInv /\ RightFile /\ NoPanic /\ CallInv
    BY <1>2, ZenonT(60) DEF DatumInv, RightFile, NoPanic, CallInv
  <1>4. FailInv /\ BuffersFreed /\ SendInv
    <2>1. NoReq.op \notin {"sendfile", "read"} /\ NoReq.done # "fail"
      BY DEF NoReq
    <2>2. \A s \in State : /\ req[s].op # "sendfile" /\ req[s].op # "read"
                           /\ req[s].done # "fail" /\ bufs[s] = 0
      BY <1>2, <2>1, Zenon
    <2>3. BuffersFreed
      BY <2>2, Zenon DEF BuffersFreed
    <2> QED BY <2>2, <2>3, Zenon DEF FailInv, SendInv
  <1>5. ResultInv
    <2>1. NoReq.op = "none"
      BY DEF NoReq
    <2>2. \A s \in State : req[s].op = "none" /\ \A op \in Op : call[s] # <<"fs", op>>
      BY <1>2, <2>1, CallsDiffer, Zenon
    <2> QED BY <2>2, Zenon DEF ResultInv
  <1>6. SpawnInv
    BY <1>2, CallsDiffer, Zenon DEF SpawnInv, In
  <1> QED BY <1>1, <1>3, <1>4, <1>5, <1>6, Zenon DEF IInv

LEMMA IInvStep == IInv /\ [Next]_vars => IInv'
  <1> SUFFICES ASSUME IInv, [Next]_vars PROVE IInv'
    OBVIOUS
  <1> USE DEF IInv
  <1>1. WaitInv' /\ FdInv' /\ FileInv'
    BY WaitStep, FdStep, FileStep, Zenon
  <1>2. DatumInv' /\ RightFile'
    BY DatumStep, RightStep, Zenon DEF WaitInv
  <1>3. FailInv' /\ BuffersFreed'
    BY FailStep, BuffersStep, Zenon
  <1>4. CallInv' /\ SpawnInv' /\ ResultInv'
    BY CallStep, SpawnStep, ResultStep, Zenon
  <1>5. SendInv' /\ NoPanic'
    BY SendStep, PanicStep, Zenon
  <1> QED BY <1>1, <1>2, <1>3, <1>4, <1>5, Zenon

LEMMA Always == Spec => []IInv
  BY InitIInv, IInvStep, PTL DEF Spec

\* Every operation on a file works on the file it was called for although luv_fs.c
\* keeps numbers that the kernel uses again, and file:write writes the string it was
\* given, in a program that leaves closed files alone and holds on to its strings.
THEOREM OperatesOnItsFile == Spec => []RightFile
  <1>1. IInv => RightFile
    BY Zenon DEF IInv
  <1> QED BY <1>1, Always, PTL

\* The descriptor of an open is never lost, whatever else happens: the file object has it,
\* or luv_fs_cb is still to store it.
THEOREM DescriptorsKept == Spec => []FdsAccounted
  <1>1. IInv => FdsAccounted
    BY Zenon DEF IInv, FdInv
  <1> QED BY <1>1, Always, PTL

\* The buffer that luv_file_read allocates is freed when the read is over, where nothing
\* fails: luv_fs_result frees it only after a success.
THEOREM ReadsFreeBuffers == Spec => []BuffersFreed
  <1>1. IInv => BuffersFreed
    BY Zenon DEF IInv
  <1> QED BY <1>1, Always, PTL

\* luv_fs_cb raises no error, so the process does not end in it, unless the program calls
\* sendfile or a detached process puts its values on another call's stack.
THEOREM CallbacksDoNotRaise == Spec => []NoPanic
  <1>1. IInv => NoPanic
    BY Zenon DEF IInv
  <1> QED BY <1>1, Always, PTL

\* A state that is in a file system call.
LEMMA InFsCall ==
  ASSUME WaitInv, NEW s \in State, InFs(s)
  PROVE  \E op \in Op : call[s] = <<"fs", op>> /\ call[s][2] = op
  <1>1. call[s] \in Calls
    BY Zenon DEF WaitInv, TypeInv, LoopTypes
  <1>2. Head(NoCall) # "fs" /\ Head(<<"sleep">>) # "fs" /\ \A o \in Object : Head(<<"spawn", o>>) # "fs"
    BY DEF NoCall
  <1>3. call[s] \in {"fs"} \X Op
    BY <1>1, <1>2 DEF Calls, InFs
  <1> QED BY <1>3

\* What a call returns is its own: luv_fs_cb and _exit_cb push their values on the stack
\* of the state that made the call, and nobody else does before it returns, as long as
\* every process that is spawned is waited for.
THEOREM ResultsAreOwn == Spec => OwnResults
  <1> DEFINE Own(s) == /\ s \in Fiber /\ InFs(s) =>
                            ret[s] = luv_fs_result(Kept(call[s][2]), call[s][2], outcome[s])
                       /\ \A o \in Object : In(s, "spawn", o) =>
                            plife[o] = "over" /\ ret[s] = Args \o <<"status", "sigterm">>
             Step == Avoids({"detach"}) => \A s \in State : call'[s] = NoCall => Own(s)
  <1>1. IInv /\ [Next]_vars => [Step]_vars
    <2> SUFFICES ASSUME IInv, [Next]_vars, Avoids({"detach"}), NEW s \in State, call'[s] = NoCall
                 PROVE  Own(s)
      OBVIOUS
    <2>1. WaitInv /\ CallInv /\ ResultInv /\ SpawnInv
      BY Zenon DEF IInv
    <2>2. ASSUME call[s] # NoCall PROVE status[s] = "ready"
      <3>1. status[s] # "running"
        BY <2>1, <2>2, Zenon DEF CallInv, Running
      <3>2. Resumes(s)
        BY <2>1, <2>2, <3>1, StateMoves, SMTT(60) DEF Runs, Waits
      <3> QED BY <3>2, Zenon DEF Resumes, ResumeWith, States!Resume, States!Move
    <2>3. ASSUME s \in Fiber, InFs(s)
          PROVE  ret[s] = luv_fs_result(Kept(call[s][2]), call[s][2], outcome[s])
      <3>1. PICK op \in Op : call[s] = <<"fs", op>> /\ call[s][2] = op
        BY <2>1, <2>3, InFsCall, Zenon
      <3>2. status[s] = "ready"
        BY <2>2, <3>1, CallsDiffer, Zenon
      <3>3. s # Main
        BY <2>1, <3>1, Zenon DEF WaitInv, MainInv
      <3>4. ret[s] = luv_fs_result(Kept(op), op, outcome[s])
        BY <2>1, <3>1, <3>2, <3>3, Zenon DEF ResultInv
      <3> QED BY <3>1, <3>4, Zenon
    <2>4. ASSUME NEW o \in Object, In(s, "spawn", o)
          PROVE  plife[o] = "over" /\ ret[s] = Args \o <<"status", "sigterm">>
      <3>1. status[s] = "ready"
        BY <2>2, <2>4, CallsDiffer, Zenon DEF In
      <3> QED BY <2>1, <2>4, <3>1, Zenon DEF SpawnInv, Exit
    <2> QED BY <2>3, <2>4, ZenonT(60)
  <1> QED BY <1>1, Always, PTL DEF Spec, OwnResults
=============================================================================
