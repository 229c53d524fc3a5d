------------------------------- MODULE LuvFs -------------------------------
(***************************************************************************)
(* File system calls: luv_fs.c.  Main's are synchronous.  A fiber's use    *)
(* the one request in its luv_state_t: a thread of libuv's pool does the   *)
(* work at any time, and the callback runs when the event loop polls.      *)
(*                                                                         *)
(* The kernel is outside the repository.  What matters of it is the table  *)
(* of descriptors: a file object keeps a number, and the kernel gives the  *)
(* lowest free number to the next file opened.                             *)
(***************************************************************************)
EXTENDS LuvLoop

CONSTANTS
  File,     \* file objects, each the result of one luv.fs.open
  MaxFd,    \* bound: descriptors
  PathOp    \* bound: the kinds of operations on paths

\* Of the risks, "fail" and "start" are the environment's: an operation fails, a
\* request is not accepted.
Risk == {"closed", "temp", "sendfile", "detach", "fail", "start"}

ASSUME FsAssumption ==
  /\ MaxFd \in Nat /\ Cases \subseteq SUBSET Risk
  /\ PathOp \subseteq {"unlink", "readdir", "stat", "readlink"}

VARIABLES
  req,      \* a state's request: its operation, file, descriptor and result
  hfile,    \* self->h.file of a file object
  fdtab,    \* the file object whose open a descriptor comes from
  life,     \* what the program knows of a file
  bufs,     \* buffers file:read has allocated and nobody has freed, per state
  datum,    \* the string file:write was given, per state
  outcome,  \* how the request of a fiber went (history)
  misdone,  \* an operation on another file than its own, or with lost data (history)
  panic     \* an error was raised in a callback: the process has ended

reqVars == <<req, bufs, datum, outcome>>
fileVars == <<hfile, fdtab, life, misdone>>
fsVars == <<reqVars, fileVars, panic>>

Fd == 0 .. MaxFd - 1
NoFile == "nofile"
ASSUME FileAssumption == NoFile \notin File

NoReq == [op |-> "none", file |-> NoFile, fd |-> -1, done |-> "no"]

\* What luv_fs_result pushes for a success, and what an operation keeps on the
\* stack: "unlink" and "stat" stand for the operations with the same results.
Pushes == [unlink |-> <<"int">>, readdir |-> <<"table">>, stat |-> <<"table">>,
           readlink |-> <<"string">>, open |-> <<>>, read |-> <<"int", "data">>,
           write |-> <<"int">>, sync |-> <<"int">>, fstat |-> <<"table">>,
           close |-> <<"int">>, sendfile |-> <<>>]
FileOp == {"sync", "fstat"}

Kept(op) == CASE op = "open" -> <<"file">>
              [] op = "sendfile" -> <<"file", "file">>
              [] OTHER -> <<>>

FsInit ==
  /\ req = [s \in State |-> NoReq]
  /\ hfile = [f \in File |-> -1]
  /\ fdtab = [d \in Fd |-> NoFile]
  /\ life = [f \in File |-> "new"]
  /\ bufs = [s \in State |-> 0]
  /\ datum = [s \in State |-> "none"]
  /\ outcome = [s \in State |-> "none"]
  /\ misdone = FALSE
  /\ panic = FALSE

-----------------------------------------------------------------------------
(* The kernel *)

Free == {d \in Fd : fdtab[d] = NoFile}
Lowest == CHOOSE d \in Free : \A e \in Free : d <= e

\* Whether the operation works on an open descriptor, if it needs one.
Possible(op, d) ==
  CASE op \in PathOp -> TRUE
    [] op = "open" -> Free # {}
    [] OTHER -> d \in Fd \ Free

\* The operation op for file f on descriptor d; how it goes is r.
Kernel(s, op, f, d, r) ==
  /\ r = "ok" => Possible(op, d)
  /\ r = "fail" => "fail" \in risks \/ ~Possible(op, d)
  /\ fdtab' = CASE r = "ok" /\ op = "open" -> [fdtab EXCEPT ![Lowest] = f]
                [] r = "ok" /\ op = "close" -> [fdtab EXCEPT ![d] = NoFile]
                [] OTHER -> fdtab
  /\ misdone' = \/ misdone
                \/ d \in Fd \ Free /\ fdtab[d] # f
                \/ op = "write" /\ datum[s] = "freed"

-----------------------------------------------------------------------------
(* LUV_FS_CALL *)

\* luv_fs_result, on the stack L.
luv_fs_result(L, op, r) ==
  IF r = "fail" THEN L \o <<"nil", "errno">> ELSE L \o Pushes[op]

\* luv_fs_result raises an error: luaL_checkudata, or the default case.
Raises(L, op, r) ==
  r = "ok" /\ (op = "sendfile" \/ (op = "open" /\ (L = <<>> \/ L[Len(L)] # "file")))

\* self->h.file = req->result, for an open.
StoresFd(op, f, d, r) ==
  hfile' = IF op = "open" /\ r = "ok" THEN [hfile EXCEPT ![f] = d] ELSE hfile

\* The program learns of a file that it is open, or that it is not.
Learns(op, f, r) ==
  life' = IF op \notin {"open", "close"} THEN life
          ELSE [life EXCEPT ![f] = IF op = "open" /\ r = "ok" THEN "open" ELSE "closed"]

\* Mutated: the buffer is not freed.
FreesBuffer_never(s, op, r) == 0

\* free(req->data), where a read has succeeded.
FreesBuffer(s, op, r) == IF op = "read" /\ r = "ok" THEN -1 ELSE 0

\* In Main the request is carried out at once.
SyncCall(s, op, f, d) == \E r \in {"ok", "fail"} :
  LET L == IF r = "fail" THEN <<"false", "message">> ELSE Kept(op)
  IN /\ Kernel(s, op, f, d, r)
     /\ Return(s, IF Raises(L, op, r) THEN <<"error">> ELSE luv_fs_result(L, op, r))
     /\ StoresFd(op, f, IF Free = {} THEN -1 ELSE Lowest, r)
     /\ Learns(op, f, r)
     /\ bufs' = [bufs EXCEPT ![s] = @ + (IF op = "read" THEN 1 ELSE 0) + FreesBuffer(s, op, r)]
     /\ UNCHANGED <<req, datum, outcome, panic>>

\* In a fiber it is queued, and the fiber suspends, also if it was not queued.
AsyncCall(s, op, f, d, str) ==
  /\ \/ /\ req' = [req EXCEPT ![s] = [op |-> op, file |-> f, fd |-> d, done |-> "no"]]
        /\ SuspendWith(s, <<"fs", op>>, Kept(op))
     \/ /\ "start" \in risks
        /\ UNCHANGED req
        /\ SuspendWith(s, <<"fs", op>>, <<"false", "message">>)
  /\ bufs' = [bufs EXCEPT ![s] = @ + (IF op = "read" THEN 1 ELSE 0)]
  /\ datum' = [datum EXCEPT ![s] = str]
  /\ life' = IF op \in {"open", "close"} THEN [life EXCEPT ![f] = "busy"] ELSE life
  /\ UNCHANGED <<hfile, fdtab, outcome, misdone, panic>>

LUV_FS_CALL(s, op, f, d, str) ==
  /\ Running(s) /\ ~panic
  /\ IF s = Main THEN SyncCall(s, op, f, d) ELSE AsyncCall(s, op, f, d, str)

-----------------------------------------------------------------------------
(* The operations *)

\* A program uses a file that is open.  Risk "closed": it goes on using it, or
\* closes it while another state uses it.
MayUse(f) == life[f] = "open" \/ ("closed" \in risks /\ life[f] # "new")
Unused(f) == "closed" \in risks \/ \A s \in State : req[s].file # f

\* unlink, mkdir, rmdir, rename, chmod, utime, link, symlink, chown; readdir;
\* stat and lstat; readlink.
PathCall(s) == \E op \in PathOp : LUV_FS_CALL(s, op, NoFile, -1, "none")

luv_fs_open(s) == \E f \in File :
  /\ life[f] = "new"
  /\ LUV_FS_CALL(s, "open", f, -1, "none")

\* file:sync, datasync, truncate, utime, chmod, chown; file:stat.
FileCall(s) == \E f \in File, op \in FileOp :
  MayUse(f) /\ LUV_FS_CALL(s, op, f, hfile[f], "none")

luv_file_read(s) == \E f \in File :
  /\ MayUse(f) /\ bufs[s] = 0  \* bound: one leaked buffer is enough
  /\ LUV_FS_CALL(s, "read", f, hfile[f], "none")

\* lua_settop drops the string.  Risk "temp": nothing else refers to it.
luv_file_write(s) == \E f \in File :
  /\ MayUse(f)
  /\ \/ LUV_FS_CALL(s, "write", f, hfile[f], "held")
     \/ "temp" \in risks /\ LUV_FS_CALL(s, "write", f, hfile[f], "loose")

\* h.file keeps the number.
luv_file_close(s) == \E f \in File :
  /\ MayUse(f) /\ Unused(f)
  /\ LUV_FS_CALL(s, "close", f, hfile[f], "none")

\* Risk "sendfile".
luv_fs_sendfile(s) == \E f \in File :
  /\ "sendfile" \in risks /\ MayUse(f)
  /\ LUV_FS_CALL(s, "sendfile", f, hfile[f], "none")

\* The collector frees a string nothing refers to, when some state runs.
Collects(s) ==
  /\ datum[s] = "loose" /\ \E t \in State : Running(t)
  /\ datum' = [datum EXCEPT ![s] = "freed"]
  /\ UNCHANGED <<loopVars, req, bufs, outcome, fileVars, panic>>

\* A thread of the pool does the work of a request.
Works(s) == \E r \in {"ok", "fail"} : LET q == req[s] IN
  /\ q.op # "none" /\ q.done = "no" /\ ~panic
  /\ Kernel(s, q.op, q.file, q.fd, r)
  /\ outcome' = [outcome EXCEPT ![s] = r]
  /\ req' = [req EXCEPT ![s].done = r, ![s].fd = IF q.op = "open" /\ r = "ok" THEN Lowest ELSE @]
  /\ UNCHANGED <<loopVars, hfile, life, bufs, datum, panic>>

\* The callback of a request that is done, raising its error or not.
FsDone(s) == polling /\ req[s].done # "no" /\ ~panic

\* Mutated: the fiber gets no values and is not readied; the descriptor goes
\* to any file.
luv_fs_cb_lost(s) ==
  /\ FsDone(s)
  /\ req' = [req EXCEPT ![s] = NoReq]
  /\ UNCHANGED <<loopVars, bufs, datum, outcome, fileVars, panic>>
luv_fs_cb_any(s) == LET q == req[s] IN
  /\ FsDone(s) /\ ~Raises(ret[s], q.op, q.done)
  /\ ret' = [ret EXCEPT ![s] = luv_fs_result(@, q.op, q.done)]
  /\ Wake(s)
  /\ req' = [req EXCEPT ![s] = NoReq]
  /\ \E f \in File : StoresFd(q.op, f, q.fd, q.done) /\ Learns(q.op, f, q.done)
  /\ bufs' = [bufs EXCEPT ![s] = @ + FreesBuffer(s, q.op, q.done)]
  /\ datum' = [datum EXCEPT ![s] = "none"]
  /\ UNCHANGED <<pollVars, outcome, fdtab, misdone, panic>>

luv_fs_cb(s) == LET q == req[s] IN
  /\ FsDone(s) /\ ~Raises(ret[s], q.op, q.done)
  /\ ret' = [ret EXCEPT ![s] = luv_fs_result(@, q.op, q.done)]
  /\ Wake(s)
  /\ req' = [req EXCEPT ![s] = NoReq]
  /\ StoresFd(q.op, q.file, q.fd, q.done) /\ Learns(q.op, q.file, q.done)
  /\ bufs' = [bufs EXCEPT ![s] = @ + FreesBuffer(s, q.op, q.done)]
  /\ datum' = [datum EXCEPT ![s] = "none"]
  /\ UNCHANGED <<pollVars, outcome, fdtab, misdone, panic>>

\* luaL_error on the stack of a suspended fiber has nowhere to go.
luv_fs_cb_panics(s) ==
  /\ FsDone(s) /\ Raises(ret[s], req[s].op, req[s].done)
  /\ panic' = TRUE
  /\ UNCHANGED <<loopVars, reqVars, fileVars>>

FsStep(s) ==
  \/ PathCall(s) \/ luv_fs_open(s) \/ FileCall(s) \/ luv_file_read(s)
  \/ luv_file_write(s) \/ luv_file_close(s) \/ luv_fs_sendfile(s)
  \/ Collects(s) \/ Works(s) \/ luv_fs_cb(s) \/ luv_fs_cb_panics(s)

-----------------------------------------------------------------------------
(* Properties *)

InFs(s) == Head(call[s]) = "fs"

FsTypeOK ==
  /\ LoopTypeOK
  /\ \A s \in State : /\ req[s].fd \in Fd \cup {-1}
                      /\ req[s].file \in File \cup {NoFile}
                      /\ req[s].done \in {"no", "ok", "fail"}
                      /\ bufs[s] \in 0 .. 1
  /\ hfile \in [File -> Fd \cup {-1}]
  /\ fdtab \in [Fd -> File \cup {NoFile}]
  /\ life \in [File -> {"new", "busy", "open", "closed"}]

\* Every operation works on the file it was called for although only numbers
\* are kept and they are used again, and it writes the string it was given.
RightFile == Avoids({"closed", "temp"}) => ~misdone

\* No descriptor is lost: the file that was opened has it, or the callback that
\* will store it is still to come.
FdsAccounted == \A d \in Fd : fdtab[d] # NoFile =>
  \/ hfile[fdtab[d]] = d
  \/ \E s \in State : req[s].op = "open" /\ req[s].file = fdtab[d] /\ req[s].fd = d

\* A buffer is allocated exactly while a read is under way.
BuffersFreed ==
  Avoids({"fail", "start", "closed"}) =>
    \A s \in State : bufs[s] = IF req[s].op = "read" THEN 1 ELSE 0
=============================================================================
