------------------------------ MODULE LuvCodec ------------------------------
(***************************************************************************)
(* luv.codec: luv_codec.c.  A tuple of Lua values is a sequence of values  *)
(* over a heap of objects: tables, Lua functions with their upvalues, and  *)
(* tables and userdata with a __codec hook.  encode writes tokens, decode  *)
(* reads them into a new heap; an object met again is written as the       *)
(* number under which both sides remember it.                              *)
(*                                                                         *)
(* A token is a type, a tag and a number.  Table keys and other scalars    *)
(* are numbers; of the bytes of a function only the number of upvalues is  *)
(* kept.                                                                   *)
(***************************************************************************)
EXTENDS Integers, Sequences, FiniteSets, SequencesExt

CONSTANTS
  MaxKids,   \* bound: fields of a table, upvalues of a function
  Cases      \* bound: objects, values in the tuple; and risks: see Objects

ASSUME CodecAssumption ==
  MaxKids \in Nat /\ Cases \subseteq Nat \X (Nat \ {0}) \X SUBSET {"hook", "nil"}

VARIABLES
  heap,    \* the objects to encode: their kind, and the values they hold
  args,    \* the tuple
  buf,     \* the encoded string
  copy,    \* the decoded heap
  vals,    \* the decoded tuple
  pos,     \* the token that decode would read next
  border,  \* which border of a table with nils lua_objlen finds, on each side
  risks,   \* what the program passes, of one of Cases
  pc

vars == <<heap, args, buf, copy, vals, pos, border, risks, pc>>

Nil == <<"nil", 0>>
Num(n) == <<"num", n>>
Str == <<"str", 0>>
Ref(i) == <<"ref", i>>
Refs(n) == {Ref(i) : i \in 1 .. n}
Obj(kind, kids) == [kind |-> kind, kids |-> kids]

\* A hooked table or userdata holds what its __codec returns: a function or a
\* string, and any value.  Risk "hook": what a hooked table holds is an object;
\* without it they are scalars.  Risk "nil": an upvalue is nil.
Objects(n) ==
  LET Value == {Num(7)} \cup Refs(n)
      Kids(V) == UNION {[1 .. k -> V] : k \in 0 .. MaxKids}
  IN {Obj("table", k) : k \in Kids(Value)}
     \cup {Obj("function", k) : k \in Kids(Value \cup {Nil : r \in {"nil"} \cap risks})}
     \cup {Obj("hooked", <<Str, Num(7)>>)}
     \cup {Obj("userdata", <<f, v>>) : f \in {Str} \cup Refs(n), v \in Value}
     \cup {Obj("hooked", <<f, v>>) : f \in {Str} \cup Refs(n),
                                     v \in {x \in Value : "hook" \in risks}}

Successors(h, S) == S \cup {h[i].kids[k][2] : <<i, k>> \in
  {p \in S \X (1 .. MaxKids + 2) : p[2] \in DOMAIN h[p[1]].kids /\ h[p[1]].kids[p[2]] \in Refs(Len(h))}}
ReachedIn(h, S, n) ==
  LET step[k \in 0 .. n] == IF k = 0 THEN S ELSE Successors(h, step[k - 1]) IN step[n]

Uses(h, a, i) == {p \in (0 .. Len(h)) \X (1 .. MaxKids + Len(a) + 2) :
  LET vs == IF p[1] = 0 THEN a ELSE h[p[1]].kids
  IN p[2] \in DOMAIN vs /\ vs[p[2]] = Ref(i)}

\* The heaps a tuple reaches entirely.  A hook is a function or a string, and
\* what __codec returns does not contain its own object.  A userdata is written
\* anew each time it is met: the tuple refers to it once.
Init ==
  /\ \E c \in Cases :
       /\ risks = c[3]
       /\ border \in [{"encode", "decode"} ->
                       {"greatest"} \cup {"least" : r \in {"nil"} \cap risks}]
       /\ heap \in [1 .. c[1] -> Objects(c[1])]
       /\ args \in {<<Ref(1)>> \o a : a \in [1 .. c[2] - 1 -> {Num(7)} \cup Refs(c[1])]}
  /\ ReachedIn(heap, {args[i][2] : i \in {j \in DOMAIN args : args[j] # Num(7)}}, Len(heap)) = 1 .. Len(heap)
  /\ \A i \in {j \in 1 .. Len(heap) : heap[j].kind \in {"hooked", "userdata"}} :
       /\ heap[i].kids[1] # Str => heap[heap[i].kids[1][2]].kind = "function"
       /\ i \notin ReachedIn(heap, Successors(heap, {i}) \ {i}, Len(heap))
       /\ Ref(i) \notin ToSet(heap[i].kids)
       /\ heap[i].kind = "userdata" => Cardinality(Uses(heap, args, i)) = 1
  /\ buf = <<>> /\ copy = <<>> /\ vals = <<>> /\ pos = 1 /\ pc = "encode"

-----------------------------------------------------------------------------
(* Encoding: e holds the output, the objects seen, and whether an assert failed *)

Put(e, type, tag, n) == [e EXCEPT !.out = Append(@, <<type, tag, n>>)]
LuaType(o) == IF o.kind = "hooked" THEN "table" ELSE o.kind

encoder_seen(e, i) == [e EXCEPT !.seen = Append(@, i)]

RECURSIVE encode_value(_, _, _)
RECURSIVE encode_table(_, _, _, _)

\* Mutated: the fields that are there are numbered anew.
encode_table_packed(h, kids, k, e) ==
  LET there == SelectSeq(kids, LAMBDA v : v # Nil)
  IN IF k > Len(there) THEN Put(e, "nil", "", 0)
     ELSE encode_table(h, there, k + 1, encode_value(h, there[k], encode_value(h, Num(k), e)))

\* The fields from k on, keys and values, and the sentinel.  An entry that is
\* nil is no field: lua_next passes over it.
encode_table(h, kids, k, e) ==
  IF k > Len(kids) THEN Put(e, "nil", "", 0)
  ELSE encode_table(h, kids, k + 1,
         IF kids[k] = Nil THEN e ELSE encode_value(h, kids[k], encode_value(h, Num(k), e)))

\* __codec is called, and its two results are written.
encoder_hook(h, o, e) == encode_value(h, o.kids[2], encode_value(h, o.kids[1], e))

\* The length of a table is one of its borders: an entry that is not nil, or 0,
\* before one that is.
lua_objlen(kids, side) ==
  LET there == {k \in DOMAIN kids : kids[k] # Nil}
      borders == {b \in 0 .. Len(kids) : (b = 0 \/ b \in there) /\ b + 1 \notin there}
  IN IF border[side] = "least" THEN Min(borders) ELSE Max(borders)

\* Mutated: the sentinel of a function's upvalues is left out.
encode_object_open(h, i, e) ==
  LET o == h[i]
      s == encoder_seen(e, i)
  IN CASE o.kind = "hooked" -> encoder_hook(h, o, Put(s, "table", "TUSR", 0))
       [] o.kind = "userdata" -> encoder_hook(h, o, Put(e, "userdata", "TUSR", 0))
       [] o.kind = "table" -> encode_table(h, o.kids, 1, Put(s, "table", "TVAL", 0))
       [] o.kind = "function" -> Put(s, "function", "TVAL", Len(o.kids))

\* An object that is met for the first time.
encode_object(h, i, e) ==
  LET o == h[i]
      s == encoder_seen(e, i)
  IN CASE o.kind = "hooked" -> encoder_hook(h, o, Put(s, "table", "TUSR", 0))
       [] o.kind = "userdata" -> encoder_hook(h, o, Put(e, "userdata", "TUSR", 0))
       [] o.kind = "table" -> encode_table(h, o.kids, 1, Put(s, "table", "TVAL", 0))
       [] o.kind = "function" ->
            LET a == [s EXCEPT !.failed = @ \/ lua_objlen(o.kids, "encode") # Len(o.kids)]
            IN encode_table(h, o.kids, 1, Put(a, "function", "TVAL", Len(o.kids)))

encode_value(h, v, e) ==
  CASE v[1] # "ref" -> Put(e, v[1], "", v[2])
    [] v[1] = "ref" /\ Contains(e.seen, v[2]) ->
         Put(e, LuaType(h[v[2]]), "TREF", CHOOSE r \in DOMAIN e.seen : e.seen[r] = v[2])
    [] OTHER -> encode_object(h, v[2], e)

\* An assert that fails ends the program, unless it is compiled without.
luvL_codec_encode ==
  LET e == FoldLeft(LAMBDA x, v : encode_value(heap, v, x),
                    [out |-> <<>>, seen |-> <<>>, failed |-> FALSE], args)
  IN /\ pc = "encode"
     /\ buf' = <<<<"len", "", Len(args)>>>> \o e.out
     /\ pc' \in {"decode"} \cup {"abort" : x \in {TRUE} \cap {e.failed}}
     /\ UNCHANGED <<heap, args, copy, vals, pos, border, risks>>

-----------------------------------------------------------------------------
(* Decoding: d holds the position, the new heap, the objects seen, the value
   on top of the stack, whether an error was raised, and whether the code, which
   tests no length, read past the end *)

decoder_seen(d, i) == [d EXCEPT !.seen = Append(@, i)]
NewObject(d, o) == [d EXCEPT !.heap = Append(@, o), !.val = Ref(Len(d.heap) + 1)]

\* t[k] = v, with room for k.
SetField(kids, k, v) ==
  [j \in 1 .. Max({k, Len(kids)}) |->
     IF j = k THEN v ELSE IF j \in DOMAIN kids THEN kids[j] ELSE Nil]

RECURSIVE decode_value(_, _)
RECURSIVE decode_table(_, _, _)

\* Fields for object i until the sentinel.
decode_table(b, i, d) ==
  IF d.error \/ d.pos > Len(b) THEN [d EXCEPT !.over = @ \/ ~d.error, !.error = TRUE]
  ELSE IF b[d.pos][1] = "nil" THEN [d EXCEPT !.pos = @ + 1, !.val = Ref(i)]
  ELSE LET key == decode_value(b, d)
           val == decode_value(b, key)
       IN decode_table(b, i, IF key.error \/ val.error THEN val
                             ELSE [val EXCEPT !.heap[i].kids = SetField(@, key.val[2], val.val)])

\* Upvalues are set as far as the table they were read into seems to reach.
decode_upvalues(b, i, d) ==
  LET t == decode_table(b, i, d)
      n == lua_objlen(t.heap[i].kids, "decode")
  IN [t EXCEPT !.heap[i].kids = [k \in DOMAIN @ |-> IF k <= n THEN @[k] ELSE Nil]]

\* The hook, or the decoder found under its name, is called with the value; the
\* table it returns is remembered then.
decode_hook(b, d, kind) ==
  LET f == decode_value(b, d)
      v == decode_value(b, f)
      callable == f.val = Str \/ (f.val[1] = "ref" /\ f.heap[f.val[2]].kind = "function")
      o == NewObject(v, Obj(kind, <<f.val, v.val>>))
  IN [(IF kind = "hooked" THEN decoder_seen(o, Len(o.heap)) ELSE o) EXCEPT !.error = @ \/ ~callable]

decode_value(b, d) ==
  IF d.error \/ d.pos > Len(b) THEN [d EXCEPT !.over = @ \/ ~d.error, !.error = TRUE]
  ELSE LET t == b[d.pos]
           n == [d EXCEPT !.pos = @ + 1]
       IN CASE t[2] = "TREF" ->
                 [n EXCEPT !.val = IF t[3] <= Len(d.seen) THEN Ref(d.seen[t[3]]) ELSE Nil]
            [] t[2] = "TUSR" -> decode_hook(b, n, IF t[1] = "table" THEN "hooked" ELSE t[1])
            [] t[2] = "TVAL" ->
                 LET o == NewObject(n, Obj(t[1], [k \in 1 .. t[3] |-> Nil]))
                     i == Len(o.heap)
                 IN IF t[1] = "table" THEN decode_table(b, i, decoder_seen(o, i))
                    ELSE decode_upvalues(b, i, decoder_seen(o, i))
            [] OTHER -> [n EXCEPT !.val = <<t[1], t[3]>>]

luvL_codec_decode ==
  LET d[i \in 0 .. buf[1][3]] ==
        IF i = 0 THEN [pos |-> 2, heap |-> <<>>, seen |-> <<>>, val |-> Nil,
                       error |-> FALSE, over |-> FALSE, vals |-> <<>>]
        ELSE LET x == decode_value(buf, d[i - 1]) IN [x EXCEPT !.vals = Append(@, x.val)]
      all == d[buf[1][3]]
  IN /\ pc = "decode"
     /\ copy' = all.heap /\ vals' = all.vals
     /\ pos' = all.pos
     /\ pc' = IF all.over THEN "over" ELSE IF all.error THEN "error" ELSE "done"
     /\ UNCHANGED <<heap, args, buf, border, risks>>

Ends == pc \in {"done", "error", "over", "abort"} /\ UNCHANGED vars

Next == luvL_codec_encode \/ luvL_codec_decode \/ Ends

Spec == Init /\ [][Next]_vars

-----------------------------------------------------------------------------
(* Properties *)

\* v under the renaming m of objects.
Renamed(v, m) == IF v[1] = "ref" THEN Ref(m[v[2]]) ELSE v

\* Upvalue k of object i comes after one that is nil.
AfterNil(i, k) == heap[i].kind = "function" /\ Nil \in {heap[i].kids[j] : j \in 1 .. k - 1}

\* The two heaps, seen from the two tuples, are the same up to the identity of
\* the objects, and to upvalues after a nil one, which may be lost: the reference
\* definition.
Isomorphic ==
  /\ Len(copy) = Len(heap) /\ Len(vals) = Len(args)
  /\ \E m \in [1 .. Len(heap) -> 1 .. Len(heap)] :
       /\ \A i, j \in 1 .. Len(heap) : m[i] = m[j] => i = j
       /\ \A i \in DOMAIN args : vals[i] = Renamed(args[i], m)
       /\ \A i \in 1 .. Len(heap) :
            /\ copy[m[i]].kind = heap[i].kind
            /\ DOMAIN copy[m[i]].kids = DOMAIN heap[i].kids
            /\ \A k \in DOMAIN heap[i].kids :
                 copy[m[i]].kids[k] \in
                   {Renamed(heap[i].kids[k], m)} \cup {Nil : x \in {TRUE} \cap {AfterNil(i, k)}}

\* decode(encode(...)) gives the tuple back, with its cycles and with what its
\* values share: encoder_seen and decoder_seen number the objects alike, if no
\* hooked table holds an object.  An upvalue that is nil, and makes
\* lua_objlen (luv_codec.c:225, 365) unsure, may cost a function later upvalues
\* but never gives it one in the place of another, and touches nothing else.
RoundTrip ==
  "hook" \notin risks /\ pc \in {"done", "error", "over"} => pc = "done" /\ Isomorphic

\* The decoder reads what the encoder wrote to the last token and not further,
\* although luvL_buf_get and luvL_buf_read test no length: also when a hooked
\* table holds objects and the two sides number them differently, and when
\* upvalues are nil.  Only an error stops it before the end.
ReadsToEnd ==
  /\ pc # "over"
  /\ pc = "done" => pos = Len(buf) + 1
=============================================================================
