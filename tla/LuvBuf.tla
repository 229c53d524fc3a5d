------------------------------- MODULE LuvBuf -------------------------------
(***************************************************************************)
(* The buffer of luv_codec.c that encoding writes to, and the integers in  *)
(* it: luvL_buf_need, luvL_buf_write, luvL_buf_write_uleb128 and           *)
(* luvL_buf_read_uleb128.  An integer that has been written is read back.  *)
(***************************************************************************)
EXTENDS Integers

CONSTANTS
  Lens,     \* the lengths of the strings written
  Values,   \* the integers written: uint32_t
  MaxHead   \* bound: no more is written once the buffer holds so much

\* Values are below 2^32.
ASSUME BufAssumption ==
  /\ Lens \subseteq Nat
  /\ \A v \in Values : v \in Nat /\ v \div 268435456 < 16
  /\ MaxHead \in Nat

VARIABLES
  pc,
  cap,    \* buf->size
  head,   \* buf->head - buf->base
  size,   \* luvL_buf_need: the size it looks for
  want,   \* ... and the length it is called with
  orig,   \* the integer to write
  val,    \* what is left of it
  n,      \* the bytes written, or read, so far
  out,    \* these bytes
  v       \* the integer read

vars == <<pc, cap, head, size, want, orig, val, n, out, v>>
int == <<orig, val, n, out, v>>

Init ==
  /\ pc = "idle"
  /\ cap = 0 /\ head = 0 /\ size = 0 /\ want = 0
  /\ orig = 0 /\ val = 0 /\ n = 0 /\ v = 0
  /\ out = [i \in 0 .. 4 |-> 0]

\* 2^(7i), for the shifts of a byte's seven bits.
Weight(i) == CASE i = 0 -> 1
               [] i = 1 -> 128
               [] i = 2 -> 16384
               [] i = 3 -> 2097152
               [] OTHER -> 268435456

-----------------------------------------------------------------------------

\* Mutated: there is no first allocation.
luvL_buf_need_unset(l) ==
  /\ want' = l
  /\ size' = cap
  /\ UNCHANGED <<cap, head>>

\* luvL_buf_need(buf, l): the first allocation, ...
luvL_buf_need(l) ==
  /\ want' = l
  /\ size' = IF cap = 0 THEN 128 ELSE cap
  /\ cap' = IF cap = 0 THEN 128 ELSE cap
  /\ UNCHANGED head

\* ... the loop that doubles the size, ...
NeedDoubles(next) ==
  /\ pc = next
  /\ size < head + want
  /\ size' = 2 * size
  /\ UNCHANGED <<pc, cap, head, want, int>>

\* ... and realloc.
NeedReallocs(from, next) ==
  /\ pc = from
  /\ size >= head + want
  /\ cap' = size
  /\ pc' = next
  /\ UNCHANGED <<head, size, want, int>>

\* luvL_buf_put and luvL_buf_write: memcpy to head.
luvL_buf_write(l) ==
  /\ pc = "idle" /\ head < MaxHead
  /\ luvL_buf_need(l)
  /\ pc' = "need"
  /\ UNCHANGED int
WriteCopies ==
  /\ pc = "copy"
  /\ head' = head + want
  /\ pc' = "idle"
  /\ size' = 0 /\ want' = 0
  /\ UNCHANGED <<cap, int>>

\* Mutated: one byte too few is asked for.
luvL_buf_write_uleb128_four(w) ==
  /\ pc = "idle" /\ head < MaxHead
  /\ luvL_buf_need(4)
  /\ orig' = w /\ val' = w /\ n' = 0
  /\ pc' = "uneed"
  /\ UNCHANGED <<out, v>>

\* luvL_buf_write_uleb128: seven bits to a byte, from the lowest.
luvL_buf_write_uleb128(w) ==
  /\ pc = "idle" /\ head < MaxHead
  /\ luvL_buf_need(5)
  /\ orig' = w /\ val' = w /\ n' = 0
  /\ pc' = "uneed"
  /\ UNCHANGED <<out, v>>
UlebByte ==
  /\ pc = "byte" /\ val >= 128
  /\ out' = [out EXCEPT ![n] = (val % 128) + 128]
  /\ n' = n + 1
  /\ val' = val \div 128
  /\ UNCHANGED <<pc, cap, head, size, want, orig, v>>
UlebLast ==
  /\ pc = "byte" /\ val < 128
  /\ out' = [out EXCEPT ![n] = val]
  /\ head' = head + n + 1
  /\ pc' = "get"
  /\ UNCHANGED <<cap, size, want, orig, val, n, v>>

\* luvL_buf_read_uleb128: the first byte, and the loop.  A shift loses no bits,
\* because the fifth byte is below 16.  The local variables then end.
luvL_buf_read_uleb128 ==
  /\ pc = "get"
  /\ v' = out[0] % 128
  /\ n' = 1
  /\ pc' = IF out[0] >= 128 THEN "more" ELSE "read"
  /\ UNCHANGED <<cap, head, size, want, orig, val, out>>

\* Mutated: the first byte is not counted in the shift.
ReadsMore_unshifted ==
  /\ pc = "more"
  /\ v' = v + (out[n] % 128) * Weight(n - 1)
  /\ n' = n + 1
  /\ pc' = IF out[n] >= 128 THEN "more" ELSE "read"
  /\ UNCHANGED <<cap, head, size, want, orig, val, out>>

ReadsMore ==
  /\ pc = "more"
  /\ v' = v + (out[n] % 128) * Weight(n)
  /\ n' = n + 1
  /\ pc' = IF out[n] >= 128 THEN "more" ELSE "read"
  /\ UNCHANGED <<cap, head, size, want, orig, val, out>>
ReadEnds ==
  /\ pc = "read"
  /\ pc' = "idle"
  /\ size' = 0 /\ want' = 0
  /\ orig' = 0 /\ val' = 0 /\ n' = 0 /\ v' = 0
  /\ out' = [i \in 0 .. 4 |-> 0]
  /\ UNCHANGED <<cap, head>>

Need == \/ NeedDoubles("need") \/ NeedReallocs("need", "copy")
        \/ NeedDoubles("uneed") \/ NeedReallocs("uneed", "byte")

Next ==
  \/ \E l \in Lens : luvL_buf_write(l)
  \/ \E w \in Values : luvL_buf_write_uleb128(w)
  \/ Need \/ WriteCopies \/ UlebByte \/ UlebLast
  \/ luvL_buf_read_uleb128 \/ ReadsMore \/ ReadEnds

Spec == Init /\ [][Next]_vars

FairSpec == Spec /\ WF_vars(Need)

-----------------------------------------------------------------------------
(* Properties *)

\* Every byte is written inside the allocated buffer: the copy of a string, and
\* each byte of an integer, for which five bytes are asked for in advance.
InBounds ==
  /\ pc = "copy" => head + want <= cap
  /\ pc = "byte" => n <= 4 /\ head + n < cap

\* An integer is read back as it was written.
ReadBack == pc = "read" => v = orig

\* The loop of luvL_buf_need ends.
NeedEnds == pc \in {"need", "uneed"} ~> pc \in {"copy", "byte"}
=============================================================================
