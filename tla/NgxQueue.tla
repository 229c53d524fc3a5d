------------------------------ MODULE NgxQueue ------------------------------
(***************************************************************************)
(* The intrusive queues of ngx-queue.h at the level of their pointers.     *)
(* Every queue of luv is one of these rings: a head (thread->rouse,        *)
(* fiber->rouse, object->rouse) and nodes embedded in the states (queue,   *)
(* join, cond).  elems records what each queue should hold; Ring says that *)
(* the pointers hold exactly that, which is why the other modules can take *)
(* a queue for a sequence.  The discipline it needs is in the guards: a    *)
(* node is inserted only when it is in no queue, and removed only when it  *)
(* is in one.                                                              *)
(***************************************************************************)
EXTENDS Naturals, Sequences, Functions

CONSTANTS Heads, Nodes

Cell == Heads \cup Nodes

ASSUME CellAssumption == Heads \cap Nodes = {}

VARIABLES prev, next, elems

queueVars == <<prev, next, elems>>

Linked(x) == \E h \in Heads : x \in Range(elems[h])

-----------------------------------------------------------------------------
(* The macros; assignments happen in the order of the code. *)

ngx_queue_empty(h) == h = prev[h]
ngx_queue_head(h) == next[h]

insert_tail(h, x) ==
  LET prev1 == [prev EXCEPT ![x] = prev[h]]
      next1 == [next EXCEPT ![prev1[x]] = x]
  IN  /\ next' = [next1 EXCEPT ![x] = h]
      /\ prev' = [prev1 EXCEPT ![h] = x]

\* Mutated: only next is unlinked.
remove_half(x) ==
  /\ next' = [next EXCEPT ![prev[x]] = next[x]]
  /\ UNCHANGED prev

\* Without NGX_DEBUG the removed node keeps its pointers.
remove(x) ==
  LET prev1 == [prev EXCEPT ![next[x]] = prev[x]]
  IN  /\ prev' = prev1
      /\ next' = [next EXCEPT ![prev1[x]] = next[x]]

-----------------------------------------------------------------------------
\* The heads are initialised; the nodes join and cond never are, so their
\* pointers hold anything.
QueueInit ==
  /\ prev \in {p \in [Cell -> Cell] : \A h \in Heads : p[h] = h}
  /\ next \in {p \in [Cell -> Cell] : \A h \in Heads : p[h] = h}
  /\ elems = [h \in Heads |-> <<>>]

ngx_queue_insert_tail(h, x) ==
  /\ ~Linked(x)
  /\ insert_tail(h, x)
  /\ elems' = [elems EXCEPT ![h] = Append(@, x)]

\* luvL_cond_signal, luvL_cond_broadcast and luvL_thread_once remove the head.
RemoveHead(h) ==
  /\ ~ngx_queue_empty(h)
  /\ remove(ngx_queue_head(h))
  /\ elems' = [elems EXCEPT ![h] = Tail(@)]

\* luvL_fiber_suspend removes a fiber from the middle of the ready queue.
ngx_queue_remove(h, i) ==
  /\ i \in DOMAIN elems[h]
  /\ remove(elems[h][i])
  /\ elems' = [elems EXCEPT ![h] =
                 SubSeq(@, 1, i - 1) \o SubSeq(@, i + 1, Len(@))]

QueueNext ==
  \/ \E h \in Heads, x \in Nodes : ngx_queue_insert_tail(h, x)
  \/ \E h \in Heads : RemoveHead(h)
  \/ \E h \in Heads : \E i \in 1 .. Len(elems[h]) : ngx_queue_remove(h, i)

QueueSpec == QueueInit /\ [][QueueNext]_queueVars

-----------------------------------------------------------------------------
\* The types of the variables.
TypeOK ==
  /\ prev \in [Cell -> Cell]
  /\ next \in [Cell -> Cell]
  /\ elems \in [Heads -> Seq(Nodes)]

\* The cell at position i of the ring of h, where the head is at both ends.
At(h, i) == IF i \in 1 .. Len(elems[h]) THEN elems[h][i] ELSE h

\* Following next from the head visits the elements in order and comes back
\* to the head, and prev leads the other way.
Ring(h) ==
  \A i \in 0 .. Len(elems[h]) :
    next[At(h, i)] = At(h, i + 1) /\ prev[At(h, i + 1)] = At(h, i)

\* A node is in at most one place of at most one queue.
Disjoint ==
  \A g, h \in Heads : \A i \in 1 .. Len(elems[g]), j \in 1 .. Len(elems[h]) :
    elems[g][i] = elems[h][j] => g = h /\ i = j

\* The pointers of every queue hold exactly its elements, in order.
RingsExact == Disjoint /\ \A h \in Heads : Ring(h)
=============================================================================
