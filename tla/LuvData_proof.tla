---------------------------- MODULE LuvData_proof ---------------------------
(***************************************************************************)
(* The two data structures luv implements by itself.  The pointers of      *)
(* ngx-queue.h implement sequences, for any number of queues and nodes, as *)
(* long as a node is inserted only when it is in no queue; and what        *)
(* happens when one is inserted twice.  The buffer of luv_codec.c is       *)
(* written inside its bounds, and its integers are read back, for strings  *)
(* of any length and for all integers below 2^32.                          *)
(***************************************************************************)
EXTENDS NgxQueue, LuvBuf, SequenceTheorems, TLAPS

-----------------------------------------------------------------------------
(* ngx-queue.h *)

QueueInv == TypeOK /\ RingsExact

LEMMA QueueInitInv == QueueInit => QueueInv
  <1> SUFFICES ASSUME QueueInit PROVE QueueInv
    OBVIOUS
  <1>1. TypeOK
    BY DEF QueueInit, TypeOK
  <1>2. \A h \in Heads : Len(elems[h]) = 0 /\ prev[h] = h /\ next[h] = h
    BY Zenon DEF QueueInit
  <1>3. Disjoint
    BY <1>2 DEF Disjoint
  <1>4. \A h \in Heads : Ring(h)
    BY <1>2 DEF Ring, At
  <1> QED BY <1>1, <1>3, <1>4, Zenon DEF QueueInv, RingsExact

\* Cells of different rings, and of different places of a ring, differ.
LEMMA Cells ==
  ASSUME QueueInv
  PROVE  /\ \A h \in Heads : Len(elems[h]) \in Nat
         /\ \A h \in Heads, i \in Nat : At(h, i) \in Cell
         /\ \A h \in Heads : \A i \in 1 .. Len(elems[h]) : elems[h][i] \in Nodes
         /\ \A g, h \in Heads :
              \A i \in 0 .. Len(elems[g]), j \in 0 .. Len(elems[h]) :
                At(g, i) = At(h, j) => g = h /\ i = j
         /\ \A h \in Heads : At(h, 0) = h /\ At(h, Len(elems[h]) + 1) = h
  <1> USE DEF QueueInv, TypeOK
  <1>1. \A h \in Heads : Len(elems[h]) \in Nat
    BY LenProperties, Zenon
  <1>2. \A h \in Heads : \A i \in 1 .. Len(elems[h]) : elems[h][i] \in Nodes
    BY ElementOfSeq, Zenon
  <1>3. \A h \in Heads, i \in Nat : At(h, i) \in Cell
    BY <1>2, Zenon DEF At, Cell
  <1>4. \A h \in Heads : At(h, 0) = h /\ At(h, Len(elems[h]) + 1) = h
    BY <1>1 DEF At
  <1>5. ASSUME NEW g \in Heads, NEW h \in Heads,
               NEW i \in 0 .. Len(elems[g]), NEW j \in 0 .. Len(elems[h]),
               At(g, i) = At(h, j)
        PROVE  g = h /\ i = j
    <2>1. CASE i = 0 /\ j = 0
      BY <1>4, <1>5, <2>1, Zenon
    <2>2. CASE i # 0 /\ j # 0
      <3>1. i \in 1 .. Len(elems[g]) /\ j \in 1 .. Len(elems[h])
        BY <1>1, <2>2
      <3> QED BY <1>5, <3>1 DEF At, RingsExact, Disjoint
    <2>3. CASE i = 0 /\ j # 0
      <3>1. j \in 1 .. Len(elems[h])
        BY <1>1, <2>3
      <3> QED BY <1>2, <1>4, <1>5, <2>3, <3>1, CellAssumption, Zenon DEF At
    <2>4. CASE i # 0 /\ j = 0
      <3>1. i \in 1 .. Len(elems[g])
        BY <1>1, <2>4
      <3> QED BY <1>2, <1>4, <1>5, <2>4, <3>1, CellAssumption, Zenon DEF At
    <2> QED BY <2>1, <2>2, <2>3, <2>4, Zenon
  <1> QED BY <1>1, <1>2, <1>3, <1>4, <1>5, Zenon

\* ngx_queue_insert_tail puts the node at the end of the ring.
LEMMA InsertInv ==
  ASSUME QueueInv, NEW h \in Heads, NEW x \in Nodes, ngx_queue_insert_tail(h, x)
  PROVE  QueueInv'
  <1> USE DEF QueueInv, TypeOK
  <1>n. PICK len \in Nat : len = Len(elems[h])
    BY Cells, Zenon
  <1>l. PICK last \in Cell : last = At(h, len)
    BY Cells, Zenon
  <1>1. prev[h] = last /\ x \in Cell /\ h \in Cell /\ x # h
    BY <1>n, <1>l, Cells, CellAssumption DEF RingsExact, Ring, Cell
  <1>2. /\ \A g \in Heads : \A i \in 1 .. Len(elems[g]) : elems[g][i] # x
        /\ \A g \in Heads, i \in Nat : At(g, i) # x
    <2>1. \A g \in Heads : \A i \in 1 .. Len(elems[g]) : elems[g][i] # x
      BY DEF ngx_queue_insert_tail, Linked, Range
    <2> QED BY <2>1, CellAssumption, Zenon DEF At
  <1>3. /\ next' = [next EXCEPT ![last] = x, ![x] = h]
        /\ prev' = [prev EXCEPT ![x] = last, ![h] = x]
    BY <1>1, <1>2, <1>l, Cells DEF ngx_queue_insert_tail, insert_tail
  <1>4. /\ elems' = [elems EXCEPT ![h] = Append(elems[h], x)]
        /\ Len(elems'[h]) = len + 1
        /\ \A i \in 1 .. len : elems'[h][i] = elems[h][i]
        /\ elems'[h][len + 1] = x
        /\ \A g \in Heads : g # h => elems'[g] = elems[g]
    BY <1>n, AppendProperties DEF ngx_queue_insert_tail
  <1>5. TypeOK'
    BY <1>1, <1>3, <1>4, AppendProperties, Zenon DEF Cell
  <1>6. Disjoint'
    BY <1>n, <1>2, <1>4, Cells DEF Disjoint, RingsExact
  <1>7. /\ \A g \in Heads, i \in Nat : g # h => At(g, i)' = At(g, i)
        /\ \A i \in 0 .. len : At(h, i)' = At(h, i)
        /\ At(h, len + 1)' = x /\ At(h, len + 2)' = h
    BY <1>n, <1>4 DEF At
  <1>8. ASSUME NEW g \in Heads, g # h PROVE Ring(g)'
    <2>1. SUFFICES ASSUME NEW i \in 0 .. Len(elems[g])
                   PROVE  /\ next'[At(g, i)] = At(g, i + 1)
                          /\ prev'[At(g, i + 1)] = At(g, i)
      BY <1>4, <1>7, <1>8, Cells DEF Ring
    <2>2. next[At(g, i)] = At(g, i + 1) /\ prev[At(g, i + 1)] = At(g, i)
      BY Zenon DEF RingsExact, Ring
    <2>3. At(g, i) # last /\ At(g, i) # x /\ At(g, i) \in Cell
      BY <1>n, <1>l, <1>2, <1>8, Cells
    <2>4. At(g, i + 1) # h /\ At(g, i + 1) # x /\ At(g, i + 1) \in Cell
      <3>1. At(g, i + 1) \in Nodes \cup {g}
        BY Cells, Zenon DEF At
      <3> QED BY <1>2, <1>8, <3>1, CellAssumption, Cells
    <2> QED BY <1>3, <2>2, <2>3, <2>4, Zenon
  <1>9. Ring(h)'
    <2>1. SUFFICES ASSUME NEW i \in 0 .. (len + 1)
                   PROVE  /\ next'[At(h, i)'] = At(h, i + 1)'
                          /\ prev'[At(h, i + 1)'] = At(h, i)'
      BY <1>4, Zenon DEF Ring
    <2>2. CASE i = len + 1
      BY <1>1, <1>3, <1>7, <2>2
    <2>3. CASE i = len
      BY <1>1, <1>2, <1>3, <1>7, <1>l, Cells, <2>3
    <2>4. CASE i \in 0 .. (len - 1)
      <3>1. /\ next[At(h, i)] = At(h, i + 1) /\ prev[At(h, i + 1)] = At(h, i)
            /\ i + 1 \in 1 .. len /\ i \in 0 .. len /\ i + 1 \in Nat
        BY <1>n, <2>4 DEF RingsExact, Ring
      <3>2. At(h, i) # last /\ At(h, i) # x /\ At(h, i) \in Cell
        BY <1>n, <1>l, <1>2, <2>4, <3>1, Cells
      <3>3. At(h, i + 1) # h /\ At(h, i + 1) # x /\ At(h, i + 1) \in Cell
        BY <1>n, <1>2, <3>1, Cells, CellAssumption DEF At
      <3> QED BY <1>3, <1>7, <3>1, <3>2, <3>3
    <2> QED BY <1>1, <2>2, <2>3, <2>4
  <1> QED BY <1>5, <1>6, <1>8, <1>9, Zenon DEF RingsExact

\* ngx_queue_remove of the k-th node closes the ring over it.
LEMMA RemoveInv ==
  ASSUME QueueInv, NEW h \in Heads, NEW k \in 1 .. Len(elems[h]), remove(elems[h][k]),
         elems' \in [Heads -> Seq(Nodes)],
         \A g \in Heads : g # h => elems'[g] = elems[g],
         Len(elems'[h]) = Len(elems[h]) - 1,
         \A i \in 1 .. (k - 1) : elems'[h][i] = elems[h][i],
         \A i \in k .. (Len(elems[h]) - 1) : elems'[h][i] = elems[h][i + 1]
  PROVE  QueueInv'
  <1> USE DEF QueueInv, TypeOK
  <1>n. PICK len \in Nat : len = Len(elems[h])
    BY Cells, Zenon
  <1>x. PICK x \in Nodes : x = elems[h][k]
    BY Cells, Zenon
  <1>b. PICK b \in Cell : b = At(h, k - 1)
    BY <1>n, Cells
  <1>a. PICK a \in Cell : a = At(h, k + 1)
    BY <1>n, Cells
  <1>1. /\ x = At(h, k) /\ x \in Cell /\ h \in Cell
        /\ next[x] = a /\ prev[x] = b
    <2>1. /\ k \in 0 .. len /\ k - 1 \in 0 .. len /\ (k - 1) + 1 = k
          /\ x = At(h, k) /\ x \in Cell /\ h \in Cell
      BY <1>n, <1>x DEF At, Cell
    <2> QED BY <1>n, <1>a, <1>b, <2>1 DEF RingsExact, Ring
  <1>2. a # x /\ b # x
    <2>1. b # x
      BY <1>n, <1>b, <1>1, Cells
    <2>2. a # x
      <3>1. CASE k = len
        BY <1>n, <1>a, <1>x, <3>1, Cells, CellAssumption
      <3>2. CASE k # len
        BY <1>n, <1>a, <1>1, <3>2, Cells
      <3> QED BY <3>1, <3>2, Zenon
    <2> QED BY <2>1, <2>2, Zenon
  <1>3. next' = [next EXCEPT ![b] = a] /\ prev' = [prev EXCEPT ![a] = b]
    BY <1>x, <1>1, <1>2 DEF remove
  <1>4. TypeOK'
    BY <1>3, Zenon
  <1>5. Disjoint'
    <2>1. SUFFICES ASSUME NEW g1 \in Heads, NEW g2 \in Heads,
                          NEW i \in 1 .. Len(elems'[g1]), NEW j \in 1 .. Len(elems'[g2]),
                          elems'[g1][i] = elems'[g2][j]
                   PROVE  g1 = g2 /\ i = j
      BY Zenon DEF Disjoint
    <2>2. ASSUME NEW g \in Heads, NEW l \in 1 .. Len(elems'[g])
          PROVE  \E m \in 1 .. Len(elems[g]) :
                   /\ elems'[g][l] = elems[g][m]
                   /\ g = h => (l < k /\ m = l) \/ (l >= k /\ m = l + 1)
                   /\ g # h => m = l
      <3>1. CASE g # h
        BY <3>1, Zenon
      <3>2. CASE g = h /\ l < k
        BY <1>n, <3>2, l \in 1 .. (k - 1), l \in 1 .. len, Zenon
      <3>3. CASE g = h /\ l >= k
        BY <1>n, <3>3, l \in k .. (len - 1), l + 1 \in 1 .. len, Zenon
      <3> QED BY <1>n, <3>1, <3>2, <3>3
    <2>3. PICK i1 \in 1 .. Len(elems[g1]), j1 \in 1 .. Len(elems[g2]) :
            /\ elems'[g1][i] = elems[g1][i1] /\ elems'[g2][j] = elems[g2][j1]
            /\ g1 = h => (i < k /\ i1 = i) \/ (i >= k /\ i1 = i + 1)
            /\ g2 = h => (j < k /\ j1 = j) \/ (j >= k /\ j1 = j + 1)
            /\ g1 # h => i1 = i
            /\ g2 # h => j1 = j
      BY <2>2, SMTT(60)
    <2>4. g1 = g2 /\ i1 = j1
      <3>1. elems[g1][i1] = elems[g2][j1]
        BY <2>1, <2>3, Zenon
      <3>2. Disjoint
        BY Zenon DEF RingsExact
      <3> QED BY <3>1, <3>2, SMTT(60) DEF Disjoint
    <2>5. i \in Nat /\ j \in Nat
      BY <1>4, LenProperties
    <2> QED BY <2>3, <2>4, <2>5, SMTT(60)
  <1>6. /\ \A g \in Heads, i \in Nat : g # h => At(g, i)' = At(g, i)
        /\ \A i \in 0 .. (k - 1) : At(h, i)' = At(h, i)
        /\ \A i \in k .. len : At(h, i)' = At(h, i + 1)
    <2>1. \A g \in Heads, i \in Nat : g # h => At(g, i)' = At(g, i)
      BY Zenon DEF At
    <2>2. ASSUME NEW i \in 0 .. (k - 1) PROVE At(h, i)' = At(h, i)
      <3>1. CASE i = 0
        BY <3>1 DEF At
      <3>2. CASE i # 0
        BY <1>n, <3>2, i \in 1 .. (k - 1), i \in 1 .. len, i \in 1 .. (len - 1), Zenon
        DEF At
      <3> QED BY <3>1, <3>2, Zenon
    <2>3. ASSUME NEW i \in k .. len PROVE At(h, i)' = At(h, i + 1)
      <3>1. CASE i = len
        BY <1>n, <3>1, i \notin 1 .. (len - 1), i + 1 \notin 1 .. len, Zenon DEF At
      <3>2. CASE i # len
        BY <1>n, <3>2, i \in k .. (len - 1), i \in 1 .. (len - 1), i + 1 \in 1 .. len, Zenon
        DEF At
      <3> QED BY <3>1, <3>2, Zenon
    <2> QED BY <2>1, <2>2, <2>3, Zenon
  <1>7. ASSUME NEW g \in Heads, g # h PROVE Ring(g)'
    <2>1. SUFFICES ASSUME NEW i \in 0 .. Len(elems[g])
                   PROVE  /\ next'[At(g, i)] = At(g, i + 1)
                          /\ prev'[At(g, i + 1)] = At(g, i)
      BY <1>6, <1>7, Cells DEF Ring
    <2>2. next[At(g, i)] = At(g, i + 1) /\ prev[At(g, i + 1)] = At(g, i)
      BY Zenon DEF RingsExact, Ring
    <2>3. At(g, i) # b /\ At(g, i) \in Cell
      BY <1>n, <1>b, <1>7, Cells
    <2>4. At(g, i + 1) # a /\ At(g, i + 1) \in Cell
      <3>1. PICK j \in 0 .. Len(elems[g]) : At(g, i + 1) = At(g, j)
        <4>1. CASE i = Len(elems[g])
          BY <4>1, Cells
        <4>2. CASE i # Len(elems[g])
          BY <4>2, Cells, i + 1 \in 0 .. Len(elems[g]), Zenon
        <4> QED BY <4>1, <4>2, Zenon
      <3>2. PICK j2 \in 0 .. len : a = At(h, j2)
        <4>1. CASE k = len
          BY <1>n, <1>a, <4>1, Cells
        <4>2. CASE k # len
          BY <1>n, <1>a, <4>2, k + 1 \in 0 .. len, Zenon
        <4> QED BY <4>1, <4>2, Zenon
      <3> QED BY <1>n, <1>7, <3>1, <3>2, Cells
    <2> QED BY <1>3, <2>2, <2>3, <2>4, Zenon
  <1>8. Ring(h)'
    <2>1. SUFFICES ASSUME NEW i \in 0 .. (len - 1)
                   PROVE  /\ next'[At(h, i)'] = At(h, i + 1)'
                          /\ prev'[At(h, i + 1)'] = At(h, i)'
      BY <1>n, Zenon DEF Ring
    <2>2. CASE i = k - 1
      <3>1. At(h, i)' = b /\ At(h, i + 1)' = a
        BY <1>n, <1>a, <1>b, <1>6, <2>2
      <3> QED BY <1>3, <3>1, Zenon
    <2>3. CASE i # k - 1
      <3>1. PICK j \in 0 .. len : /\ At(h, i)' = At(h, j) /\ At(h, i + 1)' = At(h, j + 1)
                                /\ j # k - 1 /\ j # k
        <4>1. CASE i < k - 1
          BY <1>n, <1>6, <4>1
        <4>2. CASE i > k - 1
          BY <1>n, <1>6, <4>2, i + 1 \in 0 .. len
        <4> QED BY <2>3, <4>1, <4>2
      <3>2. next[At(h, j)] = At(h, j + 1) /\ prev[At(h, j + 1)] = At(h, j)
        BY <1>n, Zenon DEF RingsExact, Ring
      <3>3. At(h, j) # b /\ At(h, j) \in Cell /\ At(h, j + 1) \in Cell
        BY <1>n, <1>b, <3>1, Cells
      <3>4. At(h, j + 1) # a
        <4>1. At(h, j) # At(h, k) /\ prev[a] = At(h, k)
          BY <1>n, <1>a, <3>1, Cells, SMTT(60) DEF RingsExact, Ring
        <4> QED BY <3>2, <4>1, Zenon
      <3> QED BY <1>3, <3>1, <3>2, <3>3, <3>4, Zenon
    <2> QED BY <2>2, <2>3, Zenon
  <1> QED BY <1>4, <1>5, <1>7, <1>8, Zenon DEF RingsExact

LEMMA QueueStepInv == QueueInv /\ [QueueNext]_queueVars => QueueInv'
  <1> SUFFICES ASSUME QueueInv, [QueueNext]_queueVars PROVE QueueInv'
    OBVIOUS
  <1>1. ASSUME NEW h \in Heads, NEW x \in Nodes, ngx_queue_insert_tail(h, x)
        PROVE  QueueInv'
    BY <1>1, InsertInv, Zenon
  <1>2. ASSUME NEW h \in Heads, RemoveHead(h) PROVE QueueInv'
    <2>1. PICK len \in Nat : len = Len(elems[h])
      BY Cells, Zenon
    <2>2. /\ elems[h] \in Seq(Nodes) /\ prev[h] = At(h, len) /\ prev[h] # h
          /\ next[h] = At(h, 1) /\ At(h, 0) = h
      BY <1>2, <2>1, Cells
         DEF QueueInv, TypeOK, RingsExact, Ring, RemoveHead, ngx_queue_empty
    <2>3. len # 0 /\ elems[h] # <<>> /\ 1 \in 1 .. Len(elems[h])
      BY <2>1, <2>2, EmptySeq
    <2>4. remove(elems[h][1])
      BY <1>2, <2>2, <2>3, Zenon DEF RemoveHead, ngx_queue_head, At
    <2>5. elems' = [elems EXCEPT ![h] = Tail(elems[h])]
      BY <1>2, Zenon DEF RemoveHead
    <2>6. /\ Tail(elems[h]) \in Seq(Nodes)
          /\ Len(Tail(elems[h])) = Len(elems[h]) - 1
          /\ \A i \in 1 .. (Len(elems[h]) - 1) : Tail(elems[h])[i] = elems[h][i + 1]
      BY <2>2, <2>3, HeadTailProperties, Zenon
    <2>7. /\ elems' \in [Heads -> Seq(Nodes)]
          /\ elems'[h] = Tail(elems[h])
          /\ \A g \in Heads : g # h => elems'[g] = elems[g]
      BY <2>5, <2>6, Zenon DEF QueueInv, TypeOK
    <2>8. /\ Len(elems'[h]) = Len(elems[h]) - 1
          /\ \A i \in 1 .. (1 - 1) : elems'[h][i] = elems[h][i]
          /\ \A i \in 1 .. (Len(elems[h]) - 1) : elems'[h][i] = elems[h][i + 1]
      BY <2>6, <2>7
    <2> QED BY <2>3, <2>4, <2>7, <2>8, RemoveInv, ZenonT(30)
  <1>3. ASSUME NEW h \in Heads, NEW k \in 1 .. Len(elems[h]), ngx_queue_remove(h, k)
        PROVE  QueueInv'
    <2> DEFINE s == elems[h]
               t == SubSeq(s, 1, k - 1) \o SubSeq(s, k + 1, Len(s))
    <2>1. s \in Seq(Nodes) /\ Len(s) \in Nat /\ k \in 1 .. Len(s)
      BY Cells, Zenon DEF QueueInv, TypeOK
    <2>2. /\ SubSeq(s, 1, k - 1) \in Seq(Nodes)
          /\ Len(SubSeq(s, 1, k - 1)) = k - 1
          /\ \A i \in 1 .. (k - 1) : SubSeq(s, 1, k - 1)[i] = s[i]
      BY <2>1, SubSeqProperties
    <2>3. /\ SubSeq(s, k + 1, Len(s)) \in Seq(Nodes)
          /\ Len(SubSeq(s, k + 1, Len(s))) = Len(s) - k
          /\ \A i \in 1 .. (Len(s) - k) : SubSeq(s, k + 1, Len(s))[i] = s[k + i]
      BY <2>1, SubSeqProperties
    <2>4. /\ t \in Seq(Nodes) /\ Len(t) = Len(s) - 1
          /\ \A i \in 1 .. (k - 1) : t[i] = s[i]
          /\ \A i \in k .. (Len(s) - 1) : t[i] = s[i + 1]
      <3> DEFINE u == SubSeq(s, 1, k - 1)
                 w == SubSeq(s, k + 1, Len(s))
      <3>1. /\ u \o w \in Seq(Nodes)
            /\ Len(u \o w) = Len(u) + Len(w)
            /\ \A i \in 1 .. (Len(u) + Len(w)) :
                 (u \o w)[i] = IF i <= Len(u) THEN u[i] ELSE w[i - Len(u)]
        <4> HIDE DEF u, w
        <4>1. u \in Seq(Nodes) /\ w \in Seq(Nodes)
          BY <2>2, <2>3, Zenon DEF u, w
        <4> QED BY <4>1, ConcatProperties, Zenon
      <3>2. /\ Len(u) = k - 1 /\ Len(w) = Len(s) - k
            /\ \A i \in 1 .. (k - 1) : u[i] = s[i]
            /\ \A i \in 1 .. (Len(s) - k) : w[i] = s[k + i]
        BY <2>2, <2>3, Zenon
      <3>t. t = u \o w
        OBVIOUS
      <3>s. Len(s) \in Nat /\ k \in 1 .. Len(s)
        BY <2>1, Zenon
      <3> HIDE DEF s, t, u, w
      <3>3. ASSUME NEW i \in 1 .. (k - 1) PROVE (u \o w)[i] = s[i]
        <4>1. i \in 1 .. (Len(u) + Len(w)) /\ i <= Len(u)
          BY <3>s, <3>2
        <4> QED BY <3>1, <3>2, <4>1, Zenon
      <3>4. ASSUME NEW i \in k .. (Len(s) - 1) PROVE (u \o w)[i] = s[i + 1]
        <4>1. /\ i \in 1 .. (Len(u) + Len(w)) /\ ~(i <= Len(u))
              /\ i - Len(u) \in 1 .. (Len(s) - k) /\ k + (i - Len(u)) = i + 1
          BY <3>s, <3>2, SMTT(60)
        <4>2. (u \o w)[i] = w[i - Len(u)]
          BY <3>1, <4>1, Zenon
        <4> QED BY <3>2, <4>1, <4>2, Zenon
      <3>5. Len(u \o w) = Len(s) - 1
        BY <3>s, <3>1, <3>2
      <3> QED BY <3>t, <3>1, <3>3, <3>4, <3>5, Zenon
    <2>5. /\ remove(elems[h][k])
          /\ elems' = [elems EXCEPT ![h] = t]
      BY <1>3, Zenon DEF ngx_queue_remove
    <2>6. /\ elems' \in [Heads -> Seq(Nodes)]
          /\ elems'[h] = t
          /\ \A g \in Heads : g # h => elems'[g] = elems[g]
      BY <2>4, <2>5, Zenon DEF QueueInv, TypeOK
    <2> QED BY <2>4, <2>5, <2>6, RemoveInv, ZenonT(60)
  <1>4. CASE UNCHANGED queueVars
    BY <1>4 DEF queueVars, QueueInv, TypeOK, RingsExact, Disjoint, Ring, At
  <1> QED BY <1>1, <1>2, <1>3, <1>4, Zenon DEF QueueNext

\* The pointers of every queue hold exactly its elements, in order, whatever
\* insertions and removals came before.
THEOREM RingsCorrect == QueueSpec => []RingsExact
  <1>1. QueueInv => RingsExact
    BY Zenon DEF QueueInv
  <1> QED BY QueueInitInv, QueueStepInv, <1>1, PTL DEF QueueSpec

-----------------------------------------------------------------------------
(* Inserting a node that is linked already *)

\* The head leads to the node and back, but the node is its own predecessor.
Stuck(h, x) == prev[h] = x /\ next[h] = x /\ prev[x] = x /\ next[x] = h

\* If the only node of a queue is inserted into it again (a state that waits a
\* second time for the object it is still linked to), the queue gets stuck.
THEOREM RelinkSticks ==
  ASSUME QueueInv, NEW h \in Heads, NEW x \in Nodes, elems[h] = <<x>>, insert_tail(h, x)
  PROVE  Stuck(h, x)'
  <1>1. Len(elems[h]) = 1 /\ elems[h][1] = x /\ x \in Cell /\ h \in Cell /\ x # h
    BY CellAssumption DEF Cell
  <1>2. At(h, 0) = h /\ At(h, 1) = x /\ At(h, 2) = h
    BY <1>1 DEF At
  <1>3. next[h] = x /\ prev[x] = h /\ next[x] = h /\ prev[h] = x
    BY <1>1, <1>2 DEF QueueInv, RingsExact, Ring
  <1> QED BY <1>1, <1>3, Zenon DEF insert_tail, Stuck, QueueInv, TypeOK

\* Removing the head of a stuck queue changes nothing, so the loop of
\* luvL_cond_broadcast, which removes heads until the queue is empty, never ends.
THEOREM StuckForever ==
  ASSUME TypeOK, NEW h \in Heads, NEW x \in Nodes, Stuck(h, x),
         remove(ngx_queue_head(h))
  PROVE  prev' = prev /\ next' = next /\ ~ngx_queue_empty(h)'
  <1>1. x # h /\ x \in Cell /\ h \in Cell
    BY CellAssumption, Zenon DEF Cell
  <1> QED BY <1>1, Zenon DEF Stuck, remove, ngx_queue_head, ngx_queue_empty, TypeOK

-----------------------------------------------------------------------------
(* luv_codec.c: the buffer *)

\* The seven bits of byte i, in place, if it is one of the first k bytes.
Bits(o, i, k) == IF i < k THEN (o[i] % 128) * Weight(i) ELSE 0

\* The number the first k bytes hold.
Held(o, k) == Bits(o, 0, k) + Bits(o, 1, k) + Bits(o, 2, k) + Bits(o, 3, k) + Bits(o, 4, k)

\* The first k bytes are the same.
Agree(o, p, k) == \A i \in 0 .. 4 : i < k => p[i] = o[i]

\* What is left of the integer after k bytes: 32 - 7k bits.
Left(w, k) == /\ k = 0 => w \div 268435456 < 16
              /\ k = 1 => w < 33554432
              /\ k = 2 => w < 262144
              /\ k = 3 => w < 2048
              /\ k = 4 => w < 16

TypeInv ==
  /\ pc \in {"idle", "need", "copy", "uneed", "byte", "get", "more", "read"}
  /\ cap \in Nat /\ head \in Nat /\ size \in Nat /\ want \in Nat
  /\ orig \in Nat /\ val \in Nat /\ v \in Nat
  /\ n \in Nat
  /\ out \in [0 .. 4 -> 0 .. 255]

\* The buffer: what luvL_buf_need has made room for is there until it is used.
BufInv ==
  /\ head <= cap
  /\ pc \in {"need", "uneed"} => cap <= size
  /\ pc = "copy" => head + want <= cap
  /\ pc = "uneed" => want = 5 /\ n = 0 /\ val = orig
  /\ pc = "byte" => head + 5 <= cap
  /\ pc \in {"uneed", "byte"} => n \in 0 .. 4 /\ Left(val, n)

\* Writing: the bytes and what is left make up the integer, and every byte so
\* far says that more follow.
WriteInv ==
  pc = "byte" =>
    /\ orig = Held(out, n) + val * Weight(n)
    /\ \A i \in 0 .. 4 : i < n => out[i] >= 128

\* The bytes of o up to k are the encoding of w: the last one says so.
Coded(o, k, w) ==
  /\ k \in 0 .. 4 /\ o[k] < 128
  /\ \A i \in 0 .. 4 : i < k => o[i] >= 128
  /\ w = Held(o, k + 1)

\* Reading: there is a last byte, after the ones read, and v is what they hold.
ReadInv ==
  /\ pc = "get" => \E k \in 0 .. 4 : Coded(out, k, orig)
  /\ pc = "more" => \E k \in 0 .. 4 : Coded(out, k, orig) /\ n \in 1 .. k /\ v = Held(out, n)
  /\ pc = "read" => v = orig

IInv == TypeInv /\ BufInv /\ WriteInv /\ ReadInv

-----------------------------------------------------------------------------
(* Arithmetic of seven-bit groups *)

\* A number is its lowest seven bits and the rest, shifted by seven bits.
LEMMA Split ==
  ASSUME NEW w \in Nat
  PROVE  /\ w \div 128 \in Nat
         /\ w % 128 \in 0 .. 127
         /\ w = (w % 128) + 128 * (w \div 128)
  BY SMT

\* The flag of a byte leaves its seven bits alone.
LEMMA Flagged ==
  ASSUME NEW x \in 0 .. 127
  PROVE  x % 128 = x /\ (x + 128) % 128 = x
  BY SMT

\* The next byte weighs 128 times as much.
LEMMA WeightNext ==
  ASSUME NEW k \in 0 .. 4
  PROVE  /\ Weight(k) \in Nat
         /\ k < 4 => Weight(k + 1) = 128 * Weight(k)
  BY DEF Weight

\* The bits of a byte that is counted are a number.
LEMMA BitsNat ==
  ASSUME NEW o \in [0 .. 4 -> 0 .. 255], NEW i \in 0 .. 4, NEW k \in Nat
  PROVE  Bits(o, i, k) \in Nat
  <1>1. o[i] % 128 \in Nat
    <2>1. o[i] \in Nat
      BY SMTT(60)
    <2> QED
      BY <2>1, Split
  <1> QED
    BY <1>1, SMT DEF Bits, Weight

\* Byte k of p adds its bits to what the first k bytes of o hold.
Adds(o, p, k) == Held(p, k + 1) = Held(o, k) + (p[k] % 128) * Weight(k)

\* One byte more adds its bits.
LEMMA HeldNext ==
  ASSUME NEW o \in [0 .. 4 -> 0 .. 255], NEW p \in [0 .. 4 -> 0 .. 255],
         NEW k \in 0 .. 4, Agree(o, p, k)
  PROVE  Adds(o, p, k)
  <1>1. \A i \in 0 .. 4 : Bits(p, i, k + 1) = IF i = k THEN (p[k] % 128) * Weight(k)
                                                      ELSE Bits(o, i, k)
    BY DEF Bits, Agree
  <1> k \in Nat /\ k + 1 \in Nat
    OBVIOUS
  <1>2. \A i \in 0 .. 4 : Bits(o, i, k) \in Nat
    BY BitsNat, ZenonT(60)
  <1>3. Bits(o, k, k) = 0 /\ \A i \in 0 .. 4 : Bits(p, i, k + 1) \in Nat
    <2>1. \A i \in 0 .. 4 : Bits(p, i, k + 1) \in Nat
      BY BitsNat, Zenon
    <2> QED
      BY <2>1 DEF Bits
  <1>4. k = 0 \/ k = 1 \/ k = 2 \/ k = 3 \/ k = 4
    OBVIOUS
  <1> QED
    BY <1>1, <1>2, <1>3, <1>4, SMTT(60) DEF Held, Adds

\* The bytes hold a number.
LEMMA HeldNat ==
  ASSUME NEW o \in [0 .. 4 -> 0 .. 255], NEW k \in Nat
  PROVE  Held(o, k) \in Nat
  <1>1. \A i \in 0 .. 4 : Bits(o, i, k) \in Nat
    BY BitsNat, Zenon
  <1> QED
    BY <1>1 DEF Held

\* A shift by seven bits leaves seven bits less, and after four there are at most
\* four bits.
LEMMA LeftNext ==
  ASSUME NEW w \in Nat, NEW k \in 0 .. 4, Left(w, k), w >= 128
  PROVE  k < 4 /\ Left(w \div 128, k + 1)
  <1>1. CASE k = 0
    <2>1. w < 4294967296
      BY <1>1, SMT DEF Left
    <2> QED
      BY <1>1, <2>1, SMT DEF Left
  <1>2. CASE k = 1
    BY <1>2, SMT DEF Left
  <1>3. CASE k = 2
    BY <1>3, SMT DEF Left
  <1>4. CASE k = 3
    BY <1>4, SMT DEF Left
  <1>5. CASE k = 4
    BY <1>5, SMT DEF Left
  <1> QED
    BY <1>1, <1>2, <1>3, <1>4, <1>5

-----------------------------------------------------------------------------
(* IInv is inductive *)

\* The invariant holds of the empty buffer.
LEMMA InitIInv == Init => IInv
  BY SMT DEF Init, IInv, TypeInv, BufInv, WriteInv, ReadInv

\* luvL_buf_need, called from a writer.
LEMMA NeedStep ==
  ASSUME IInv, NEW l \in Nat, luvL_buf_need(l)
  PROVE  /\ want' = l /\ head' \in Nat /\ head' = head
         /\ size' \in Nat /\ cap' \in Nat
         /\ cap' <= size' /\ head' <= cap'
  BY SMTT(60) DEF IInv, TypeInv, BufInv, luvL_buf_need

\* luvL_buf_write keeps the invariant.
LEMMA WriteStep ==
  ASSUME IInv, NEW l \in Lens, luvL_buf_write(l)
  PROVE  IInv'
  <1>1. l \in Nat
    BY BufAssumption
  <1>2. luvL_buf_need(l)
    BY DEF luvL_buf_write
  <1>3. want' = l /\ head' \in Nat /\ size' \in Nat /\ cap' \in Nat /\ cap' <= size' /\ head' <= cap'
    BY <1>1, <1>2, NeedStep, SMTT(60)
  <1> QED
    BY <1>1, <1>3, Zenon DEF IInv, TypeInv, BufInv, WriteInv, ReadInv, luvL_buf_write, int

\* The start of luvL_buf_write_uleb128 keeps it.
LEMMA WriteUlebStep ==
  ASSUME IInv, NEW w \in Values, luvL_buf_write_uleb128(w)
  PROVE  IInv'
  <1>1. w \in Nat /\ w \div 268435456 < 16
    BY BufAssumption
  <1>2. luvL_buf_need(5)
    BY DEF luvL_buf_write_uleb128
  <1>3. want' = 5 /\ head' \in Nat /\ size' \in Nat /\ cap' \in Nat /\ cap' <= size' /\ head' <= cap'
    BY <1>2, NeedStep
  <1>4. Left(w, 0)
    BY <1>1, SMTT(60) DEF Left
  <1> QED
    BY <1>1, <1>3, <1>4 DEF IInv, TypeInv, BufInv, WriteInv, ReadInv, luvL_buf_write_uleb128

\* Doubling the size keeps it.
LEMMA DoublesStep ==
  ASSUME IInv, NEW at \in {"need", "uneed"}, NeedDoubles(at)
  PROVE  IInv'
  BY DEF IInv, TypeInv, BufInv, WriteInv, ReadInv, NeedDoubles, int

\* The room that was asked for is there, and an integer starts with no byte.
LEMMA ReallocsStep ==
  ASSUME IInv, NeedReallocs("need", "copy") \/ NeedReallocs("uneed", "byte")
  PROVE  IInv'
  <1>1. CASE NeedReallocs("need", "copy")
    BY <1>1, SMTT(60) DEF IInv, TypeInv, BufInv, WriteInv, ReadInv, NeedReallocs, int
  <1>2. CASE NeedReallocs("uneed", "byte")
    <2>1. Held(out, 0) = 0 /\ Weight(0) = 1
      BY DEF Held, Bits, Weight
    <2>2. orig = Held(out, 0) + orig * Weight(0)
      BY <2>1, SMTT(60) DEF IInv, TypeInv
    <2> QED
      BY <1>2, <2>2 DEF IInv, TypeInv, BufInv, WriteInv, ReadInv, NeedReallocs, int
  <1> QED
    BY <1>1, <1>2, SMTT(60)

\* So does the copy, for which there is room.
LEMMA CopiesStep ==
  ASSUME IInv, WriteCopies
  PROVE  IInv'
  BY DEF IInv, TypeInv, BufInv, WriteInv, ReadInv, WriteCopies, int

\* A byte with the flag moves seven bits from what is left to what is held.
LEMMA ByteStep ==
  ASSUME IInv, UlebByte
  PROVE  IInv'
  <1> USE DEF IInv
  <1>1. /\ pc = "byte" /\ val \in Nat /\ val >= 128 /\ n \in 0 .. 4 /\ Left(val, n)
        /\ out \in [0 .. 4 -> 0 .. 255]
        /\ orig = Held(out, n) + val * Weight(n)
    BY DEF UlebByte, TypeInv, BufInv, WriteInv
  <1>2. n < 4 /\ Left(val \div 128, n + 1)
    BY <1>1, LeftNext
  <1>3. PICK m \in 0 .. 127 : m = val % 128
    BY <1>1, Split
  <1>4. PICK q \in Nat : q = val \div 128
    BY <1>1, Split, SMTT(60)
  <1>5. val = m + 128 * q
    BY <1>1, <1>3, <1>4, Split
  <1>6. /\ out' = [out EXCEPT ![n] = m + 128]
        /\ n' = n + 1 /\ val' = q
        /\ UNCHANGED <<pc, cap, head, size, want, orig, v>>
    BY <1>3, <1>4, SMTT(60) DEF UlebByte
  <1>7. out' \in [0 .. 4 -> 0 .. 255] /\ out'[n] = m + 128
        /\ \A i \in 0 .. 4 : i < n => out'[i] = out[i]
    BY <1>1, <1>3, <1>6
  <1>8. Held(out', n + 1) = Held(out, n) + m * Weight(n)
    <2>1. PICK p \in [0 .. 4 -> 0 .. 255] : p = out'
      <3>1. out' \in [0 .. 4 -> 0 .. 255]
        BY <1>7
      <3> QED
        BY <3>1, Zenon
    <2>2. Held(p, n + 1) = Held(out, n) + (p[n] % 128) * Weight(n)
      <3>1. Agree(out, p, n)
        BY <1>7, <2>1, SMTT(60) DEF Agree
      <3>2. n \in 0 .. 4
        BY <1>1, SMTT(60)
      <3>3. out \in [0 .. 4 -> 0 .. 255]
        BY <1>1
      <3>4. Adds(out, p, n)
        BY <2>1, <3>1, <3>2, <3>3, HeldNext, ZenonT(60)
      <3> QED
        BY <3>4, Zenon DEF Adds
    <2>3. p[n] % 128 = m
      <3>1. p[n] = m + 128
        BY <1>7, <2>1
      <3>2. (m + 128) % 128 = m
        BY <1>3, Flagged, ZenonT(60)
      <3> QED
        BY <3>1, <3>2, Zenon
    <2> QED
      BY <2>1, <2>2, <2>3
  <1>9. orig = Held(out', n + 1) + q * Weight(n + 1)
    <2>1. Weight(n) \in Nat /\ Weight(n + 1) = 128 * Weight(n)
      BY <1>1, <1>2, WeightNext, SMTT(60)
    <2>2. Held(out, n) \in Nat
      BY <1>1, HeldNat
    <2>3. (m + 128 * q) * Weight(n) = m * Weight(n) + q * (128 * Weight(n))
      BY <2>1, <1>3, <1>4, SMTT(60)
    <2> QED
      BY <1>1, <1>3, <1>4, <1>5, <1>8, <2>1, <2>2, <2>3, SMTT(60)
  <1>10. TypeInv'
    BY <1>1, <1>4, <1>6, <1>7, SMTT(60) DEF TypeInv
  <1>11. BufInv'
    BY <1>1, <1>2, <1>4, <1>6, SMTT(60) DEF TypeInv, BufInv
  <1>12. WriteInv'
    BY <1>1, <1>2, <1>3, <1>6, <1>7, <1>9, SMTT(60) DEF WriteInv
  <1>13. ReadInv'
    BY <1>1, <1>6 DEF ReadInv
  <1> QED
    BY <1>10, <1>11, <1>12, <1>13, SMTT(60)

\* The last byte holds all that is left.
LEMMA LastStep ==
  ASSUME IInv, UlebLast
  PROVE  IInv'
  <1> USE DEF IInv
  <1>1. /\ pc = "byte" /\ val \in 0 .. 127 /\ n \in 0 .. 4
        /\ out \in [0 .. 4 -> 0 .. 255]
        /\ orig = Held(out, n) + val * Weight(n)
        /\ \A i \in 0 .. 4 : i < n => out[i] >= 128
    BY DEF UlebLast, TypeInv, BufInv, WriteInv
  <1>2. PICK p \in [0 .. 4 -> 0 .. 255] : p = [out EXCEPT ![n] = val]
    <2>1. [out EXCEPT ![n] = val] \in [0 .. 4 -> 0 .. 255]
      BY <1>1
    <2> QED
      BY <2>1, Zenon
  <1>3. out' = p /\ pc' = "get" /\ head' = head + n + 1
        /\ UNCHANGED <<cap, size, want, orig, val, n, v>>
    BY <1>2, Zenon DEF UlebLast
  <1>4. p[n] = val /\ \A i \in 0 .. 4 : i < n => p[i] = out[i]
    BY <1>1, <1>2, SMTT(60)
  <1>5. Held(p, n + 1) = Held(out, n) + (p[n] % 128) * Weight(n)
    <2>1. Agree(out, p, n)
      BY <1>4, Zenon DEF Agree
    <2>2. n \in 0 .. 4
      BY <1>1, Zenon
    <2>3. out \in [0 .. 4 -> 0 .. 255]
      BY <1>1, Zenon
    <2>4. Adds(out, p, n)
      BY <1>2, <2>1, <2>2, <2>3, HeldNext, ZenonT(60)
    <2> QED
      BY <2>4, Zenon DEF Adds
  <1>6. orig = Held(p, n + 1)
    BY <1>1, <1>4, <1>5, Flagged, SMTT(60)
  <1>7. Coded(p, n, orig)
    BY <1>1, <1>4, <1>6 DEF Coded
  <1>8. \E k \in 0 .. 4 : Coded(out', k, orig')
    BY <1>1, <1>3, <1>7, ZenonT(60)
  <1>9. TypeInv'
    BY <1>1, <1>3, SMTT(60) DEF TypeInv
  <1>10. BufInv'
    BY <1>1, <1>3 DEF TypeInv, BufInv
  <1>11. WriteInv' /\ ReadInv'
    BY <1>3, <1>8, Zenon DEF WriteInv, ReadInv
  <1> QED
    BY <1>9, <1>10, <1>11, SMTT(60)

\* What reading byte j of the encoding of w, whose last byte is k, comes to.
Reads(o, k, w, j) ==
  /\ o[j] \in 0 .. 255 /\ o[j] % 128 \in Nat
  /\ Held(o, j) \in Nat /\ Held(o, j + 1) \in Nat
  /\ Held(o, j + 1) = Held(o, j) + (o[j] % 128) * Weight(j)
  /\ IF o[j] >= 128 THEN j + 1 \in 1 .. k ELSE Held(o, j + 1) = w

\* One byte more of an encoding that has been read up to byte j.
LEMMA ReadNext ==
  ASSUME NEW o \in [0 .. 4 -> 0 .. 255], NEW k \in 0 .. 4, NEW w, Coded(o, k, w),
         NEW j \in 0 .. k
  PROVE  Reads(o, k, w, j)
  <1>1. j \in 0 .. 4 /\ j \in Nat /\ j + 1 \in Nat
    BY SMTT(60)
  <1>2. o[j] \in 0 .. 255 /\ o[j] \in Nat
    BY <1>1, SMTT(60)
  <1>3. o[j] % 128 \in Nat
    BY <1>2, Split
  <1>4. Held(o, j) \in Nat /\ Held(o, j + 1) \in Nat
    BY <1>1, HeldNat, Zenon
  <1>5. Held(o, j + 1) = Held(o, j) + (o[j] % 128) * Weight(j)
    <2>1. Agree(o, o, j)
      BY Zenon DEF Agree
    <2>2. Adds(o, o, j)
      BY <1>1, <2>1, HeldNext, ZenonT(60)
    <2> QED
      BY <2>2, Zenon DEF Adds
  <1>6. CASE o[j] >= 128
    <2>1. j # k
      BY <1>2, <1>6, SMTT(60) DEF Coded
    <2> QED
      BY <1>2, <1>3, <1>4, <1>5, <1>6, <2>1, SMTT(60) DEF Reads
  <1>7. CASE ~(o[j] >= 128)
    <2>1. j = k
      BY <1>1, <1>7 DEF Coded
    <2>2. Held(o, j + 1) = w
      BY <2>1, Zenon DEF Coded
    <2> QED
      BY <1>2, <1>3, <1>4, <1>5, <1>7, <2>2 DEF Reads
  <1> QED
    BY <1>6, <1>7, Zenon

\* The first byte read is what the first byte holds.
LEMMA ReadStep ==
  ASSUME IInv, luvL_buf_read_uleb128
  PROVE  IInv'
  <1> USE DEF IInv
  <1>1. out \in [0 .. 4 -> 0 .. 255] /\ pc = "get"
    BY Zenon DEF luvL_buf_read_uleb128, TypeInv
  <1>2. PICK k \in 0 .. 4 : Coded(out, k, orig)
    BY <1>1, Zenon DEF ReadInv
  <1>3. /\ out[0] % 128 \in Nat
        /\ Held(out, 1) = Held(out, 0) + (out[0] % 128) * Weight(0)
        /\ IF out[0] >= 128 THEN 1 \in 1 .. k ELSE Held(out, 1) = orig
    <2>1. 0 \in 0 .. k /\ 0 + 1 = 1
      OBVIOUS
    <2>2. Reads(out, k, orig, 0)
      BY <1>1, <1>2, <2>1, ReadNext, Zenon
    <2> QED
      BY <2>1, <2>2 DEF Reads
  <1>4. Held(out, 1) = out[0] % 128
    BY <1>3 DEF Held, Bits, Weight
  <1>5. v' = Held(out, 1) /\ v' \in Nat
    BY <1>3, <1>4, SMTT(60) DEF luvL_buf_read_uleb128
  <1>6. TypeInv'
    BY <1>5, Zenon DEF TypeInv, luvL_buf_read_uleb128
  <1>7. BufInv' /\ WriteInv'
    BY DEF TypeInv, BufInv, WriteInv, luvL_buf_read_uleb128
  <1>8. ReadInv'
    BY <1>2, <1>3, <1>5, SMTT(60) DEF ReadInv, luvL_buf_read_uleb128
  <1> QED
    BY <1>6, <1>7, <1>8, SMTT(60)

\* Each further byte adds what it holds, and the last one completes the integer.
LEMMA MoreStep ==
  ASSUME IInv, ReadsMore
  PROVE  IInv'
  <1> USE DEF IInv
  <1>1. out \in [0 .. 4 -> 0 .. 255] /\ pc = "more" /\ n \in Nat
    BY Zenon DEF ReadsMore, TypeInv
  <1>2. PICK k \in 0 .. 4 : Coded(out, k, orig) /\ n \in 1 .. k /\ v = Held(out, n)
    BY <1>1, Zenon DEF ReadInv
  <1>3. n \in 0 .. k
    BY <1>2
  <1>4. /\ Held(out, n + 1) \in Nat
        /\ Held(out, n + 1) = Held(out, n) + (out[n] % 128) * Weight(n)
        /\ IF out[n] >= 128 THEN n + 1 \in 1 .. k ELSE Held(out, n + 1) = orig
    <2>1. Reads(out, k, orig, n)
      BY <1>1, <1>2, <1>3, ReadNext, Zenon
    <2> QED
      BY <2>1, Zenon DEF Reads
  <1>5. v' = Held(out, n + 1) /\ n' = n + 1
    BY <1>2, <1>4, SMTT(60) DEF ReadsMore
  <1>6. TypeInv'
    BY <1>1, <1>4, <1>5, SMTT(60) DEF TypeInv, ReadsMore
  <1>7. BufInv' /\ WriteInv'
    BY DEF TypeInv, BufInv, WriteInv, ReadsMore
  <1>8. ReadInv'
    BY <1>2, <1>4, <1>5, SMTT(60) DEF ReadInv, ReadsMore
  <1> QED
    BY <1>6, <1>7, <1>8, Zenon

\* The end of a read keeps the invariant.
LEMMA EndsStep ==
  ASSUME IInv, ReadEnds
  PROVE  IInv'
  BY DEF IInv, TypeInv, BufInv, WriteInv, ReadInv, ReadEnds

\* Every step keeps the invariant.
LEMMA NextIInv == IInv /\ [Next]_vars => IInv'
  <1> SUFFICES ASSUME IInv, [Next]_vars
               PROVE  IInv'
    OBVIOUS
  <1>1. CASE \E l \in Lens : luvL_buf_write(l)
    BY <1>1, WriteStep, Zenon
  <1>2. CASE \E w \in Values : luvL_buf_write_uleb128(w)
    BY <1>2, WriteUlebStep, Zenon
  <1>3. CASE Need
    BY <1>3, DoublesStep, ReallocsStep, ZenonT(60) DEF Need
  <1>4. CASE UNCHANGED vars
    BY <1>4 DEF vars, IInv, TypeInv, BufInv, WriteInv, ReadInv
  <1> QED
    BY <1>1, <1>2, <1>3, <1>4, CopiesStep, ByteStep, LastStep, ReadStep, MoreStep, EndsStep, Zenon
    DEF Next

\* The invariant always holds.
LEMMA Invariance == Spec => []IInv
  BY InitIInv, NextIInv, PTL DEF Spec

\* luvL_buf_write and luvL_buf_write_uleb128 never write past the buffer that
\* luvL_buf_need has made, for strings of any length and at any fill.
THEOREM BufInBounds == Spec => []InBounds
  <1>1. IInv => InBounds
    BY DEF IInv, TypeInv, BufInv, InBounds
  <1> QED
    BY <1>1, Invariance, PTL

\* luvL_buf_read_uleb128 returns what luvL_buf_write_uleb128 was given, for
\* every integer of 32 bits.
THEOREM UlebReadBack == Spec => []ReadBack
  <1>1. IInv => ReadBack
    BY Zenon DEF IInv, ReadInv, ReadBack
  <1> QED
    BY <1>1, Invariance, PTL
=============================================================================
