---------------------------- MODULE QList_proofs ----------------------------
(***************************************************************************)
(* Proofs about QList: for any nodes and list heads, the pointers          *)
(* represent the lists, and the safe loop visits what was on its list.     *)
(***************************************************************************)
EXTENDS QList, ListLemmas

\* An entry is on one list, at one place.
OnePlace ==
    \A h, g \in Heads : \A i \in 1..Len(lists[h]), j \in 1..Len(lists[g]) :
        lists[h][i] = lists[g][j] => h = g /\ i = j

\* The loop has nothing to visit twice.
VisitOnce == \A i, j \in 1..Len(visit) : visit[i] = visit[j] => i = j

\* The inductive invariant.
IInv == QListTypeOK /\ OnePlace /\ Represents /\ VisitOnce /\ LoopOnSchedule

-----------------------------------------------------------------------------
(***************************************************************************)
(* Reading the lists.                                                      *)
(***************************************************************************)

\* The cells of a list: its head, its entries, and its head again.
LEMMA CellsOf ==
    ASSUME lists \in [Heads -> Seq(Node)], NEW h \in Heads
    PROVE  /\ Len(lists[h]) \in Nat /\ lists[h] \in Seq(Node)
           /\ DOMAIN lists[h] = 1..Len(lists[h])
           /\ At(h, 0) = h /\ At(h, Len(lists[h]) + 1) = h
           /\ \A i \in 1..Len(lists[h]) : At(h, i) = lists[h][i] /\ lists[h][i] \in Node
<1>1. lists[h] \in Seq(Node)
  OBVIOUS
<1>2. Len(lists[h]) \in Nat /\ DOMAIN lists[h] = 1..Len(lists[h])
  BY <1>1, LenProperties
<1>3. \A i \in 1..Len(lists[h]) : lists[h][i] \in Node
  BY <1>1, ElementOfSeq
<1> QED
  BY <1>1, <1>2, <1>3 DEF At

\* No two of them are the same.
LEMMA CellsDiffer ==
    ASSUME lists \in [Heads -> Seq(Node)], OnePlace,
           NEW h \in Heads, NEW g \in Heads,
           NEW i \in 0..Len(lists[h]), NEW j \in 0..Len(lists[g]), At(h, i) = At(g, j)
    PROVE  h = g /\ i = j
<1>1. /\ Len(lists[h]) \in Nat /\ At(h, 0) = h
      /\ \A k \in 1..Len(lists[h]) : At(h, k) = lists[h][k] /\ lists[h][k] \in Node
  BY CellsOf
<1>2. /\ Len(lists[g]) \in Nat /\ At(g, 0) = g
      /\ \A k \in 1..Len(lists[g]) : At(g, k) = lists[g][k] /\ lists[g][k] \in Node
  BY CellsOf
<1>3. CASE i = 0 /\ j = 0
  BY <1>1, <1>2, <1>3
<1>4. CASE i # 0 /\ j # 0
  <2>1. i \in 1..Len(lists[h]) /\ j \in 1..Len(lists[g])
    BY <1>1, <1>2, <1>4
  <2> QED BY <1>1, <1>2, <2>1 DEF OnePlace
<1>5. CASE i = 0 /\ j # 0
  BY <1>1, <1>2, <1>5, DistinctCells
<1>6. CASE i # 0 /\ j = 0
  BY <1>1, <1>2, <1>6, DistinctCells
<1> QED
  BY <1>3, <1>4, <1>5, <1>6

\* Nor when each is named as the one after another.
LEMMA CellsDifferAfter ==
    ASSUME lists \in [Heads -> Seq(Node)], OnePlace,
           NEW h \in Heads, NEW g \in Heads,
           NEW i \in 0..Len(lists[h]), NEW j \in 0..Len(lists[g]), At(h, i + 1) = At(g, j + 1)
    PROVE  h = g /\ i = j
<1> DEFINE Wrap(f, m) == IF m = Len(lists[f]) THEN 0 ELSE m + 1
<1>1. \A f \in Heads : Len(lists[f]) \in Nat /\ At(f, 0) = At(f, Len(lists[f]) + 1)
  BY CellsOf
<1>2. \A f \in Heads : \A m \in 0..Len(lists[f]) :
        /\ Wrap(f, m) \in 0..Len(lists[f]) /\ At(f, m + 1) = At(f, Wrap(f, m))
        /\ m = IF Wrap(f, m) = 0 THEN Len(lists[f]) ELSE Wrap(f, m) - 1
  BY <1>1
<1> HIDE DEF Wrap
<1>3. /\ Wrap(h, i) \in 0..Len(lists[h]) /\ Wrap(g, j) \in 0..Len(lists[g])
      /\ At(h, Wrap(h, i)) = At(g, Wrap(g, j))
  BY <1>2
<1>4. h = g /\ Wrap(h, i) = Wrap(g, j)
  BY <1>3, CellsDiffer
<1> QED
  BY <1>2, <1>4

\* All of this at once.
LEMMA Cells ==
    ASSUME lists \in [Heads -> Seq(Node)], OnePlace
    PROVE  /\ \A h \in Heads : /\ Len(lists[h]) \in Nat
                               /\ At(h, 0) = h /\ At(h, Len(lists[h]) + 1) = h
                               /\ \A i \in 0..(Len(lists[h]) + 1) : At(h, i) \in Cell
                               /\ \A i \in 1..Len(lists[h]) : At(h, i) \in Node
           /\ \A h, g \in Heads : \A i \in 0..Len(lists[h]), j \in 0..Len(lists[g]) :
                 /\ At(h, i) = At(g, j) => h = g /\ i = j
                 /\ At(h, i + 1) = At(g, j + 1) => h = g /\ i = j
<1>1. ASSUME NEW h \in Heads
      PROVE  /\ Len(lists[h]) \in Nat
             /\ At(h, 0) = h /\ At(h, Len(lists[h]) + 1) = h
             /\ \A i \in 0..(Len(lists[h]) + 1) : At(h, i) \in Cell
             /\ \A i \in 1..Len(lists[h]) : At(h, i) \in Node
  BY CellsOf DEF Cell
<1> QED
  BY <1>1, CellsDiffer, CellsDifferAfter

\* What Listed() says.
LEMMA ListedMeans ==
    ASSUME lists \in [Heads -> Seq(Node)], NEW n
    PROVE  Listed(n) <=> \E h \in Heads : \E i \in 1..Len(lists[h]) : lists[h][i] = n
<1>1. \A h \in Heads : lists[h] \in Seq(Node)
  OBVIOUS
<1> QED
  BY <1>1, ToSetMember DEF Listed
-----------------------------------------------------------------------------
(***************************************************************************)
(* What each operation does to the lists.                                  *)
(***************************************************************************)

\* The other lists stay as they are.
Others(h) == \A g \in Heads \ {h} : lists'[g] = lists[g]

\* Entry n comes into the list h at position p.
Inserted(h, n, p) ==
    /\ lists' \in [Heads -> Seq(Node)] /\ Others(h)
    /\ Len(lists'[h]) = Len(lists[h]) + 1
    /\ lists'[h][p] = n
    /\ \A i \in 1..(p - 1) : lists'[h][i] = lists[h][i]
    /\ \A i \in (p + 1)..(Len(lists[h]) + 1) : lists'[h][i] = lists[h][i - 1]

\* qlist_add_head(): it comes first.
LEMMA AfterAddHead ==
    ASSUME lists \in [Heads -> Seq(Node)], NEW h \in Heads, NEW n \in Node,
           lists' = [lists EXCEPT ![h] = Cons(n, @)]
    PROVE  Inserted(h, n, 1)
<1>1. lists[h] \in Seq(Node)
  OBVIOUS
<1>2. \A q \in Seq(Node) :
        /\ Cons(n, q) \in Seq(Node) /\ Len(Cons(n, q)) = Len(q) + 1
        /\ Cons(n, q)[1] = n
        /\ \A j \in 2..(Len(q) + 1) : Cons(n, q)[j] = q[j - 1]
  BY ConsElements
<1>3. lists'[h] = Cons(n, lists[h]) /\ Others(h)
  BY DEF Others
<1> QED
  BY <1>1, <1>2, <1>3 DEF Inserted

\* qlist_add_tail(): it comes last.
LEMMA AfterAddTail ==
    ASSUME lists \in [Heads -> Seq(Node)], NEW h \in Heads, NEW n \in Node,
           lists' = [lists EXCEPT ![h] = Append(@, n)]
    PROVE  Inserted(h, n, Len(lists[h]) + 1)
<1>1. lists[h] \in Seq(Node) /\ Len(lists[h]) \in Nat
  BY LenProperties
<1>2. /\ Append(lists[h], n) \in Seq(Node)
      /\ Len(Append(lists[h], n)) = Len(lists[h]) + 1
      /\ \A j \in 1..Len(lists[h]) : Append(lists[h], n)[j] = lists[h][j]
      /\ Append(lists[h], n)[Len(lists[h]) + 1] = n
  BY <1>1, AppendProperties
<1>3. lists'[h] = Append(lists[h], n) /\ Others(h)
  BY DEF Others
<1> QED
  BY <1>1, <1>2, <1>3 DEF Inserted

\* qlist_del_entry() of the entry at position k: those after it move up.
LEMMA AfterDelEntry ==
    ASSUME lists \in [Heads -> Seq(Node)], OnePlace, NEW h \in Heads, NEW n \in ToSet(lists[h]),
           lists' = [lists EXCEPT ![h] = RemoveAt(@, Index(@, n))]
    PROVE  /\ lists' \in [Heads -> Seq(Node)] /\ Others(h)
           /\ n \in Node
           /\ Len(lists'[h]) = Len(lists[h]) - 1
           /\ \E k \in 1..Len(lists[h]) :
                /\ lists[h][k] = n
                /\ \A i \in 1..(k - 1) : lists'[h][i] = lists[h][i]
                /\ \A i \in k..(Len(lists[h]) - 1) : lists'[h][i] = lists[h][i + 1]
<1> DEFINE k == Index(lists[h], n)
<1>1. lists[h] \in Seq(Node)
  OBVIOUS
<1>2. DOMAIN lists[h] = 1..Len(lists[h]) /\ \E i \in 1..Len(lists[h]) : lists[h][i] = n
  BY <1>1, ToSetMember, LenProperties
<1>3. k \in 1..Len(lists[h]) /\ lists[h][k] = n
  BY <1>2 DEF Index
<1> HIDE DEF k
<1>4. n \in Node
  BY <1>1, <1>3, ElementOfSeq
<1>5. /\ RemoveAt(lists[h], k) \in Seq(Node)
      /\ Len(RemoveAt(lists[h], k)) = Len(lists[h]) - 1
      /\ \A i \in 1..(k - 1) : RemoveAt(lists[h], k)[i] = lists[h][i]
      /\ \A i \in k..(Len(lists[h]) - 1) : RemoveAt(lists[h], k)[i] = lists[h][i + 1]
  BY <1>1, <1>3, RemoveAtElements
<1>6. lists'[h] = RemoveAt(lists[h], k) /\ Others(h) /\ lists' \in [Heads -> Seq(Node)]
  BY <1>5 DEF k, Others
<1> QED
  BY <1>3, <1>4, <1>5, <1>6

-----------------------------------------------------------------------------
(***************************************************************************)
(* OnePlace and Represents are preserved by each operation.                *)
(***************************************************************************)

\* Adding an entry between two cells that follow each other.
LEMMA InsertKeeps ==
    ASSUME IInv, NEW h \in Heads, NEW n \in Node, ~Listed(n),
           NEW p \in 1..(Len(lists[h]) + 1), Inserted(h, n, p),
           next' = [next EXCEPT ![At(h, p - 1)] = n, ![n] = At(h, p)],
           prev' = [prev EXCEPT ![At(h, p)] = n, ![n] = At(h, p - 1)]
    PROVE  OnePlace' /\ Represents'
<1> DEFINE L == Len(lists[h])
<1>1. lists \in [Heads -> Seq(Node)]
  BY DEF IInv, QListTypeOK
<1>2. /\ lists' \in [Heads -> Seq(Node)] /\ Others(h)
      /\ Len(lists'[h]) = L + 1 /\ lists'[h][p] = n
      /\ \A i \in 1..(p - 1) : lists'[h][i] = lists[h][i]
      /\ \A i \in (p + 1)..(L + 1) : lists'[h][i] = lists[h][i - 1]
  BY DEF Inserted
<1>3. \A g \in Heads : /\ Len(lists[g]) \in Nat
                       /\ \A i \in 1..Len(lists[g]) : At(g, i) = lists[g][i] /\ lists[g][i] # n
  BY <1>1, CellsOf, ListedMeans
<1>4. /\ \A g \in Heads : /\ At(g, 0) = g /\ At(g, Len(lists[g]) + 1) = g
                          /\ \A i \in 0..(Len(lists[g]) + 1) : At(g, i) \in Cell \ {n}
      /\ \A f, g \in Heads : \A i \in 0..Len(lists[f]), j \in 0..Len(lists[g]) :
            /\ At(f, i) = At(g, j) => f = g /\ i = j
            /\ At(f, i + 1) = At(g, j + 1) => f = g /\ i = j
  <2>1. \A g \in Heads : \A i \in 0..(Len(lists[g]) + 1) : At(g, i) \in Cell \ {n}
    <3> TAKE g \in Heads
    <3> TAKE i \in 0..(Len(lists[g]) + 1)
    <3>1. Len(lists[g]) \in Nat /\ At(g, i) \in Cell /\ At(g, 0) = g /\ At(g, Len(lists[g]) + 1) = g
      BY <1>1, Cells DEF IInv
    <3>2. i = 0 \/ i = Len(lists[g]) + 1 \/ i \in 1..Len(lists[g])
      BY <3>1
    <3>3. g # n
      BY DistinctCells
    <3> QED BY <1>3, <3>1, <3>2, <3>3
  <2> QED BY <1>1, <2>1, Cells DEF IInv
<1>0. L \in Nat /\ p \in Int /\ 1 <= p /\ p <= L + 1
  BY <1>3
<1>5. OnePlace'
  <2> SUFFICES ASSUME NEW f \in Heads, NEW g \in Heads,
                      NEW i \in 1..Len(lists'[f]), NEW j \in 1..Len(lists'[g]),
                      lists'[f][i] = lists'[g][j]
               PROVE  f = g /\ i = j
    BY DEF OnePlace
  <2>1. ASSUME NEW e \in Heads, NEW m \in 1..Len(lists'[e])
        PROVE  \/ e = h /\ m = p /\ lists'[e][m] = n
               \/ e = h /\ m > p /\ m - 1 \in 1..Len(lists[e]) /\ lists'[e][m] = lists[e][m - 1]
               \/ e = h /\ m < p /\ m \in 1..Len(lists[e]) /\ lists'[e][m] = lists[e][m]
               \/ e # h /\ m \in 1..Len(lists[e]) /\ lists'[e][m] = lists[e][m]
    <3>1. CASE e # h
      BY <1>2, <3>1 DEF Others
    <3>2. CASE e = h
      <4>1. m \in 1..(L + 1)
        BY <1>2, <3>2
      <4>2. CASE m = p
        BY <1>2, <3>2, <4>2
      <4>3. CASE m < p
        <5>1. m \in 1..(p - 1) /\ m \in 1..L
          BY <1>0, <4>1, <4>3
        <5> QED BY <1>2, <3>2, <4>3, <5>1
      <4>4. CASE m > p
        <5>1. m \in (p + 1)..(L + 1) /\ m - 1 \in 1..L
          BY <1>0, <4>1, <4>4
        <5> QED BY <1>2, <3>2, <4>4, <5>1
      <4> QED BY <1>0, <4>1, <4>2, <4>3, <4>4
    <3> QED BY <3>1, <3>2
  <2>2. /\ i \in Int /\ j \in Int
        /\ \A e \in Heads : \A m \in 1..Len(lists[e]) : lists[e][m] # n
    BY <1>2, <1>3
  <2>3. CASE lists'[f][i] = n
    <3>1. f = h /\ i = p
      BY <2>1, <2>2, <2>3
    <3>2. lists'[g][j] = n
      BY <2>3
    <3>3. g = h /\ j = p
      BY <2>1, <2>2, <3>2
    <3> QED BY <3>1, <3>3
  <2>4. CASE lists'[f][i] # n
    <3> DEFINE I == IF f = h /\ i > p THEN i - 1 ELSE i
               J == IF g = h /\ j > p THEN j - 1 ELSE j
    <3>1. I \in 1..Len(lists[f]) /\ lists'[f][i] = lists[f][I] /\ (f = h => i # p)
      BY <2>1, <2>2, <2>4
    <3>2. J \in 1..Len(lists[g]) /\ lists'[g][j] = lists[g][J] /\ (g = h => j # p)
      BY <2>1, <2>2, <2>4
    <3> HIDE DEF I, J
    <3>3. lists[f][I] = lists[g][J]
      BY <3>1, <3>2
    <3>4. OnePlace
      BY DEF IInv
    <3>5. f = g /\ I = J
      BY <3>1, <3>2, <3>3, <3>4 DEF OnePlace
    <3> QED BY <1>0, <2>2, <3>1, <3>2, <3>5 DEF I, J
  <2> QED BY <2>3, <2>4
<1>6. /\ \A i \in 0..(p - 1) : At(h, i)' = At(h, i)
      /\ At(h, p)' = n
      /\ \A i \in (p + 1)..(L + 2) : At(h, i)' = At(h, i - 1)
  <2>1. DOMAIN (lists'[h]) = 1..(L + 1) /\ DOMAIN (lists[h]) = 1..L
    BY <1>1, <1>2, LenProperties
  <2>2. ASSUME NEW i \in 0..(p - 1) PROVE At(h, i)' = At(h, i)
    BY <1>0, <1>2, <2>1 DEF At
  <2>3. ASSUME NEW i \in (p + 1)..(L + 2) PROVE At(h, i)' = At(h, i - 1)
    BY <1>0, <1>2, <2>1 DEF At
  <2>4. At(h, p)' = n
    BY <1>0, <1>2, <2>1 DEF At
  <2> QED BY <2>2, <2>3, <2>4
<1>7. \A g \in Heads \ {h} : Len(lists'[g]) = Len(lists[g]) /\ \A i \in Int : At(g, i)' = At(g, i)
  BY <1>2 DEF At, Others
<1>8. \A g \in Heads : \A i \in 0..Len(lists[g]) :
        next[At(g, i)] = At(g, i + 1) /\ prev[At(g, i + 1)] = At(g, i)
  BY DEF IInv, Represents
<1>9. next \in [Cell -> Cell \cup {NULL}] /\ prev \in [Cell -> Cell \cup {NULL}]
  BY DEF IInv, QListTypeOK
<1>10. /\ p - 1 \in 0..Len(lists[h]) /\ p - 1 + 1 = p
       /\ At(h, p - 1) \in Cell \ {n} /\ At(h, p) \in Cell \ {n} /\ n \in Cell
  <2>1. p - 1 \in 0..Len(lists[h]) /\ p - 1 + 1 = p
    BY <1>0
  <2>2. p - 1 \in 0..(Len(lists[h]) + 1) /\ p \in 0..(Len(lists[h]) + 1)
    BY <1>0
  <2> QED BY <1>4, <2>1, <2>2 DEF Cell
<1>11. /\ next'[At(h, p - 1)] = n /\ next'[n] = At(h, p)
       /\ prev'[At(h, p)] = n /\ prev'[n] = At(h, p - 1)
       /\ \A c \in Cell \ {n} : /\ c # At(h, p - 1) => next'[c] = next[c]
                                /\ c # At(h, p) => prev'[c] = prev[c]
  BY <1>9, <1>10
\* Two cells that followed each other, not at the place of n, still do.
<1>12. ASSUME NEW g \in Heads, NEW i \in 0..Len(lists[g]), ~(g = h /\ i = p - 1)
       PROVE  next'[At(g, i)] = At(g, i + 1) /\ prev'[At(g, i + 1)] = At(g, i)
  <2>1. /\ i \in 0..(Len(lists[g]) + 1) /\ i + 1 \in 0..(Len(lists[g]) + 1)
    BY <1>3
  <2>2. At(g, i) # At(h, p - 1) /\ At(g, i + 1) # At(h, p)
    BY <1>4, <1>10, <1>12
  <2>3. At(g, i) \in Cell \ {n} /\ At(g, i + 1) \in Cell \ {n}
    BY <1>4, <2>1
  <2> QED BY <1>8, <1>11, <2>2, <2>3
<1> HIDE DEF L
<1>13. Represents'
  <2>1. ASSUME NEW g \in Heads \ {h}, NEW i \in 0..Len(lists'[g])
        PROVE  next'[At(g, i)'] = At(g, i + 1)' /\ prev'[At(g, i + 1)'] = At(g, i)'
    <3>1. i \in Int /\ i + 1 \in Int /\ i \in 0..Len(lists[g])
      BY <1>3, <1>7
    <3>2. At(g, i)' = At(g, i) /\ At(g, i + 1)' = At(g, i + 1)
      BY <1>7, <3>1
    <3>3. next'[At(g, i)] = At(g, i + 1) /\ prev'[At(g, i + 1)] = At(g, i)
      BY <1>12, <3>1
    <3> QED BY <3>2, <3>3
  <2>2. ASSUME NEW i \in 0..Len(lists'[h])
        PROVE  next'[At(h, i)'] = At(h, i + 1)' /\ prev'[At(h, i + 1)'] = At(h, i)'
    <3>1. CASE i < p - 1
      <4>1. i \in 0..(p - 1) /\ i + 1 \in 0..(p - 1) /\ i \in 0..Len(lists[h]) /\ i # p - 1
        BY <1>0, <3>1 DEF L
      <4> QED BY <1>6, <1>12, <4>1
    <3>2. CASE i = p - 1
      <4>1. i \in 0..(p - 1) /\ i + 1 = p
        BY <1>0, <3>2
      <4> QED BY <1>6, <1>11, <3>2, <4>1
    <3>3. CASE i = p
      <4>1. p + 1 \in (p + 1)..(L + 2) /\ p + 1 - 1 = p
        BY <1>0
      <4> QED BY <1>6, <1>11, <3>3, <4>1
    <3>4. CASE i > p
      <4>1. /\ i \in (p + 1)..(L + 2) /\ i + 1 \in (p + 1)..(L + 2) /\ i + 1 - 1 = i
            /\ i - 1 \in 0..Len(lists[h]) /\ i - 1 # p - 1 /\ i - 1 + 1 = i
        BY <1>0, <1>2, <3>4 DEF L
      <4>2. At(h, i)' = At(h, i - 1) /\ At(h, i + 1)' = At(h, i)
        BY <1>6, <4>1
      <4>3. next'[At(h, i - 1)] = At(h, i) /\ prev'[At(h, i)] = At(h, i - 1)
        BY <1>12, <4>1
      <4> QED BY <4>2, <4>3
    <3>5. i \in Int
      BY <1>0, <1>2
    <3> QED BY <1>0, <3>1, <3>2, <3>3, <3>4, <3>5
  <2>3. ASSUME NEW m \in Node, ~Listed(m)' PROVE next'[m] = NULL /\ prev'[m] = NULL
    <3>1. \A g \in Heads : \A i \in 1..Len(lists'[g]) : lists'[g][i] # m
      BY <1>2, <2>3, ToSetMember DEF Listed
    <3>2. m # n
      BY <1>0, <1>2, <3>1
    <3>3. ~Listed(m)
      <4> SUFFICES ASSUME NEW g \in Heads, NEW i \in 1..Len(lists[g]), lists[g][i] = m PROVE FALSE
        BY <1>1, ListedMeans
      <4>1. CASE g = h /\ i < p
        <5>1. i \in 1..(p - 1) /\ i \in 1..Len(lists'[h])
          BY <1>0, <1>2, <4>1 DEF L
        <5> QED BY <1>2, <3>1, <4>1, <5>1
      <4>2. CASE g = h /\ i >= p
        <5>1. i + 1 \in (p + 1)..(L + 1) /\ i + 1 - 1 = i /\ i + 1 \in 1..Len(lists'[h])
          BY <1>0, <1>2, <4>2 DEF L
        <5> QED BY <1>2, <3>1, <4>2, <5>1
      <4>3. CASE g # h
        BY <1>2, <3>1, <4>3 DEF Others
      <4>4. i \in Int
        BY <1>3
      <4> QED BY <1>0, <4>1, <4>2, <4>3, <4>4
    <3>4. next[m] = NULL /\ prev[m] = NULL
      BY <3>3 DEF IInv, Represents
    <3>5. m \in Cell \ {n} /\ NULL \notin Cell
      BY <3>2, DistinctCells DEF Cell
    <3>6. next[At(h, p - 1)] # NULL /\ prev[At(h, p)] # NULL
      BY <1>8, <1>10, <3>5
    <3> QED BY <1>11, <3>4, <3>5, <3>6
  <2> QED BY <2>1, <2>2, <2>3 DEF Represents
<1> QED
  BY <1>5, <1>13

\* Deleting an entry.
LEMMA DeleteKeeps ==
    ASSUME IInv, NEW h \in Heads, NEW n \in Node, DelEntry(h, n)
    PROVE  OnePlace' /\ Represents'
<1> DEFINE L == Len(lists[h])
<1>1. /\ lists \in [Heads -> Seq(Node)] /\ OnePlace /\ n \in ToSet(lists[h])
      /\ next \in [Cell -> Cell \cup {NULL}] /\ prev \in [Cell -> Cell \cup {NULL}]
      /\ lists' = [lists EXCEPT ![h] = RemoveAt(@, Index(@, n))]
  BY DEF IInv, QListTypeOK, DelEntry
<1>2. /\ lists' \in [Heads -> Seq(Node)] /\ Others(h)
      /\ Len(lists'[h]) = L - 1
      /\ \E k \in 1..L :
           /\ lists[h][k] = n
           /\ \A i \in 1..(k - 1) : lists'[h][i] = lists[h][i]
           /\ \A i \in k..(L - 1) : lists'[h][i] = lists[h][i + 1]
  BY <1>1, AfterDelEntry
<1>3. PICK k \in 1..L :
        /\ lists[h][k] = n
        /\ \A i \in 1..(k - 1) : lists'[h][i] = lists[h][i]
        /\ \A i \in k..(L - 1) : lists'[h][i] = lists[h][i + 1]
  BY <1>2
<1>4. /\ \A g \in Heads : /\ Len(lists[g]) \in Nat
                          /\ At(g, 0) = g /\ At(g, Len(lists[g]) + 1) = g
                          /\ \A i \in 0..(Len(lists[g]) + 1) : At(g, i) \in Cell
      /\ \A f, g \in Heads : \A i \in 0..Len(lists[f]), j \in 0..Len(lists[g]) :
            /\ At(f, i) = At(g, j) => f = g /\ i = j
            /\ At(f, i + 1) = At(g, j + 1) => f = g /\ i = j
  BY <1>1, Cells
<1>5. /\ L \in Nat /\ k \in Int /\ 1 <= k /\ k <= L
      /\ k \in 0..Len(lists[h]) /\ k - 1 \in 0..Len(lists[h]) /\ k - 1 + 1 = k
      /\ k - 1 \in 0..(Len(lists[h]) + 1) /\ k + 1 \in 0..(Len(lists[h]) + 1)
  BY <1>4
<1>6. At(h, k) = n
  BY <1>1, <1>3, CellsOf
<1>7. OnePlace'
  <2> SUFFICES ASSUME NEW f \in Heads, NEW g \in Heads,
                      NEW i \in 1..Len(lists'[f]), NEW j \in 1..Len(lists'[g]),
                      lists'[f][i] = lists'[g][j]
               PROVE  f = g /\ i = j
    BY DEF OnePlace
  <2> DEFINE Old(e, m) == IF e = h /\ m >= k THEN m + 1 ELSE m
  <2>1. ASSUME NEW e \in Heads, NEW m \in 1..Len(lists'[e])
        PROVE  Old(e, m) \in 1..Len(lists[e]) /\ lists'[e][m] = lists[e][Old(e, m)] /\ m \in Int
    <3>1. CASE e # h
      <4>1. lists'[e] = lists[e] /\ m \in Int
        BY <1>2, <1>4, <3>1 DEF Others
      <4> QED BY <3>1, <4>1
    <3>2. CASE e = h
      <4>1. m \in 1..(L - 1) /\ m \in Int
        BY <1>2, <1>5, <3>2
      <4>2. CASE m < k
        <5>1. m \in 1..(k - 1) /\ m \in 1..L
          BY <1>5, <4>1, <4>2
        <5>2. Old(e, m) = m /\ lists'[h][m] = lists[h][m]
          BY <1>3, <1>5, <4>1, <4>2, <5>1
        <5> QED BY <3>2, <4>1, <5>1, <5>2
      <4>3. CASE m >= k
        <5>1. m \in k..(L - 1) /\ m + 1 \in 1..L
          BY <1>5, <4>1, <4>3
        <5> QED BY <1>3, <1>5, <3>2, <4>1, <4>3, <5>1
      <4> QED BY <1>5, <4>1, <4>2, <4>3
    <3> QED BY <3>1, <3>2
  <2> HIDE DEF Old
  <2>2. lists[f][Old(f, i)] = lists[g][Old(g, j)]
    BY <2>1
  <2>3. f = g /\ Old(f, i) = Old(g, j)
    BY <1>1, <2>1, <2>2 DEF OnePlace
  <2>4. i \in Int /\ j \in Int
    BY <2>1
  <2> QED BY <1>5, <2>3, <2>4 DEF Old
<1>8. /\ \A i \in 0..(k - 1) : At(h, i)' = At(h, i)
      /\ \A i \in k..L : At(h, i)' = At(h, i + 1)
  <2>1. DOMAIN (lists'[h]) = 1..(L - 1) /\ DOMAIN (lists[h]) = 1..L
    BY <1>1, <1>2, LenProperties
  <2>2. ASSUME NEW i \in 0..(k - 1) PROVE At(h, i)' = At(h, i)
    BY <1>3, <1>5, <2>1 DEF At
  <2>3. ASSUME NEW i \in k..L PROVE At(h, i)' = At(h, i + 1)
    BY <1>3, <1>5, <2>1 DEF At
  <2> QED BY <2>2, <2>3
<1>9. \A g \in Heads \ {h} : Len(lists'[g]) = Len(lists[g]) /\ \A i \in Int : At(g, i)' = At(g, i)
  BY <1>2 DEF At, Others
<1>10. \A g \in Heads : \A i \in 0..Len(lists[g]) :
         next[At(g, i)] = At(g, i + 1) /\ prev[At(g, i + 1)] = At(g, i)
  BY DEF IInv, Represents
<1>11. /\ next[n] = At(h, k + 1) /\ prev[n] = At(h, k - 1)
       /\ At(h, k - 1) \in Cell \ {n} /\ At(h, k + 1) \in Cell \ {n} /\ n \in Cell
  <2>1. next[n] = At(h, k + 1) /\ prev[n] = At(h, k - 1)
    BY <1>5, <1>6, <1>10
  <2>2. At(h, k - 1) # At(h, k)
    BY <1>4, <1>5
  <2>3. At(h, k + 1) # At(h, k - 1 + 1)
    BY <1>4, <1>5
  <2>4. At(h, k - 1) \in Cell /\ At(h, k + 1) \in Cell /\ n \in Cell
    BY <1>4, <1>5, DistinctCells DEF Cell
  <2> QED BY <1>5, <1>6, <2>1, <2>2, <2>3, <2>4
<1>12. /\ next'[At(h, k - 1)] = At(h, k + 1) /\ prev'[At(h, k + 1)] = At(h, k - 1)
       /\ next'[n] = NULL /\ prev'[n] = NULL
       /\ \A c \in Cell \ {n} : /\ c # At(h, k - 1) => next'[c] = next[c]
                                /\ c # At(h, k + 1) => prev'[c] = prev[c]
  <2>1. /\ next' = [next EXCEPT ![At(h, k - 1)] = At(h, k + 1), ![n] = NULL]
        /\ prev' = [prev EXCEPT ![At(h, k + 1)] = At(h, k - 1), ![n] = NULL]
    BY <1>11 DEF DelEntry
  <2> QED BY <1>1, <1>11, <2>1
\* Two cells that followed each other, and neither is n, still do.
<1>13. ASSUME NEW g \in Heads, NEW i \in 0..Len(lists[g]), ~(g = h /\ i = k - 1), ~(g = h /\ i = k)
       PROVE  next'[At(g, i)] = At(g, i + 1) /\ prev'[At(g, i + 1)] = At(g, i)
  <2>1. /\ i \in 0..(Len(lists[g]) + 1) /\ i + 1 \in 0..(Len(lists[g]) + 1)
    BY <1>4
  <2>2. At(g, i) # At(h, k - 1) /\ At(g, i) # At(h, k)
    BY <1>4, <1>5, <1>13
  <2>3. At(g, i + 1) # At(h, k + 1) /\ At(g, i + 1) # At(h, k - 1 + 1)
    BY <1>4, <1>5, <1>13
  <2>4. At(g, i) \in Cell \ {n} /\ At(g, i + 1) \in Cell \ {n}
    BY <1>4, <1>5, <1>6, <2>1, <2>2, <2>3
  <2> QED BY <1>10, <1>12, <2>2, <2>3, <2>4
<1> HIDE DEF L
<1>14. Represents'
  <2>1. ASSUME NEW g \in Heads \ {h}, NEW i \in 0..Len(lists'[g])
        PROVE  next'[At(g, i)'] = At(g, i + 1)' /\ prev'[At(g, i + 1)'] = At(g, i)'
    <3>1. i \in Int /\ i + 1 \in Int /\ i \in 0..Len(lists[g])
      BY <1>4, <1>9
    <3>2. At(g, i)' = At(g, i) /\ At(g, i + 1)' = At(g, i + 1)
      BY <1>9, <3>1
    <3>3. next'[At(g, i)] = At(g, i + 1) /\ prev'[At(g, i + 1)] = At(g, i)
      BY <1>13, <3>1
    <3> QED BY <3>2, <3>3
  <2>2. ASSUME NEW i \in 0..Len(lists'[h])
        PROVE  next'[At(h, i)'] = At(h, i + 1)' /\ prev'[At(h, i + 1)'] = At(h, i)'
    <3>1. i \in Int /\ i \in 0..(L - 1)
      BY <1>2, <1>5
    <3>2. CASE i < k - 1
      <4>1. i \in 0..(k - 1) /\ i + 1 \in 0..(k - 1) /\ i \in 0..Len(lists[h]) /\ i # k - 1 /\ i # k
        BY <1>5, <3>1, <3>2 DEF L
      <4>2. At(h, i)' = At(h, i) /\ At(h, i + 1)' = At(h, i + 1)
        BY <1>8, <4>1
      <4>3. next'[At(h, i)] = At(h, i + 1) /\ prev'[At(h, i + 1)] = At(h, i)
        BY <1>13, <4>1
      <4> QED BY <4>2, <4>3
    <3>3. CASE i = k - 1
      <4>1. i \in 0..(k - 1) /\ i + 1 = k /\ k \in k..L
        BY <1>5, <3>3
      <4>2. At(h, i)' = At(h, k - 1) /\ At(h, i + 1)' = At(h, k + 1)
        BY <1>8, <3>3, <4>1
      <4> QED BY <1>12, <4>2
    <3>4. CASE i >= k
      <4>1. i \in k..L /\ i + 1 \in k..L /\ i + 1 \in 0..Len(lists[h]) /\ i + 1 # k - 1 /\ i + 1 # k
        BY <1>5, <3>1, <3>4 DEF L
      <4>2. At(h, i)' = At(h, i + 1) /\ At(h, i + 1)' = At(h, i + 1 + 1)
        BY <1>8, <4>1
      <4>3. next'[At(h, i + 1)] = At(h, i + 1 + 1) /\ prev'[At(h, i + 1 + 1)] = At(h, i + 1)
        BY <1>13, <4>1
      <4> QED BY <4>2, <4>3
    <3> QED BY <1>5, <3>1, <3>2, <3>3, <3>4
  <2>3. ASSUME NEW m \in Node, ~Listed(m)' PROVE next'[m] = NULL /\ prev'[m] = NULL
    <3>1. CASE m = n
      BY <1>12, <3>1
    <3>2. CASE m # n
      <4>1. \A g \in Heads : \A i \in 1..Len(lists'[g]) : lists'[g][i] # m
        BY <1>2, <2>3, ToSetMember DEF Listed
      <4>2. ~Listed(m)
        <5> SUFFICES ASSUME NEW g \in Heads, NEW i \in 1..Len(lists[g]), lists[g][i] = m PROVE FALSE
          BY <1>1, ListedMeans
        <5>1. i \in Int
          BY <1>4
        <5>2. CASE g = h /\ i < k
          <6>1. i \in 1..(k - 1) /\ i \in 1..Len(lists'[h])
            BY <1>2, <1>5, <5>1, <5>2
          <6> QED BY <1>3, <4>1, <5>2, <6>1
        <5>3. CASE g = h /\ i = k
          BY <1>3, <3>2, <5>3
        <5>4. CASE g = h /\ i > k
          <6>1. i - 1 \in k..(L - 1) /\ i - 1 + 1 = i /\ i - 1 \in 1..Len(lists'[h])
            BY <1>2, <1>5, <5>1, <5>4 DEF L
          <6> QED BY <1>3, <4>1, <5>4, <6>1
        <5>5. CASE g # h
          BY <1>2, <4>1, <5>5 DEF Others
        <5> QED BY <1>5, <5>1, <5>2, <5>3, <5>4, <5>5
      <4>3. next[m] = NULL /\ prev[m] = NULL
        BY <4>2 DEF IInv, Represents
      <4>4. m \in Cell \ {n} /\ NULL \notin Cell
        BY <3>2, DistinctCells DEF Cell
      <4>5. next[At(h, k - 1)] = n /\ prev[At(h, k + 1)] = n
        BY <1>5, <1>6, <1>10
      <4> QED BY <1>11, <1>12, <4>3, <4>4, <4>5
    <3> QED BY <3>1, <3>2
  <2> QED BY <2>1, <2>2, <2>3 DEF Represents
<1> QED
  BY <1>7, <1>14

-----------------------------------------------------------------------------
(***************************************************************************)
(* The loop and the types.                                                 *)
(***************************************************************************)

\* The cells that next leads to from a cell of a list.
LEMMA FollowsNext ==
    ASSUME IInv, NEW h \in Heads, NEW i \in 0..Len(lists[h])
    PROVE  next[At(h, i)] = At(h, i + 1) /\ At(h, i + 1) \in Cell
<1>1. Len(lists[h]) \in Nat /\ \A j \in 0..(Len(lists[h]) + 1) : At(h, j) \in Cell
  BY Cells DEF IInv, QListTypeOK
<1>2. i + 1 \in 0..(Len(lists[h]) + 1)
  BY <1>1
<1> QED
  BY <1>1, <1>2 DEF IInv, Represents

\* The start of the loop.
LEMMA ForeachKeeps ==
    ASSUME IInv, NEW h \in Heads, Foreach(h)
    PROVE  LoopOnSchedule' /\ VisitOnce' /\ pos' \in Cell /\ posN' \in Cell
<1>1. /\ lists[h] \in Seq(Node) /\ Len(lists[h]) \in Nat /\ DOMAIN lists[h] = 1..Len(lists[h])
      /\ At(h, 0) = h /\ At(h, Len(lists[h]) + 1) = h
      /\ \A i \in 1..Len(lists[h]) : At(h, i) = lists[h][i]
  BY CellsOf DEF IInv, QListTypeOK
<1>2. /\ next' = next /\ lists' = lists /\ over' = h /\ visit' = lists[h]
      /\ pos' = next[h] /\ posN' = next[next[h]]
  BY DEF Foreach
<1>3. 0 \in 0..Len(lists[h]) /\ 0 + 1 = 1 /\ (lists[h] # <<>> => 1 \in 0..Len(lists[h]) /\ 1 + 1 = 2)
  BY <1>1, EmptySeq
<1>4. pos' = At(h, 1) /\ pos' \in Cell
  BY <1>1, <1>2, <1>3, FollowsNext
<1>5. CASE lists[h] = <<>>
  <2>1. Len(lists[h]) + 1 = 1
    BY <1>5
  <2>2. pos' = h
    BY <1>1, <1>4, <2>1
  <2>3. posN' = pos'
    BY <1>2, <2>2
  <2>4. VisitOnce'
    BY <1>2, <1>5 DEF VisitOnce
  <2> QED BY <1>2, <1>4, <1>5, <2>2, <2>3, <2>4 DEF LoopOnSchedule
<1>6. CASE lists[h] # <<>>
  <2>1. posN' = At(h, 2) /\ posN' \in Cell
    BY <1>2, <1>3, <1>4, <1>6, FollowsNext
  <2>2. Len(lists[h]) >= 1
    BY <1>1, <1>6, EmptySeq
  <2>3. pos' = lists[h][1]
    BY <1>1, <1>4, <2>2
  <2>4. posN' = IF Len(lists[h]) = 1 THEN h ELSE lists[h][2]
    <3>1. CASE Len(lists[h]) = 1
      <4>1. Len(lists[h]) + 1 = 2
        BY <3>1
      <4>2. At(h, 2) = h
        BY <1>1, <4>1
      <4> QED BY <2>1, <3>1, <4>2
    <3>2. CASE Len(lists[h]) # 1
      <4>1. Len(lists[h]) \in Nat
        BY <1>1
      <4>2. 2 \in 1..Len(lists[h])
        <5>1. \A a \in Nat : a >= 1 /\ a # 1 => 2 \in 1..a
          OBVIOUS
        <5> QED BY <2>2, <3>2, <4>1, <5>1
      <4>3. At(h, 2) = lists[h][2]
        BY <1>1, <4>2
      <4> QED BY <2>1, <3>2, <4>3
    <3> QED BY <3>1, <3>2
  <2>5. \A i \in 2..Len(lists[h]) :
          /\ (Len(lists[h]) - Len(lists[h])) + i \in DOMAIN lists[h]
          /\ lists[h][i] = lists[h][(Len(lists[h]) - Len(lists[h])) + i]
    <3> TAKE i \in 2..Len(lists[h])
    <3>1. (Len(lists[h]) - Len(lists[h])) + i = i /\ i \in 1..Len(lists[h])
      BY <1>1
    <3> QED BY <1>1, <3>1
  <2>6. LoopOnSchedule'
    BY <1>2, <1>6, <2>3, <2>4, <2>5 DEF LoopOnSchedule
  <2>7. VisitOnce'
    BY <1>2 DEF IInv, OnePlace, VisitOnce
  <2> QED BY <1>4, <2>1, <2>6, <2>7
<1> QED
  BY <1>5, <1>6

\* A step of the loop.
LEMMA AdvanceKeeps ==
    ASSUME IInv, Advance
    PROVE  LoopOnSchedule' /\ VisitOnce' /\ visit' \in Seq(Node) /\ pos' \in Cell /\ posN' \in Cell
<1> DEFINE d == Len(lists[over]) - Len(visit)
<1>1. /\ over \in Heads /\ visit \in Seq(Node) /\ visit # <<>>
      /\ pos' = posN /\ posN' = next[posN] /\ visit' = Tail(visit)
      /\ next' = next /\ lists' = lists /\ over' = over
      /\ posN \in Cell /\ lists \in [Heads -> Seq(Node)]
  BY DEF IInv, QListTypeOK, LoopOnSchedule, Advance
<1>2. /\ Len(visit) \in Nat \ {0} /\ Tail(visit) \in Seq(Node) /\ Len(Tail(visit)) = Len(visit) - 1
      /\ \A i \in 1..Len(Tail(visit)) : Tail(visit)[i] = visit[i + 1]
  BY <1>1, EmptySeq, HeadTailProperties
<1>3. /\ posN = IF Len(visit) = 1 THEN over ELSE visit[2]
      /\ \A i \in 2..Len(visit) : d + i \in DOMAIN lists[over] /\ visit[i] = lists[over][d + i]
  BY <1>1 DEF IInv, LoopOnSchedule, Advance
<1>4. /\ Len(lists[over]) \in Nat /\ DOMAIN lists[over] = 1..Len(lists[over])
      /\ At(over, 0) = over /\ At(over, Len(lists[over]) + 1) = over
      /\ \A i \in 1..Len(lists[over]) : At(over, i) = lists[over][i]
  BY <1>1, CellsOf
<1>5. VisitOnce'
  <2> SUFFICES ASSUME NEW i \in 1..Len(Tail(visit)), NEW j \in 1..Len(Tail(visit)),
                      Tail(visit)[i] = Tail(visit)[j]
               PROVE  i = j
    BY <1>1 DEF VisitOnce
  <2>1. i + 1 \in 1..Len(visit) /\ j + 1 \in 1..Len(visit) /\ visit[i + 1] = visit[j + 1]
    BY <1>2
  <2>2. i + 1 = j + 1
    BY <2>1 DEF IInv, VisitOnce
  <2> QED BY <1>2, <2>2
<1>6. d \in Int /\ Len(lists[over]) \in Nat /\ Len(visit) \in Nat /\ Len(Tail(visit)) = Len(visit) - 1
  BY <1>2, <1>4
<1> HIDE DEF d
<1>7. CASE Len(visit) = 1
  <2>0. Len(Tail(visit)) = 0
    BY <1>2, <1>7
  <2>1. Tail(visit) = <<>>
    BY <1>2, <2>0, EmptySeq
  <2>2. pos' = over /\ posN' \in Cell
    <3>1. 0 \in 0..Len(lists[over])
      BY <1>4
    <3> QED BY <1>1, <1>3, <1>4, <1>7, <3>1, FollowsNext
  <2> QED BY <1>1, <1>2, <1>5, <2>1, <2>2 DEF LoopOnSchedule
<1>8. CASE Len(visit) # 1
  <2>1. 2 \in 2..Len(visit) /\ Len(visit) >= 2
    BY <1>2, <1>8
  <2>2. d + 2 \in 1..Len(lists[over]) /\ d + 2 \in 0..Len(lists[over]) /\ posN = At(over, d + 2)
    BY <1>3, <1>4, <1>8, <2>1
  <2>3. posN' = At(over, d + 2 + 1) /\ posN' \in Cell
    BY <1>1, <2>2, FollowsNext
  <2>4. Tail(visit) # <<>> /\ pos' = Tail(visit)[1]
    <3>1. 1 \in 1..Len(Tail(visit)) /\ 1 + 1 = 2
      BY <1>2, <2>1
    <3>2. pos' = visit[2]
      BY <1>1, <1>3, <1>8
    <3>3. Tail(visit)[1] = visit[2]
      BY <1>2, <3>1
    <3>4. Tail(visit) # <<>>
      <4>1. Len(Tail(visit)) # 0
        BY <1>2, <2>1
      <4> QED BY <4>1, EmptySeq
    <3> QED BY <3>2, <3>3, <3>4
  <2>5. posN' = IF Len(Tail(visit)) = 1 THEN over ELSE Tail(visit)[2]
    <3>1. CASE Len(Tail(visit)) = 1
      <4>0. Len(visit) = 2
        <5>1. \A a, b \in Int : a = 1 /\ a = b - 1 => b = 2
          OBVIOUS
        <5>2. Len(Tail(visit)) \in Int /\ Len(visit) \in Int
          BY <1>2
        <5> QED BY <1>6, <3>1, <5>1, <5>2
      <4>1. d + 2 + 1 = Len(lists[over]) + 1
        <5>1. \A a \in Int : a - 2 + 2 + 1 = a + 1
          OBVIOUS
        <5>2. d = Len(lists[over]) - 2
          BY <4>0 DEF d
        <5> QED BY <1>6, <5>1, <5>2
      <4> QED BY <1>4, <2>3, <3>1, <4>1
    <3>2. CASE Len(Tail(visit)) # 1
      <4>1. 3 \in 2..Len(visit) /\ 2 \in 1..Len(Tail(visit)) /\ 2 + 1 = 3 /\ d + 2 + 1 = d + 3
        BY <1>2, <1>6, <2>1, <3>2
      <4>2. visit[3] = At(over, d + 3)
        BY <1>3, <1>4, <4>1
      <4> QED BY <1>2, <2>3, <3>2, <4>1, <4>2
    <3> QED BY <3>1, <3>2
  <2>6. \A i \in 2..Len(Tail(visit)) :
          /\ (Len(lists[over]) - Len(Tail(visit))) + i \in DOMAIN lists[over]
          /\ Tail(visit)[i] = lists[over][(Len(lists[over]) - Len(Tail(visit))) + i]
    <3> TAKE i \in 2..Len(Tail(visit))
    <3>0. i \in Int /\ i + 1 \in 2..Len(visit) /\ i \in 1..Len(Tail(visit))
      BY <1>6
    <3>1. (Len(lists[over]) - Len(Tail(visit))) + i = d + (i + 1)
      <4>1. Len(lists[over]) - Len(Tail(visit)) = d + 1
        <5>1. \A a, v \in Int : a - (v - 1) = (a - v) + 1
          OBVIOUS
        <5>2. Len(lists[over]) - (Len(visit) - 1) = (Len(lists[over]) - Len(visit)) + 1
          BY <1>6, <5>1
        <5>3. d = Len(lists[over]) - Len(visit)
          BY DEF d
        <5> QED BY <1>6, <5>2, <5>3
      <4>2. (d + 1) + i = d + (i + 1)
        BY <1>6, <3>0
      <4> QED BY <4>1, <4>2
    <3>2. Tail(visit)[i] = visit[i + 1]
      BY <1>2, <3>0
    <3>3. d + (i + 1) \in DOMAIN lists[over] /\ visit[i + 1] = lists[over][d + (i + 1)]
      BY <1>3, <3>0
    <3> QED BY <3>1, <3>2, <3>3
  <2>7. LoopOnSchedule'
    BY <1>1, <2>4, <2>5, <2>6 DEF LoopOnSchedule
  <2> QED BY <1>1, <1>2, <1>5, <2>3, <2>7
<1> QED
  BY <1>7, <1>8

\* The body of the loop adds to other lists.
LEMMA AddKeepsLoop ==
    ASSUME IInv, NEW h \in Heads, MayAddTo(h), Others(h), UNCHANGED loopVars
    PROVE  LoopOnSchedule' /\ VisitOnce'
<1>1. over' = over /\ pos' = pos /\ posN' = posN /\ visit' = visit
  BY DEF loopVars
<1>2. over # NULL => lists'[over] = lists[over]
  BY DEF IInv, QListTypeOK, MayAddTo, Others
<1> QED
  BY <1>1, <1>2 DEF IInv, LoopOnSchedule, VisitOnce

\* It deletes the entry it is at, and what it has still to visit moves up.
LEMMA DeleteKeepsLoop ==
    ASSUME IInv, NEW h \in Heads, NEW n \in ToSet(lists[h]), DelEntry(h, n)
    PROVE  LoopOnSchedule' /\ VisitOnce'
<1> DEFINE L == Len(lists[h])
           V == Len(visit)
<1>1. /\ over' = over /\ pos' = pos /\ posN' = posN /\ visit' = visit
      /\ over = h => n = pos
      /\ lists' = [lists EXCEPT ![h] = RemoveAt(@, Index(@, n))]
  BY DEF DelEntry, MayDelFrom, loopVars
<1>2. lists \in [Heads -> Seq(Node)] /\ OnePlace /\ over \in Heads \cup {NULL} /\ visit \in Seq(Node)
  BY DEF IInv, QListTypeOK
<1>3. /\ Others(h) /\ lists' \in [Heads -> Seq(Node)] /\ Len(lists'[h]) = L - 1
      /\ \E k \in 1..L :
           /\ lists[h][k] = n
           /\ \A i \in 1..(k - 1) : lists'[h][i] = lists[h][i]
           /\ \A i \in k..(L - 1) : lists'[h][i] = lists[h][i + 1]
  <2>1. lists' = [lists EXCEPT ![h] = RemoveAt(@, Index(@, n))]
    BY <1>1
  <2>2. lists \in [Heads -> Seq(Node)] /\ OnePlace
    BY <1>2
  <2> QED BY <2>1, <2>2, AfterDelEntry
<1>4. PICK k \in 1..L :
        /\ lists[h][k] = n
        /\ \A i \in 1..(k - 1) : lists'[h][i] = lists[h][i]
        /\ \A i \in k..(L - 1) : lists'[h][i] = lists[h][i + 1]
  BY <1>3
<1>5. VisitOnce'
  BY <1>1 DEF IInv, VisitOnce
<1>6. CASE over # h
  BY <1>1, <1>2, <1>3, <1>5, <1>6 DEF IInv, LoopOnSchedule, Others
<1>7. CASE visit = <<>>
  BY <1>1, <1>5, <1>7 DEF IInv, LoopOnSchedule
<1>8. CASE over = h /\ visit # <<>>
  <2> DEFINE d == L - V
  <2>1. L \in Nat /\ V \in Nat /\ d \in Int /\ k \in Int /\ DOMAIN lists[h] = 1..L /\ DOMAIN (lists'[h]) = 1..(L - 1)
    BY <1>2, <1>3, LenProperties
  <2>2. /\ over # NULL /\ pos = visit[1] /\ posN = IF V = 1 THEN over ELSE visit[2]
        /\ \A i \in 2..V : d + i \in 1..L /\ visit[i] = lists[h][d + i]
    <3>1. h # NULL
      BY DistinctCells
    <3> QED BY <1>8, <2>1, <3>1 DEF IInv, LoopOnSchedule
  <2>3. d = L - V
    OBVIOUS
  <2> HIDE DEF d, L, V
  <2>4. k <= d + 1
    <3> SUFFICES ASSUME k > d + 1 PROVE FALSE
      BY <2>1
    <3>1. k - d \in 2..V /\ d + (k - d) = k /\ 1 \in 1..V /\ k - d \in 1..V /\ k - d # 1
      BY <2>1, <2>3
    <3>2. visit[k - d] = visit[1]
      BY <1>1, <1>4, <1>8, <2>2, <3>1
    <3> QED BY <3>1, <3>2 DEF IInv, VisitOnce, V
  <2>5. ASSUME NEW i \in 2..V
        PROVE  (L - 1 - V) + i \in 1..(L - 1) /\ visit[i] = lists'[h][(L - 1 - V) + i]
    <3>1. i \in Int /\ d + i \in 1..L /\ visit[i] = lists[h][d + i]
      BY <2>1, <2>2
    <3>2. (L - 1 - V) + i = (d - 1) + i
      BY <2>1, <2>3, <3>1
    <3>3. (d - 1) + i \in k..(L - 1) /\ ((d - 1) + i) + 1 = d + i
      BY <2>1, <2>4, <3>1
    <3>4. lists'[h][(d - 1) + i] = lists[h][d + i]
      BY <1>4, <3>3
    <3>5. (d - 1) + i \in 1..(L - 1)
      BY <2>1, <3>3
    <3> QED BY <3>1, <3>2, <3>4, <3>5
  <2>6. \A i \in 2..Len(visit) :
          /\ (Len(lists'[h]) - Len(visit)) + i \in DOMAIN (lists'[h])
          /\ visit[i] = lists'[h][(Len(lists'[h]) - Len(visit)) + i]
    BY <1>3, <2>1, <2>5 DEF V
  <2> QED BY <1>1, <1>5, <1>8, <2>2, <2>6 DEF LoopOnSchedule, V
<1> QED
  BY <1>6, <1>7, <1>8

-----------------------------------------------------------------------------
(***************************************************************************)
(* The invariant.                                                          *)
(***************************************************************************)

LEMMA InitIInv == Init => IInv
<1> SUFFICES ASSUME Init PROVE IInv
  OBVIOUS
<1>1. /\ next = [c \in Cell |-> IF c \in Heads THEN c ELSE NULL] /\ prev = next
      /\ over = NULL /\ lists = [h \in Heads |-> <<>>] /\ visit = <<>>
  BY DEF Init
<1>2. <<>> \in Seq(Node) /\ Len(<<>>) = 0
  OBVIOUS
<1>3. QListTypeOK
  BY <1>1, <1>2 DEF QListTypeOK, Cell
<1>4. OnePlace /\ VisitOnce /\ LoopOnSchedule
  BY <1>1, <1>2 DEF OnePlace, VisitOnce, LoopOnSchedule
<1>5. Represents
  <2>1. ASSUME NEW h \in Heads, NEW i \in 0..Len(lists[h])
        PROVE  next[At(h, i)] = At(h, i + 1) /\ prev[At(h, i + 1)] = At(h, i)
    <3>1. i = 0 /\ Len(lists[h]) = 0
      BY <1>1, <1>2
    <3>2. At(h, 0) = h /\ At(h, Len(lists[h]) + 1) = h
      BY <1>3, CellsOf DEF QListTypeOK
    <3>3. At(h, i) = h /\ At(h, i + 1) = h
      BY <3>1, <3>2
    <3> QED BY <1>1, <3>3 DEF Cell
  <2>2. ASSUME NEW n \in Node PROVE next[n] = NULL /\ prev[n] = NULL
    BY <1>1, DistinctCells DEF Cell
  <2> QED BY <2>1, <2>2 DEF Represents
<1> QED
  BY <1>3, <1>4, <1>5 DEF IInv

\* qlist_add_head()
LEMMA AddHeadKeeps ==
    ASSUME IInv, NEW h \in Heads, NEW n \in Node, AddHead(h, n)
    PROVE  IInv'
<1>1. /\ lists \in [Heads -> Seq(Node)] /\ MayAddTo(h) /\ ~Listed(n) /\ UNCHANGED loopVars
      /\ next \in [Cell -> Cell \cup {NULL}] /\ prev \in [Cell -> Cell \cup {NULL}]
      /\ next' = [next EXCEPT ![h] = n, ![n] = next[h]]
      /\ prev' = [prev EXCEPT ![next[h]] = n, ![n] = h]
  BY DEF IInv, QListTypeOK, AddHead
<1>2. Inserted(h, n, 1)
  BY <1>1, AfterAddHead DEF AddHead
<1>3. /\ Len(lists[h]) \in Nat /\ 0 \in 0..Len(lists[h]) /\ 1 \in 1..(Len(lists[h]) + 1)
      /\ At(h, 0) = h
  BY <1>1, CellsOf
<1>4. next[h] = At(h, 1) /\ At(h, 1) \in Cell
  <2>1. next[At(h, 0)] = At(h, 0 + 1) /\ At(h, 0 + 1) \in Cell
    BY <1>3, FollowsNext
  <2> QED BY <1>3, <2>1
<1>5. OnePlace' /\ Represents'
  <2>1. /\ next' = [next EXCEPT ![At(h, 1 - 1)] = n, ![n] = At(h, 1)]
        /\ prev' = [prev EXCEPT ![At(h, 1)] = n, ![n] = At(h, 1 - 1)]
    <3>1. 1 - 1 = 0
      OBVIOUS
    <3>2. At(h, 1 - 1) = h
      BY ONLY <1>3, <3>1
    <3> QED BY <1>1, <1>4, <3>2
  <2> QED BY <1>1, <1>2, <1>3, <2>1, InsertKeeps
<1>6. LoopOnSchedule' /\ VisitOnce'
  BY <1>1, <1>2, AddKeepsLoop DEF Inserted
<1>7. QListTypeOK'
  <2>1. next' \in [Cell -> Cell \cup {NULL}] /\ prev' \in [Cell -> Cell \cup {NULL}]
    BY <1>1, <1>4 DEF Cell
  <2>2. lists' \in [Heads -> Seq(Node)]
    BY <1>2 DEF Inserted
  <2> QED BY <1>1, <2>1, <2>2 DEF IInv, QListTypeOK, loopVars
<1> QED
  BY <1>5, <1>6, <1>7 DEF IInv

\* qlist_add_tail()
LEMMA AddTailKeeps ==
    ASSUME IInv, NEW h \in Heads, NEW n \in Node, AddTail(h, n)
    PROVE  IInv'
<1> DEFINE L == Len(lists[h])
<1>1. /\ lists \in [Heads -> Seq(Node)] /\ MayAddTo(h) /\ ~Listed(n) /\ UNCHANGED loopVars
      /\ next \in [Cell -> Cell \cup {NULL}] /\ prev \in [Cell -> Cell \cup {NULL}]
      /\ prev' = [prev EXCEPT ![h] = n, ![n] = prev[h]]
      /\ next' = [next EXCEPT ![prev[h]] = n, ![n] = h]
  BY DEF IInv, QListTypeOK, AddTail
<1>2. Inserted(h, n, L + 1)
  BY <1>1, AfterAddTail DEF AddTail
<1>3. /\ L \in Nat /\ L \in 0..L /\ L + 1 \in 1..(L + 1) /\ (L + 1) - 1 = L
      /\ At(h, L + 1) = h
  BY <1>1, CellsOf
<1>4. prev[h] = At(h, L) /\ At(h, L) \in Cell
  <2>1. prev[At(h, L + 1)] = At(h, L)
    BY <1>3 DEF IInv, Represents
  <2>2. L \in 0..(L + 1)
    BY <1>3
  <2> QED BY <1>1, <1>3, <2>1, <2>2, Cells DEF IInv
<1>5. OnePlace' /\ Represents'
  <2>1. /\ next' = [next EXCEPT ![At(h, (L + 1) - 1)] = n, ![n] = At(h, L + 1)]
        /\ prev' = [prev EXCEPT ![At(h, L + 1)] = n, ![n] = At(h, (L + 1) - 1)]
    BY <1>1, <1>3, <1>4
  <2> HIDE DEF L
  <2>2. L + 1 \in 1..(Len(lists[h]) + 1)
    BY <1>3 DEF L
  <2> QED BY <1>1, <1>2, <2>1, <2>2, InsertKeeps
<1>6. LoopOnSchedule' /\ VisitOnce'
  BY <1>1, <1>2, AddKeepsLoop DEF Inserted
<1>7. QListTypeOK'
  <2>1. next' \in [Cell -> Cell \cup {NULL}] /\ prev' \in [Cell -> Cell \cup {NULL}]
    BY <1>1, <1>4 DEF Cell
  <2>2. lists' \in [Heads -> Seq(Node)]
    BY <1>2 DEF Inserted
  <2> QED BY <1>1, <2>1, <2>2 DEF IInv, QListTypeOK, loopVars
<1> QED
  BY <1>5, <1>6, <1>7 DEF IInv

\* qlist_del_entry()
LEMMA DelEntryKeeps ==
    ASSUME IInv, NEW h \in Heads, NEW n \in Node, DelEntry(h, n)
    PROVE  IInv'
<1>1. /\ lists \in [Heads -> Seq(Node)] /\ OnePlace /\ n \in ToSet(lists[h]) /\ UNCHANGED loopVars
      /\ next \in [Cell -> Cell \cup {NULL}] /\ prev \in [Cell -> Cell \cup {NULL}]
      /\ lists' = [lists EXCEPT ![h] = RemoveAt(@, Index(@, n))]
      /\ next' = [next EXCEPT ![prev[n]] = next[n], ![n] = NULL]
      /\ prev' = [prev EXCEPT ![next[n]] = prev[n], ![n] = NULL]
  BY DEF IInv, QListTypeOK, DelEntry
<1>2. LoopOnSchedule' /\ VisitOnce'
  BY <1>1, DeleteKeepsLoop
<1>3. OnePlace' /\ Represents'
  BY DeleteKeeps
<1>4. QListTypeOK'
  <2>1. next[n] \in Cell \cup {NULL} /\ prev[n] \in Cell \cup {NULL}
    BY <1>1 DEF Cell
  <2>2. next' \in [Cell -> Cell \cup {NULL}] /\ prev' \in [Cell -> Cell \cup {NULL}]
    BY <1>1, <2>1
  <2>3. lists' \in [Heads -> Seq(Node)]
    BY <1>1, AfterDelEntry
  <2> QED BY <1>1, <2>2, <2>3 DEF IInv, QListTypeOK, loopVars
<1> QED
  BY <1>2, <1>3, <1>4 DEF IInv

LEMMA NextIInv == IInv /\ [Next]_vars => IInv'
<1> SUFFICES ASSUME IInv, [Next]_vars PROVE IInv'
  OBVIOUS
<1>1. ASSUME NEW h \in Heads, NEW n \in Node, AddHead(h, n) \/ AddTail(h, n) \/ DelEntry(h, n)
      PROVE  IInv'
  BY <1>1, AddHeadKeeps, AddTailKeeps, DelEntryKeeps
\* The loop changes neither the pointers nor the lists.
<1>2. ASSUME UNCHANGED <<next, prev, lists>> PROVE OnePlace' /\ Represents'
  BY <1>2 DEF IInv, OnePlace, Represents, At, Listed
<1>3. ASSUME NEW h \in Heads, Foreach(h) PROVE IInv'
  <2>1. UNCHANGED <<next, prev, lists>> /\ over' = h /\ visit' = lists[h]
    BY <1>3 DEF Foreach
  <2>2. LoopOnSchedule' /\ VisitOnce' /\ pos' \in Cell /\ posN' \in Cell
    BY <1>3, ForeachKeeps
  <2>3. QListTypeOK'
    BY <2>1, <2>2 DEF IInv, QListTypeOK
  <2> QED BY <1>2, <2>1, <2>2, <2>3 DEF IInv
<1>4. ASSUME Advance PROVE IInv'
  <2>1. UNCHANGED <<next, prev, lists>> /\ over' = over
    BY <1>4 DEF Advance
  <2>2. LoopOnSchedule' /\ VisitOnce' /\ visit' \in Seq(Node) /\ pos' \in Cell /\ posN' \in Cell
    BY <1>4, AdvanceKeeps
  <2>3. QListTypeOK'
    BY <2>1, <2>2 DEF IInv, QListTypeOK
  <2> QED BY <1>2, <2>1, <2>2, <2>3 DEF IInv
<1>5. ASSUME ForeachEnds PROVE IInv'
  <2>1. UNCHANGED <<next, prev, lists, visit>> /\ over' = NULL
    BY <1>5 DEF ForeachEnds
  <2>2. QListTypeOK'
    BY <2>1 DEF IInv, QListTypeOK
  <2>3. LoopOnSchedule' /\ VisitOnce'
    BY <2>1 DEF IInv, LoopOnSchedule, VisitOnce
  <2> QED BY <1>2, <2>1, <2>2, <2>3 DEF IInv
<1>6. ASSUME UNCHANGED vars PROVE IInv'
  <2>1. QListTypeOK' /\ LoopOnSchedule' /\ VisitOnce'
    BY <1>6 DEF IInv, QListTypeOK, LoopOnSchedule, VisitOnce, vars, loopVars
  <2>2. UNCHANGED <<next, prev, lists>>
    BY <1>6 DEF vars
  <2> QED BY <1>2, <2>1, <2>2 DEF IInv
<1> QED
  BY <1>1, <1>3, <1>4, <1>5, <1>6 DEF Next

LEMMA IInvHolds == Spec => []IInv
<1> QED
  BY InitIInv, NextIInv, PTL DEF Spec

(***************************************************************************)
(* Both pointers of every cell say what the sequences of ConnCtx say, for  *)
(* any nodes, any number of lists and any use of them, also inside a       *)
(* qlist_foreach_entry_safe() loop.                                        *)
(***************************************************************************)
THEOREM ListsRepresented == Spec => []Represents
<1>1. IInv => Represents
  BY DEF IInv
<1> QED
  BY <1>1, IInvHolds, PTL

(***************************************************************************)
(* qlist_foreach_entry_safe() goes to every entry that its list had, in    *)
(* order, whatever its body deletes or puts on other lists.                *)
(***************************************************************************)
THEOREM LoopSafe == Spec => []LoopOnSchedule
<1>1. IInv => LoopOnSchedule
  BY DEF IInv
<1> QED
  BY <1>1, IInvHolds, PTL

\* The pointers have their types: a loop never follows a null pointer.
THEOREM QListTypes == Spec => []QListTypeOK
<1>1. IInv => QListTypeOK
  BY DEF IInv
<1> QED
  BY <1>1, IInvHolds, PTL
=============================================================================
