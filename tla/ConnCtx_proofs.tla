--------------------------- MODULE ConnCtx_proofs ---------------------------
(***************************************************************************)
(* Proofs about ConnCtx: for every set of contexts and descriptors and all *)
(* bounds of the cache, its safety invariants hold in every reachable      *)
(* state.                                                                  *)
(***************************************************************************)
EXTENDS ConnCtx, ListLemmas

-----------------------------------------------------------------------------
(***************************************************************************)
(* The list operators.                                                     *)
(***************************************************************************)

\* Index() finds the position of an entry.
LEMMA IndexFacts ==
    ASSUME NEW q \in Seq(Ctx), NEW c \in ToSet(q)
    PROVE  Index(q, c) \in 1..Len(q) /\ q[Index(q, c)] = c
<1>1. \E i \in 1..Len(q) : q[i] = c
  BY ToSetMember
<1> QED
  BY <1>1 DEF Index

\* The cursor stays on the list or its head, and moves away from an entry.
LEMMA NextEntryFacts ==
    ASSUME NEW q \in Seq(Ctx), IsInjective(q), NEW c \in ToSet(q) \cup {ListHead}
    PROVE  /\ NextEntry(q, c) \in ToSet(q) \cup {ListHead}
           /\ c # ListHead => NextEntry(q, c) # c
<1> DEFINE i == IF c = ListHead THEN 0 ELSE Index(q, c)
<1>1. Len(q) \in Nat /\ DOMAIN q = 1..Len(q)
  BY LenProperties
<1>2. ToSet(q) \subseteq Ctx /\ ListHead \notin Ctx
  BY ToSetMember, DistinctValues
<1>3. i \in 0..Len(q) /\ (c # ListHead => i \in 1..Len(q) /\ q[i] = c)
  BY <1>1, IndexFacts
<1>4. NextEntry(q, c) = IF i < Len(q) THEN q[i + 1] ELSE ListHead
  BY DEF NextEntry
<1> HIDE DEF i
<1>5. CASE i < Len(q)
  <2>1. i + 1 \in 1..Len(q) /\ i + 1 # i
    BY <1>1, <1>3, <1>5
  <2>2. NextEntry(q, c) = q[i + 1] /\ q[i + 1] \in ToSet(q)
    BY <1>1, <1>4, <1>5, <2>1 DEF ToSet
  <2>3. c # ListHead => q[i + 1] # c
    BY <1>1, <1>3, <2>1 DEF IsInjective
  <2> QED BY <2>2, <2>3
<1>6. CASE ~(i < Len(q))
  BY <1>4, <1>6
<1> QED BY <1>5, <1>6

\* Unlinking an entry.
LEMMA DelEntryFacts ==
    ASSUME NEW q \in Seq(Ctx), IsInjective(q), NEW c \in ToSet(q)
    PROVE  /\ DelEntry(q, c) \in Seq(Ctx)
           /\ ToSet(DelEntry(q, c)) = ToSet(q) \ {c}
           /\ IsInjective(DelEntry(q, c))
<1>1. Index(q, c) \in 1..Len(q) /\ q[Index(q, c)] = c
  BY IndexFacts
<1> QED
  BY <1>1, RemoveAtFacts DEF DelEntry

-----------------------------------------------------------------------------
(***************************************************************************)
(* What several actions have in common.                                    *)
(***************************************************************************)

\* A step that leaves the lists, the counters, the flags and the sockets
\* alone.
LEMMA Frame ==
    ASSUME IInv, UNCHANGED <<listVars, cntVars, connVars, newSock>>
    PROVE  OnOneList' /\ CountersAgree' /\ SocketsOwned'
  BY DEF IInv, OnOneList, CountersAgree, SocketsOwned, Live, listVars, cntVars, connVars

\* Counting the entries of a list that have a flag, and those that do not.
LEMMA FlagCount ==
    ASSUME NEW q \in Seq(Ctx), NEW flag
    PROVE  /\ IsFiniteSet({c \in ToSet(q) : flag[c]})
           /\ IsFiniteSet({c \in ToSet(q) : ~flag[c]})
           /\ Cardinality({c \in ToSet(q) : flag[c]}) \in Nat
           /\ Cardinality({c \in ToSet(q) : ~flag[c]}) \in Nat
<1> DEFINE A == {c \in ToSet(q) : flag[c]}
           B == {c \in ToSet(q) : ~flag[c]}
<1>1. IsFiniteSet(ToSet(q))
  BY ToSetFinite
<1>2. A \in SUBSET ToSet(q) /\ B \in SUBSET ToSet(q)
  OBVIOUS
<1> HIDE DEF A, B
<1>3. IsFiniteSet(A) /\ IsFiniteSet(B)
  BY <1>1, <1>2, FS_Subset
<1>4. Cardinality(A) \in Nat /\ Cardinality(B) \in Nat
  BY <1>3, FS_CardinalityType
<1> QED
  BY <1>3, <1>4 DEF A, B

\* The start of a pass puts both cursors on the queue.
LEMMA StartPassFacts ==
    ASSUME queue' \in Seq(Ctx), IsInjective(queue'), StartPass
    PROVE  /\ pc' = "loop"
           /\ pos' \in ToSet(queue') \cup {ListHead}
           /\ posN' = NextEntry(queue', pos')
           /\ posN' \in ToSet(queue') \cup {ListHead}
  BY NextEntryFacts DEF StartPass

-----------------------------------------------------------------------------
(***************************************************************************)
(* How the two counts change.                                              *)
(***************************************************************************)

\* An entry is removed.
LEMMA CountRemove ==
    ASSUME NEW Q, IsFiniteSet(Q), NEW f, NEW e \in Q
    PROVE  /\ Cardinality({c \in Q \ {e} : f[c]}) =
                 IF f[e] THEN Cardinality({c \in Q : f[c]}) - 1 ELSE Cardinality({c \in Q : f[c]})
           /\ Cardinality({c \in Q \ {e} : ~f[c]}) =
                 IF f[e] THEN Cardinality({c \in Q : ~f[c]}) ELSE Cardinality({c \in Q : ~f[c]}) - 1
<1> DEFINE A == {c \in Q : f[c]}
           B == {c \in Q : ~f[c]}
<1>1. IsFiniteSet(A) /\ IsFiniteSet(B)
  BY FS_Subset
<1>2. /\ {c \in Q \ {e} : f[c]} = A \ {e} /\ {c \in Q \ {e} : ~f[c]} = B \ {e}
      /\ (e \in A <=> f[e]) /\ (e \in B <=> ~f[e])
  OBVIOUS
<1> HIDE DEF A, B
<1>3. /\ Cardinality(A \ {e}) = IF e \in A THEN Cardinality(A) - 1 ELSE Cardinality(A)
      /\ Cardinality(B \ {e}) = IF e \in B THEN Cardinality(B) - 1 ELSE Cardinality(B)
  BY <1>1, FS_RemoveElement
<1>4. CASE f[e]
  BY <1>2, <1>3, <1>4 DEF A, B
<1>5. CASE ~f[e]
  BY <1>2, <1>3, <1>5 DEF A, B
<1> QED
  BY <1>4, <1>5

\* One entry changes sides.
LEMMA CountMove ==
    ASSUME NEW A, NEW B, IsFiniteSet(A), IsFiniteSet(B), NEW e \in B, e \notin A
    PROVE  /\ Cardinality(A \cup {e}) = Cardinality(A) + 1
           /\ Cardinality(B \ {e}) = Cardinality(B) - 1
  BY FS_AddElement, FS_RemoveElement

-----------------------------------------------------------------------------
(***************************************************************************)
(* The operations on the lists.                                            *)
(***************************************************************************)
ListTypes == /\ allocated \in SUBSET Ctx
             /\ cache \in Seq(Ctx) /\ cacheCnt \in 0..MaxCache
             /\ queue \in Seq(Ctx)
             /\ activeConnCnt \in Nat /\ inactiveConnCnt \in Nat

\* create_new_conn(): the new connection comes from the cache, where no live
\* connection is.
LEMMA CreateFacts ==
    ASSUME IInv, NEW s \in Fd, cacheCnt # 0, CreateNewConn(s)
    PROVE  /\ ListTypes' /\ OnOneList' /\ CountersAgree'
           /\ connSock' \in [Ctx -> Fd \cup {NoFd}]
           /\ isCompleted' \in [Ctx -> BOOLEAN] /\ isActive' \in [Ctx -> BOOLEAN]
           /\ Head(cache) \in Ctx /\ ~Live(Head(cache))
           /\ connSock'[Head(cache)] = s
           /\ \A d \in Ctx : /\ Live(d)' <=> Live(d) \/ d = Head(cache)
                             /\ d # Head(cache) => connSock'[d] = connSock[d]
           /\ \A d \in ToSet(queue') : isCompleted'[d] => isCompleted[d] /\ d \in ToSet(queue)
<1> DEFINE c == Head(cache)
<1>1. /\ cache \in Seq(Ctx) /\ queue \in Seq(Ctx) /\ allocated \in SUBSET Ctx
      /\ cacheCnt \in 0..MaxCache /\ cacheCnt = Len(cache) /\ MaxCache \in Nat
      /\ connSock \in [Ctx -> Fd \cup {NoFd}]
      /\ isCompleted \in [Ctx -> BOOLEAN] /\ isActive \in [Ctx -> BOOLEAN]
  BY CacheBounds DEF IInv, TypeOK, CountersAgree
<1>2. /\ IsInjective(cache) /\ IsInjective(queue)
      /\ ToSet(cache) \cap ToSet(queue) = {}
      /\ ToSet(cache) \cup ToSet(queue) = allocated
  BY DEF IInv, OnOneList
<1>3. cache # <<>>
  BY <1>1, EmptySeq
<1>4. /\ c \in ToSet(cache) /\ c \in Ctx /\ Tail(cache) \in Seq(Ctx)
      /\ Len(Tail(cache)) = Len(cache) - 1
      /\ ToSet(Tail(cache)) = ToSet(cache) \ {c} /\ IsInjective(Tail(cache))
  BY <1>1, <1>2, <1>3, TailFacts
<1>5. c \notin ToSet(queue)
  BY <1>2, <1>4
<1>6. /\ Cons(c, queue) \in Seq(Ctx) /\ ToSet(Cons(c, queue)) = ToSet(queue) \cup {c}
      /\ IsInjective(Cons(c, queue))
  BY <1>1, <1>2, <1>4, <1>5, ConsFacts
<1> HIDE DEF c
<1>7. /\ cache' = Tail(cache) /\ cacheCnt' = cacheCnt - 1
      /\ connSock' = [connSock EXCEPT ![c] = s]
      /\ isCompleted' = [isCompleted EXCEPT ![c] = FALSE]
      /\ isActive' = [isActive EXCEPT ![c] = TRUE]
      /\ queue' = Cons(c, queue)
      /\ activeConnCnt' = activeConnCnt + 1
      /\ allocated' = allocated /\ inactiveConnCnt' = inactiveConnCnt
  BY DEF CreateNewConn, c
<1>8. OnOneList'
  BY <1>2, <1>4, <1>5, <1>6, <1>7 DEF OnOneList
<1>9. ToSet(queue') = ToSet(queue) \cup {c}
  BY <1>6, <1>7
<1>10. CountersAgree'
  <2>2. isActive'[c] /\ \A d \in ToSet(queue) : isActive'[d] = isActive[d]
    BY <1>1, <1>4, <1>5, <1>7, ToSetMember
  <2> DEFINE Q == ToSet(queue)
             A == {d \in Q : isActive[d]}
             B == {d \in Q : ~isActive[d]}
  <2>3. /\ {d \in Q \cup {c} : isActive'[d]} = A \cup {c}
        /\ {d \in Q \cup {c} : ~isActive'[d]} = B
        /\ c \notin A
    BY <1>5, <2>2
  <2>4. IsFiniteSet(A)
    BY <1>1, FlagCount
  <2>5. Cardinality(A \cup {c}) = Cardinality(A) + 1
    <3> HIDE DEF A
    <3> QED BY <2>3, <2>4, FS_AddElement
  <2>6. activeConnCnt = Cardinality(A) /\ inactiveConnCnt = Cardinality(B)
    BY DEF IInv, CountersAgree
  <2>7. ToSet(queue') = Q \cup {c}
    BY <1>9
  <2> HIDE DEF A, B, Q
  <2>8. /\ activeConnCnt' = Cardinality({d \in ToSet(queue') : isActive'[d]})
        /\ inactiveConnCnt' = Cardinality({d \in ToSet(queue') : ~isActive'[d]})
    BY <1>7, <2>3, <2>5, <2>6, <2>7
  <2>9. cacheCnt' = Len(cache')
    BY <1>1, <1>4, <1>7
  <2> QED BY <2>8, <2>9 DEF CountersAgree
<1>11. ListTypes'
  <2>1. cacheCnt' \in 0..MaxCache
    BY <1>1, <1>7
  <2>2. activeConnCnt' \in Nat /\ inactiveConnCnt' \in Nat
    BY <1>7 DEF IInv, TypeOK
  <2> QED BY <1>1, <1>4, <1>6, <1>7, <2>1, <2>2 DEF ListTypes
<1>12. /\ connSock' \in [Ctx -> Fd \cup {NoFd}]
       /\ isCompleted' \in [Ctx -> BOOLEAN] /\ isActive' \in [Ctx -> BOOLEAN]
       /\ connSock'[c] = s /\ isCompleted'[c] = FALSE
       /\ \A d \in Ctx : d # c => connSock'[d] = connSock[d] /\ isCompleted'[d] = isCompleted[d]
  BY <1>1, <1>4, <1>7
<1>13. \A d \in Ctx : Live(d)' <=> Live(d) \/ d = c
  BY <1>5, <1>9, <1>12 DEF Live
<1>14. \A d \in ToSet(queue') : isCompleted'[d] => isCompleted[d] /\ d \in ToSet(queue)
  <2>1. ToSet(queue) \subseteq Ctx
    BY <1>1, ToSetMember
  <2> QED BY <1>9, <1>12, <2>1
<1>15. ~Live(c)
  BY <1>5 DEF Live
<1> QED
  BY <1>4, <1>8, <1>10, <1>11, <1>12, <1>13, <1>14, <1>15 DEF c

\* remove_conn_from_queue() and free_closed_conn().
LEMMA RemoveFacts ==
    ASSUME IInv, NEW c \in ToSet(queue), RemoveConn(c), UNCHANGED connVars
    PROVE  /\ ListTypes' /\ OnOneList' /\ CountersAgree'
           /\ ToSet(queue') = ToSet(queue) \ {c}
<1>1. /\ cache \in Seq(Ctx) /\ queue \in Seq(Ctx) /\ allocated \in SUBSET Ctx
      /\ cacheCnt \in 0..MaxCache /\ cacheCnt = Len(cache) /\ MaxCache \in Nat
  BY CacheBounds DEF IInv, TypeOK, CountersAgree
<1>2. /\ IsInjective(cache) /\ IsInjective(queue)
      /\ ToSet(cache) \cap ToSet(queue) = {}
      /\ ToSet(cache) \cup ToSet(queue) = allocated
  BY DEF IInv, OnOneList
<1>3. c \in Ctx /\ c \notin ToSet(cache)
  BY <1>1, <1>2, ToSetMember
<1>4. /\ queue' \in Seq(Ctx) /\ ToSet(queue') = ToSet(queue) \ {c} /\ IsInjective(queue')
  BY <1>1, <1>2, DelEntryFacts DEF RemoveConn
<1>5. /\ allocated' \in SUBSET Ctx /\ cache' \in Seq(Ctx) /\ cacheCnt' \in 0..MaxCache
      /\ cacheCnt' = Len(cache') /\ IsInjective(cache')
      /\ ToSet(cache') \cap ToSet(queue') = {}
      /\ ToSet(cache') \cup ToSet(queue') = allocated'
  <2>1. CASE cacheCnt < MaxCache
    <3>1. /\ cache' = Cons(c, cache) /\ cacheCnt' = cacheCnt + 1 /\ allocated' = allocated
      BY <2>1 DEF RemoveConn, FreeConnCtx
    <3>2. /\ Cons(c, cache) \in Seq(Ctx) /\ Len(Cons(c, cache)) = Len(cache) + 1
          /\ ToSet(Cons(c, cache)) = ToSet(cache) \cup {c} /\ IsInjective(Cons(c, cache))
      BY <1>1, <1>2, <1>3, ConsFacts
    <3>3. cacheCnt' \in 0..MaxCache /\ cacheCnt' = Len(cache')
      BY <1>1, <2>1, <3>1, <3>2
    <3> QED BY <1>1, <1>2, <1>3, <1>4, <3>1, <3>2, <3>3
  <2>2. CASE ~(cacheCnt < MaxCache)
    <3>1. cache' = cache /\ cacheCnt' = cacheCnt /\ allocated' = allocated \ {c}
      BY <2>2 DEF RemoveConn, FreeConnCtx
    <3> QED BY <1>1, <1>2, <1>3, <1>4, <3>1
  <2> QED BY <2>1, <2>2
<1>6. CountersAgree'
  <2>1. IsFiniteSet(ToSet(queue))
    BY <1>1, ToSetFinite
  <2> DEFINE A == Cardinality({d \in ToSet(queue) : isActive[d]})
             B == Cardinality({d \in ToSet(queue) : ~isActive[d]})
  <2>2. isActive' = isActive /\ activeConnCnt = A /\ inactiveConnCnt = B
    BY DEF connVars, IInv, CountersAgree
  <2>3. /\ Cardinality({d \in ToSet(queue) \ {c} : isActive[d]}) = IF isActive[c] THEN A - 1 ELSE A
        /\ Cardinality({d \in ToSet(queue) \ {c} : ~isActive[d]}) = IF isActive[c] THEN B ELSE B - 1
    <3> HIDE DEF IInv
    <3>1. c \in ToSet(queue)
      OBVIOUS
    <3>2. /\ Cardinality({d \in ToSet(queue) \ {c} : isActive[d]}) =
                IF isActive[c] THEN Cardinality({d \in ToSet(queue) : isActive[d]}) - 1
                ELSE Cardinality({d \in ToSet(queue) : isActive[d]})
          /\ Cardinality({d \in ToSet(queue) \ {c} : ~isActive[d]}) =
                IF isActive[c] THEN Cardinality({d \in ToSet(queue) : ~isActive[d]})
                ELSE Cardinality({d \in ToSet(queue) : ~isActive[d]}) - 1
      BY ONLY <2>1, <3>1, CountRemove
    <3> QED BY ONLY <3>2
  <2> HIDE DEF A, B
  <2>4. /\ activeConnCnt' = IF isActive[c] THEN A - 1 ELSE A
        /\ inactiveConnCnt' = IF isActive[c] THEN B ELSE B - 1
    BY <2>2 DEF RemoveConn
  <2>5. ToSet(queue') = ToSet(queue) \ {c}
    BY <1>4
  <2> HIDE DEF IInv
  <2>6. /\ activeConnCnt' = Cardinality({d \in ToSet(queue') : isActive'[d]})
        /\ inactiveConnCnt' = Cardinality({d \in ToSet(queue') : ~isActive'[d]})
    BY <2>2, <2>3, <2>4, <2>5
  <2> QED BY <1>5, <2>6 DEF CountersAgree
<1>7. activeConnCnt' \in Nat /\ inactiveConnCnt' \in Nat
  BY <1>4, <1>6, FlagCount DEF CountersAgree
<1> QED
  BY <1>2, <1>4, <1>5, <1>6, <1>7 DEF ListTypes, OnOneList

-----------------------------------------------------------------------------
(***************************************************************************)
(* The operations of the coroutine.                                        *)
(***************************************************************************)

\* While a coroutine runs, it is that of a live connection, and no new
\* connection is being made.
LEMMA Running ==
    ASSUME IInv, pc = "run"
    PROVE  /\ currConn \in Ctx /\ currConn \in ToSet(queue) /\ pos = currConn
           /\ Live(currConn) /\ newSock = NoFd
           /\ queue \in Seq(Ctx) /\ isActive \in [Ctx -> BOOLEAN]
<1>1. queue \in Seq(Ctx) /\ isActive \in [Ctx -> BOOLEAN]
  BY DEF IInv, TypeOK
<1>2. pos = currConn /\ currConn \in ToSet(queue)
  BY DEF IInv, CursorsValid
<1>3. Live(currConn)
  BY <1>2 DEF IInv, NeverRunCompleted, Live
<1>4. newSock = NoFd
  BY DEF IInv, FillBounded
<1> QED
  BY <1>1, <1>2, <1>3, <1>4, ToSetMember

\* curr_conn_update_active() and curr_conn_set_inactive() keep the counters
\* right.
LEMMA FlagFacts ==
    ASSUME IInv, pc = "run", UpdateActive \/ SetInactive, UNCHANGED listVars
    PROVE  CountersAgree' /\ ListTypes' /\ isActive' \in [Ctx -> BOOLEAN]
<1>1. /\ currConn \in Ctx /\ currConn \in ToSet(queue)
      /\ queue \in Seq(Ctx) /\ isActive \in [Ctx -> BOOLEAN]
  BY Running
<1>2. queue' = queue /\ cache' = cache /\ cacheCnt' = cacheCnt /\ allocated' = allocated
  BY DEF listVars
<1>3. IsFiniteSet(ToSet(queue)) /\ ToSet(queue) \subseteq Ctx
  BY <1>1, ToSetFinite, ToSetMember
<1> DEFINE Q == ToSet(queue)
<1>a. currConn \in Q /\ IsFiniteSet(Q)
  BY <1>1, <1>3
<1>4. /\ activeConnCnt = Cardinality({c \in ToSet(queue) : isActive[c]})
      /\ inactiveConnCnt = Cardinality({c \in ToSet(queue) : ~isActive[c]})
      /\ activeConnCnt \in Nat /\ inactiveConnCnt \in Nat
      /\ cacheCnt = Len(cache)
  BY DEF IInv, CountersAgree, TypeOK
<1>5. /\ activeConnCnt' = Cardinality({c \in ToSet(queue) : isActive'[c]})
      /\ inactiveConnCnt' = Cardinality({c \in ToSet(queue) : ~isActive'[c]})
      /\ isActive' \in [Ctx -> BOOLEAN]
  <2>1. CASE UpdateActive
    <3>1. isActive' = [isActive EXCEPT ![currConn] = TRUE]
      BY <2>1 DEF UpdateActive
    <3>2. isActive' \in [Ctx -> BOOLEAN]
      BY <1>1, <3>1
    <3>3. isActive'[currConn] /\ \A c \in ToSet(queue) \ {currConn} : isActive'[c] = isActive[c]
      BY <1>1, <1>3, <3>1
    <3>4. CASE isActive[currConn]
      <4>1. UNCHANGED cntVars /\ isActive' = isActive
        BY <1>1, <2>1, <3>1, <3>4 DEF UpdateActive
      <4> QED BY <1>4, <3>2, <4>1 DEF cntVars
    <3>5. CASE ~isActive[currConn]
      <4>1. activeConnCnt' = activeConnCnt + 1 /\ inactiveConnCnt' = inactiveConnCnt - 1
        BY <2>1, <3>5 DEF UpdateActive
      <4>2. /\ Cardinality({c \in Q : isActive'[c]}) = Cardinality({c \in Q : isActive[c]}) + 1
            /\ Cardinality({c \in Q : ~isActive'[c]}) = Cardinality({c \in Q : ~isActive[c]}) - 1
        <5> DEFINE A == {c \in Q : isActive[c]}
                   B == {c \in Q : ~isActive[c]}
        <5>1. /\ {c \in Q : isActive'[c]} = A \cup {currConn}
              /\ {c \in Q : ~isActive'[c]} = B \ {currConn}
              /\ currConn \in B /\ currConn \notin A
          BY <1>a, <3>3, <3>5
        <5>2. IsFiniteSet(A) /\ IsFiniteSet(B)
          BY <1>1, FlagCount
        <5> HIDE DEF A, B, Q
        <5>3. Cardinality(A \cup {currConn}) = Cardinality(A) + 1 /\ Cardinality(B \ {currConn}) = Cardinality(B) - 1
          BY <5>1, <5>2, CountMove
        <5> QED BY <5>1, <5>3 DEF A, B
      <4> QED BY <1>4, <3>2, <4>1, <4>2
    <3> QED BY <3>4, <3>5
  <2>2. CASE SetInactive
    <3>1. isActive' = [isActive EXCEPT ![currConn] = FALSE]
      BY <2>2 DEF SetInactive
    <3>2. isActive' \in [Ctx -> BOOLEAN]
      BY <1>1, <3>1
    <3>3. ~isActive'[currConn] /\ \A c \in ToSet(queue) \ {currConn} : isActive[c] = isActive'[c]
      BY <1>1, <1>3, <3>1
    <3>4. CASE ~isActive[currConn]
      <4>1. UNCHANGED cntVars /\ isActive' = isActive
        BY <1>1, <2>2, <3>1, <3>4 DEF SetInactive
      <4> QED BY <1>4, <3>2, <4>1 DEF cntVars
    <3>5. CASE isActive[currConn]
      <4>1. activeConnCnt' = activeConnCnt - 1 /\ inactiveConnCnt' = inactiveConnCnt + 1
        BY <2>2, <3>5 DEF SetInactive
      <4>2. /\ Cardinality({c \in Q : isActive[c]}) = Cardinality({c \in Q : isActive'[c]}) + 1
            /\ Cardinality({c \in Q : ~isActive[c]}) = Cardinality({c \in Q : ~isActive'[c]}) - 1
        <5> DEFINE A == {c \in Q : isActive'[c]}
                   B == {c \in Q : ~isActive'[c]}
        <5>1. /\ {c \in Q : isActive[c]} = A \cup {currConn}
              /\ {c \in Q : ~isActive[c]} = B \ {currConn}
              /\ currConn \in B /\ currConn \notin A
          BY <1>a, <3>3, <3>5
        <5>2. IsFiniteSet(A) /\ IsFiniteSet(B)
          BY <1>1, FlagCount
        <5> HIDE DEF A, B, Q
        <5>3. Cardinality(A \cup {currConn}) = Cardinality(A) + 1 /\ Cardinality(B \ {currConn}) = Cardinality(B) - 1
          BY <5>1, <5>2, CountMove
        <5> QED BY <5>1, <5>3 DEF A, B
      <4>3. /\ Cardinality({c \in ToSet(queue) : isActive'[c]}) \in Nat
            /\ Cardinality({c \in ToSet(queue) : ~isActive'[c]}) \in Nat
        BY <1>1, FlagCount
      <4> QED BY <1>4, <3>2, <4>1, <4>2, <4>3
    <3> QED BY <3>4, <3>5
  <2> QED BY <2>1, <2>2
<1>6. activeConnCnt' \in Nat /\ inactiveConnCnt' \in Nat
  BY <1>1, <1>5, FlagCount
<1> QED
  BY <1>2, <1>4, <1>5, <1>6 DEF CountersAgree, ListTypes, IInv, TypeOK

-----------------------------------------------------------------------------
(***************************************************************************)
(* The invariant.                                                          *)
(***************************************************************************)

\* Both lists are empty, nothing is open, and the first fill begins.
LEMMA InitIInv == CtxInit => IInv
<1> SUFFICES ASSUME CtxInit PROVE IInv
  OBVIOUS
<1>1. /\ pc = "fill" /\ fill = MinCache /\ newSock = NoFd
      /\ allocated = {} /\ cache = <<>> /\ cacheCnt = 0
      /\ queue = <<>> /\ activeConnCnt = 0 /\ inactiveConnCnt = 0
      /\ connSock = [c \in Ctx |-> NoFd]
      /\ isCompleted = [c \in Ctx |-> FALSE]
      /\ isActive = [c \in Ctx |-> FALSE]
      /\ opened = {} /\ currConn = NULL
      /\ pos = ListHead /\ posN = ListHead
  BY DEF CtxInit
<1>2. /\ <<>> \in Seq(Ctx) /\ Len(<<>>) = 0 /\ ToSet(<<>>) = {} /\ IsInjective(<<>>)
  BY EmptySeq DEF ToSet, IsInjective
<1>3. TypeOK
  BY <1>1, <1>2, CacheBounds DEF TypeOK
<1>4. OnOneList
  BY <1>1, <1>2 DEF OnOneList
<1>5. CountersAgree
  <2>1. {c \in ToSet(queue) : isActive[c]} = {} /\ {c \in ToSet(queue) : ~isActive[c]} = {}
    BY <1>1, <1>2
  <2> QED BY <1>1, <1>2, <2>1, FS_EmptySet DEF CountersAgree
<1>6. SocketsOwned /\ CursorsValid /\ NeverRunCompleted
  BY <1>1, <1>2 DEF SocketsOwned, Live, CursorsValid, NeverRunCompleted
<1>7. FillBounded
  BY <1>1, CacheBounds DEF FillBounded
<1> QED
  BY <1>3, <1>4, <1>5, <1>6, <1>7 DEF IInv

\* A new live connection c takes over the socket s.
LEMMA SocketsCreate ==
    ASSUME IInv, NEW s \in Fd, NEW c \in Ctx, ~Live(c), connSock'[c] = s,
           \A d \in Ctx : /\ Live(d)' <=> Live(d) \/ d = c
                          /\ d # c => connSock'[d] = connSock[d],
           opened' = opened \cup {s}, newSock' = NoFd,
           newSock \in {s, NoFd}, newSock = s \/ s \notin opened
    PROVE  SocketsOwned'
<1>1. /\ opened = {connSock[x] : x \in {d \in Ctx : Live(d)}} \cup ({newSock} \ {NoFd})
      /\ \A x, d \in Ctx : Live(x) /\ Live(d) /\ connSock[x] = connSock[d] => x = d
      /\ \A x \in Ctx : Live(x) => connSock[x] # newSock
      /\ opened \subseteq Fd /\ NoFd \notin Fd /\ s # NoFd
  BY DistinctValues DEF IInv, SocketsOwned, TypeOK
<1>2. \A d \in Ctx : Live(d) => connSock[d] # s /\ connSock[d] \in Fd /\ d # c
  BY <1>1
<1>3. \A d \in Ctx : Live(d)' => connSock'[d] = IF d = c THEN s ELSE connSock[d]
  OBVIOUS
<1>4. opened' = {connSock'[x] : x \in {d \in Ctx : Live(d)'}} \cup ({newSock'} \ {NoFd})
  <2>1. \A f : f \in opened' <=> f = s \/ \E d \in Ctx : Live(d) /\ connSock[d] = f
    BY <1>1
  <2>2. \A f : (\E d \in Ctx : Live(d)' /\ connSock'[d] = f) <=>
               f = s \/ \E d \in Ctx : Live(d) /\ connSock[d] = f
    BY <1>2, <1>3
  <2> QED BY <2>1, <2>2
<1>5. \A x, d \in Ctx : Live(x)' /\ Live(d)' /\ connSock'[x] = connSock'[d] => x = d
  BY <1>1, <1>2, <1>3
<1>6. \A x \in Ctx : Live(x)' => connSock'[x] # newSock'
  BY <1>1, <1>2, <1>3
<1> QED
  BY <1>4, <1>5, <1>6 DEF SocketsOwned

-----------------------------------------------------------------------------
(***************************************************************************)
(* Every action preserves the invariant.                                   *)
(***************************************************************************)

\* Steps that touch the lists.
LEMMA FillAllocIInv == ASSUME IInv, NEW c \in Ctx, FillAlloc(c) PROVE IInv'
<1>1. /\ pc = "fill" /\ fill # 0 /\ c \in Ctx \ allocated
      /\ allocated' = allocated \cup {c} /\ cache' = Cons(c, cache)
      /\ cacheCnt' = cacheCnt + 1 /\ fill' = fill - 1
      /\ UNCHANGED <<pc, newSock, queue, cntVars, connVars, currConn, passVars>>
  BY DEF FillAlloc
<1>2. /\ cache \in Seq(Ctx) /\ cacheCnt \in 0..MaxCache /\ cacheCnt = Len(cache)
      /\ fill \in 0..MinCache /\ fill + cacheCnt <= MinCache
      /\ MinCache \in Nat /\ MaxCache \in Nat /\ MinCache <= MaxCache
  BY <1>1, CacheBounds DEF IInv, TypeOK, CountersAgree, FillBounded
<1>3. /\ IsInjective(cache) /\ IsInjective(queue)
      /\ ToSet(cache) \cap ToSet(queue) = {}
      /\ ToSet(cache) \cup ToSet(queue) = allocated
  BY DEF IInv, OnOneList
<1>4. /\ Cons(c, cache) \in Seq(Ctx) /\ Len(Cons(c, cache)) = Len(cache) + 1
      /\ ToSet(Cons(c, cache)) = ToSet(cache) \cup {c} /\ IsInjective(Cons(c, cache))
  BY <1>1, <1>2, <1>3, ConsFacts
<1>5. fill' \in 0..MinCache /\ cacheCnt' \in 0..MaxCache /\ fill' + cacheCnt' <= MinCache
  BY <1>1, <1>2
<1>6. TypeOK'
  BY <1>1, <1>4, <1>5 DEF IInv, TypeOK, cntVars, connVars, passVars
<1>7. OnOneList'
  BY <1>1, <1>3, <1>4 DEF OnOneList
<1>8. CountersAgree'
  BY <1>1, <1>2, <1>4 DEF IInv, CountersAgree, cntVars, connVars
<1>9. SocketsOwned'
  BY <1>1 DEF IInv, SocketsOwned, Live, connVars
<1>10. CursorsValid' /\ NeverRunCompleted'
  BY <1>1 DEF IInv, CursorsValid, NeverRunCompleted, connVars, passVars
<1>11. FillBounded'
  BY <1>1, <1>5 DEF IInv, FillBounded
<1> QED
  BY <1>6, <1>7, <1>8, <1>9, <1>10, <1>11 DEF IInv

\* A connection is created and the pass starts: the common part of
\* AcceptConn and FillServes.
LEMMA CreateIInv ==
    ASSUME IInv, pc \in {"wait", "fill"}, NEW s \in Fd, cacheCnt # 0, CreateNewConn(s),
           opened' = opened \cup {s}, newSock' = NoFd,
           newSock \in {s, NoFd}, newSock = s \/ s \notin opened,
           StartPass, UNCHANGED <<fill, currConn>>
    PROVE  IInv'
<1>1. ListTypes' /\ OnOneList' /\ CountersAgree'
  BY CreateFacts
<1>2. /\ connSock' \in [Ctx -> Fd \cup {NoFd}]
      /\ isCompleted' \in [Ctx -> BOOLEAN] /\ isActive' \in [Ctx -> BOOLEAN]
  BY CreateFacts
<1>3. SocketsOwned'
  <2> DEFINE c == Head(cache)
  <2>1. /\ c \in Ctx /\ ~Live(c) /\ connSock'[c] = s
        /\ \A d \in Ctx : /\ Live(d)' <=> Live(d) \/ d = c
                          /\ d # c => connSock'[d] = connSock[d]
    BY CreateFacts
  <2> HIDE DEF c
  <2> QED BY <2>1, SocketsCreate
<1>4. /\ pc' = "loop" /\ pos' \in ToSet(queue') \cup {ListHead}
      /\ posN' = NextEntry(queue', pos') /\ posN' \in ToSet(queue') \cup {ListHead}
      /\ ToSet(queue') \subseteq Ctx
  <2>1. queue' \in Seq(Ctx) /\ IsInjective(queue')
    BY <1>1 DEF ListTypes, OnOneList
  <2> QED BY <2>1, StartPassFacts, ToSetMember
<1>5. TypeOK'
  <2>1. opened' \in SUBSET Fd /\ fill' \in 0..MinCache /\ currConn' \in Ctx \cup {NULL}
    BY DEF IInv, TypeOK
  <2> QED BY <1>1, <1>2, <1>4, <2>1 DEF TypeOK, ListTypes
<1>6. CursorsValid'
  BY <1>4 DEF CursorsValid
<1>7. NeverRunCompleted'
  <2>1. \A d \in ToSet(queue') : isCompleted'[d] => isCompleted[d] /\ d \in ToSet(queue)
    BY CreateFacts
  <2> QED BY <2>1 DEF IInv, NeverRunCompleted
<1>8. FillBounded'
  BY <1>4 DEF FillBounded
<1> QED
  BY <1>1, <1>3, <1>5, <1>6, <1>7, <1>8 DEF IInv

\* The cached context serves the socket for which the cache was filled.
LEMMA FillServesIInv == ASSUME IInv, FillServes PROVE IInv'
<1>1. /\ pc = "fill" /\ newSock # NoFd /\ cacheCnt # 0 /\ CreateNewConn(newSock)
      /\ newSock' = NoFd /\ StartPass /\ UNCHANGED <<fill, opened, currConn>>
  BY DEF FillServes
<1>2. newSock \in Fd
  BY <1>1 DEF IInv, TypeOK
<1>3. newSock \in opened
  BY <1>1 DEF IInv, SocketsOwned
<1>4. opened' = opened \cup {newSock}
  BY <1>1, <1>3
<1> QED
  BY <1>1, <1>2, <1>4, CreateIInv

\* A socket is accepted, with a cached context or with a fill first.
LEMMA AcceptConnIInv == ASSUME IInv, NEW s \in Fd, AcceptConn(s) PROVE IInv'
<1>1. /\ pc = "wait" /\ s \in Fd \ opened /\ opened' = opened \cup {s}
      /\ UNCHANGED currConn /\ newSock = NoFd
  BY DEF AcceptConn, IInv, FillBounded
<1>2. CASE cacheCnt # 0
  <2>1. CreateNewConn(s) /\ StartPass /\ UNCHANGED fillVars
    BY <1>2 DEF AcceptConn
  <2> QED BY <1>1, <1>2, <2>1, CreateIInv DEF fillVars
<1>3. CASE cacheCnt = 0
  <2>1. /\ pc' = "fill" /\ fill' = MinCache - cacheCnt /\ newSock' = s
        /\ UNCHANGED <<listVars, cntVars, connSock, isCompleted, isActive, passVars>>
    BY <1>3 DEF AcceptConn
  <2>2. MinCache \in Nat /\ fill' = MinCache /\ fill' + cacheCnt' <= MinCache
    BY <1>3, <2>1, CacheBounds DEF listVars
  <2>3. TypeOK'
    BY <1>1, <2>1, <2>2 DEF IInv, TypeOK, listVars, cntVars, passVars
  <2>4. OnOneList' /\ CountersAgree'
    BY <2>1 DEF IInv, OnOneList, CountersAgree, listVars, cntVars
  <2>5. SocketsOwned'
    <3>1. \A d \in Ctx : (Live(d)' <=> Live(d)) /\ connSock'[d] = connSock[d]
      BY <2>1 DEF Live, listVars
    <3>2. /\ opened = {connSock[x] : x \in {d \in Ctx : Live(d)}}
          /\ \A x, d \in Ctx : Live(x) /\ Live(d) /\ connSock[x] = connSock[d] => x = d
      BY <1>1 DEF IInv, SocketsOwned
    <3>3. s # NoFd
      BY DistinctValues
    <3>4. {connSock'[x] : x \in {d \in Ctx : Live(d)'}} = {connSock[x] : x \in {d \in Ctx : Live(d)}}
      BY <3>1
    <3>5. \A x \in Ctx : Live(x) => connSock[x] # s
      BY <1>1, <3>2
    <3> QED BY <1>1, <2>1, <3>1, <3>2, <3>3, <3>4, <3>5 DEF SocketsOwned
  <2>6. CursorsValid' /\ NeverRunCompleted' /\ FillBounded'
    BY <1>1, <2>1, <2>2 DEF IInv, CursorsValid, NeverRunCompleted, FillBounded, listVars, passVars
  <2> QED BY <2>3, <2>4, <2>5, <2>6 DEF IInv
<1> QED
  BY <1>2, <1>3

\* The loop takes the connection that switched back off the queue, if it is
\* completed, and moves on to an entry that is still there.
LEMMA BackInLoopIInv == ASSUME IInv, BackInLoop PROVE IInv'
<1>1. /\ pc = "back" /\ pc' = "loop" /\ pos' = posN /\ posN' = NextEntry(queue', posN)
      /\ UNCHANGED <<fillVars, connVars, currConn>>
  BY DEF BackInLoop
<1>2. /\ pos = currConn /\ pos \in ToSet(queue) /\ posN = NextEntry(queue, pos)
      /\ queue \in Seq(Ctx) /\ IsInjective(queue) /\ newSock = NoFd
      /\ pos \in Ctx /\ pos # ListHead
  <2>1. pos = currConn /\ pos \in ToSet(queue) /\ posN = NextEntry(queue, pos)
    BY <1>1 DEF IInv, CursorsValid
  <2>2. queue \in Seq(Ctx) /\ IsInjective(queue) /\ newSock = NoFd
    BY <1>1 DEF IInv, TypeOK, OnOneList, FillBounded
  <2> QED BY <2>1, <2>2, ToSetMember, DistinctValues
<1>3. posN \in ToSet(queue) \cup {ListHead} /\ posN # pos
  BY <1>2, NextEntryFacts
<1>4. /\ ListTypes' /\ OnOneList' /\ CountersAgree'
      /\ posN \in ToSet(queue') \cup {ListHead}
      /\ ToSet(queue') \subseteq ToSet(queue)
      /\ \A d \in ToSet(queue) : isCompleted[d] => d \notin ToSet(queue')
      /\ \A d \in Ctx : ~isCompleted[d] => (d \in ToSet(queue') <=> d \in ToSet(queue))
  <2>1. CASE isCompleted[pos]
    <3>1. RemoveConn(pos)
      BY <2>1 DEF BackInLoop
    <3>2. /\ ListTypes' /\ OnOneList' /\ CountersAgree'
          /\ ToSet(queue') = ToSet(queue) \ {pos}
      BY <1>1, <1>2, <3>1, RemoveFacts DEF connVars
    <3>3. \A d \in ToSet(queue) : isCompleted[d] => d = pos
      BY <1>2 DEF IInv, NeverRunCompleted
    <3> QED BY <1>3, <2>1, <3>2, <3>3
  <2>2. CASE ~isCompleted[pos]
    <3>1. UNCHANGED <<listVars, cntVars>>
      BY <2>2 DEF BackInLoop
    <3>2. OnOneList' /\ CountersAgree'
      BY <1>1, <3>1, Frame DEF fillVars
    <3>3. ListTypes'
      BY <3>1 DEF IInv, TypeOK, ListTypes, listVars, cntVars
    <3>4. queue' = queue
      BY <3>1 DEF listVars
    <3>5. \A d \in ToSet(queue) : ~isCompleted[d]
      BY <1>2, <2>2 DEF IInv, NeverRunCompleted
    <3> QED BY <1>3, <3>2, <3>3, <3>4, <3>5
  <2> QED BY <2>1, <2>2
<1>5. ToSet(queue') \subseteq Ctx /\ posN' \in ToSet(queue') \cup {ListHead}
  <2>1. queue' \in Seq(Ctx) /\ IsInjective(queue')
    BY <1>4 DEF ListTypes, OnOneList
  <2> QED BY <1>1, <1>4, <2>1, NextEntryFacts, ToSetMember
<1>6. TypeOK'
  BY <1>1, <1>4, <1>5 DEF IInv, TypeOK, ListTypes, connVars, fillVars
<1>7. SocketsOwned'
  <2>1. \A d \in Ctx : Live(d)' <=> Live(d)
    BY <1>1, <1>4 DEF Live, connVars
  <2>2. connSock' = connSock /\ opened' = opened /\ newSock' = newSock
    BY <1>1 DEF connVars, fillVars
  <2>3. {connSock'[x] : x \in {d \in Ctx : Live(d)'}} = {connSock[x] : x \in {d \in Ctx : Live(d)}}
    BY <2>1, <2>2
  <2> QED BY <2>1, <2>2, <2>3 DEF IInv, SocketsOwned
<1>8. CursorsValid'
  BY <1>1, <1>4 DEF CursorsValid
<1>9. NeverRunCompleted'
  BY <1>1, <1>4 DEF NeverRunCompleted, connVars
<1>10. FillBounded'
  BY <1>1, <1>2 DEF FillBounded, fillVars
<1> QED
  BY <1>4, <1>6, <1>7, <1>8, <1>9, <1>10 DEF IInv

\* Steps of the coroutine that only move its flag and the counters.
LEMMA FlagIInv ==
    ASSUME IInv, pc = "run", pc' \in {"run", "back"}, UpdateActive \/ SetInactive,
           UNCHANGED <<fillVars, listVars, connSock, isCompleted, opened, currConn, passVars>>
    PROVE  IInv'
<1>1. CountersAgree' /\ ListTypes' /\ isActive' \in [Ctx -> BOOLEAN]
  BY FlagFacts
<1>2. TypeOK'
  BY <1>1 DEF IInv, TypeOK, ListTypes, fillVars, passVars
<1>3. OnOneList'
  BY DEF IInv, OnOneList, listVars
<1>4. SocketsOwned'
  BY DEF IInv, SocketsOwned, Live, listVars, fillVars
<1>5. CursorsValid'
  BY DEF IInv, CursorsValid, listVars, passVars
<1>6. NeverRunCompleted'
  BY Running DEF IInv, NeverRunCompleted, listVars
<1>7. FillBounded'
  BY Running DEF FillBounded, fillVars
<1> QED
  BY <1>1, <1>2, <1>3, <1>4, <1>5, <1>6, <1>7 DEF IInv

\* curr_conn_close() releases the socket of the connection that runs, and no
\* other one.
LEMMA CoCloseIInv == ASSUME IInv, CoClose PROVE IInv'
<1>1. /\ pc = "run" /\ pc' = "back"
      /\ UNCHANGED <<fillVars, listVars, cntVars, connSock, isActive, currConn, passVars>>
  BY DEF CoClose
<1> DEFINE c == currConn
<1>2. c \in Ctx /\ c \in ToSet(queue) /\ Live(c) /\ newSock = NoFd
  BY <1>1, Running
<1>3. opened' = opened \ {connSock[c]} /\ isCompleted' = [isCompleted EXCEPT ![c] = TRUE]
  BY <1>2 DEF CoClose, Live
<1>4. isCompleted \in [Ctx -> BOOLEAN] /\ queue \in Seq(Ctx)
  BY DEF IInv, TypeOK
<1>5. isCompleted' \in [Ctx -> BOOLEAN] /\ \A d \in Ctx : isCompleted'[d] <=> isCompleted[d] \/ d = c
  BY <1>2, <1>3, <1>4
<1>6. TypeOK'
  BY <1>1, <1>3, <1>5 DEF IInv, TypeOK, fillVars, listVars, cntVars, passVars
<1>7. OnOneList' /\ CountersAgree'
  BY <1>1 DEF IInv, OnOneList, CountersAgree, listVars, cntVars
<1>8. SocketsOwned'
  <2>1. \A d \in Ctx : Live(d)' <=> Live(d) /\ d # c
    BY <1>1, <1>5 DEF Live, listVars
  <2>2. /\ opened = {connSock[x] : x \in {d \in Ctx : Live(d)}} \cup ({newSock} \ {NoFd})
        /\ \A x, d \in Ctx : Live(x) /\ Live(d) /\ connSock[x] = connSock[d] => x = d
        /\ \A x \in Ctx : Live(x) => connSock[x] # newSock
    BY DEF IInv, SocketsOwned
  <2>3. connSock' = connSock /\ newSock' = newSock
    BY <1>1 DEF fillVars
  <2>4. \A f : f \in opened' <=> \E x \in Ctx : Live(x) /\ x # c /\ connSock[x] = f
    BY <1>2, <1>3, <2>2
  <2>5. opened' = {connSock'[x] : x \in {d \in Ctx : Live(d)'}} \cup ({newSock'} \ {NoFd})
    BY <1>2, <2>1, <2>3, <2>4
  <2> QED BY <2>1, <2>2, <2>3, <2>5 DEF SocketsOwned
<1>9. CursorsValid'
  BY <1>1 DEF IInv, CursorsValid, listVars, passVars
<1>10. NeverRunCompleted'
  <2>1. \A d \in ToSet(queue) : ~isCompleted[d] /\ d \in Ctx
    BY <1>1, <1>4, ToSetMember DEF IInv, NeverRunCompleted
  <2> QED BY <1>1, <1>5, <2>1 DEF NeverRunCompleted, listVars
<1>11. FillBounded'
  BY <1>1, <1>2 DEF FillBounded, fillVars
<1> QED
  BY <1>6, <1>7, <1>8, <1>9, <1>10, <1>11 DEF IInv

\* The other steps leave lists, counters, flags and sockets alone.
LEMMA ControlIInv ==
    ASSUME IInv, UNCHANGED <<newSock, listVars, cntVars, connVars>>,
           FillFails \/ FillInitDone \/ FillExits \/ NoNewConn \/ PassEnds
             \/ SwapToConn \/ CoYield \/ CoDies \/ UNCHANGED ctxVars
    PROVE  IInv'
<1>1. OnOneList' /\ CountersAgree' /\ SocketsOwned'
  BY Frame
<1>2. queue \in Seq(Ctx) /\ IsInjective(queue) /\ queue' = queue /\ ToSet(queue) \subseteq Ctx
  BY ToSetMember DEF IInv, TypeOK, OnOneList, listVars
<1>3. fill' \in 0..MinCache /\ FillBounded'
  <2>1. CASE FillFails
    <3>1. /\ fill \in 0..MinCache /\ fill # 0 /\ fill' = fill - 1 /\ MinCache \in Nat
          /\ cacheCnt \in 0..MaxCache /\ MaxCache \in Nat /\ fill + cacheCnt <= MinCache
      BY <2>1, CacheBounds DEF FillFails, IInv, TypeOK, FillBounded
    <3>2. fill' \in 0..MinCache /\ fill' + cacheCnt <= MinCache
      BY <3>1
    <3> QED BY <2>1, <3>2 DEF FillFails, listVars, IInv, FillBounded
  <2>2. CASE ~FillFails
    BY <2>2 DEF IInv, TypeOK, FillBounded, FillInitDone, FillExits, NoNewConn, StartPass, PassEnds,
                SwapToConn, CoYield, CoDies, ctxVars, fillVars, listVars
  <2> QED BY <2>1, <2>2
<1>4. /\ pc' \in {"fill", "wait", "loop", "run", "back", "exited"}
      /\ currConn' \in Ctx \cup {NULL}
      /\ pos' \in Ctx \cup {ListHead} /\ posN' \in Ctx \cup {ListHead}
      /\ CursorsValid'
  <2>1. CASE NoNewConn
    <3>1. /\ pc' = "loop" /\ pos' \in ToSet(queue') \cup {ListHead}
          /\ posN' = NextEntry(queue', pos') /\ posN' \in ToSet(queue') \cup {ListHead}
      BY <1>2, <2>1, StartPassFacts DEF NoNewConn
    <3> QED BY <1>2, <2>1, <3>1 DEF NoNewConn, IInv, TypeOK, CursorsValid
  <2>2. CASE SwapToConn
    BY <1>2, <2>2 DEF SwapToConn, IInv, TypeOK, CursorsValid, passVars
  <2>3. CASE ~NoNewConn /\ ~SwapToConn
    BY <1>2, <2>3 DEF IInv, TypeOK, CursorsValid, FillFails, FillInitDone, FillExits, PassEnds,
                      CoYield, CoDies, ctxVars, passVars
  <2> QED BY <2>1, <2>2, <2>3
<1>5. TypeOK'
  BY <1>3, <1>4 DEF IInv, TypeOK, listVars, cntVars, connVars
<1>6. NeverRunCompleted'
  BY <1>2 DEF IInv, NeverRunCompleted, connVars, FillFails, FillInitDone, FillExits, NoNewConn,
              StartPass, PassEnds, SwapToConn, CoYield, CoDies, ctxVars
<1> QED
  BY <1>1, <1>3, <1>4, <1>5, <1>6 DEF IInv

\* The invariant is inductive.
LEMMA NextIInv == IInv /\ [CtxNext]_ctxVars => IInv'
<1> SUFFICES ASSUME IInv, [CtxNext]_ctxVars PROVE IInv'
  OBVIOUS
<1>1. CASE \E c \in Ctx : FillAlloc(c)
  BY <1>1, FillAllocIInv
<1>2. CASE FillServes
  BY <1>2, FillServesIInv
<1>3. CASE \E s \in Fd : AcceptConn(s)
  BY <1>3, AcceptConnIInv
<1>4. CASE BackInLoop
  BY <1>4, BackInLoopIInv
<1>5. CASE CoStep \/ CoBlock
  BY <1>5, FlagIInv DEF CoStep, CoBlock
<1>6. CASE CoClose
  BY <1>6, CoCloseIInv
<1>7. CASE FillFails \/ FillInitDone \/ FillExits \/ NoNewConn \/ PassEnds
             \/ SwapToConn \/ CoYield \/ CoDies \/ UNCHANGED ctxVars
  <2>1. UNCHANGED <<newSock, listVars, cntVars, connVars>>
    BY <1>7 DEF FillFails, FillInitDone, FillExits, NoNewConn, PassEnds, SwapToConn,
                CoYield, CoDies, ctxVars, fillVars
  <2> QED BY <1>7, <2>1, ControlIInv
<1>8. CASE Exited
  BY <1>8, <1>7 DEF Exited
<1> QED
  BY <1>1, <1>2, <1>3, <1>4, <1>5, <1>6, <1>7, <1>8
     DEF CtxNext, FillStep, LoopStep, CoStepAny

-----------------------------------------------------------------------------
(***************************************************************************)
(* The theorems.                                                           *)
(***************************************************************************)

\* The conjunction of the invariants below, strengthened by the bound of the
\* fill loop: without it, nothing keeps cnt of the cache below
\* MAX_CONN_CTX_CACHE_CNT while fill_conn_ctx_cache() runs, and a socket could
\* be waiting for its context in the middle of a pass.
THEOREM Invariance == CtxSpec => []IInv
  BY InitIInv, NextIInv, PTL DEF CtxSpec

\* Every variable of srv_conn_ctxt.c keeps its type; in particular neither
\* counter of the queue ever becomes negative: the event loop would take that
\* for a runnable connection and poll for ever.
THEOREM TypeCorrect == CtxSpec => []TypeOK
<1>1. IInv => TypeOK
  BY DEF IInv
<1> QED
  BY <1>1, Invariance, PTL

\* A mapped conn_t is on exactly one of the two lists that share its link.
THEOREM ListsDisjoint == CtxSpec => []OnOneList
<1>1. IInv => OnOneList
  BY DEF IInv
<1> QED
  BY <1>1, Invariance, PTL

\* cnt, active_conn_cnt and inactive_conn_cnt count what they are meant to.
THEOREM CountersCorrect == CtxSpec => []CountersAgree
<1>1. IInv => CountersAgree
  BY DEF IInv
<1> QED
  BY <1>1, Invariance, PTL

\* curr_conn_close() leaks no socket and no two connections share one.
THEOREM SocketOwnership == CtxSpec => []SocketsOwned
<1>1. IInv => SocketsOwned
  BY DEF IInv
<1> QED
  BY <1>1, Invariance, PTL

\* Freeing a connection in the middle of a pass leaves no dangling cursor.
THEOREM SafeTraversal == CtxSpec => []CursorsValid
<1>1. IInv => CursorsValid
  BY DEF IInv
<1> QED
  BY <1>1, Invariance, PTL

\* The coroutine of a closed connection is never resumed ("Should never get
\* here").
THEOREM ClosedNeverRuns == CtxSpec => []NeverRunCompleted
<1>1. IInv => NeverRunCompleted
  BY DEF IInv
<1> QED
  BY <1>1, Invariance, PTL

-----------------------------------------------------------------------------
(***************************************************************************)
(* The refinement of ConnService.                                          *)
(***************************************************************************)

\* The service in terms of the contexts, before and after a step.
LEMMA ServiceMembers ==
    ASSUME TypeOK, TypeOK'
    PROVE  /\ \A s : s \in ServedFds <=> \E c \in Ctx : Live(c) /\ connSock[c] = s
           /\ \A s : s \in BusyFds <=> \E c \in Ctx : Live(c) /\ isActive[c] /\ connSock[c] = s
           /\ \A s : s \in ServedFds' <=> \E c \in Ctx : Live(c)' /\ connSock'[c] = s
           /\ \A s : s \in BusyFds' <=> \E c \in Ctx : Live(c)' /\ isActive'[c] /\ connSock'[c] = s
<1>1. ToSet(queue) \subseteq Ctx /\ ToSet(queue') \subseteq Ctx
  BY ToSetMember DEF TypeOK
<1>2. \A c : Live(c)' <=> c \in ToSet(queue') /\ ~isCompleted'[c]
  BY DEF Live
<1> QED
  BY <1>1, <1>2 DEF ServedFds, BusyFds, Live

\* Which connections are served and busy depends on live contexts only.
LEMMA SameService ==
    ASSUME TypeOK, TypeOK',
           \A d \in Ctx : /\ Live(d)' <=> Live(d)
                          /\ Live(d) => connSock'[d] = connSock[d] /\ isActive'[d] = isActive[d]
    PROVE  ServedFds' = ServedFds /\ BusyFds' = BusyFds
<1>1. \A s : s \in ServedFds' <=> s \in ServedFds
  BY ServiceMembers
<1>2. \A s : s \in BusyFds' <=> s \in BusyFds
  BY ServiceMembers
<1> QED
  BY <1>1, <1>2

\* The socket of a live connection is open, and no other one has it.
LEMMA LiveSocket ==
    ASSUME IInv
    PROVE  /\ \A c \in Ctx : Live(c) => connSock[c] \in Fd /\ connSock[c] # NoFd
           /\ \A c, d \in Ctx : Live(c) /\ Live(d) /\ connSock[c] = connSock[d] => c = d
  BY DistinctValues DEF IInv, TypeOK, SocketsOwned

\* At the start nobody is served.
LEMMA InitService == CtxInit => Service!Init
<1> SUFFICES ASSUME CtxInit PROVE Service!Init
  OBVIOUS
<1>1. pc = "fill" /\ queue = <<>>
  BY DEF CtxInit
<1>2. ToSet(queue) = {}
  BY <1>1 DEF ToSet
<1> QED
  BY <1>1, <1>2 DEF Service!Init, ServedFds, BusyFds, TurnFd

\* A context for a new connection: the service accepts its socket.
LEMMA CreateService ==
    ASSUME IInv, IInv', pc \in {"wait", "fill"}, NEW s \in Fd, cacheCnt # 0, CreateNewConn(s),
           StartPass, \A d \in Ctx : Live(d) => connSock[d] # s
    PROVE  Service!Accept(s)
<1> DEFINE c == Head(cache)
<1>1. /\ c \in Ctx /\ ~Live(c) /\ connSock'[c] = s
      /\ \A d \in Ctx : /\ Live(d)' <=> Live(d) \/ d = c
                        /\ d # c => connSock'[d] = connSock[d]
  BY CreateFacts
<1>2. isActive'[c] /\ \A d \in Ctx : d # c => isActive'[d] = isActive[d]
  BY <1>1 DEF CreateNewConn, IInv, TypeOK
<1>3. pc' = "loop" /\ TurnFd = NoFd /\ TurnFd' = NoFd
  BY DEF StartPass, TurnFd
<1> HIDE DEF c
<1>4. TypeOK /\ TypeOK'
  BY DEF IInv
<1>5. s \notin ServedFds
  BY <1>4, ServiceMembers
<1>6. ServedFds' = ServedFds \cup {s}
  <2>1. \A f : f \in ServedFds' <=> f \in ServedFds \/ f = s
    BY <1>1, <1>4, ServiceMembers
  <2> QED BY <2>1
<1>7. BusyFds' = BusyFds \cup {s}
  <2>1. \A f : f \in BusyFds' <=> f \in BusyFds \/ f = s
    BY <1>1, <1>2, <1>4, ServiceMembers
  <2> QED BY <2>1
<1> QED
  BY <1>3, <1>5, <1>6, <1>7 DEF Service!Accept

\* What happens outside a coroutine is seen when a connection is created, when
\* one gets the processor, and when the process exits.
LEMMA FillService == ASSUME IInv, IInv', FillStep PROVE [Service!Next]_(Service!vars)
<1>1. TypeOK /\ TypeOK'
  BY DEF IInv
<1>2. CASE FillServes
  <2>1. /\ pc = "fill" /\ newSock # NoFd /\ cacheCnt # 0 /\ CreateNewConn(newSock) /\ StartPass
        /\ newSock \in Fd
    BY <1>2 DEF FillServes, IInv, TypeOK
  <2>2. \A d \in Ctx : Live(d) => connSock[d] # newSock
    BY DEF IInv, SocketsOwned
  <2> QED BY <2>1, <2>2, CreateService DEF Service!Next
<1>3. CASE ~FillServes
  <2>1. /\ pc = "fill" /\ pc' \in {"fill", "wait", "exited"}
        /\ (pc' = "exited" <=> FillExits)
        /\ queue' = queue /\ UNCHANGED connVars
    BY <1>3 DEF FillStep, FillAlloc, FillFails, FillInitDone, FillExits, listVars
  <2>2. ServedFds' = ServedFds /\ BusyFds' = BusyFds
    BY <1>1, <2>1, SameService DEF Live, connVars
  <2>3. TurnFd = NoFd /\ TurnFd' = NoFd
    BY <2>1 DEF TurnFd
  <2>4. CASE FillExits
    <3>1. newSock \in Fd /\ \A d \in Ctx : Live(d) => connSock[d] # newSock
      BY <2>4 DEF FillExits, IInv, TypeOK, SocketsOwned
    <3>2. newSock \notin ServedFds
      BY <1>1, <3>1, ServiceMembers
    <3>3. Service!Refuse(newSock)
      BY <2>1, <2>2, <2>3, <2>4, <3>1, <3>2 DEF Service!Refuse
    <3> QED BY <3>1, <3>3 DEF Service!Next
  <2>5. CASE ~FillExits
    BY <2>1, <2>2, <2>3, <2>5 DEF Service!vars
  <2> QED BY <2>4, <2>5
<1> QED
  BY <1>2, <1>3

LEMMA LoopService == ASSUME IInv, IInv', LoopStep PROVE [Service!Next]_(Service!vars)
<1>1. TypeOK /\ TypeOK'
  BY DEF IInv
<1>2. ASSUME NEW s \in Fd, AcceptConn(s) PROVE [Service!Next]_(Service!vars)
  <2>1. pc = "wait" /\ s \notin opened /\ \A d \in Ctx : Live(d) => connSock[d] # s
    BY <1>2 DEF AcceptConn, IInv, SocketsOwned
  <2>2. CASE cacheCnt # 0
    <3>1. CreateNewConn(s) /\ StartPass
      BY <1>2, <2>2 DEF AcceptConn
    <3> QED BY <2>1, <2>2, <3>1, CreateService DEF Service!Next
  <2>3. CASE cacheCnt = 0
    <3>1. pc' = "fill" /\ UNCHANGED <<listVars, connSock, isCompleted, isActive>>
      BY <1>2, <2>3 DEF AcceptConn
    <3>2. ServedFds' = ServedFds /\ BusyFds' = BusyFds
      BY <1>1, <3>1, SameService DEF Live, listVars
    <3>3. TurnFd = NoFd /\ TurnFd' = NoFd
      BY <2>1, <3>1 DEF TurnFd
    <3> QED BY <2>1, <3>1, <3>2, <3>3 DEF Service!vars
  <2> QED BY <2>2, <2>3
<1>3. CASE NoNewConn \/ PassEnds
  <2>1. pc \in {"wait", "loop"} /\ pc' \in {"wait", "loop"} /\ UNCHANGED <<listVars, connVars>>
    BY <1>3 DEF NoNewConn, StartPass, PassEnds
  <2>2. ServedFds' = ServedFds /\ BusyFds' = BusyFds
    BY <1>1, <2>1, SameService DEF Live, listVars, connVars
  <2> QED BY <2>1, <2>2 DEF Service!vars, TurnFd
<1>4. CASE SwapToConn
  <2>1. /\ pc = "loop" /\ pos # ListHead /\ currConn' = pos /\ pc' = "run"
        /\ UNCHANGED <<listVars, connVars>>
    BY <1>4 DEF SwapToConn
  <2>2. pos \in Ctx /\ pos \in ToSet(queue) /\ Live(pos)
    BY <1>1, <2>1 DEF IInv, TypeOK, CursorsValid, NeverRunCompleted, Live
  <2>3. ServedFds' = ServedFds /\ BusyFds' = BusyFds
    BY <1>1, <2>1, SameService DEF Live, listVars, connVars
  <2>4. connSock[pos] \in Fd /\ connSock[pos] \in ServedFds
    BY <1>1, <2>2, LiveSocket, ServiceMembers
  <2>5. TurnFd = NoFd /\ TurnFd' = connSock[pos]
    BY <2>1 DEF TurnFd, connVars
  <2>6. Service!Give(connSock[pos])
    BY <2>1, <2>3, <2>4, <2>5 DEF Service!Give
  <2> QED BY <2>4, <2>6 DEF Service!Next
<1>5. CASE BackInLoop
  <2>1. pc = "back" /\ pc' = "loop" /\ UNCHANGED connVars
    BY <1>5 DEF BackInLoop
  <2>2. pos \in ToSet(queue) /\ queue \in Seq(Ctx) /\ IsInjective(queue)
    BY <2>1 DEF IInv, TypeOK, CursorsValid, OnOneList
  <2>3. \A d \in Ctx : Live(d)' <=> Live(d)
    <3>1. CASE isCompleted[pos]
      <4>1. queue' = DelEntry(queue, pos)
        BY <1>5, <3>1 DEF BackInLoop, RemoveConn
      <4>2. ToSet(queue') = ToSet(queue) \ {pos}
        BY <2>2, <4>1, DelEntryFacts
      <4> QED BY <2>1, <3>1, <4>2 DEF Live, connVars
    <3>2. CASE ~isCompleted[pos]
      BY <1>5, <2>1, <3>2 DEF BackInLoop, Live, listVars, connVars
    <3> QED BY <3>1, <3>2
  <2>4. ServedFds' = ServedFds /\ BusyFds' = BusyFds
    BY <1>1, <2>1, <2>3, SameService DEF connVars
  <2> QED BY <2>1, <2>4 DEF Service!vars, TurnFd
<1> QED
  BY <1>2, <1>3, <1>4, <1>5 DEF LoopStep

\* What a coroutine does is seen as progress, yield or close of the connection
\* that has the turn, and of no other, or as the end of the process.
LEMMA CoroutineService == ASSUME IInv, IInv', CoStepAny PROVE [Service!Next]_(Service!vars)
<1>1. TypeOK /\ TypeOK'
  BY DEF IInv
<1> DEFINE c == currConn
<1>2. pc = "run"
  BY DEF CoStepAny, CoStep, CoYield, CoBlock, CoClose, CoDies
<1>3. /\ c \in Ctx /\ c \in ToSet(queue) /\ Live(c) /\ TurnFd = connSock[c]
      /\ connSock[c] \in Fd /\ connSock[c] # NoFd
      /\ isActive \in [Ctx -> BOOLEAN] /\ isCompleted \in [Ctx -> BOOLEAN]
      /\ \A d \in Ctx : Live(d) /\ connSock[d] = connSock[c] => d = c
  BY <1>2, Running, LiveSocket DEF TurnFd, IInv, TypeOK
<1>4. UNCHANGED <<listVars, connSock, currConn>>
  BY DEF CoStepAny, CoStep, CoYield, CoBlock, CoClose, CoDies, connVars
<1>5. CASE CoStep
  <2>1. pc' = "run" /\ isCompleted' = isCompleted /\ isActive' = [isActive EXCEPT ![c] = TRUE]
    BY <1>2, <1>5 DEF CoStep, UpdateActive
  <2>2. \A d \in Ctx : (Live(d)' <=> Live(d)) /\ connSock'[d] = connSock[d]
    BY <1>4, <2>1 DEF Live, listVars
  <2>3. ServedFds' = ServedFds
    <3>1. \A f : f \in ServedFds' <=> f \in ServedFds
      BY <1>1, <2>2, ServiceMembers
    <3> QED BY <3>1
  <2>4. BusyFds' = BusyFds \cup {connSock[c]}
    <3>1. \A d \in Ctx : isActive'[d] <=> isActive[d] \/ d = c
      BY <1>3, <2>1
    <3> HIDE DEF c
    <3>2. \A f : f \in BusyFds' <=> f \in BusyFds \/ f = connSock[c]
      BY <1>1, <1>3, <2>2, <3>1, ServiceMembers
    <3> QED BY <3>2
  <2>5. TurnFd' = TurnFd
    BY <1>2, <1>4, <2>1 DEF TurnFd
  <2> QED BY <1>2, <1>3, <2>1, <2>3, <2>4, <2>5 DEF Service!Next, Service!Progress
<1>6. CASE CoYield \/ CoDies
  <2>1. pc' \in {"back", "exited"} /\ UNCHANGED connVars /\ (pc' = "exited" <=> CoDies)
    BY <1>6 DEF CoYield, CoDies
  <2>2. ServedFds' = ServedFds /\ BusyFds' = BusyFds
    BY <1>1, <1>4, <2>1, SameService DEF Live, listVars, connVars
  <2>3. TurnFd' = NoFd
    BY <2>1 DEF TurnFd
  <2> QED BY <1>2, <1>3, <2>1, <2>2, <2>3 DEF Service!Next, Service!Yield, Service!Die
<1>7. CASE CoBlock
  <2>1. pc' = "back" /\ isCompleted' = isCompleted /\ isActive' = [isActive EXCEPT ![c] = FALSE]
    BY <1>7 DEF CoBlock, SetInactive
  <2>2. \A d \in Ctx : (Live(d)' <=> Live(d)) /\ connSock'[d] = connSock[d]
    BY <1>4, <2>1 DEF Live, listVars
  <2>3. ServedFds' = ServedFds
    <3>1. \A f : f \in ServedFds' <=> f \in ServedFds
      BY <1>1, <2>2, ServiceMembers
    <3> QED BY <3>1
  <2>4. BusyFds' = BusyFds \ {connSock[c]}
    <3>1. \A d \in Ctx : isActive'[d] <=> isActive[d] /\ d # c
      BY <1>3, <2>1
    <3> HIDE DEF c
    <3>2. \A f : f \in BusyFds' <=> f \in BusyFds /\ f # connSock[c]
      BY <1>1, <1>3, <2>2, <3>1, ServiceMembers
    <3> QED BY <3>2
  <2>5. TurnFd' = NoFd
    BY <2>1 DEF TurnFd
  <2> QED BY <1>2, <1>3, <2>1, <2>3, <2>4, <2>5 DEF Service!Next, Service!Yield
<1>8. CASE CoClose
  <2>1. pc' = "back" /\ isActive' = isActive /\ isCompleted' = [isCompleted EXCEPT ![c] = TRUE]
    BY <1>3, <1>8 DEF CoClose, Live
  <2>2. \A d \in Ctx : (Live(d)' <=> Live(d) /\ d # c) /\ connSock'[d] = connSock[d]
    BY <1>3, <1>4, <2>1 DEF Live, listVars
  <2> HIDE DEF c
  <2>3. ServedFds' = ServedFds \ {connSock[c]}
    <3>1. \A f : f \in ServedFds' <=> f \in ServedFds /\ f # connSock[c]
      BY <1>1, <1>3, <2>2, ServiceMembers
    <3> QED BY <3>1
  <2>4. BusyFds' = BusyFds \ {connSock[c]}
    <3>1. \A f : f \in BusyFds' <=> f \in BusyFds /\ f # connSock[c]
      BY <1>1, <1>3, <2>1, <2>2, ServiceMembers
    <3> QED BY <3>1
  <2>5. TurnFd' = NoFd
    BY <2>1 DEF TurnFd
  <2> QED BY <1>2, <1>3, <2>1, <2>3, <2>4, <2>5 DEF Service!Next, Service!Close
<1> QED
  BY <1>5, <1>6, <1>7, <1>8 DEF CoStepAny

\* Every step is one of ConnService, or changes nothing that it shows.
LEMMA NextService == IInv /\ IInv' /\ [CtxNext]_ctxVars => [Service!Next]_(Service!vars)
<1> SUFFICES ASSUME IInv, IInv', [CtxNext]_ctxVars PROVE [Service!Next]_(Service!vars)
  OBVIOUS
<1>1. CASE UNCHANGED ctxVars
  BY <1>1 DEF Service!vars, ServedFds, BusyFds, TurnFd, ctxVars, listVars, connVars
<1>2. CASE FillStep \/ LoopStep \/ CoStepAny
  BY <1>2, FillService, LoopService, CoroutineService
<1> QED
  BY <1>1, <1>2 DEF CtxNext, Exited

\* The contexts, lists and counters of srv_conn_ctxt.c implement the service
\* of ConnService: a recycled context, a reused descriptor or a connection
\* freed in the middle of a pass never shows to another client.
THEOREM Refinement == CtxSpec => ServiceSpec
<1>1. CtxSpec => []IInv
  BY Invariance
<1> QED
  BY <1>1, InitService, NextService, PTL DEF CtxSpec, ServiceSpec, Service!Spec
=============================================================================
