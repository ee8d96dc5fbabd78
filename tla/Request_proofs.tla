--------------------------- MODULE Request_proofs ---------------------------
(***************************************************************************)
(* Proofs about the life of a request.                                     *)
(*                                                                         *)
(* RecvBuf, for every size of the buffer, stream and way to cut it into    *)
(* chunks: requests are cut exactly from what the client sent, no header   *)
(* that is complete is waited for, and a client that was answered leaves   *)
(* nothing to the next one.                                                *)
(*                                                                         *)
(* HttpMsg, for every set of requests and response bodies: a request that  *)
(* is refused is refused for a defect it has, the conversions of header    *)
(* values succeed, and connections are kept exactly as they are announced. *)
(***************************************************************************)
EXTENDS RecvBuf, HttpMsg, SequenceTheorems, FiniteSetTheorems, WellFoundedInduction, TLAPS

Buffers == [0..BufSize - 1 -> Bytes]

LEMMA Bounds == /\ BufSize \in Nat /\ MaxHdr \in Nat /\ MaxClients \in Nat /\ BufSize > 4
                /\ \A k \in DOMAIN Body : Body[k] \in Nat
  BY RecvBufBounds

-----------------------------------------------------------------------------
(***************************************************************************)
(* Slices of a buffer and of the stream.                                   *)
(***************************************************************************)

\* A slice is the sequence of the characters between its limits.
LEMMA SliceFacts ==
    ASSUME NEW b \in Buffers, NEW to \in 0..BufSize, NEW from \in 0..to
    PROVE  /\ Slice(b, from, to) \in Seq(Bytes) /\ Len(Slice(b, from, to)) = to - from
           /\ \A j \in 1..(to - from) : Slice(b, from, to)[j] = b[from + j - 1]
<1>1. \A j \in 1..(to - from) : b[from + j - 1] \in Bytes
  BY Bounds DEF Buffers
<1>2. to - from \in Nat
  BY Bounds
<1>3. Slice(b, from, to) = [j \in 1..(to - from) |-> b[from + j - 1]]
  BY DEF Slice
<1>4. Slice(b, from, to) \in Seq(Bytes)
  BY <1>1, <1>2, <1>3
<1>5. DOMAIN Slice(b, from, to) = 1..(to - from)
  BY <1>3
<1>6. Len(Slice(b, from, to)) = to - from
  BY <1>2, <1>4, <1>5, LenProperties
<1> QED
  BY <1>3, <1>4, <1>6

\* Two buffers with the same characters between two pairs of limits.
LEMMA SameSlice ==
    ASSUME NEW b \in Buffers, NEW to \in 0..BufSize, NEW from \in 0..to,
           NEW d \in Buffers, NEW to2 \in 0..BufSize, NEW from2 \in 0..to2,
           to - from = to2 - from2,
           \A j \in 1..(to - from) : b[from + j - 1] = d[from2 + j - 1]
    PROVE  Slice(b, from, to) = Slice(d, from2, to2)
  BY DEF Slice

\* A slice is cut in two.
LEMMA SplitSlice ==
    ASSUME NEW b \in Buffers, NEW to \in 0..BufSize, NEW cut \in 0..to, NEW from \in 0..cut
    PROVE  Slice(b, from, to) = Slice(b, from, cut) \o Slice(b, cut, to)
<1> DEFINE s == Slice(b, from, cut)  t == Slice(b, cut, to)  u == Slice(b, from, to)
<1>0. cut \in 0..BufSize /\ cut \in Nat /\ to \in Nat /\ from \in Nat /\ from \in 0..to
  BY Bounds
<1>1. /\ s \in Seq(Bytes) /\ Len(s) = cut - from
      /\ \A j \in 1..(cut - from) : s[j] = b[from + j - 1]
  BY <1>0, SliceFacts
<1>2. /\ t \in Seq(Bytes) /\ Len(t) = to - cut
      /\ \A j \in 1..(to - cut) : t[j] = b[cut + j - 1]
  BY Bounds, SliceFacts
<1>3. /\ u \in Seq(Bytes) /\ Len(u) = to - from
      /\ \A j \in 1..(to - from) : u[j] = b[from + j - 1]
  BY <1>0, SliceFacts
<1> HIDE DEF s, t, u
<1>4. /\ s \o t \in Seq(Bytes) /\ Len(s \o t) = Len(s) + Len(t)
      /\ \A i \in 1..(Len(s) + Len(t)) : (s \o t)[i] = IF i <= Len(s) THEN s[i] ELSE t[i - Len(s)]
  BY <1>1, <1>2, ConcatProperties
<1>5. Len(s \o t) = Len(u)
  BY <1>1, <1>2, <1>3, <1>4
<1>6. ASSUME NEW i \in 1..Len(u) PROVE (s \o t)[i] = u[i]
  <2>1. i \in 1..(to - from) /\ i \in 1..(Len(s) + Len(t))
    BY <1>1, <1>2, <1>3
  <2>2. CASE i <= cut - from
    BY <1>1, <1>3, <1>4, <2>1, <2>2
  <2>3. CASE ~(i <= cut - from)
    <3>1. i - Len(s) \in 1..(to - cut) /\ cut + (i - Len(s)) - 1 = from + i - 1
      BY <1>1, <2>1, <2>3
    <3> QED BY <1>1, <1>2, <1>3, <1>4, <2>1, <2>3, <3>1
  <2> QED BY <2>2, <2>3
<1>7. s \o t = u
  BY <1>3, <1>4, <1>5, <1>6, SeqEqual
<1> QED
  BY <1>7 DEF s, t, u

\* What was read after q bytes, byte by byte.
LEMMA ReadAfterFacts ==
    ASSUME NEW q \in Nat, NEW s \in Seq(Bytes), NEW p \in Nat
    PROVE  /\ (s = Sent(q + 1, q + Len(s))) <=> \A j \in 1..Len(s) : s[j] = ByteAt(q + j)
           /\ Len(s) \in Nat
<1>1. Len(s) \in Nat /\ DOMAIN s = 1..Len(s) /\ s = [j \in 1..Len(s) |-> s[j]]
  BY LenProperties
<1>2. Sent(q + 1, q + Len(s)) = [j \in 1..Len(s) |-> ByteAt(q + j)]
  BY <1>1 DEF Sent
<1> QED
  BY <1>1, <1>2
-----------------------------------------------------------------------------
(***************************************************************************)
(* The end of a header.                                                    *)
(***************************************************************************)

\* Where a terminator of s ends.
Ends(s) == {e \in 4..Len(s) : \A k \in 1..4 : s[e - 4 + k].c = TermSeq[k]}

\* A set of numbers that is not empty has a least element.
LEMMA LeastExists ==
    ASSUME NEW T \in SUBSET Nat, T # {}
    PROVE  \E e \in T : \A f \in T : e <= f
<1>1. PICK e \in T : \A f \in T : ~(<<f, e>> \in OpToRel(<, Nat))
  BY NatLessThanWellFounded, WFMin
<1>2. \A f \in T : ~(f < e)
  BY <1>1 DEF OpToRel
<1> QED
  BY <1>2

\* find_http_headers_end() finds the first terminator, or none if there is none.
LEMMA FindEndFacts ==
    ASSUME NEW s, Len(s) \in Nat
    PROVE  /\ Ends(s) = {} => FindHeadersEnd(s) = 0
           /\ Ends(s) # {} => /\ FindHeadersEnd(s) \in Ends(s)
                              /\ \A f \in Ends(s) : FindHeadersEnd(s) <= f
<1>1. FindHeadersEnd(s) = IF Ends(s) = {} THEN 0
                          ELSE CHOOSE e \in Ends(s) : \A f \in Ends(s) : e <= f
  BY DEF FindHeadersEnd, Ends
<1>2. Ends(s) \in SUBSET Nat
  BY DEF Ends
<1>3. CASE Ends(s) # {}
  <2>1. \E e \in Ends(s) : \A f \in Ends(s) : e <= f
    BY <1>2, <1>3, LeastExists
  <2> QED BY <1>1, <1>3, <2>1
<1> QED
  BY <1>1, <1>3

\* The header that was found ends with its only terminator.
LEMMA PrefixEnd ==
    ASSUME NEW s, NEW t, Len(s) \in Nat, FindHeadersEnd(s) # 0, Len(t) = FindHeadersEnd(s),
           \A j \in 1..FindHeadersEnd(s) : t[j] = s[j]
    PROVE  FindHeadersEnd(t) = FindHeadersEnd(s)
<1> DEFINE size == FindHeadersEnd(s)
<1>1. size \in Ends(s) /\ \A f \in Ends(s) : size <= f
  BY FindEndFacts
<1>2. size \in 4..Len(s) /\ \A k \in 1..4 : s[size - 4 + k].c = TermSeq[k]
  BY <1>1 DEF Ends
<1>3. Len(t) = size /\ Len(t) \in Nat /\ \A j \in 1..size : t[j] = s[j]
  BY <1>2
<1> HIDE DEF size
<1>4. size \in Ends(t)
  <2>1. \A k \in 1..4 : size - 4 + k \in 1..size
    BY <1>2
  <2> QED BY <1>2, <1>3, <2>1 DEF Ends
<1>5. ASSUME NEW f \in Ends(t) PROVE f = size
  <2>1. f \in 4..size /\ \A k \in 1..4 : t[f - 4 + k].c = TermSeq[k]
    BY <1>3 DEF Ends
  <2>2. \A k \in 1..4 : f - 4 + k \in 1..size
    BY <1>2, <2>1
  <2>3. f \in Ends(s)
    BY <1>2, <1>3, <2>1, <2>2 DEF Ends
  <2> QED BY <1>1, <1>2, <2>1, <2>3
<1>6. FindHeadersEnd(t) = size
  BY <1>3, <1>4, <1>5, FindEndFacts
<1> QED
  BY <1>6 DEF size

\* What find_http_headers_end() finds in the buffer, in terms of the places
\* where is_http_message_end() compares.
LEMMA EndFacts ==
    ASSUME NEW b \in Buffers, NEW to \in 0..BufSize, NEW from \in 0..to,
           NEW size, size = FindHeadersEnd(Slice(b, from, to))
    PROVE  /\ size = 0 \/ size \in 4..(to - from)
           /\ size = 0 <=> \A p \in from..to - 4 : ~Match(b, p)
           /\ size # 0 => FindHeadersEnd(Slice(b, from, from + size)) = size
<1> DEFINE s == Slice(b, from, to)
<1>1. /\ Len(s) = to - from /\ Len(s) \in Nat
      /\ \A j \in 1..(to - from) : s[j] = b[from + j - 1]
      /\ to \in Nat /\ from \in Nat /\ BufSize \in Nat /\ to <= BufSize
  <2>1. to \in Nat /\ from \in Nat /\ BufSize \in Nat /\ to <= BufSize /\ to - from \in Nat
    BY Bounds
  <2>2. Len(s) = to - from /\ \A j \in 1..(to - from) : s[j] = b[from + j - 1]
    BY SliceFacts
  <2> QED BY <2>1, <2>2
<1>2. size = FindHeadersEnd(s)
  OBVIOUS
<1> HIDE DEF s
<1>3. size = 0 \/ size \in 4..(to - from)
  BY <1>1, <1>2, FindEndFacts DEF Ends
<1>4. ASSUME NEW p \in from..to - 4
      PROVE  Match(b, p) <=> p - from + 4 \in Ends(s)
  <2>1. /\ p \in Int /\ p - from + 4 \in 4..Len(s)
        /\ \A k \in 0..3 : p + k < BufSize
    BY <1>1
  <2>2. \A k \in 1..4 : s[(p - from + 4) - 4 + k] = b[p + (k - 1)]
    <3>1. \A k \in 1..4 : /\ (p - from + 4) - 4 + k \in 1..(to - from)
                          /\ from + ((p - from + 4) - 4 + k) - 1 = p + (k - 1)
      BY <1>1
    <3> QED BY <1>1, <3>1
  <2>3. Match(b, p) <=> \A k \in 0..3 : b[p + k].c = TermSeq[k + 1]
    BY <2>1 DEF Match
  <2>4. (\A k \in 0..3 : b[p + k].c = TermSeq[k + 1]) <=> \A k \in 1..4 : b[p + (k - 1)].c = TermSeq[k]
    <3>1. ASSUME \A k \in 0..3 : b[p + k].c = TermSeq[k + 1], NEW k \in 1..4
          PROVE  b[p + (k - 1)].c = TermSeq[k]
      <4>1. k - 1 \in 0..3 /\ (k - 1) + 1 = k
        OBVIOUS
      <4> QED BY <3>1, <4>1
    <3>2. ASSUME \A k \in 1..4 : b[p + (k - 1)].c = TermSeq[k], NEW k \in 0..3
          PROVE  b[p + k].c = TermSeq[k + 1]
      <4>1. k + 1 \in 1..4 /\ (k + 1) - 1 = k
        OBVIOUS
      <4> QED BY <3>2, <4>1
    <3> QED BY <3>1, <3>2
  <2> QED BY <2>1, <2>2, <2>3, <2>4 DEF Ends
<1>5. Ends(s) = {} <=> \A p \in from..to - 4 : ~Match(b, p)
  <2>1. ASSUME NEW e \in Ends(s) PROVE \E p \in from..to - 4 : Match(b, p)
    <3>1. e \in 4..(to - from)
      BY <1>1 DEF Ends
    <3>2. from + e - 4 \in from..to - 4 /\ (from + e - 4) - from + 4 = e
      BY <1>1, <3>1
    <3> QED BY <1>4, <3>2
  <2> QED BY <1>4, <2>1
<1>6. size = 0 <=> Ends(s) = {}
  <2>1. Ends(s) = {} => size = 0
    BY <1>1, <1>2, FindEndFacts
  <2>2. Ends(s) # {} => size \in Ends(s)
    BY <1>1, <1>2, FindEndFacts
  <2>3. 0 \notin Ends(s)
    BY <1>1 DEF Ends
  <2> QED BY <2>1, <2>2, <2>3
<1>7. ASSUME size # 0 PROVE FindHeadersEnd(Slice(b, from, from + size)) = size
  <2>1. size \in 4..(to - from) /\ from + size \in 0..BufSize /\ from \in 0..from + size
    <3>1. size \in 4..(to - from)
      BY <1>3, <1>7
    <3>2. from + size \in 0..BufSize
      BY <1>1, <3>1
    <3>3. from \in 0..from + size
      BY <1>1, <3>1
    <3> QED BY <3>1, <3>2, <3>3
  <2>2. /\ Len(Slice(b, from, from + size)) = size
        /\ \A j \in 1..size : Slice(b, from, from + size)[j] = b[from + j - 1]
    <3>1. (from + size) - from = size
      BY <1>1, <2>1
    <3>2. /\ Len(Slice(b, from, from + size)) = (from + size) - from
          /\ \A j \in 1..((from + size) - from) :
                Slice(b, from, from + size)[j] = b[from + j - 1]
      BY <2>1, SliceFacts
    <3> QED BY <3>1, <3>2
  <2>3. \A j \in 1..size : Slice(b, from, from + size)[j] = s[j]
    <3>1. \A j \in 1..size : j \in 1..(to - from)
      BY <1>1, <2>1
    <3> QED BY <1>1, <2>2, <3>1
  <2> QED BY <1>1, <1>2, <1>7, <2>2, <2>3, PrefixEnd
<1> QED
  BY <1>3, <1>5, <1>6, <1>7

\* is_http_message_end() after a chunk of prev..m - 1, when there was no
\* terminator before it: it misses none; it reads behind the buffer only when
\* there is none and the buffer is full, but for one byte; and it reports one
\* that is not there only where the buffer has old bytes behind the chunk.
LEMMA ChunkEnd ==
    ASSUME NEW b \in Buffers, NEW prev \in 0..BufSize, NEW m \in prev + 1..BufSize,
           \A p \in 0..prev - 4 : ~Match(b, p)
    PROVE  /\ ~IsHttpMessageEnd(b, prev, m) => FindHeadersEnd(Slice(b, 0, m)) = 0
           /\ Segfaults(b, prev, m) => FindHeadersEnd(Slice(b, 0, m)) = 0 /\ m >= BufSize - 1
           /\ IsHttpMessageEnd(b, prev, m) /\ FindHeadersEnd(Slice(b, 0, m)) = 0 =>
                 \E p \in m - 3..BufSize - 4 : Match(b, p)
<1>1. /\ BufSize \in Nat /\ prev \in Nat /\ m \in Nat /\ prev < m /\ m <= BufSize
      /\ m \in 0..BufSize /\ 0 \in 0..m
  BY Bounds
<1>2. FindHeadersEnd(Slice(b, 0, m)) = 0 <=> \A p \in 0..m - 4 : ~Match(b, p)
  BY <1>1, EndFacts
<1>3. \A p \in Int : Match(b, p) => p + 3 < BufSize
  BY <1>1 DEF Match
<1>4. ASSUME NEW p \in 0..m - 4, Match(b, p)
      PROVE  p \in prev..m - 4 \/ \E i \in 1..3 : prev >= i /\ p = prev - i
  <2>1. p \notin 0..prev - 4 /\ p \in Nat
    BY <1>4
  <2>2. CASE p < prev
    <3>1. prev - p \in 1..3 /\ prev >= prev - p /\ p = prev - (prev - p)
      BY <1>1, <2>1, <2>2
    <3> QED BY <3>1
  <2>3. CASE p >= prev
    BY <1>1, <2>3
  <2> QED BY <1>1, <2>1, <2>2, <2>3
<1>5. ASSUME ~IsHttpMessageEnd(b, prev, m) PROVE FindHeadersEnd(Slice(b, 0, m)) = 0
  <2>1. SUFFICES ASSUME NEW p \in 0..m - 4, Match(b, p) PROVE FALSE
    BY <1>2
  <2>2. m >= 4
    BY <1>1
  <2> QED BY <1>4, <1>5, <2>1, <2>2 DEF IsHttpMessageEnd
<1>6. ASSUME Segfaults(b, prev, m) PROVE FindHeadersEnd(Slice(b, 0, m)) = 0 /\ m >= BufSize - 1
  <2>1. PICK i \in 1..3 : /\ prev >= i /\ TouchesGuard(b, prev - i)
                          /\ \A i2 \in i + 1..3 : prev >= i2 => ~Match(b, prev - i2)
    BY <1>6 DEF Segfaults
  <2>2. m >= 4 /\ ~Match(b, m - 4)
    BY <1>6 DEF Segfaults
  <2>3. PICK j \in 1..3 : prev - i + j = BufSize
    BY <2>1 DEF TouchesGuard
  <2>4. i < j /\ i \in 1..3 /\ j \in 1..3
    BY <1>1, <2>3
  <2>5. /\ m = BufSize \/ m = BufSize - 1
        /\ prev = BufSize - 1 \/ (prev = BufSize - 2 /\ i = 1)
    BY <1>1, <2>3, <2>4
  <2>6. ASSUME NEW p \in 0..m - 4, Match(b, p) PROVE FALSE
    <3>1. p # m - 4 /\ p \in Nat /\ p \notin 0..prev - 4
      BY <2>2, <2>6
    <3>2. p = prev - 3 /\ prev >= 3 /\ prev = BufSize - 2 /\ i = 1
      BY <1>1, <2>5, <3>1
    <3>3. 3 \in i + 1..3
      BY <3>2
    <3> QED BY <2>1, <2>6, <3>2, <3>3
  <2> QED BY <1>1, <1>2, <2>5, <2>6
<1>7. ASSUME IsHttpMessageEnd(b, prev, m), FindHeadersEnd(Slice(b, 0, m)) = 0
      PROVE  \E p \in m - 3..BufSize - 4 : Match(b, p)
  <2>1. m >= 4 /\ m - 4 \in 0..m - 4 /\ \A p \in prev..m - 4 : p \in 0..m - 4
    BY <1>1, <1>7 DEF IsHttpMessageEnd
  <2>2. PICK i \in 1..3 : prev >= i /\ Match(b, prev - i)
    BY <1>2, <1>7, <2>1 DEF IsHttpMessageEnd
  <2>3. prev - i \in Int /\ prev - i >= 0 /\ prev - i \notin 0..m - 4 /\ (prev - i) + 3 < BufSize
    BY <1>1, <1>2, <1>3, <1>7, <2>2
  <2>4. prev - i \in m - 3..BufSize - 4
    BY <1>1, <2>3
  <2> QED BY <2>2, <2>4
<1> QED
  BY <1>5, <1>6, <1>7

-----------------------------------------------------------------------------
(***************************************************************************)
(* Requests and the stream.                                                *)
(***************************************************************************)

\* Every request that was handed over is what was read after the ones before it.
Ordered == \A i \in DOMAIN handed : ReadAfter(UsedBefore(i), Whole(handed[i]))

LEMMA BodyLenNat == ASSUME NEW hdr PROVE BodyLen(hdr) \in Nat
  BY Bounds DEF BodyLen

LEMMA WholeFacts ==
    ASSUME NEW m \in Message
    PROVE  /\ m.hdr \in Seq(Bytes) /\ m.body \in Seq(Bytes) /\ Whole(m) \in Seq(Bytes)
           /\ Len(m.hdr) \in Nat /\ Len(m.body) \in Nat
           /\ Len(Whole(m)) = Len(m.hdr) + Len(m.body) /\ Len(Whole(m)) \in Nat
           /\ m.hdr # <<>> => Len(m.hdr) > 0 /\ Len(Whole(m)) > 0
<1>1. m.hdr \in Seq(Bytes) /\ m.body \in Seq(Bytes)
  BY DEF Message
<1>2. Whole(m) \in Seq(Bytes) /\ Len(Whole(m)) = Len(m.hdr) + Len(m.body)
  BY <1>1, ConcatProperties DEF Whole
<1>3. Len(m.hdr) \in Nat /\ Len(m.body) \in Nat
  BY <1>1, LenProperties
<1>4. m.hdr # <<>> => Len(m.hdr) > 0
  BY <1>1, <1>3, EmptySeq
<1>5. Len(Whole(m)) \in Nat /\ (Len(m.hdr) > 0 => Len(Whole(m)) > 0)
  <2>1. \A x, y, z : x \in Nat /\ y \in Nat /\ z = x + y => z \in Nat /\ (x > 0 => z > 0)
    OBVIOUS
  <2> QED BY <1>2, <1>3, <2>1, Zenon
<1> QED
  BY <1>1, <1>2, <1>3, <1>4, <1>5, Zenon

\* The requests before the i-th one have used a number of characters.
LEMMA UsedFacts ==
    ASSUME handed \in Seq(Message), \A i \in DOMAIN handed : WellCut(handed[i])
    PROVE  /\ \A i \in 1..Len(handed) + 1 : UsedBefore(i) \in Nat
           /\ Used \in Nat /\ Len(handed) \in Nat
<1>1. Len(handed) \in Nat /\ DOMAIN handed = 1..Len(handed)
  BY LenProperties
<1>2. ASSUME NEW i \in 1..Len(handed) + 1 PROVE UsedBefore(i) \in Nat
  <2>1. CASE i # 1
    <3> DEFINE w == Whole(handed[i - 1])
    <3>1. i - 1 \in 1..Len(handed)
      BY <1>1, <2>1
    <3>2. handed[i - 1] \in Message /\ handed[i - 1].hdr # <<>>
      BY <1>1, <3>1, ElementOfSeq DEF WellCut, HeaderCut
    <3>3. w \in Seq(Bytes) /\ Len(w) \in Nat /\ Len(w) > 0
      BY <3>2, WholeFacts
    <3>4. w[Len(w)] \in Bytes
      BY <3>3, ElementOfSeq
    <3> QED BY <2>1, <3>4 DEF UsedBefore, Bytes
  <2> QED BY <2>1 DEF UsedBefore
<1> QED
  BY <1>1, <1>2 DEF Used

\* What was read is read: a step that reads more of the stream changes
\* nothing for the requests handed over.
LEMMA OrderedKept ==
    ASSUME RecvBufIInv, UNCHANGED <<handed, stream, client>>, pos' \in Nat, pos' >= pos
    PROVE  Used' = Used /\ (Ordered => Ordered')
<1>1. Used' = Used /\ \A i : UsedBefore(i)' = UsedBefore(i)
  BY DEF Used, UsedBefore
<1>2. ASSUME NEW i \in DOMAIN handed
      PROVE  ReadAfter(UsedBefore(i), Whole(handed[i])) =>
                ReadAfter(UsedBefore(i), Whole(handed[i]))'
  <2>1. /\ handed \in Seq(Message) /\ handed[i] \in Message /\ i \in 1..Len(handed) + 1
        /\ pos \in Nat
    BY LenProperties, ElementOfSeq DEF RecvBufIInv, RecvBufTypeOK
  <2>2. UsedBefore(i) \in Nat /\ Len(Whole(handed[i])) \in Nat
    BY <2>1, UsedFacts, WholeFacts DEF RecvBufIInv, RequestsCutExactly
  <2>3. UsedBefore(i)' = UsedBefore(i) /\ Whole(handed[i])' = Whole(handed[i])
    BY <1>1 DEF Whole
  <2>4. \A q, r : Sent(q, r)' = Sent(q, r)
    BY DEF Sent, ByteAt
  <2> QED BY <2>1, <2>2, <2>3, <2>4 DEF ReadAfter
<1> QED
  BY <1>1, <1>2 DEF Ordered

\* A request is handed over.
LEMMA HandFacts ==
    ASSUME RecvBufIInv, NEW m \in Message, WellCut(m), handed' = Append(handed, m),
           UNCHANGED <<stream, client>>, pos' \in Nat, pos' >= pos
    PROVE  /\ handed' \in Seq(Message) /\ handed' # <<>>
           /\ \A i \in DOMAIN handed' : WellCut(handed'[i])
           /\ Ordered /\ Used + Len(Whole(m)) <= pos'
              /\ (\A j \in 1..Len(Whole(m)) : Whole(m)[j] = ByteAt(Used + j)) =>
                 Ordered' /\ Used' = Used + Len(Whole(m))
<1>1. /\ handed \in Seq(Message) /\ Len(handed) \in Nat /\ DOMAIN handed = 1..Len(handed)
      /\ \A i \in DOMAIN handed : WellCut(handed[i])
  BY LenProperties DEF RecvBufIInv, RecvBufTypeOK, RequestsCutExactly
<1>2. /\ handed' \in Seq(Message) /\ Len(handed') = Len(handed) + 1
      /\ DOMAIN handed' = 1..Len(handed) + 1
      /\ handed'[Len(handed) + 1] = m
      /\ \A i \in 1..Len(handed) : handed'[i] = handed[i]
  BY <1>1, AppendProperties, LenProperties
<1>3. handed' # <<>>
  BY <1>1, <1>2
<1>4. \A i \in DOMAIN handed' : WellCut(handed'[i])
  BY <1>1, <1>2
<1>5. ASSUME NEW i \in 1..Len(handed) + 1 PROVE UsedBefore(i)' = UsedBefore(i)
  <2>1. CASE i # 1
    <3>1. i - 1 \in 1..Len(handed)
      BY <1>1, <2>1
    <3> QED BY <1>2, <2>1, <3>1 DEF UsedBefore, Whole
  <2> QED BY <2>1 DEF UsedBefore
<1>6. \A q, r : Sent(q, r)' = Sent(q, r)
  BY DEF Sent, ByteAt
<1>7. ASSUME Ordered, Used + Len(Whole(m)) <= pos',
             \A j \in 1..Len(Whole(m)) : Whole(m)[j] = ByteAt(Used + j)
      PROVE  Ordered' /\ Used' = Used + Len(Whole(m))
  <2>1. /\ Used \in Nat /\ \A i \in 1..Len(handed) + 1 : UsedBefore(i) \in Nat
    BY <1>1, UsedFacts
  <2>2. /\ Whole(m) \in Seq(Bytes) /\ Len(Whole(m)) \in Nat /\ Len(Whole(m)) > 0
    BY WholeFacts DEF WellCut, HeaderCut
  <2>3. Whole(m) = Sent(Used + 1, Used + Len(Whole(m)))
    BY <1>7, <2>1, <2>2, ReadAfterFacts
  <2>4. ASSUME NEW i \in 1..Len(handed)
        PROVE  ReadAfter(UsedBefore(i), Whole(handed[i]))'
    <3>1. ReadAfter(UsedBefore(i), Whole(handed[i]))
      BY <1>1, <1>7 DEF Ordered
    <3>2. handed[i] \in Message
      BY <1>1, ElementOfSeq
    <3>3. Len(Whole(handed[i])) \in Nat /\ UsedBefore(i) \in Nat /\ pos \in Nat
      BY <1>1, <2>1, <3>2, WholeFacts DEF RecvBufIInv, RecvBufTypeOK
    <3>4. handed'[i] = handed[i] /\ i \in 1..Len(handed) + 1
      BY <1>1, <1>2
    <3>5. Whole(handed[i])' = Whole(handed[i]) /\ UsedBefore(i)' = UsedBefore(i)
      BY <1>5, <3>4 DEF Whole
    <3> QED BY <1>6, <3>1, <3>3, <3>5 DEF ReadAfter
  <2>5. PICK l : l = Len(handed) + 1
    OBVIOUS
  <2>6. l \in 1..Len(handed) + 1 /\ handed'[l] = m /\ l \in Nat
    BY <1>1, <1>2, <2>5
  <2>7. UsedBefore(l)' = Used
    BY <1>5, <2>5, <2>6 DEF Used
  <2>8. ReadAfter(UsedBefore(l), Whole(handed[l]))'
    <3>1. Whole(handed[l])' = Whole(m)
      BY <2>6 DEF Whole
    <3> QED BY <1>6, <1>7, <2>3, <2>7, <3>1 DEF ReadAfter
  <2>9. ASSUME NEW i \in 1..Len(handed) + 1 PROVE ReadAfter(UsedBefore(i), Whole(handed[i]))'
    <3>1. i \in 1..Len(handed) \/ i = l
      BY <1>1, <2>5
    <3> QED BY <2>4, <2>8, <3>1
  <2>10. Ordered'
    BY <1>2, <2>9 DEF Ordered
  <2>11. Used' = Used + Len(Whole(m))
    <3>1. Used' = UsedBefore(l + 1)'
      BY <1>2, <2>5 DEF Used
    <3>2. UsedBefore(l + 1)' = Whole(m)[Len(Whole(m))].at
      <4>1. l + 1 # 1 /\ (l + 1) - 1 = l
        BY <2>6, <1>1, <2>5
      <4> QED BY <2>6, <4>1 DEF UsedBefore, Whole
    <3>3. Whole(m)[Len(Whole(m))] = ByteAt(Used + Len(Whole(m)))
      BY <1>7, <2>2
    <3> QED BY <3>1, <3>2, <3>3 DEF ByteAt
  <2> QED BY <2>10, <2>11
<1> QED
  BY <1>2, <1>3, <1>4, <1>7

-----------------------------------------------------------------------------
(***************************************************************************)
(* recv_http_msg() with a header in the buffer.                            *)
(***************************************************************************)

\* The header and what is there of the body are cut off what was received.
LEMMA ReceivedFacts ==
    ASSUME NEW b \in Buffers, NEW m \in 0..BufSize, NEW from \in 0..m,
           NEW size, size = FindHeadersEnd(Slice(b, from, m)), size # 0,
           Received(b, from, size, m)
    PROVE  \E end \in from + 1..m, taken \in Message :
              /\ Whole(taken) = Slice(b, from, end) /\ HeaderCut(taken)
              /\ have' \in 0..m /\ curr' \in 0..have'
              /\ \/ /\ Len(taken.body) < BodyLen(taken.hdr) /\ end = m /\ have' = curr'
                    /\ pc' = "body" /\ msg' = taken /\ n0' = 0 /\ n' = 0 /\ UNCHANGED handed
                 \/ /\ Len(taken.body) = BodyLen(taken.hdr)
                    /\ pc' = "reply" /\ msg' = taken /\ n0' = 0 /\ n' = 0
                    /\ handed' = Append(handed, taken)
                    /\ \/ have' = m /\ curr' = end
                       \/ have' = curr' /\ end = m
<1> DEFINE hdr  == Slice(b, from, from + size)
           got  == Least(m - from - size, BodyLen(hdr))
           end  == from + size + got
           taken  == [hdr |-> hdr, body |-> Slice(b, from + size, end)]
           used == hdr[1].c \in DOMAIN Body /\ ~TooLarge(hdr) /\ end = m
<1>1. /\ m \in Nat /\ from \in Nat /\ BufSize \in Nat /\ m <= BufSize /\ from <= m
      /\ size \in 4..(m - from)
  BY Bounds, EndFacts
<1>2. FindHeadersEnd(hdr) = size
  BY EndFacts
<1>3. /\ have' = (IF used THEN 0 ELSE m) /\ curr' = (IF used THEN 0 ELSE end)
      /\ IF got < BodyLen(hdr) THEN /\ pc' = "body" /\ msg' = taken
                                    /\ n0' = 0 /\ n' = 0 /\ UNCHANGED <<handed, why>>
         ELSE Hand(taken)
  BY DEF Received
<1>4. BodyLen(hdr) \in Nat /\ (BodyLen(hdr) > 0 => hdr[1].c \in DOMAIN Body /\ ~TooLarge(hdr))
  BY BodyLenNat DEF BodyLen
<1> HIDE DEF hdr
<1>5. /\ got \in 0..(m - from - size) /\ got <= BodyLen(hdr)
      /\ got < BodyLen(hdr) => got = m - from - size
  BY <1>1, <1>4 DEF Least
<1> HIDE DEF got
<1>6. /\ end \in from + 1..m /\ end - (from + size) = got /\ end \in Nat
      /\ from + size \in 0..end /\ end \in 0..BufSize /\ from \in 0..from + size
      /\ from + size \in 0..BufSize /\ (from + size) - from = size
  BY <1>1, <1>5
<1> HIDE DEF end
<1>7. /\ hdr \in Seq(Bytes) /\ Len(hdr) = size
      /\ Slice(b, from + size, end) \in Seq(Bytes) /\ Len(Slice(b, from + size, end)) = got
  BY <1>6, SliceFacts DEF hdr
<1>8. taken \in Message /\ taken.hdr = hdr /\ taken.body = Slice(b, from + size, end)
  BY <1>7 DEF Message
<1>9. Whole(taken) = Slice(b, from, end)
  BY <1>6, <1>8, SplitSlice DEF Whole, hdr
<1>10. HeaderCut(taken)
  <2>1. hdr # <<>>
    BY <1>1, <1>7
  <2> QED BY <1>2, <1>7, <1>8, <2>1 DEF HeaderCut
<1>11. Len(taken.body) = got /\ BodyLen(taken.hdr) = BodyLen(hdr)
  BY <1>7, <1>8
<1>12. have' \in 0..m /\ curr' \in 0..have'
  BY <1>1, <1>3, <1>6
<1> HIDE DEF taken
<1>13. CASE got < BodyLen(hdr)
  <2>1. end = m
    BY <1>1, <1>5, <1>13 DEF end
  <2>2. have' = 0 /\ curr' = 0
    BY <1>1, <1>3, <1>4, <1>5, <1>13, <2>1
  <2>3. /\ Len(taken.body) < BodyLen(taken.hdr) /\ have' = curr'
        /\ pc' = "body" /\ msg' = taken /\ n0' = 0 /\ n' = 0 /\ UNCHANGED handed
    BY <1>3, <1>11, <1>13, <2>2
  <2> QED BY <1>6, <1>8, <1>9, <1>10, <1>12, <2>1, <2>3
<1>14. CASE ~(got < BodyLen(hdr))
  <2>1. Len(taken.body) = BodyLen(taken.hdr)
    BY <1>1, <1>4, <1>5, <1>11, <1>14
  <2>2. \/ have' = m /\ curr' = end
        \/ have' = curr' /\ end = m
    BY <1>3
  <2>3. Hand(taken)
    BY <1>3, <1>14
  <2>4. /\ pc' = "reply" /\ msg' = taken /\ n0' = 0 /\ n' = 0
        /\ handed' = Append(handed, taken)
    BY <2>3 DEF Hand
  <2> QED BY <1>6, <1>8, <1>9, <1>10, <1>12, <2>1, <2>2, <2>4
<1> QED
  BY <1>13, <1>14

\* What was read, of the client's stream, is in the buffer between these limits.
Holds(b, from, to) == /\ \A j \in 1..(to - from) : b[from + j - 1] = ByteAt(Used + j)
                      /\ Used + (to - from) = pos'

\* The types, for use by name.
LEMMA TypeFacts ==
    ASSUME RecvBufIInv
    PROVE  /\ buf \in Buffers /\ have \in 0..BufSize /\ curr \in 0..have
           /\ n \in 0..BufSize /\ n0 \in 0..n /\ msg \in Message /\ handed \in Seq(Message)
           /\ client \in 0..MaxClients /\ stream \in Seq(Char) /\ pos \in 0..Len(stream)
           /\ Len(stream) \in Nat /\ BufSize \in Nat
           /\ have \in Nat /\ curr \in Nat /\ n \in Nat /\ n0 \in Nat /\ pos \in Nat
           /\ have \in Int /\ have - curr \in 0..BufSize
           /\ Used \in Nat /\ \A i \in DOMAIN handed : WellCut(handed[i])
  BY Bounds, LenProperties, UsedFacts DEF RecvBufIInv, RecvBufTypeOK, RequestsCutExactly, Buffers

\* What is pending after a step is what was read after the requests handed over.
LEMMA PendingIsRead ==
    ASSUME UNCHANGED <<stream, client>>, Used' \in Nat, pos' \in Nat,
           Pending' \in Seq(Bytes), Used' + Len(Pending') = pos',
           \A j \in 1..Len(Pending') : Pending'[j] = ByteAt(Used' + j)
    PROVE  ReadAfter(Used, Pending)'
<1>1. Pending' = Sent(Used' + 1, Used' + Len(Pending'))
  BY ReadAfterFacts
<1>2. \A q, r : Sent(q, r)' = Sent(q, r)
  BY DEF Sent, ByteAt
<1>3. Used' + Len(Pending') <= pos'
  OBVIOUS
<1> QED
  BY <1>1, <1>2, <1>3 DEF ReadAfter

\* recv_http_msg() finds a header in what was received: the invariant holds of
\* the request handed over, or of the one whose body is waited for.
LEMMA ReceivedRecvBufIInv ==
    ASSUME RecvBufIInv, NEW b \in Buffers, NEW m \in 0..BufSize, NEW from \in 0..m,
           NEW size, size = FindHeadersEnd(Slice(b, from, m)), size # 0,
           Received(b, from, size, m), buf' = b, pc \in {"request", "header"},
           UNCHANGED <<client, stream, inherited>>, pos' \in pos..Len(stream),
           ~inherited => Holds(b, from, m)
    PROVE  RecvBufIInv'
<1>1. PICK end \in from + 1..m, taken \in Message :
         /\ Whole(taken) = Slice(b, from, end) /\ HeaderCut(taken)
         /\ have' \in 0..m /\ curr' \in 0..have'
         /\ \/ /\ Len(taken.body) < BodyLen(taken.hdr) /\ end = m /\ have' = curr'
               /\ pc' = "body" /\ msg' = taken /\ n0' = 0 /\ n' = 0 /\ UNCHANGED handed
            \/ /\ Len(taken.body) = BodyLen(taken.hdr)
               /\ pc' = "reply" /\ msg' = taken /\ n0' = 0 /\ n' = 0
               /\ handed' = Append(handed, taken)
               /\ \/ have' = m /\ curr' = end
                  \/ have' = curr' /\ end = m
  BY ReceivedFacts
<1>2. /\ m \in Nat /\ from \in Nat /\ end \in Nat /\ from < end /\ end <= m /\ m <= BufSize
      /\ BufSize \in Nat /\ pos' \in Nat /\ pos' >= pos /\ Used \in Nat
      /\ end \in 0..m /\ from \in 0..end /\ end \in 0..BufSize
      /\ handed \in Seq(Message)
      /\ pos' \in 0..Len(stream) /\ Len(stream) \in Nat
  BY Bounds, TypeFacts
<1>3. /\ Len(Whole(taken)) = end - from /\ Whole(taken) \in Seq(Bytes)
      /\ \A j \in 1..(end - from) : Whole(taken)[j] = b[from + j - 1]
  <2>1. /\ Slice(b, from, end) \in Seq(Bytes) /\ Len(Slice(b, from, end)) = end - from
        /\ \A j \in 1..(end - from) : Slice(b, from, end)[j] = b[from + j - 1]
    BY <1>2, SliceFacts
  <2> QED BY <1>1, <2>1
<1>4. client' > 0
  BY DEF RecvBufIInv, CycleFits
<1>5. ASSUME ~inherited
      PROVE  /\ Ordered /\ Used + Len(Whole(taken)) <= pos'
             /\ \A j \in 1..Len(Whole(taken)) : Whole(taken)[j] = ByteAt(Used + j)
  <2>1. Ordered
    BY <1>5 DEF RecvBufIInv, RequestsCutExactly, ReadInOrder, Ordered
  <2>2. Used + (m - from) = pos' /\ \A j \in 1..(m - from) : b[from + j - 1] = ByteAt(Used + j)
    BY <1>5 DEF Holds
  <2>3. \A j \in 1..(end - from) : j \in 1..(m - from)
    BY <1>2
  <2>4. end - from <= m - from
    BY <1>2
  <2>5. Used + Len(Whole(taken)) <= pos'
    BY <1>2, <1>3, <2>2, <2>4
  <2>6. \A j \in 1..Len(Whole(taken)) : Whole(taken)[j] = ByteAt(Used + j)
    BY <1>3, <2>2, <2>3
  <2> QED BY <2>1, <2>5, <2>6
<1>6. CASE /\ Len(taken.body) < BodyLen(taken.hdr) /\ end = m /\ have' = curr'
           /\ pc' = "body" /\ msg' = taken /\ n0' = 0 /\ n' = 0 /\ UNCHANGED handed
  <2>1. Used' = Used /\ (Ordered => Ordered')
    BY <1>2, <1>6, OrderedKept
  <2>2. RecvBufTypeOK'
    <3>1. /\ buf' \in Buffers /\ have' \in 0..BufSize /\ curr' \in 0..have'
          /\ n' \in 0..BufSize /\ n0' \in 0..n'
      BY <1>1, <1>2, <1>6
    <3>2. pc' = "body" /\ msg' \in Message /\ handed' \in Seq(Message)
      BY <1>2, <1>6
    <3>3. client' \in 0..MaxClients /\ stream' \in Seq(Char) /\ pos' \in 0..Len(stream')
      BY TypeFacts
    <3> QED BY <3>1, <3>2, <3>3 DEF RecvBufTypeOK, Buffers
  <2>3. /\ Pending' = Whole(taken) /\ Len(Pending') = m - from /\ Pending' \in Seq(Bytes)
    <3>1. Slice(b, 0, 0) = <<>>
      BY DEF Slice
    <3>2. Whole(taken) \o <<>> = Whole(taken)
      BY <1>3, ConcatEmptySeq
    <3>3. Pending' = Whole(taken) \o Slice(b, 0, 0)
      BY <1>6 DEF Pending, Whole
    <3> QED BY <1>3, <1>6, <3>1, <3>2, <3>3
  <2>4. ReadInOrder'
    <3>1. SUFFICES ASSUME ~inherited
                   PROVE  Ordered' /\ ReadAfter(Used, Pending)' /\ Used' + Len(Pending') = pos'
      BY DEF ReadInOrder, Ordered
    <3>2. Used + (m - from) = pos'
      BY <3>1 DEF Holds
    <3>3. \A j \in 1..Len(Pending') : Pending'[j] = ByteAt(Used' + j)
      BY <1>5, <2>1, <2>3, <3>1
    <3>4. Used' + Len(Pending') = pos'
      BY <2>1, <2>3, <3>2
    <3>5. ReadAfter(Used, Pending)'
      BY <1>2, <2>1, <2>3, <3>3, <3>4, PendingIsRead
    <3> QED BY <1>5, <2>1, <3>1, <3>4, <3>5
  <2>5. RequestsCutExactly'
    BY <1>6, <2>4, TypeFacts DEF RequestsCutExactly
  <2>6. CycleFits' /\ FreshIsZero' /\ NeverWaitsForReceived' /\ AnsweredClientLeavesNothing'
    BY <1>1, <1>6, <1>4 DEF CycleFits, FreshIsZero, NeverWaitsForReceived, AnsweredClientLeavesNothing
  <2> QED BY <2>2, <2>5, <2>6 DEF RecvBufIInv
<1>7. CASE /\ Len(taken.body) = BodyLen(taken.hdr)
           /\ pc' = "reply" /\ msg' = taken /\ n0' = 0 /\ n' = 0
           /\ handed' = Append(handed, taken)
           /\ \/ have' = m /\ curr' = end
              \/ have' = curr' /\ end = m
  <2>1. /\ handed' \in Seq(Message) /\ handed' # <<>>
        /\ \A i \in DOMAIN handed' : WellCut(handed'[i])
        /\ Ordered /\ Used + Len(Whole(taken)) <= pos'
           /\ (\A j \in 1..Len(Whole(taken)) : Whole(taken)[j] = ByteAt(Used + j)) =>
              Ordered' /\ Used' = Used + Len(Whole(taken))
    BY <1>1, <1>2, <1>7, HandFacts DEF WellCut
  <2>2. RecvBufTypeOK'
    <3>1. /\ buf' \in Buffers /\ have' \in 0..BufSize /\ curr' \in 0..have'
          /\ n' \in 0..BufSize /\ n0' \in 0..n'
      BY <1>1, <1>2, <1>7
    <3>2. /\ pc' = "reply" /\ msg' \in Message /\ handed' \in Seq(Message)
      BY <1>7, <2>1
    <3>3. client' \in 0..MaxClients /\ stream' \in Seq(Char) /\ pos' \in 0..Len(stream')
      BY TypeFacts
    <3> QED BY <3>1, <3>2, <3>3 DEF RecvBufTypeOK, Buffers
  <2>3. /\ Pending' = Slice(b, curr', have') /\ Pending' \in Seq(Bytes)
        /\ Len(Pending') = m - end
        /\ \A j \in 1..(m - end) : Pending'[j] = b[end + j - 1]
    <3>1. Pending' = Slice(b, curr', have')
      BY <1>7 DEF Pending
    <3>2. have' \in 0..BufSize /\ curr' \in 0..have' /\ have' - curr' = m - end
      <4>1. /\ have' \in Int /\ curr' \in Int /\ 0 <= curr' /\ curr' <= have' /\ have' <= m
            /\ m \in Int /\ m <= BufSize /\ BufSize \in Int /\ end \in Int
        BY <1>1, <1>2
      <4>2. have' \in 0..BufSize /\ curr' \in 0..have'
        BY <4>1
      <4>3. CASE have' = m /\ curr' = end
        BY <4>2, <4>3
      <4>4. CASE have' = curr' /\ end = m
        <5>1. m - end = 0
          BY <4>1, <4>4
        <5>2. have' - curr' = 0
          <6>1. \A x, y \in Int : x = y => x - y = 0
            OBVIOUS
          <6> QED BY <4>1, <4>4, <6>1, Zenon
        <5> QED BY <4>2, <5>1, <5>2
      <4> QED BY <1>7, <4>3, <4>4
    <3>3. /\ Pending' \in Seq(Bytes) /\ Len(Pending') = m - end
          /\ \A j \in 1..(m - end) : Pending'[j] = b[curr' + j - 1]
      <4>1. \A h \in 0..BufSize : \A c \in 0..h :
               /\ Slice(b, c, h) \in Seq(Bytes) /\ Len(Slice(b, c, h)) = h - c
               /\ \A j \in 1..(h - c) : Slice(b, c, h)[j] = b[c + j - 1]
        BY SliceFacts
      <4>2. /\ Slice(b, curr', have') \in Seq(Bytes) /\ Len(Slice(b, curr', have')) = have' - curr'
            /\ \A j \in 1..(have' - curr') : Slice(b, curr', have')[j] = b[curr' + j - 1]
        BY <3>2, <4>1
      <4> QED BY <3>1, <3>2, <4>2
    <3>4. CASE curr' = end
      BY <3>1, <3>3, <3>4
    <3>5. CASE end = m
      BY <1>2, <3>1, <3>3, <3>5
    <3> QED BY <1>7, <3>4, <3>5
  <2>4. ReadInOrder'
    <3>1. SUFFICES ASSUME ~inherited
                   PROVE  Ordered' /\ ReadAfter(Used, Pending)' /\ Used' + Len(Pending') = pos'
      BY DEF ReadInOrder, Ordered
    <3>2. Ordered' /\ Used' = Used + (end - from)
      BY <1>3, <1>5, <2>1, <3>1
    <3>3. /\ Used + (m - from) = pos'
          /\ \A j \in 1..(m - from) : b[from + j - 1] = ByteAt(Used + j)
      BY <3>1 DEF Holds
    <3>4. Used' + Len(Pending') = pos' /\ Used' \in Nat
      <4>1. Len(Pending') = m - end
        BY <2>3
      <4>2. \A u, v, x : u = Used + (end - from) /\ Used + (m - from) = x /\ v = m - end =>
                         u + v = x /\ u \in Nat
        BY <1>2
      <4> QED BY <3>2, <3>3, <4>1, <4>2
    <3>5. ASSUME NEW j \in 1..(m - end) PROVE Pending'[j] = ByteAt(Used' + j)
      <4>1. /\ j + (end - from) \in 1..(m - from)
            /\ from + (j + (end - from)) - 1 = end + j - 1
            /\ Used + (j + (end - from)) = Used' + j
        BY <1>2, <3>2
      <4>2. b[from + (j + (end - from)) - 1] = ByteAt(Used + (j + (end - from)))
        BY <3>3, <4>1
      <4> QED BY <2>3, <4>1, <4>2
    <3>7. ReadAfter(Used, Pending)'
      BY <1>2, <2>3, <3>4, <3>5, PendingIsRead
    <3> QED BY <3>2, <3>4, <3>7
  <2>5. RequestsCutExactly'
    BY <2>1, <2>4 DEF RequestsCutExactly
  <2>6. CycleFits' /\ FreshIsZero' /\ NeverWaitsForReceived' /\ AnsweredClientLeavesNothing'
    BY <1>7, <1>4, <2>1 DEF CycleFits, FreshIsZero, NeverWaitsForReceived, AnsweredClientLeavesNothing
  <2> QED BY <2>2, <2>5, <2>6 DEF RecvBufIInv
<1> QED
  BY <1>1, <1>6, <1>7

-----------------------------------------------------------------------------
(***************************************************************************)
(* What is pending, what is read, and the end of a connection.             *)
(***************************************************************************)

\* The pending part of a request, in the buffer.
LEMMA PendingBuffered ==
    ASSUME RecvBufIInv, ~inherited, pc \in {"request", "reply"}
    PROVE  /\ Ordered /\ Used + (have - curr) = pos
           /\ \A j \in 1..(have - curr) : buf[curr + j - 1] = ByteAt(Used + j)
<1>1. Pending = Slice(buf, curr, have)
  BY DEF Pending
<1>2. /\ Pending \in Seq(Bytes) /\ Len(Pending) = have - curr
      /\ \A j \in 1..(have - curr) : Pending[j] = buf[curr + j - 1]
  BY <1>1, TypeFacts, SliceFacts
<1>3. Ordered /\ ReadAfter(Used, Pending) /\ Used + Len(Pending) = pos
  BY DEF RecvBufIInv, RequestsCutExactly, ReadInOrder, Ordered
<1>4. \A j \in 1..Len(Pending) : Pending[j] = ByteAt(Used + j)
  BY <1>2, <1>3, TypeFacts, ReadAfterFacts DEF ReadAfter
<1> QED
  BY <1>2, <1>3, <1>4

LEMMA PendingHeader ==
    ASSUME RecvBufIInv, ~inherited, pc = "header"
    PROVE  /\ Ordered /\ Used + n = pos
           /\ \A j \in 1..n : buf[j - 1] = ByteAt(Used + j)
<1>1. Pending = Slice(buf, 0, n)
  BY DEF Pending
<1>2. n \in 0..BufSize /\ 0 \in 0..n /\ n - 0 = n /\ buf \in Buffers
  BY TypeFacts
<1>3. /\ Pending \in Seq(Bytes) /\ Len(Pending) = n
      /\ \A j \in 1..n : Pending[j] = buf[j - 1]
  <2>1. /\ Pending \in Seq(Bytes) /\ Len(Pending) = n - 0
        /\ \A j \in 1..(n - 0) : Pending[j] = buf[0 + j - 1]
    BY <1>1, <1>2, SliceFacts
  <2> QED BY <1>2, <2>1
<1>4. Ordered /\ ReadAfter(Used, Pending) /\ Used + Len(Pending) = pos
  BY DEF RecvBufIInv, RequestsCutExactly, ReadInOrder, Ordered
<1>5. \A j \in 1..Len(Pending) : Pending[j] = ByteAt(Used + j)
  BY <1>3, <1>4, TypeFacts, ReadAfterFacts DEF ReadAfter
<1> QED
  BY <1>3, <1>4, <1>5

\* ... and of one whose body is being received.
LEMMA PendingBody ==
    ASSUME RecvBufIInv, ~inherited, pc = "body"
    PROVE  /\ Ordered /\ Used + Len(Whole(msg)) + n = pos
           /\ \A j \in 1..Len(Whole(msg)) : Whole(msg)[j] = ByteAt(Used + j)
           /\ \A j \in 1..n : buf[j - 1] = ByteAt(Used + Len(Whole(msg)) + j)
<1> DEFINE w == Whole(msg)  s == Slice(buf, 0, n)
<1>1. Pending = w \o s
  BY DEF Pending
<1>2. n \in 0..BufSize /\ 0 \in 0..n /\ n - 0 = n /\ buf \in Buffers /\ n \in Nat /\ Used \in Nat
  BY TypeFacts
<1>3. /\ s \in Seq(Bytes) /\ Len(s) = n
      /\ \A j \in 1..n : s[j] = buf[j - 1]
  <2>1. /\ s \in Seq(Bytes) /\ Len(s) = n - 0
        /\ \A j \in 1..(n - 0) : s[j] = buf[0 + j - 1]
    BY <1>2, SliceFacts
  <2> QED BY <1>2, <2>1
<1>4. w \in Seq(Bytes) /\ Len(w) \in Nat
  BY TypeFacts, WholeFacts
<1> HIDE DEF w, s
<1>5. /\ Pending \in Seq(Bytes) /\ Len(Pending) = Len(w) + n
      /\ \A i \in 1..(Len(w) + n) : Pending[i] = IF i <= Len(w) THEN w[i] ELSE s[i - Len(w)]
  BY <1>1, <1>3, <1>4, ConcatProperties
<1>6. Ordered /\ ReadAfter(Used, Pending) /\ Used + Len(Pending) = pos
  BY DEF RecvBufIInv, RequestsCutExactly, ReadInOrder, Ordered
<1>7. \A j \in 1..Len(Pending) : Pending[j] = ByteAt(Used + j)
  BY <1>2, <1>5, <1>6, ReadAfterFacts DEF ReadAfter
<1>8. ASSUME NEW j \in 1..Len(w) PROVE w[j] = ByteAt(Used + j)
  <2>1. j \in 1..(Len(w) + n) /\ j <= Len(w)
    BY <1>2, <1>4
  <2> QED BY <1>5, <1>7, <2>1
<1>9. ASSUME NEW j \in 1..n PROVE buf[j - 1] = ByteAt(Used + Len(w) + j)
  <2>1. /\ Len(w) + j \in 1..(Len(w) + n) /\ ~(Len(w) + j <= Len(w)) /\ (Len(w) + j) - Len(w) = j
        /\ Used + (Len(w) + j) = Used + Len(w) + j
    BY <1>2, <1>4
  <2>2. Pending[Len(w) + j] = s[j] /\ Pending[Len(w) + j] = ByteAt(Used + (Len(w) + j))
    BY <1>5, <1>7, <2>1
  <2> QED BY <1>3, <2>1, <2>2
<1>10. Used + Len(w) + n = pos
  BY <1>2, <1>4, <1>5, <1>6
<1> QED
  BY <1>6, <1>8, <1>9, <1>10 DEF w

\* read() of k characters behind the n that are there.
LEMMA FilledFacts ==
    ASSUME RecvBufIInv, NEW k \in 1..BufSize, n + k <= BufSize, pos + k <= Len(stream)
    PROVE  /\ Filled(k) \in Buffers
           /\ \A p \in 0..BufSize - 1 : Filled(k)[p] = IF p \in n..n + k - 1
                                                      THEN ByteAt(pos + (p - n) + 1) ELSE buf[p]
<1>1. /\ buf \in Buffers /\ n \in Nat /\ pos \in Nat /\ k \in Nat /\ BufSize \in Nat
      /\ stream \in Seq(Char) /\ Len(stream) \in Nat /\ client \in 0..MaxClients
  BY TypeFacts
<1>2. ASSUME NEW p \in 0..BufSize - 1
      PROVE  /\ Filled(k)[p] = IF p \in n..n + k - 1 THEN ByteAt(pos + (p - n) + 1) ELSE buf[p]
             /\ Filled(k)[p] \in Bytes
  <2>1. Filled(k)[p] = IF p \in n..n + k - 1 THEN Sent(pos + 1, pos + k)[p - n + 1] ELSE buf[p]
    BY DEF Filled
  <2>2. CASE p \in n..n + k - 1
    <3>1. p - n + 1 \in 1..((pos + k) - (pos + 1) + 1) /\ (pos + 1) + (p - n + 1) - 1 = pos + (p - n) + 1
      BY <1>1, <2>2
    <3>2. Sent(pos + 1, pos + k)[p - n + 1] = ByteAt(pos + (p - n) + 1)
      BY <3>1 DEF Sent
    <3>3. pos + (p - n) + 1 \in 1..Len(stream)
      BY <1>1, <2>2
    <3>4. stream[pos + (p - n) + 1] \in Char /\ pos + (p - n) + 1 \in Nat
      BY <1>1, <3>3, ElementOfSeq
    <3>5. ByteAt(pos + (p - n) + 1) \in Bytes
      BY <1>1, <3>4 DEF ByteAt, Bytes
    <3> QED BY <2>1, <2>2, <3>2, <3>5
  <2>3. CASE p \notin n..n + k - 1
    BY <1>1, <2>1, <2>3 DEF Buffers
  <2> QED BY <2>2, <2>3
<1>3. Filled(k) = [p \in 0..BufSize - 1 |-> Filled(k)[p]]
  BY DEF Filled
<1> QED
  BY <1>2, <1>3 DEF Buffers

\* The context goes back to the cache; nothing is left of a client that was answered.
LEMMA ClosesRecvBufIInv ==
    ASSUME RecvBufIInv, pc # "idle", NEW reason, Closes(reason), UNCHANGED <<client, stream, handed>>,
           buf' \in Buffers, have' \in 0..BufSize, curr' \in 0..have', pos' \in pos..Len(stream),
           inherited' = inherited, ~inherited /\ Used = pos' => have' = curr'
    PROVE  RecvBufIInv'
<1>1. /\ pos \in Nat /\ pos' \in Nat /\ pos' >= pos /\ Len(stream) \in Nat /\ pos' \in 0..Len(stream)
      /\ BufSize \in Nat /\ \A i \in DOMAIN handed : WellCut(handed[i])
  BY TypeFacts
<1>2. pc' = "idle" /\ msg' = NoMsg /\ n' = 0 /\ n0' = 0
  BY DEF Closes
<1>3. RecvBufTypeOK'
  <2>1. NoMsg \in Message
    <3>1. <<>> \in Seq(Bytes)
      BY EmptySeq
    <3> QED BY <3>1 DEF NoMsg, Message
  <2>2. 0 \in 0..BufSize /\ 0 \in 0..0
    BY <1>1
  <2> QED BY <1>1, <1>2, <2>1, <2>2, TypeFacts DEF RecvBufTypeOK, Buffers
<1>4. client > 0
  BY DEF RecvBufIInv, CycleFits
<1>5. CycleFits' /\ FreshIsZero'
  <2>1. client # 0
    BY <1>4, TypeFacts
  <2> QED BY <1>2, <2>1 DEF CycleFits, FreshIsZero
<1>6. RequestsCutExactly'
  BY <1>1, <1>2 DEF RequestsCutExactly, ReadInOrder
<1>7. NeverWaitsForReceived'
  BY <1>2 DEF NeverWaitsForReceived
<1>8. AnsweredClientLeavesNothing'
  <2>1. Used' = Used
    BY <1>1, OrderedKept
  <2> QED BY <2>1 DEF AnsweredClientLeavesNothing
<1> QED
  BY <1>3, <1>5, <1>6, <1>7, <1>8 DEF RecvBufIInv

-----------------------------------------------------------------------------
(***************************************************************************)
(* The steps.                                                              *)
(***************************************************************************)

LEMMA InitRecvBufIInv == Init => RecvBufIInv
<1> SUFFICES ASSUME Init PROVE RecvBufIInv
  OBVIOUS
<1>1. BufSize \in Nat /\ MaxClients \in Nat
  BY Bounds
<1>2. RecvBufTypeOK
  <2>1. NulByte \in Bytes
    BY <1>1 DEF NulByte, Bytes, Char
  <2>2. buf \in [0..BufSize - 1 -> Bytes]
    BY <2>1 DEF Init
  <2>3. <<>> \in Seq(Bytes) /\ <<>> \in Seq(Message) /\ <<>> \in Seq(Char) /\ Len(<<>>) = 0
    BY EmptySeq
  <2>4. msg \in Message
    BY <2>3 DEF Init, NoMsg, Message
  <2> QED BY <1>1, <2>2, <2>3, <2>4 DEF Init, RecvBufTypeOK
<1>3. CycleFits /\ FreshIsZero
  BY <1>1 DEF Init, CycleFits, FreshIsZero
<1>4. RequestsCutExactly
  <2>1. DOMAIN handed = {}
    BY DEF Init
  <2> QED BY <2>1 DEF Init, RequestsCutExactly, ReadInOrder
<1>5. NeverWaitsForReceived /\ AnsweredClientLeavesNothing
  BY DEF Init, NeverWaitsForReceived, AnsweredClientLeavesNothing
<1> QED
  BY <1>2, <1>3, <1>4, <1>5 DEF RecvBufIInv

\* A client of the context: nothing of it has been read.
LEMMA AcceptRecvBufIInv == ASSUME RecvBufIInv, Accept PROVE RecvBufIInv'
<1>1. /\ pc = "idle" /\ client < MaxClients
      /\ client' = client + 1 /\ stream' \in Streams /\ pos' = 0
      /\ pc' = "request" /\ handed' = <<>> /\ inherited' = (have # curr)
      /\ UNCHANGED <<buf, have, curr, n0, n, msg>>
  BY DEF Accept, InitNewConnCtx, fields
<1>2. MaxClients \in Nat /\ client \in Nat /\ n = 0
  BY <1>1, Bounds, TypeFacts DEF RecvBufIInv, CycleFits
<1>3. RecvBufTypeOK'
  <2>1. stream' \in Seq(Char) /\ Len(stream') \in Nat
    BY <1>1, RecvBufBounds, LenProperties
  <2>2. client' \in 0..MaxClients /\ pos' \in 0..Len(stream')
    BY <1>1, <1>2, <2>1
  <2>3. handed' \in Seq(Message)
    BY <1>1, EmptySeq
  <2> QED BY <1>1, <2>1, <2>2, <2>3, TypeFacts DEF RecvBufTypeOK, Buffers
<1>4. CycleFits'
  BY <1>1, <1>2 DEF CycleFits
<1>5. FreshIsZero'
  <2>1. client' <= 1 => client = 0
    BY <1>1, <1>2
  <2> QED BY <1>1, <2>1 DEF FreshIsZero, RecvBufIInv
<1>6. RequestsCutExactly'
  <2>1. DOMAIN handed' = {} /\ Len(handed') = 0
    BY <1>1
  <2>2. SUFFICES ASSUME have = curr PROVE ReadAfter(Used, Pending)' /\ Used' + Len(Pending') = pos'
    BY <1>1, <2>1 DEF RequestsCutExactly, ReadInOrder
  <2>3. Used' = 0
    BY <2>1 DEF Used, UsedBefore
  <2>4. Pending' = <<>>
    <3>1. Pending' = Slice(buf, curr, curr)
      BY <1>1, <2>2 DEF Pending
    <3>2. curr - curr = 0
      BY TypeFacts
    <3> QED BY <3>1, <3>2 DEF Slice
  <2>5. Len(Pending') = 0
    BY <2>4
  <2>6. Sent(1, 0)' = <<>>
    BY DEF Sent
  <2> QED BY <1>1, <2>3, <2>4, <2>5, <2>6 DEF ReadAfter
<1>7. NeverWaitsForReceived' /\ AnsweredClientLeavesNothing'
  BY <1>1 DEF NeverWaitsForReceived, AnsweredClientLeavesNothing
<1> QED
  BY <1>3, <1>4, <1>5, <1>6, <1>7 DEF RecvBufIInv

\* The next request is in the buffer already.
LEMMA NextHdrBufferedRecvBufIInv == ASSUME RecvBufIInv, NextHdrBuffered PROVE RecvBufIInv'
<1> DEFINE size == FindHeadersEnd(Slice(buf, curr, have))
<1>1. /\ pc = "request" /\ size > 0 /\ Received(buf, curr, size, have)
      /\ buf' = buf /\ UNCHANGED <<client, stream, pos, inherited>>
  BY DEF NextHdrBuffered, peer
<1>2. /\ buf \in Buffers /\ have \in 0..BufSize /\ curr \in 0..have /\ pos' \in pos..Len(stream)
  BY <1>1, TypeFacts
<1>3. ~inherited => Holds(buf, curr, have)
  BY <1>1, PendingBuffered DEF Holds
<1>4. size # 0
  BY <1>1
<1> QED
  BY <1>1, <1>2, <1>3, <1>4, ReceivedRecvBufIInv

\* memmove() of what is left, and the wait for the rest of a header.
LEMMA RecvHdrRecvBufIInv == ASSUME RecvBufIInv, RecvHdr PROVE RecvBufIInv'
<1> DEFINE l == have - curr
<1>1. /\ pc = "request" /\ FindHeadersEnd(Slice(buf, curr, have)) = 0
      /\ buf' = Moved /\ UNCHANGED <<have, curr, client, stream, pos, inherited, handed>>
  BY DEF RecvHdr, fields, peer
<1>0. IF l < BufSize THEN pc' = "header" /\ n0' = l /\ n' = l /\ UNCHANGED <<msg, why>>
      ELSE Closes("no header")
  BY DEF RecvHdr, fields, peer
<1>2. /\ l \in 0..BufSize /\ l \in Nat /\ BufSize \in Nat /\ buf \in Buffers
      /\ have \in 0..BufSize /\ curr \in 0..have /\ curr \in Nat /\ have \in Nat
      /\ 0 \in 0..l /\ pos \in Nat /\ Len(stream) \in Nat /\ pos \in 0..Len(stream)
      /\ Used \in Nat
  BY TypeFacts
<1>3. \A p \in 0..BufSize - 1 : Moved[p] = IF p < l THEN buf[curr + p] ELSE buf[p]
  BY DEF Moved
<1>4. Moved \in Buffers
  <2>1. \A p \in 0..BufSize - 1 : p < l => curr + p \in 0..BufSize - 1
    BY <1>2
  <2> QED BY <1>2, <2>1 DEF Moved, Buffers
<1>5. \A j \in 1..l : Moved[j - 1] = buf[curr + j - 1]
  <2>1. \A j \in 1..l : j - 1 \in 0..BufSize - 1 /\ j - 1 < l /\ curr + (j - 1) = curr + j - 1
    BY <1>2
  <2> QED BY <1>3, <2>1
<1>6. CASE l < BufSize
  <2>1. pc' = "header" /\ n0' = l /\ n' = l /\ UNCHANGED <<msg, why>>
    BY <1>0, <1>6
  <2>2. RecvBufTypeOK'
    <3>1. n' \in 0..BufSize /\ n0' \in 0..n'
      BY <1>2, <2>1
    <3> QED BY <1>1, <1>4, <2>1, <3>1, TypeFacts DEF RecvBufTypeOK, Buffers
  <2>3. CycleFits'
    <3>1. client > 0
      BY <1>1 DEF RecvBufIInv, CycleFits
    <3> QED BY <1>1, <2>1, <3>1 DEF CycleFits
  <2>4. FreshIsZero'
    <3>1. SUFFICES ASSUME client <= 1, handed = <<>>
                   PROVE  have = 0 /\ curr = 0 /\ \A p \in l..BufSize - 1 : Moved[p] = NulByte
      BY <1>1, <2>1 DEF FreshIsZero
    <3>2. n = 0 /\ have = 0 /\ curr = 0 /\ \A p \in n..BufSize - 1 : buf[p] = NulByte
      BY <1>1, <3>1 DEF RecvBufIInv, FreshIsZero, CycleFits
    <3>3. l = 0
      BY <3>2
    <3>4. ASSUME NEW p \in l..BufSize - 1 PROVE Moved[p] = NulByte
      <4>1. p \in 0..BufSize - 1 /\ ~(p < l) /\ p \in n..BufSize - 1
        BY <1>2, <3>2, <3>3
      <4> QED BY <1>3, <3>2, <4>1
    <3> QED BY <3>2, <3>4
  <2>5. NeverWaitsForReceived'
    <3>1. Slice(Moved, 0, l) = Slice(buf, curr, have)
      <4>1. l - 0 = have - curr /\ \A j \in 1..(l - 0) : Moved[0 + j - 1] = buf[curr + j - 1]
        BY <1>2, <1>5
      <4> QED BY <1>2, <1>4, <4>1, SameSlice
    <3> QED BY <1>1, <2>1, <3>1 DEF NeverWaitsForReceived
  <2>6. RequestsCutExactly'
    <3>1. ASSUME ~inherited
          PROVE  Ordered' /\ ReadAfter(Used, Pending)' /\ Used' + Len(Pending') = pos'
      <4>1. /\ Ordered /\ Used + l = pos
            /\ \A j \in 1..l : buf[curr + j - 1] = ByteAt(Used + j)
        BY <1>1, <3>1, PendingBuffered
      <4>2. Used' = Used /\ Ordered'
        <5>1. UNCHANGED <<handed, stream, client>> /\ pos' \in Nat /\ pos' >= pos
          BY <1>1, <1>2
        <5> QED BY <4>1, <5>1, OrderedKept
      <4>3. Pending' = Slice(Moved, 0, l)
        BY <1>1, <2>1 DEF Pending
      <4>4. /\ Pending' \in Seq(Bytes) /\ Len(Pending') = l
            /\ \A j \in 1..l : Pending'[j] = Moved[j - 1]
        <5>1. /\ Slice(Moved, 0, l) \in Seq(Bytes) /\ Len(Slice(Moved, 0, l)) = l - 0
              /\ \A j \in 1..(l - 0) : Slice(Moved, 0, l)[j] = Moved[0 + j - 1]
          BY <1>2, <1>4, SliceFacts
        <5>2. l - 0 = l /\ \A j \in 1..l : 0 + j - 1 = j - 1
          BY <1>2
        <5> QED BY <4>3, <5>1, <5>2
      <4>5. \A j \in 1..Len(Pending') : Pending'[j] = ByteAt(Used + j)
        BY <1>5, <4>1, <4>4
      <4>8. Used' + Len(Pending') = pos'
        BY <1>1, <4>1, <4>2, <4>4
      <4>9. ReadAfter(Used, Pending)'
        BY <1>1, <1>2, <4>2, <4>4, <4>5, <4>8, PendingIsRead
      <4> QED BY <4>2, <4>8, <4>9
    <3>2. \A i \in DOMAIN handed' : WellCut(handed'[i])
      BY <1>1, TypeFacts
    <3> QED BY <1>1, <3>1, <3>2 DEF RequestsCutExactly, ReadInOrder, Ordered
  <2>7. AnsweredClientLeavesNothing'
    BY <2>1 DEF AnsweredClientLeavesNothing
  <2> QED BY <2>2, <2>3, <2>4, <2>5, <2>6, <2>7 DEF RecvBufIInv
<1>7. CASE ~(l < BufSize)
  <2>1. Closes("no header")
    BY <1>0, <1>7
  <2>2. ~inherited => Used + l = pos
    BY <1>1, PendingBuffered
  <2>3. BufSize > 0
    BY Bounds
  <2>4. ~inherited => Used # pos'
    <3>1. \A u, v, x \in Nat : u + v = x /\ v > 0 => u # x
      OBVIOUS
    <3>2. l > 0
      BY <1>2, <1>7, <2>3
    <3> QED BY <1>1, <1>2, <2>2, <3>1, <3>2
  <2>5. pos' \in pos..Len(stream)
    BY <1>1, <1>2
  <2> QED BY <1>1, <1>2, <1>4, <2>1, <2>4, <2>5, ClosesRecvBufIInv
<1> QED
  BY <1>6, <1>7

\* recv_from_curr_conn() returned for a header.
LEMMA HdrReturnsRecvBufIInv ==
    ASSUME RecvBufIInv, pc = "header", NEW b \in Buffers, NEW m \in 1..BufSize, NEW reason,
           HdrReturns(b, m, reason), buf' = b, UNCHANGED <<client, stream, inherited>>,
           pos' \in pos..Len(stream), ~inherited => Holds(b, 0, m)
    PROVE  RecvBufIInv'
<1> DEFINE size == FindHeadersEnd(Slice(b, 0, m))
<1>1. IF size > 0 THEN Received(b, 0, size, m)
      ELSE have' = m /\ curr' = 0 /\ Closes(reason) /\ UNCHANGED handed
  BY DEF HdrReturns
<1>2. /\ BufSize \in Nat /\ m \in 0..BufSize /\ 0 \in 0..m /\ m \in Nat /\ m > 0 /\ pos \in Nat
      /\ Used \in Nat /\ pos' \in Nat
  BY TypeFacts
<1>3. CASE size > 0
  <2>1. size # 0 /\ Received(b, 0, size, m)
    BY <1>1, <1>3
  <2> QED BY <1>2, <2>1, ReceivedRecvBufIInv
<1>4. CASE ~(size > 0)
  <2>1. have' = m /\ curr' = 0 /\ Closes(reason) /\ UNCHANGED handed
    BY <1>1, <1>4
  <2>2. have' \in 0..BufSize /\ curr' \in 0..have'
    BY <1>2, <2>1
  <2>3. ~inherited => Used # pos'
    <3>1. \A u, x \in Nat : u + (m - 0) = x => u # x
      BY <1>2
    <3> QED BY <1>2, <3>1 DEF Holds
  <2>4. pc # "idle" /\ UNCHANGED <<client, stream, handed>> /\ buf' \in Buffers
    BY <2>1
  <2> QED BY <2>1, <2>2, <2>3, <2>4, ClosesRecvBufIInv
<1> QED
  BY <1>3, <1>4

\* Nothing of the header's terminator is in what was received before.
LEMMA HeaderOpen ==
    ASSUME RecvBufIInv, pc = "header"
    PROVE  \A p \in 0..n - 4 : ~Match(buf, p)
<1>1. FindHeadersEnd(Slice(buf, 0, n)) = 0
  BY DEF RecvBufIInv, NeverWaitsForReceived
<1>2. n \in 0..BufSize /\ 0 \in 0..n /\ buf \in Buffers
  BY TypeFacts
<1> QED
  BY <1>1, <1>2, EndFacts

\* One read for a header: what the buffer holds, and what the search in it means.
LEMMA HdrReadFacts ==
    ASSUME RecvBufIInv, NEW k \in 1..BufSize, HdrRead(k)
    PROVE  /\ pc = "header" /\ n + k \in 1..BufSize /\ n + k \in n + 1..BufSize
           /\ buf' = Filled(k) /\ Filled(k) \in Buffers
           /\ pos' = pos + k /\ pos' \in pos..Len(stream)
           /\ UNCHANGED <<client, stream, inherited>>
           /\ \A p \in 0..n - 4 : ~Match(Filled(k), p)
           /\ \A p \in n + k..BufSize - 1 : Filled(k)[p] = buf[p]
           /\ ~inherited => Holds(Filled(k), 0, n + k)
<1>1. /\ pc = "header" /\ n + k <= BufSize /\ pos + k <= Len(stream) /\ pos' = pos + k
      /\ buf' = Filled(k) /\ UNCHANGED <<client, stream, inherited>>
  BY DEF HdrRead, Read
<1>2. /\ n \in Nat /\ BufSize \in Nat /\ k \in Nat /\ k > 0 /\ pos \in Nat /\ Len(stream) \in Nat
      /\ buf \in Buffers /\ Used \in Nat
  BY TypeFacts
<1>3. n + k \in 1..BufSize /\ n + k \in n + 1..BufSize /\ pos' \in pos..Len(stream)
  BY <1>1, <1>2
<1>4. /\ Filled(k) \in Buffers
      /\ \A p \in 0..BufSize - 1 : Filled(k)[p] = IF p \in n..n + k - 1
                                                  THEN ByteAt(pos + (p - n) + 1) ELSE buf[p]
  BY <1>1, FilledFacts
<1>5. ASSUME NEW p \in 0..n - 4 PROVE ~Match(Filled(k), p)
  <2>1. ASSUME NEW i \in 0..3
        PROVE  p + i < BufSize /\ Filled(k)[p + i] = buf[p + i]
    <3>1. p + i \in 0..BufSize - 1 /\ p + i \notin n..n + k - 1 /\ p + i < BufSize
      BY <1>1, <1>2
    <3> QED BY <1>4, <3>1
  <2>2. ~Match(buf, p)
    BY <1>1, HeaderOpen
  <2> QED BY <2>1, <2>2 DEF Match
<1>6. ASSUME NEW p \in n + k..BufSize - 1 PROVE Filled(k)[p] = buf[p]
  <2>1. p \in 0..BufSize - 1 /\ p \notin n..n + k - 1
    BY <1>2
  <2> QED BY <1>4, <2>1
<1>7. ASSUME ~inherited PROVE Holds(Filled(k), 0, n + k)
  <2>1. Used + n = pos /\ \A j \in 1..n : buf[j - 1] = ByteAt(Used + j)
    BY <1>1, <1>7, PendingHeader
  <2>2. ASSUME NEW j \in 1..((n + k) - 0) PROVE Filled(k)[0 + j - 1] = ByteAt(Used + j)
    <3>1. 0 + j - 1 = j - 1 /\ j - 1 \in 0..BufSize - 1
      BY <1>1, <1>2
    <3>2. CASE j <= n
      <4>1. j \in 1..n /\ j - 1 \notin n..n + k - 1
        BY <1>2, <3>2
      <4> QED BY <1>4, <2>1, <3>1, <4>1
    <3>3. CASE ~(j <= n)
      <4>1. j - 1 \in n..n + k - 1
        BY <1>2, <3>3
      <4>2. pos + ((j - 1) - n) + 1 = Used + j
        BY <1>2, <2>1
      <4> QED BY <1>4, <3>1, <4>1, <4>2
    <3> QED BY <3>2, <3>3
  <2>3. Used + ((n + k) - 0) = pos'
    BY <1>1, <1>2, <2>1
  <2> QED BY <2>2, <2>3 DEF Holds
<1> QED
  BY <1>1, <1>3, <1>4, <1>5, <1>6, <1>7

\* A chunk of a header arrives.
LEMMA HdrReadRecvBufIInv ==
    ASSUME RecvBufIInv, NEW k \in 1..BufSize, HdrRead(k) PROVE RecvBufIInv'
<1>1. /\ pc = "header" /\ n + k \in 1..BufSize /\ n + k \in n + 1..BufSize
      /\ buf' = Filled(k) /\ Filled(k) \in Buffers
      /\ pos' = pos + k /\ pos' \in pos..Len(stream)
      /\ UNCHANGED <<client, stream, inherited>>
      /\ \A p \in 0..n - 4 : ~Match(Filled(k), p)
      /\ \A p \in n + k..BufSize - 1 : Filled(k)[p] = buf[p]
      /\ ~inherited => Holds(Filled(k), 0, n + k)
  BY HdrReadFacts
<1>2. IF Segfaults(Filled(k), n, n + k)
      THEN pc' = "crashed" /\ n' = n + k /\ UNCHANGED <<fields, n0, msg, handed, why>>
      ELSE IF IsHttpMessageEnd(Filled(k), n, n + k) \/ n + k = BufSize
      THEN HdrReturns(Filled(k), n + k, "no header")
      ELSE n' = n + k /\ UNCHANGED <<fields, pc, n0, msg, handed, why>>
  BY DEF HdrRead
<1>3. /\ n \in Nat /\ n0 \in Nat /\ n0 \in 0..n /\ n \in 0..BufSize /\ BufSize \in Nat /\ k \in Nat
      /\ k > 0 /\ pos \in Nat /\ Used \in Nat /\ Len(stream) \in Nat /\ client > 0
      /\ \A i \in DOMAIN handed : WellCut(handed[i])
  BY <1>1, TypeFacts DEF RecvBufIInv, CycleFits
<1>4. /\ ~IsHttpMessageEnd(Filled(k), n, n + k) => FindHeadersEnd(Slice(Filled(k), 0, n + k)) = 0
      /\ Segfaults(Filled(k), n, n + k) =>
            FindHeadersEnd(Slice(Filled(k), 0, n + k)) = 0 /\ n + k >= BufSize - 1
  BY <1>1, <1>3, ChunkEnd
<1>5. ASSUME pc' \in {"header", "crashed"}, n' = n + k, UNCHANGED <<have, curr, n0, msg, handed>>
      PROVE  RecvBufTypeOK'
  <2>1. n' \in 0..BufSize /\ n0' \in 0..n'
    BY <1>1, <1>3, <1>5
  <2>2. pos' \in 0..Len(stream')
    BY <1>1, <1>3
  <2>3. /\ buf' \in Buffers /\ have' \in 0..BufSize /\ curr' \in 0..have'
        /\ msg' \in Message /\ handed' \in Seq(Message)
        /\ client' \in 0..MaxClients /\ stream' \in Seq(Char)
    BY <1>1, <1>5, TypeFacts
  <2> QED BY <1>5, <2>1, <2>2, <2>3 DEF RecvBufTypeOK, Buffers
<1>6. CASE Segfaults(Filled(k), n, n + k)
  <2>1. pc' = "crashed" /\ n' = n + k /\ UNCHANGED <<have, curr, n0, msg, handed>>
    BY <1>2, <1>6 DEF fields
  <2>2. RecvBufTypeOK'
    BY <1>5, <2>1
  <2>3. CycleFits' /\ FreshIsZero' /\ AnsweredClientLeavesNothing'
    BY <1>1, <1>3, <2>1 DEF CycleFits, FreshIsZero, AnsweredClientLeavesNothing
  <2>4. NeverWaitsForReceived'
    BY <1>1, <1>4, <1>6, <2>1 DEF NeverWaitsForReceived
  <2>5. RequestsCutExactly'
    BY <1>3, <2>1 DEF RequestsCutExactly, ReadInOrder
  <2> QED BY <2>2, <2>3, <2>4, <2>5 DEF RecvBufIInv
<1>7. CASE /\ ~Segfaults(Filled(k), n, n + k)
           /\ IsHttpMessageEnd(Filled(k), n, n + k) \/ n + k = BufSize
  <2>1. HdrReturns(Filled(k), n + k, "no header")
    BY <1>2, <1>7
  <2> QED BY <1>1, <2>1, HdrReturnsRecvBufIInv
<1>8. CASE /\ ~Segfaults(Filled(k), n, n + k)
           /\ ~(IsHttpMessageEnd(Filled(k), n, n + k) \/ n + k = BufSize)
  <2>1. n' = n + k /\ UNCHANGED <<have, curr, pc, n0, msg, handed>>
    BY <1>2, <1>8 DEF fields
  <2>2. RecvBufTypeOK'
    BY <1>1, <1>5, <2>1
  <2>3. CycleFits'
    BY <1>1, <2>1 DEF RecvBufIInv, CycleFits
  <2>4. FreshIsZero'
    <3>1. SUFFICES ASSUME client <= 1, handed = <<>>
                   PROVE  have = 0 /\ curr = 0 /\ \A p \in n + k..BufSize - 1 : Filled(k)[p] = NulByte
      BY <1>1, <2>1 DEF FreshIsZero
    <3>2. have = 0 /\ curr = 0 /\ \A p \in n..BufSize - 1 : buf[p] = NulByte
      BY <1>1, <3>1 DEF RecvBufIInv, FreshIsZero
    <3>3. \A p \in n + k..BufSize - 1 : p \in n..BufSize - 1
      BY <1>3
    <3> QED BY <1>1, <3>2, <3>3
  <2>5. NeverWaitsForReceived'
    BY <1>1, <1>4, <1>8, <2>1 DEF NeverWaitsForReceived
  <2>6. RequestsCutExactly'
    <3>1. ASSUME ~inherited
          PROVE  Ordered' /\ ReadAfter(Used, Pending)' /\ Used' + Len(Pending') = pos'
      <4>1. Ordered
        BY <1>1, <3>1, PendingHeader
      <4>2. Used' = Used /\ Ordered'
        <5>1. UNCHANGED <<handed, stream, client>> /\ pos' \in Nat /\ pos' >= pos
          BY <1>1, <1>3, <2>1
        <5> QED BY <4>1, <5>1, OrderedKept
      <4>3. Pending' = Slice(Filled(k), 0, n + k)
        BY <1>1, <2>1 DEF Pending
      <4>4. /\ Slice(Filled(k), 0, n + k) \in Seq(Bytes)
            /\ Len(Slice(Filled(k), 0, n + k)) = (n + k) - 0
            /\ \A j \in 1..((n + k) - 0) : Slice(Filled(k), 0, n + k)[j] = Filled(k)[0 + j - 1]
        <5>1. n + k \in 0..BufSize /\ 0 \in 0..n + k
          BY <1>1, <1>3
        <5> QED BY <1>1, <5>1, SliceFacts
      <4>5. \A j \in 1..Len(Pending') : Pending'[j] = ByteAt(Used' + j)
        BY <1>1, <3>1, <4>2, <4>3, <4>4 DEF Holds
      <4>6. Used' + Len(Pending') = pos'
        BY <1>1, <3>1, <4>2, <4>3, <4>4 DEF Holds
      <4>7. ReadAfter(Used, Pending)'
        <5>1. pos' \in Nat /\ Used' \in Nat
          BY <1>1, <1>3, <4>2
        <5> QED BY <1>1, <4>3, <4>4, <4>5, <4>6, <5>1, PendingIsRead
      <4> QED BY <4>2, <4>6, <4>7
    <3>2. \A i \in DOMAIN handed' : WellCut(handed'[i])
      BY <1>3, <2>1
    <3> QED BY <1>1, <3>1, <3>2 DEF RequestsCutExactly, ReadInOrder, Ordered
  <2>7. AnsweredClientLeavesNothing'
    BY <1>1, <2>1 DEF AnsweredClientLeavesNothing
  <2> QED BY <2>2, <2>3, <2>4, <2>5, <2>6, <2>7 DEF RecvBufIInv
<1> QED
  BY <1>6, <1>7, <1>8

\* The client closes while a header is waited for: there is one in what was
\* received, or there is not.
LEMMA HdrEofRecvBufIInv == ASSUME RecvBufIInv, HdrEof PROVE RecvBufIInv'
<1>1. /\ pc = "header" /\ UNCHANGED <<buf, client, stream, pos, inherited>>
      /\ IF n > n0 THEN HdrReturns(buf, n, "eof")
         ELSE Closes("eof") /\ UNCHANGED <<have, curr, handed>>
  BY DEF HdrEof, peer, fields
<1>2. /\ n \in 0..BufSize /\ n \in Nat /\ n0 \in Nat /\ n0 <= n /\ BufSize \in Nat /\ Used \in Nat
      /\ buf \in Buffers /\ have \in Nat /\ curr \in Nat /\ pos \in Nat
      /\ pos \in pos..Len(stream) /\ n0 = have - curr
      /\ have \in 0..BufSize /\ curr \in 0..have
  BY <1>1, TypeFacts DEF RecvBufIInv, CycleFits
<1>3. ASSUME ~inherited
      PROVE  Used + n = pos /\ \A j \in 1..n : buf[j - 1] = ByteAt(Used + j)
  BY <1>1, <1>3, PendingHeader
<1>4. CASE n > n0
  <2>1. n \in 1..BufSize /\ HdrReturns(buf, n, "eof")
    BY <1>1, <1>2, <1>4
  <2>2. ~inherited => Holds(buf, 0, n)
    <3>1. n - 0 = n /\ \A j \in 1..n : 0 + j - 1 = j - 1
      BY <1>2
    <3> QED BY <1>1, <1>3, <3>1 DEF Holds
  <2>3. buf' = buf /\ pos' \in pos..Len(stream)
    BY <1>1, <1>2
  <2> QED BY <1>1, <1>2, <2>1, <2>2, <2>3, HdrReturnsRecvBufIInv
<1>5. CASE ~(n > n0)
  <2>1. Closes("eof") /\ UNCHANGED <<have, curr, handed>>
    BY <1>1, <1>5
  <2>2. ~inherited /\ Used = pos' => have' = curr'
    <3>1. \A u, x, h, c \in Nat : u + n = x /\ u = x /\ n = h - c => h = c
      BY <1>2
    <3>2. n = n0
      BY <1>2, <1>5
    <3> QED BY <1>1, <1>2, <1>3, <2>1, <3>1, <3>2
  <2>3. /\ buf' \in Buffers /\ have' \in 0..BufSize /\ curr' \in 0..have' /\ pos' \in pos..Len(stream)
    BY <1>1, <1>2, <2>1
  <2> QED BY <1>1, <2>1, <2>2, <2>3, ClosesRecvBufIInv
<1> QED
  BY <1>4, <1>5

\* One read for the body: what was received of the request, and the request
\* once the chunk is complete.
Got(k)  == Whole(msg) \o Slice(Filled(k), 0, n + k)
More(k) == [msg EXCEPT !.body = @ \o Slice(Filled(k), 0, ToRecv)]

LEMMA BodyReadFacts ==
    ASSUME RecvBufIInv, NEW k \in 1..BufSize, BodyRead(k)
    PROVE  /\ pc = "body" /\ n + k \in 1..ToRecv /\ ToRecv \in 1..BufSize
           /\ buf' = Filled(k) /\ Filled(k) \in Buffers /\ pos' = pos + k /\ pos' \in pos..Len(stream)
           /\ UNCHANGED <<client, stream, inherited, have, curr>> /\ have = curr /\ n0 = 0 /\ client > 0
           /\ Got(k) \in Seq(Bytes) /\ Len(Got(k)) \in Nat
           /\ ~inherited => /\ Ordered /\ Used + Len(Got(k)) = pos'
                            /\ \A j \in 1..Len(Got(k)) : Got(k)[j] = ByteAt(Used + j)
           /\ HeaderCut(msg) /\ Len(msg.body) < BodyLen(msg.hdr)
           /\ n + k = ToRecv => /\ More(k) \in Message /\ Whole(More(k)) = Got(k)
                                /\ HeaderCut(More(k))
                                /\ Len(More(k).body) <= BodyLen(More(k).hdr)
<1> DEFINE s == Slice(Filled(k), 0, n + k)  w == Got(k)  more == More(k)
<1>1. /\ pc = "body" /\ n + k <= ToRecv /\ pos + k <= Len(stream) /\ pos' = pos + k
      /\ buf' = Filled(k) /\ UNCHANGED <<client, stream, inherited, have, curr>>
  BY DEF BodyRead, Read, fields
<1>2. /\ n \in Nat /\ BufSize \in Nat /\ BufSize > 4 /\ k \in Nat /\ k > 0 /\ pos \in Nat
      /\ Len(stream) \in Nat /\ buf \in Buffers /\ Used \in Nat /\ msg \in Message
  BY Bounds, TypeFacts
<1>3. n0 = 0 /\ have = curr /\ HeaderCut(msg) /\ Len(msg.body) < BodyLen(msg.hdr) /\ client > 0
  BY <1>1 DEF RecvBufIInv, CycleFits
<1>4. /\ msg.hdr \in Seq(Bytes) /\ msg.body \in Seq(Bytes) /\ Len(msg.body) \in Nat
      /\ Whole(msg) \in Seq(Bytes) /\ Len(Whole(msg)) \in Nat /\ BodyLen(msg.hdr) \in Nat
  BY <1>2, WholeFacts, BodyLenNat
<1>5. /\ ToRecv \in 1..BufSize /\ ToRecv <= BodyLen(msg.hdr) - Len(msg.body)
  <2>1. BodyLen(msg.hdr) - Len(msg.body) \in Int /\ BodyLen(msg.hdr) - Len(msg.body) >= 1
    BY <1>3, <1>4
  <2> QED BY <1>2, <2>1 DEF ToRecv, Least
<1>6. n + k \in 1..ToRecv /\ n + k <= BufSize /\ n + k \in 0..BufSize /\ 0 \in 0..n + k
      /\ (n + k) - 0 = n + k /\ pos' \in pos..Len(stream) /\ n + k \in Nat
  BY <1>1, <1>2, <1>5
<1>7. /\ Filled(k) \in Buffers
      /\ \A p \in 0..BufSize - 1 : Filled(k)[p] = IF p \in n..n + k - 1
                                                  THEN ByteAt(pos + (p - n) + 1) ELSE buf[p]
  BY <1>1, <1>6, FilledFacts
<1>8. /\ s \in Seq(Bytes) /\ Len(s) = n + k
      /\ \A j \in 1..(n + k) : s[j] = Filled(k)[j - 1]
  <2>1. /\ s \in Seq(Bytes) /\ Len(s) = (n + k) - 0
        /\ \A j \in 1..((n + k) - 0) : s[j] = Filled(k)[0 + j - 1]
    BY <1>6, <1>7, SliceFacts
  <2>2. \A j \in 1..(n + k) : 0 + j - 1 = j - 1
    OBVIOUS
  <2> QED BY <1>6, <2>1, <2>2
<1>9. w = Whole(msg) \o s
  BY DEF Got
<1> HIDE DEF s
<1>10. /\ w \in Seq(Bytes) /\ Len(w) = Len(Whole(msg)) + (n + k)
       /\ \A i \in 1..(Len(Whole(msg)) + (n + k)) :
             w[i] = IF i <= Len(Whole(msg)) THEN Whole(msg)[i] ELSE s[i - Len(Whole(msg))]
  <2>1. Whole(msg) \in Seq(Bytes) /\ s \in Seq(Bytes)
    BY <1>4, <1>8
  <2>2. /\ w \in Seq(Bytes) /\ Len(w) = Len(Whole(msg)) + Len(s)
        /\ \A i \in 1..(Len(Whole(msg)) + Len(s)) :
              w[i] = IF i <= Len(Whole(msg)) THEN Whole(msg)[i] ELSE s[i - Len(Whole(msg))]
    BY <1>9, <2>1, ConcatProperties
  <2>3. Len(s) = n + k
    BY <1>8
  <2> QED BY <2>2, <2>3
<1>11. ASSUME ~inherited
       PROVE  /\ Ordered /\ Used + Len(w) = pos'
              /\ \A j \in 1..Len(w) : w[j] = ByteAt(Used + j)
  <2>1. /\ Ordered /\ Used + Len(Whole(msg)) + n = pos
        /\ \A j \in 1..Len(Whole(msg)) : Whole(msg)[j] = ByteAt(Used + j)
        /\ \A j \in 1..n : buf[j - 1] = ByteAt(Used + Len(Whole(msg)) + j)
    BY <1>1, <1>11, PendingBody
  <2>2. PICK l \in Nat : l = Len(Whole(msg))
    BY <1>4
  <2>3. Used + Len(w) = pos'
    <3>1. Len(w) = l + (n + k) /\ Used + l + n = pos
      BY <1>10, <2>1, <2>2
    <3>2. Used + (l + (n + k)) = pos + k
      BY <1>2, <3>1
    <3> QED BY <1>1, <3>1, <3>2
  <2>4. ASSUME NEW i \in 1..Len(w) PROVE w[i] = ByteAt(Used + i)
    <3>1. i \in 1..(l + (n + k))
      BY <1>10, <2>2
    <3>2. CASE i <= l
      <4>1. i \in 1..l
        BY <3>2
      <4> QED BY <1>10, <2>1, <2>2, <3>1, <3>2, <4>1
    <3>3. CASE ~(i <= l)
      <4>1. PICK j \in 1..(n + k) : j = i - l
        BY <1>2, <2>2, <3>1, <3>3
      <4>2. w[i] = Filled(k)[j - 1]
        BY <1>8, <1>10, <2>2, <3>1, <3>3, <4>1
      <4>3. j - 1 \in 0..BufSize - 1 /\ Used + l + j = Used + i
        BY <1>2, <1>6, <4>1
      <4>4. CASE j <= n
        <5>1. j \in 1..n /\ j - 1 \notin n..n + k - 1
          BY <1>2, <4>1, <4>4
        <5>2. w[i] = buf[j - 1]
          BY <1>7, <4>2, <4>3, <5>1
        <5>3. buf[j - 1] = ByteAt(Used + l + j)
          BY <2>1, <2>2, <5>1
        <5> QED BY <4>3, <5>2, <5>3
      <4>5. CASE ~(j <= n)
        <5>1. j - 1 \in n..n + k - 1
          BY <1>2, <4>1, <4>5
        <5>2. pos + ((j - 1) - n) + 1 = Used + i
          BY <1>2, <2>1, <2>2, <4>1
        <5>3. Filled(k)[j - 1] = ByteAt(pos + ((j - 1) - n) + 1)
          BY <1>7, <4>3, <5>1
        <5> QED BY <4>2, <5>2, <5>3
      <4> QED BY <4>4, <4>5
    <3> QED BY <3>2, <3>3
  <2> QED BY <2>1, <2>3, <2>4
<1>12. ASSUME n + k = ToRecv
       PROVE  /\ more \in Message /\ Whole(more) = w /\ HeaderCut(more)
              /\ Len(more.body) <= BodyLen(more.hdr)
  <2>1. more.hdr = msg.hdr /\ more.body = msg.body \o s
    <3>1. more = [msg EXCEPT !.body = @ \o s]
      BY <1>12 DEF s, More
    <3> QED BY <1>2, <3>1 DEF Message
  <2>2. more = [hdr |-> msg.hdr, body |-> msg.body \o s]
    <3>1. more = [msg EXCEPT !.body = @ \o s]
      BY <1>12 DEF s, More
    <3> QED BY <1>2, <3>1 DEF Message
  <2>3. PICK h \in Seq(Bytes), d \in Seq(Bytes) : h = msg.hdr /\ d = msg.body
    BY <1>4
  <2>4. s \in Seq(Bytes) /\ Len(s) = n + k
    BY <1>8
  <2>5. d \o s \in Seq(Bytes) /\ Len(d \o s) = Len(d) + (n + k)
    <3>1. d \o s \in Seq(Bytes) /\ Len(d \o s) = Len(d) + Len(s)
      BY <2>4, ConcatProperties
    <3> QED BY <2>4, <3>1
  <2>6. more \in Message
    <3>1. PICK e \in Seq(Bytes) : e = d \o s
      BY <2>5
    <3>2. more = [hdr |-> h, body |-> e]
      BY <2>2, <2>3, <3>1
    <3> QED BY <3>2 DEF Message
  <2>7. Whole(more) = w
    <3>1. (h \o d) \o s = h \o (d \o s)
      BY <2>4, ConcatAssociative
    <3>2. Whole(more) = h \o (d \o s) /\ w = (h \o d) \o s
      BY <1>9, <2>1, <2>3 DEF Whole
    <3> QED BY <3>1, <3>2
  <2>8. HeaderCut(more)
    BY <1>3, <2>1 DEF HeaderCut
  <2>9. Len(more.body) <= BodyLen(more.hdr)
    <3>1. Len(more.body) = Len(msg.body) + ToRecv /\ BodyLen(more.hdr) = BodyLen(msg.hdr)
      BY <1>12, <2>1, <2>3, <2>5
    <3> QED BY <1>2, <1>4, <1>5, <3>1
  <2> QED BY <2>6, <2>7, <2>8, <2>9
<1>13. Len(w) \in Nat
  BY <1>10, LenProperties
<1> QED
  BY <1>1, <1>3, <1>5, <1>6, <1>7, <1>10, <1>11, <1>12, <1>13

\* A chunk of the body arrives: it is not complete, it is but the body is not,
\* or the request is.
LEMMA BodyReadRecvBufIInv ==
    ASSUME RecvBufIInv, NEW k \in 1..BufSize, BodyRead(k) PROVE RecvBufIInv'
<1>1. /\ pc = "body" /\ n + k \in 1..ToRecv /\ ToRecv \in 1..BufSize
      /\ buf' = Filled(k) /\ Filled(k) \in Buffers /\ pos' = pos + k /\ pos' \in pos..Len(stream)
      /\ UNCHANGED <<client, stream, inherited, have, curr>> /\ have = curr /\ n0 = 0 /\ client > 0
      /\ HeaderCut(msg) /\ Len(msg.body) < BodyLen(msg.hdr)
  BY BodyReadFacts
<1>2. /\ Got(k) \in Seq(Bytes) /\ Len(Got(k)) \in Nat
      /\ ~inherited => /\ Ordered /\ Used + Len(Got(k)) = pos'
                       /\ \A j \in 1..Len(Got(k)) : Got(k)[j] = ByteAt(Used + j)
      /\ n + k = ToRecv => /\ More(k) \in Message /\ Whole(More(k)) = Got(k)
                           /\ HeaderCut(More(k))
                           /\ Len(More(k).body) <= BodyLen(More(k).hdr)
  BY BodyReadFacts
<1>3. \/ n + k < ToRecv /\ n' = n + k /\ UNCHANGED <<pc, n0, msg, handed>>
      \/ Closes("timeout") /\ UNCHANGED handed
      \/ /\ n + k = ToRecv /\ Len(More(k).body) < BodyLen(msg.hdr)
         /\ n' = 0 /\ msg' = More(k) /\ UNCHANGED <<pc, n0, handed>>
      \/ /\ n + k = ToRecv /\ ~(Len(More(k).body) < BodyLen(msg.hdr))
         /\ Hand(More(k))
  BY DEF BodyRead, More
<1>4. /\ n \in Nat /\ k \in Nat /\ k > 0 /\ BufSize \in Nat /\ pos \in Nat /\ Len(stream) \in Nat
      /\ Used \in Nat /\ have \in 0..BufSize /\ curr \in 0..have /\ curr \in Nat
      /\ pos' \in Nat /\ pos' >= pos /\ pos' \in 0..Len(stream)
      /\ client \in 0..MaxClients /\ stream \in Seq(Char) /\ handed \in Seq(Message) /\ msg \in Message
      /\ \A i \in DOMAIN handed : WellCut(handed[i])
  BY <1>1, TypeFacts
<1>5. More(k).hdr = msg.hdr
  BY <1>4 DEF More, Message
\* The invariant holds when what was received so far is pending.
<1>6. ASSUME pc' = "body", n' \in 0..BufSize, n0' = 0, msg' \in Message, handed' = handed,
             HeaderCut(msg'), Len(msg'.body) < BodyLen(msg'.hdr), Pending' = Got(k)
      PROVE  RecvBufIInv'
  <2>1. RecvBufTypeOK'
    <3>1. n' \in 0..BufSize /\ n0' \in 0..n'
      BY <1>4, <1>6
    <3>2. /\ buf' \in Buffers /\ have' \in 0..BufSize /\ curr' \in 0..have'
          /\ client' \in 0..MaxClients /\ stream' \in Seq(Char) /\ pos' \in 0..Len(stream')
          /\ handed' \in Seq(Message)
      BY <1>1, <1>4, <1>6
    <3> QED BY <1>6, <3>1, <3>2 DEF RecvBufTypeOK, Buffers
  <2>2. CycleFits' /\ FreshIsZero' /\ NeverWaitsForReceived' /\ AnsweredClientLeavesNothing'
    BY <1>1, <1>6 DEF CycleFits, FreshIsZero, NeverWaitsForReceived, AnsweredClientLeavesNothing
  <2>3. ASSUME ~inherited
        PROVE  Ordered' /\ ReadAfter(Used, Pending)' /\ Used' + Len(Pending') = pos'
    <3>1. Used' = Used /\ Ordered'
      BY <1>1, <1>2, <1>4, <1>6, <2>3, OrderedKept
    <3>2. /\ Used' + Len(Pending') = pos' /\ Pending' \in Seq(Bytes)
          /\ \A j \in 1..Len(Pending') : Pending'[j] = ByteAt(Used' + j)
      BY <1>2, <1>6, <2>3, <3>1
    <3>3. ReadAfter(Used, Pending)'
      BY <1>1, <1>4, <3>1, <3>2, PendingIsRead
    <3> QED BY <3>1, <3>2, <3>3
  <2>4. RequestsCutExactly'
    <3>1. \A i \in DOMAIN handed' : WellCut(handed'[i])
      BY <1>4, <1>6
    <3> QED BY <1>1, <2>3, <3>1 DEF RequestsCutExactly, ReadInOrder, Ordered
  <2> QED BY <2>1, <2>2, <2>4 DEF RecvBufIInv
<1>7. CASE n + k < ToRecv /\ n' = n + k /\ UNCHANGED <<pc, n0, msg, handed>>
  <2>1. Pending' = Got(k)
    BY <1>1, <1>7 DEF Pending, Got, Whole
  <2>2. n' \in 0..BufSize
    BY <1>1, <1>4, <1>7
  <2> QED BY <1>1, <1>4, <1>6, <1>7, <2>1, <2>2
<1>8. CASE Closes("timeout") /\ UNCHANGED handed
  <2>1. /\ pc # "idle" /\ UNCHANGED <<client, stream, handed>> /\ inherited' = inherited
        /\ buf' \in Buffers /\ have' \in 0..BufSize /\ curr' \in 0..have' /\ have' = curr'
    BY <1>1, <1>4, <1>8
  <2> QED BY <1>1, <1>8, <2>1, ClosesRecvBufIInv
<1>9. CASE /\ n + k = ToRecv /\ Len(More(k).body) < BodyLen(msg.hdr)
           /\ n' = 0 /\ msg' = More(k) /\ UNCHANGED <<pc, n0, handed>>
  <2>1. Pending' = Got(k)
    <3>1. Slice(Filled(k), 0, 0) = <<>>
      BY DEF Slice
    <3>2. Whole(More(k)) \o <<>> = Whole(More(k))
      BY <1>2, <1>9, ConcatEmptySeq
    <3>3. Pending' = Whole(More(k)) \o Slice(Filled(k), 0, 0)
      BY <1>1, <1>9 DEF Pending, Whole
    <3> QED BY <1>2, <1>9, <3>1, <3>2, <3>3
  <2>2. n' \in 0..BufSize
    BY <1>4, <1>9
  <2> QED BY <1>1, <1>2, <1>5, <1>6, <1>9, <2>1, <2>2
<1>10. CASE /\ n + k = ToRecv /\ ~(Len(More(k).body) < BodyLen(msg.hdr))
            /\ Hand(More(k))
  <2>1. /\ handed' = Append(handed, More(k)) /\ msg' = More(k)
        /\ pc' = "reply" /\ n0' = 0 /\ n' = 0
    BY <1>10 DEF Hand
  <2>2. WellCut(More(k))
    <3>1. Len(More(k).body) \in Nat /\ BodyLen(msg.hdr) \in Nat
      BY <1>2, <1>10, WholeFacts, BodyLenNat
    <3>2. Len(More(k).body) = BodyLen(More(k).hdr)
      BY <1>2, <1>5, <1>10, <3>1
    <3> QED BY <1>2, <1>10, <3>2 DEF WellCut
  <2>3. /\ handed' \in Seq(Message) /\ handed' # <<>>
        /\ \A i \in DOMAIN handed' : WellCut(handed'[i])
        /\ Ordered /\ Used + Len(Whole(More(k))) <= pos'
           /\ (\A j \in 1..Len(Whole(More(k))) : Whole(More(k))[j] = ByteAt(Used + j)) =>
              Ordered' /\ Used' = Used + Len(Whole(More(k)))
    BY <1>1, <1>2, <1>4, <1>10, <2>1, <2>2, HandFacts
  <2>4. RecvBufTypeOK'
    <3>1. n' \in 0..BufSize /\ n0' \in 0..n'
      BY <1>4, <2>1
    <3>2. /\ buf' \in Buffers /\ have' \in 0..BufSize /\ curr' \in 0..have'
          /\ client' \in 0..MaxClients /\ stream' \in Seq(Char) /\ pos' \in 0..Len(stream')
          /\ handed' \in Seq(Message) /\ msg' \in Message
      BY <1>1, <1>2, <1>4, <1>10, <2>1, <2>3
    <3> QED BY <2>1, <3>1, <3>2 DEF RecvBufTypeOK, Buffers
  <2>5. CycleFits' /\ FreshIsZero' /\ NeverWaitsForReceived' /\ AnsweredClientLeavesNothing'
    BY <1>1, <2>1, <2>3 DEF CycleFits, FreshIsZero, NeverWaitsForReceived, AnsweredClientLeavesNothing
  <2>6. ASSUME ~inherited
        PROVE  Ordered' /\ ReadAfter(Used, Pending)' /\ Used' + Len(Pending') = pos'
    <3>1. Ordered' /\ Used' = Used + Len(Got(k)) /\ Used' = pos'
      BY <1>2, <1>4, <1>10, <2>3, <2>6
    <3>2. Pending' = <<>>
      <4>1. Pending' = Slice(buf', curr, curr)
        BY <1>1, <2>1 DEF Pending
      <4>2. curr - curr = 0
        BY <1>4
      <4> QED BY <4>1, <4>2 DEF Slice
    <3>3. Len(Pending') = 0 /\ Pending' \in Seq(Bytes)
      BY <3>2, EmptySeq
    <3>4. Used' + Len(Pending') = pos' /\ \A j \in 1..Len(Pending') : Pending'[j] = ByteAt(Used' + j)
      BY <1>4, <3>1, <3>3
    <3>5. ReadAfter(Used, Pending)'
      BY <1>1, <1>4, <3>1, <3>3, <3>4, PendingIsRead
    <3> QED BY <3>1, <3>4, <3>5
  <2>7. RequestsCutExactly'
    BY <1>1, <2>3, <2>6 DEF RequestsCutExactly, ReadInOrder, Ordered
  <2> QED BY <2>4, <2>5, <2>7 DEF RecvBufIInv
<1> QED
  BY <1>3, <1>7, <1>8, <1>9, <1>10

\* The connection ends while a request is received or answered.
LEMMA FailsRecvBufIInv == ASSUME RecvBufIInv, Fails \/ BodyEof PROVE RecvBufIInv'
<1>1. /\ pc \in {"header", "body", "reply"} /\ \E reason : Closes(reason)
      /\ UNCHANGED <<buf, have, curr, client, stream, pos, inherited, handed>>
  BY DEF Fails, BodyEof, fields, peer
<1>2. /\ have \in 0..BufSize /\ curr \in 0..have /\ have \in Nat /\ curr \in Nat /\ buf \in Buffers
      /\ n \in Nat /\ n0 \in 0..n /\ Used \in Nat /\ pos \in Nat /\ pos \in pos..Len(stream)
  BY TypeFacts
<1>3. ASSUME ~inherited, Used = pos PROVE have = curr
  <2>1. CASE pc = "header"
    <3>1. Used + n = pos /\ n0 = have - curr
      BY <1>3, <2>1, PendingHeader DEF RecvBufIInv, CycleFits
    <3> QED BY <1>2, <1>3, <3>1
  <2>2. CASE pc = "body"
    BY <2>2 DEF RecvBufIInv, CycleFits
  <2>3. CASE pc = "reply"
    <3>1. Used + (have - curr) = pos
      BY <1>3, <2>3, PendingBuffered
    <3> QED BY <1>2, <1>3, <3>1
  <2> QED BY <1>1, <2>1, <2>2, <2>3
<1>4. PICK reason : Closes(reason)
  BY <1>1
<1> QED
  BY <1>1, <1>2, <1>3, <1>4, ClosesRecvBufIInv

\* A request is answered, and the connection kept or closed.
LEMMA ReplyRecvBufIInv == ASSUME RecvBufIInv, Reply PROVE RecvBufIInv'
<1>1. /\ pc = "reply" /\ UNCHANGED <<buf, have, curr, client, stream, pos, inherited, handed>>
      /\ \/ pc' = "request" /\ msg' = NoMsg /\ UNCHANGED <<n0, n>>
         \/ Closes("answered")
  BY DEF Reply, fields, peer
<1>2. /\ have \in 0..BufSize /\ curr \in 0..have /\ have \in Nat /\ curr \in Nat /\ buf \in Buffers
      /\ Used \in Nat /\ pos \in Nat /\ pos \in pos..Len(stream)
  BY TypeFacts
<1>3. CASE pc' = "request" /\ msg' = NoMsg /\ UNCHANGED <<n0, n>>
  <2>1. RecvBufTypeOK'
    <3>1. NoMsg \in Message
      <4>1. <<>> \in Seq(Bytes)
        BY EmptySeq
      <4> QED BY <4>1 DEF NoMsg, Message
    <3> QED BY <1>1, <1>3, <3>1 DEF RecvBufIInv, RecvBufTypeOK
  <2>2. CycleFits' /\ FreshIsZero' /\ NeverWaitsForReceived' /\ AnsweredClientLeavesNothing'
    BY <1>1, <1>3 DEF RecvBufIInv, CycleFits, FreshIsZero, NeverWaitsForReceived,
                      AnsweredClientLeavesNothing
  <2>3. RequestsCutExactly'
    <3>1. Pending' = Pending /\ Used' = Used /\ \A i : UsedBefore(i)' = UsedBefore(i)
      BY <1>1, <1>3 DEF Pending, Used, UsedBefore
    <3>3. ASSUME ~inherited
          PROVE  Ordered' /\ ReadAfter(Used, Pending)' /\ Used' + Len(Pending') = pos'
      <4>1. Ordered /\ ReadAfter(Used, Pending) /\ Used + Len(Pending) = pos
        BY <1>1, <3>3 DEF RecvBufIInv, RequestsCutExactly, ReadInOrder, Ordered
      <4>2. Ordered'
        BY <1>1, <1>2, <4>1, OrderedKept
      <4>3. ReadAfter(Used, Pending)'
        BY <1>1, <3>1, <4>1 DEF ReadAfter, Sent, ByteAt
      <4> QED BY <1>1, <3>1, <4>1, <4>2, <4>3
    <3>4. \A i \in DOMAIN handed' : WellCut(handed'[i])
      BY <1>1, TypeFacts
    <3> QED BY <1>1, <3>3, <3>4 DEF RequestsCutExactly, ReadInOrder, Ordered
  <2> QED BY <2>1, <2>2, <2>3 DEF RecvBufIInv
<1>4. CASE Closes("answered")
  <2>1. ~inherited /\ Used = pos => have = curr
    <3>1. ~inherited => Used + (have - curr) = pos
      BY <1>1, PendingBuffered
    <3> QED BY <1>2, <3>1
  <2> QED BY <1>1, <1>2, <1>4, <2>1, ClosesRecvBufIInv
<1> QED
  BY <1>1, <1>3, <1>4

LEMMA NextRecvBufIInv == RecvBufIInv /\ [Next]_vars => RecvBufIInv'
<1> SUFFICES ASSUME RecvBufIInv, [Next]_vars PROVE RecvBufIInv'
  OBVIOUS
<1>1. CASE Accept
  BY <1>1, AcceptRecvBufIInv
<1>2. CASE NextHdrBuffered
  BY <1>2, NextHdrBufferedRecvBufIInv
<1>3. CASE RecvHdr
  BY <1>3, RecvHdrRecvBufIInv
<1>4. CASE HdrEof
  BY <1>4, HdrEofRecvBufIInv
<1>5. CASE Fails \/ BodyEof
  BY <1>5, FailsRecvBufIInv
<1>6. CASE Reply
  BY <1>6, ReplyRecvBufIInv
<1>7. ASSUME NEW k \in 1..BufSize, HdrRead(k) PROVE RecvBufIInv'
  BY <1>7, HdrReadRecvBufIInv
<1>8. ASSUME NEW k \in 1..BufSize, BodyRead(k) PROVE RecvBufIInv'
  BY <1>8, BodyReadRecvBufIInv
<1>9. CASE UNCHANGED vars
  <2>1. /\ pc' = pc /\ inherited' = inherited /\ pos' = pos
        /\ UNCHANGED <<buf, have, curr, n0, n, msg, client, stream, handed>>
    BY <1>9 DEF vars
  <2>2. Pending' = Pending /\ Used' = Used /\ \A i : UsedBefore(i)' = UsedBefore(i)
    BY <2>1 DEF Pending, Used, UsedBefore, Whole
  <2>3. Ordered' <=> Ordered
    BY <2>1, <2>2 DEF Ordered, ReadAfter, Sent, ByteAt
  <2>4. ReadAfter(Used, Pending)' <=> ReadAfter(Used, Pending)
    BY <2>1, <2>2 DEF ReadAfter, Sent, ByteAt
  <2>5. RequestsCutExactly'
    BY <2>1, <2>2, <2>3, <2>4 DEF RecvBufIInv, RequestsCutExactly, ReadInOrder, Ordered
  <2>6. RecvBufTypeOK' /\ CycleFits' /\ FreshIsZero' /\ NeverWaitsForReceived'
    BY <2>1 DEF RecvBufIInv, RecvBufTypeOK, CycleFits, FreshIsZero, NeverWaitsForReceived
  <2>7. AnsweredClientLeavesNothing'
    BY <2>1, <2>2 DEF RecvBufIInv, AnsweredClientLeavesNothing
  <2> QED BY <2>5, <2>6, <2>7 DEF RecvBufIInv
<1> QED
  BY <1>1, <1>2, <1>3, <1>4, <1>5, <1>6, <1>7, <1>8, <1>9 DEF Next

-----------------------------------------------------------------------------
(***************************************************************************)
(* The theorems.                                                           *)
(***************************************************************************)

\* The inductive invariant holds of every state.
THEOREM RecvBufInvariance == Spec => []RecvBufIInv
<1>1. Init => RecvBufIInv
  BY InitRecvBufIInv
<1>2. RecvBufIInv /\ [Next]_vars => RecvBufIInv'
  BY NextRecvBufIInv
<1> QED
  BY <1>1, <1>2, PTL DEF Spec

\* The buffer is never overrun, and 0 <= recv_buf_curr <= recv_buf_have <= its size.
THEOREM BufferBounds == Spec => []RecvBufTypeOK
<1>1. RecvBufIInv => RecvBufTypeOK
  BY DEF RecvBufIInv
<1> QED
  BY <1>1, RecvBufInvariance, PTL

\* recv_http_hdr() and recv_http_msg() cut the stream of a client into its
\* requests, however it arrives: no byte is lost, repeated or reordered.
THEOREM StreamCutExactly == Spec => []RequestsCutExactly
<1>1. RecvBufIInv => RequestsCutExactly
  BY DEF RecvBufIInv
<1> QED
  BY <1>1, RecvBufInvariance, PTL

\* is_http_message_end() misses no terminator, and reads the guard page only
\* when the buffer is full, but for one byte, without one.
THEOREM HeaderFoundAtOnce == Spec => []NeverWaitsForReceived
<1>1. RecvBufIInv => NeverWaitsForReceived
  BY DEF RecvBufIInv
<1> QED
  BY <1>1, RecvBufInvariance, PTL

\* A client that was answered leaves nothing in the buffer to the next one.
THEOREM CleanHandover == Spec => []AnsweredClientLeavesNothing
<1>1. RecvBufIInv => AnsweredClientLeavesNothing
  BY DEF RecvBufIInv
<1> QED
  BY <1>1, RecvBufInvariance, PTL

\* recv_http_hdr() gives up without an answer, and why it may.
GivesUp == why' = "no header" /\ pc # "idle" /\ pc' = "idle"
Reason  == \/ n = 0 /\ have - curr = BufSize
           \/ pos' - pos + n = BufSize
           \/ inherited
           \/ handed # <<>> \/ client > 1

LEMMA NoHeaderStep == ASSUME RecvBufIInv, Next, GivesUp PROVE Reason
<1>1. ~Accept /\ ~NextHdrBuffered /\ ~HdrEof /\ ~BodyEof /\ ~Fails /\ ~Reply
  <2>1. ~Accept
    BY DEF GivesUp, Accept
  <2>2. ~NextHdrBuffered
    BY DEF GivesUp, NextHdrBuffered, Received, Hand
  <2>3. ~HdrEof
    BY DEF GivesUp, HdrEof, HdrReturns, Received, Hand, Closes
  <2>4. ~BodyEof /\ ~Fails /\ ~Reply
    BY DEF GivesUp, BodyEof, Fails, Reply, Closes
  <2> QED BY <2>1, <2>2, <2>3, <2>4
<1>2. ASSUME NEW k \in 1..BufSize, BodyRead(k) PROVE FALSE
  BY <1>2 DEF GivesUp, BodyRead, Closes, Hand
<1>3. CASE RecvHdr
  <2>1. pc = "request" /\ ~(have - curr < BufSize)
    BY <1>3 DEF GivesUp, RecvHdr
  <2>2. n = 0
    BY <2>1 DEF RecvBufIInv, CycleFits
  <2>3. have - curr = BufSize
    BY <2>1, TypeFacts
  <2> QED BY <2>2, <2>3 DEF Reason
<1>4. ASSUME NEW k \in 1..BufSize, HdrRead(k), n + k # BufSize,
             ~inherited, handed = <<>>, ~(client > 1)
      PROVE  FALSE
  <2>1. /\ pc = "header" /\ n + k \in n + 1..BufSize /\ Filled(k) \in Buffers
        /\ \A p \in 0..n - 4 : ~Match(Filled(k), p)
        /\ \A p \in n + k..BufSize - 1 : Filled(k)[p] = buf[p]
    BY <1>4, HdrReadFacts
  <2>2. IsHttpMessageEnd(Filled(k), n, n + k) /\ HdrReturns(Filled(k), n + k, "no header")
    BY <1>4, <2>1 DEF GivesUp, HdrRead
  <2>3. FindHeadersEnd(Slice(Filled(k), 0, n + k)) = 0
    <3>1. ~(FindHeadersEnd(Slice(Filled(k), 0, n + k)) > 0)
      BY <2>2 DEF GivesUp, HdrReturns, Received, Hand
    <3>2. n + k \in 0..BufSize /\ 0 \in 0..n + k
      BY <2>1, TypeFacts
    <3>3. \/ FindHeadersEnd(Slice(Filled(k), 0, n + k)) = 0
          \/ FindHeadersEnd(Slice(Filled(k), 0, n + k)) \in 4..((n + k) - 0)
      BY <2>1, <3>2, EndFacts
    <3> QED BY <3>1, <3>3
  <2>4. n \in 0..BufSize /\ n \in Nat /\ BufSize \in Nat /\ client \in Nat
    BY Bounds, TypeFacts
  <2>5. PICK p \in n + k - 3..BufSize - 4 : Match(Filled(k), p)
    <3>1. IsHttpMessageEnd(Filled(k), n, n + k)
      BY <2>2
    <3> QED BY <2>1, <2>3, <2>4, <3>1, ChunkEnd
  <2>6. p + 3 \in n + k..BufSize - 1 /\ p + 3 \in n..BufSize - 1
    BY <2>4
  <2>7. Filled(k)[p + 3] = NulByte
    <3>1. \A q \in n..BufSize - 1 : buf[q] = NulByte
      BY <1>4, <2>1, <2>4 DEF RecvBufIInv, FreshIsZero
    <3> QED BY <2>1, <2>6, <3>1
  <2>8. Filled(k)[p + 3].c = "n"
    BY <2>5 DEF Match, TermSeq
  <2> QED BY <2>7, <2>8 DEF NulByte
<1>5. ASSUME NEW k \in 1..BufSize, HdrRead(k), n + k = BufSize
      PROVE  pos' - pos + n = BufSize
  BY <1>5, HdrReadFacts, TypeFacts
<1> QED
  BY <1>1, <1>2, <1>3, <1>4, <1>5 DEF Next, Reason

\* recv_http_hdr() gives up only when a header does not fit the buffer, or the
\* buffer held bytes of a former request or client.
THEOREM HeaderGivenUpForAReason == Spec => NoHeaderOnlyForAReason
<1>1. RecvBufIInv /\ [Next]_vars => [GivesUp => Reason]_vars
  BY NoHeaderStep
<1>2. [GivesUp => Reason]_vars =>
        [why' = "no header" /\ pc # "idle" /\ pc' = "idle" =>
           \/ n = 0 /\ have - curr = BufSize
           \/ pos' - pos + n = BufSize
           \/ inherited
           \/ handed # <<>> \/ client > 1]_vars
  BY DEF GivesUp, Reason
<1> QED
  BY <1>1, <1>2, RecvBufInvariance, PTL DEF Spec, NoHeaderOnlyForAReason

-----------------------------------------------------------------------------
(***************************************************************************)
(* HttpMsg: the loop over the lines of a header.                           *)
(***************************************************************************)

\* The state of parsing before each of the first upto lines.
Rounds(h, g, upto) ==
    g = [k \in 0..upto |-> IF k = 0 THEN [Request(NONE, h.method) EXCEPT !.target = h.target,
                                                                     !.version = h.version]
                        ELSE ParseField(g[k - 1], h.fields[k])]

\* The loop has a result after any number of rounds.
LEMMA LoopTerminates ==
    ASSUME NEW h, NEW upto \in Nat
    PROVE  \E g : Rounds(h, g, upto)
<1> DEFINE Bad == {m \in Nat : ~\E g : Rounds(h, g, m)}
<1> SUFFICES Bad = {}
  OBVIOUS
<1> SUFFICES ASSUME Bad # {} PROVE FALSE
  OBVIOUS
<1>1. PICK m \in Bad : \A k \in Bad : m <= k
  BY LeastExists, Bad \in SUBSET Nat
<1>2. CASE m = 0
  <2> DEFINE g == [k \in 0..m |-> [Request(NONE, h.method) EXCEPT !.target = h.target,
                                                                   !.version = h.version]]
  <2>1. Rounds(h, g, m)
    BY <1>2 DEF Rounds
  <2> QED BY <1>1, <2>1
<1>3. CASE m # 0
  <2>1. m - 1 \in Nat /\ m - 1 \notin Bad
    BY <1>1, <1>3
  <2>2. PICK g : Rounds(h, g, m - 1)
    BY <2>1
  <2> DEFINE s == [Request(NONE, h.method) EXCEPT !.target = h.target, !.version = h.version]
             f == [k \in 0..m |-> IF k = m THEN ParseField(g[m - 1], h.fields[m]) ELSE g[k]]
  <2> HIDE DEF s
  <2>3. g = [k \in 0..m - 1 |-> IF k = 0 THEN s ELSE ParseField(g[k - 1], h.fields[k])]
    BY <2>2 DEF Rounds, s
  <2>4. ASSUME NEW k \in 0..m
        PROVE  f[k] = IF k = 0 THEN s ELSE ParseField(f[k - 1], h.fields[k])
    <3>1. CASE k = m
      BY <3>1, <1>3, <1>1, f[k - 1] = g[m - 1]
    <3>2. CASE k # m /\ k = 0
      BY <3>2, <2>3, <2>1
    <3>3. CASE k # m /\ k # 0
      <4>1. k \in 0..m - 1 /\ f[k] = g[k] /\ f[k - 1] = g[k - 1]
        BY <3>3, <1>1
      <4>2. g[k] = ParseField(g[k - 1], h.fields[k])
        BY <3>3, <2>3, <4>1
      <4> QED BY <4>1, <4>2, <3>3
    <3> QED BY <3>1, <3>2, <3>3
  <2>5. f = [k \in 0..m |-> IF k = 0 THEN s ELSE ParseField(f[k - 1], h.fields[k])]
    BY <2>4
  <2>6. Rounds(h, f, m)
    BY <2>5 DEF Rounds, s
  <2> QED BY <1>1, <2>6
<1> QED
  BY <1>2, <1>3

LEMMA LoopSteps ==
    ASSUME NEW h, Len(h.fields) \in Nat
    PROVE  /\ FieldsParsed(h)[0] = [error |-> NONE, method |-> h.method, target |-> h.target,
                                    version |-> h.version, headers |-> <<>>]
           /\ \A k \in 1..Len(h.fields) :
                 FieldsParsed(h)[k] = ParseField(FieldsParsed(h)[k - 1], h.fields[k])
<1> DEFINE p == FieldsParsed(h)
<1>1. p = CHOOSE g : Rounds(h, g, Len(h.fields))
  BY Zenon DEF FieldsParsed, Rounds
<1>2. Rounds(h, p, Len(h.fields))
  BY <1>1, LoopTerminates, Zenon
<1> HIDE DEF p
<1>3. p[0] = [Request(NONE, h.method) EXCEPT !.target = h.target, !.version = h.version]
  BY <1>2 DEF Rounds
<1>4. p[0] = [error |-> NONE, method |-> h.method, target |-> h.target,
              version |-> h.version, headers |-> <<>>]
  BY <1>3 DEF Request
<1>5. \A k \in 1..Len(h.fields) : p[k] = ParseField(p[k - 1], h.fields[k])
  BY <1>2 DEF Rounds
<1> QED
  BY <1>4, <1>5 DEF p

-----------------------------------------------------------------------------
\* The record of a message.
IsMsg(p) == p = [error |-> p.error, method |-> p.method, target |-> p.target,
                 version |-> p.version, headers |-> p.headers]

LEMMA LengthBounds == MaxBody \in Nat /\ SizeTMax \in Nat /\ MaxBody <= SizeTMax
  BY HttpBounds, Zenon

LEMMA OverLimit ==
    ASSUME NEW num \in Int
    PROVE  IsSizeT(num) => (num \in MaxBody + 1..SizeTMax <=> num > MaxBody)
  BY LengthBounds DEF IsSizeT

\* Why a field ends the loop, if it does, and what is stored of it if not.
FieldDefects(h, k) ==
    LET f == h.fields[k]
    IN  IF ~f.colon THEN {BAD_REQUEST}
        ELSE IF ToLower(f.name) # "content-length" THEN {}
        ELSE IF ~MethodHasBody(h.method) \/ ~IsSizeT(f.num) THEN {BAD_REQUEST}
        ELSE IF f.num > MaxBody THEN {PAYLOAD_TOO_LARGE} ELSE {}
Stored(f) == IF ToLower(f.name) = "content-length"
             THEN [type |-> "size_t", num |-> f.num, opts |-> {}]
             ELSE [type |-> "string", num |-> f.num, opts |-> f.opts]

\* A field is stored under its name in lower case.
LEMMA AddHeaderFacts ==
    ASSUME NEW p, IsMsg(p), NEW name, NEW value
    PROVE  LET q == AddHeader(p, name, value)
           IN  /\ IsMsg(q) /\ q.error = p.error /\ q.method = p.method
               /\ q.target = p.target /\ q.version = p.version
               /\ DOMAIN q.headers = DOMAIN p.headers \cup {ToLower(name)}
               /\ q.headers[ToLower(name)] = value
               /\ \A x \in DOMAIN p.headers : x # ToLower(name) => q.headers[x] = p.headers[x]
<1> DEFINE q == AddHeader(p, name, value)
           hd == [x \in DOMAIN p.headers \cup {ToLower(name)} |->
                    IF x = ToLower(name) THEN value ELSE p.headers[x]]
<1>1. hd = [x \in DOMAIN p.headers \cup {ToLower(name)} |->
               IF x = ToLower(name) THEN value ELSE p.headers[x]]
  OBVIOUS
<1> HIDE DEF hd
<1>2. q = [error |-> p.error, method |-> p.method, target |-> p.target,
           version |-> p.version, headers |-> hd]
  BY DEF AddHeader, IsMsg, hd
<1>3. /\ IsMsg(q) /\ q.error = p.error /\ q.method = p.method
      /\ q.target = p.target /\ q.version = p.version /\ q.headers = hd
  BY <1>2 DEF IsMsg
<1> HIDE DEF q
<1>4. /\ DOMAIN hd = DOMAIN p.headers \cup {ToLower(name)}
      /\ hd[ToLower(name)] = value
      /\ \A x \in DOMAIN p.headers : x # ToLower(name) => hd[x] = p.headers[x]
  BY <1>1
<1>5. /\ DOMAIN q.headers = DOMAIN p.headers \cup {ToLower(name)}
      /\ q.headers[ToLower(name)] = value
      /\ \A x \in DOMAIN p.headers : x # ToLower(name) => q.headers[x] = p.headers[x]
  BY <1>3, <1>4
<1> QED
  BY <1>3, <1>5 DEF q

\* One round either stores its field or fails for a reason.
LEMMA ParseFieldFacts ==
    ASSUME NEW p, IsMsg(p), NEW h, p.method = h.method, NEW k, h.fields[k] \in Fields,
           MaxBody \in Nat
    PROVE  LET f == h.fields[k]
               q == ParseField(p, f)
           IN  /\ p.error # NONE => q = p
               /\ p.error = NONE /\ FieldDefects(h, k) = {} =>
                    q = AddHeader(p, f.name, Stored(f))
               /\ p.error = NONE /\ FieldDefects(h, k) # {} =>
                    \E e \in FieldDefects(h, k) : q = Fail(p, e)
<1> DEFINE f == h.fields[k]
           q == ParseField(p, f)
           d == FieldDefects(h, k)
<1>1. f.num \in Int
  BY DEF Fields
<1>2. CASE p.error # NONE
  BY <1>2 DEF ParseField
<1>3. CASE p.error = NONE /\ ~f.colon
  <2>1. q = Fail(p, BAD_REQUEST)
    BY <1>3 DEF ParseField
  <2>2. d = {BAD_REQUEST}
    BY <1>3 DEF FieldDefects
  <2> QED BY <1>3, <2>1, <2>2
<1>4. CASE p.error = NONE /\ f.colon /\ ToLower(f.name) # "content-length"
  <2>1. q = AddHeader(p, f.name, Stored(f))
    BY <1>4 DEF ParseField, Stored
  <2>2. d = {}
    BY <1>4 DEF FieldDefects
  <2> QED BY <1>4, <2>1, <2>2
<1>5. CASE p.error = NONE /\ f.colon /\ ToLower(f.name) = "content-length"
  <2>1. CASE ~MethodHasBody(h.method) \/ ~IsSizeT(f.num)
    <3>1. q = Fail(p, BAD_REQUEST)
      BY <1>5, <2>1 DEF ParseField
    <3>2. d = {BAD_REQUEST}
      BY <1>5, <2>1 DEF FieldDefects
    <3> QED BY <1>5, <3>1, <3>2
  <2>2. CASE ~(~MethodHasBody(h.method) \/ ~IsSizeT(f.num)) /\ f.num > MaxBody
    <3>1. q = Fail(p, PAYLOAD_TOO_LARGE)
      BY <1>5, <2>2 DEF ParseField
    <3>2. d = {PAYLOAD_TOO_LARGE}
      BY <1>5, <2>2 DEF FieldDefects
    <3> QED BY <1>5, <3>1, <3>2
  <2>3. CASE ~(~MethodHasBody(h.method) \/ ~IsSizeT(f.num)) /\ ~(f.num > MaxBody)
    <3>1. q = AddHeader(p, f.name, Stored(f))
      BY <1>5, <2>3 DEF ParseField, Stored
    <3>2. d = {}
      BY <1>5, <2>3 DEF FieldDefects
    <3> QED BY <1>5, <3>1, <3>2
  <2> QED BY <2>1, <2>2, <2>3
<1> QED
  BY <1>2, <1>3, <1>4, <1>5

\* The k-th field is the last of its name among the first upto.
LastOfName(h, k, upto) ==
    \A j \in k + 1..upto : ToLower(h.fields[j].name) # ToLower(h.fields[k].name)

\* What the message is after upto rounds.
ParsedWell(h, p, upto) ==
    /\ IsMsg(p)
    /\ p.method = h.method /\ p.target = h.target /\ p.version = h.version
    /\ p.error = NONE <=> \A k \in 1..upto : FieldDefects(h, k) = {}
    /\ p.error # NONE => \E k \in 1..upto : p.error \in FieldDefects(h, k)
    /\ p.error = NONE =>
         /\ DOMAIN p.headers = {ToLower(h.fields[k].name) : k \in 1..upto}
         /\ \A k \in 1..upto : LastOfName(h, k, upto) =>
               p.headers[ToLower(h.fields[k].name)] = Stored(h.fields[k])

LEMMA DefectsAreErrors ==
    ASSUME NEW h, NEW k
    PROVE  NONE \notin FieldDefects(h, k)
  BY DEF FieldDefects, NONE, BAD_REQUEST, PAYLOAD_TOO_LARGE

LEMMA FailFacts ==
    ASSUME NEW p, IsMsg(p), NEW e
    PROVE  LET q == Fail(p, e)
           IN  /\ IsMsg(q) /\ q.error = e /\ q.method = p.method
               /\ q.target = p.target /\ q.version = p.version
<1> DEFINE q == Fail(p, e)
<1>1. q = [error |-> e, method |-> p.method, target |-> p.target,
           version |-> p.version, headers |-> p.headers]
  BY DEF Fail, IsMsg
<1> QED
  BY <1>1 DEF IsMsg

\* A round keeps what is said of the message.
LEMMA RoundKeeps ==
    ASSUME NEW h, NEW upto \in Nat \ {0}, NEW p, ParsedWell(h, p, upto - 1),
           h.fields[upto] \in Fields, MaxBody \in Nat
    PROVE  ParsedWell(h, ParseField(p, h.fields[upto]), upto)
<1> DEFINE f == h.fields[upto]
           q == ParseField(p, f)
           name == ToLower(f.name)
<1> SUFFICES ParsedWell(h, q, upto)
  OBVIOUS
<1>1. /\ IsMsg(p)
      /\ p.method = h.method /\ p.target = h.target /\ p.version = h.version
      /\ p.error = NONE <=> \A k \in 1..upto - 1 : FieldDefects(h, k) = {}
      /\ p.error # NONE => \E k \in 1..upto - 1 : p.error \in FieldDefects(h, k)
      /\ p.error = NONE =>
           /\ DOMAIN p.headers = {ToLower(h.fields[k].name) : k \in 1..upto - 1}
           /\ \A k \in 1..upto - 1 : LastOfName(h, k, upto - 1) =>
                 p.headers[ToLower(h.fields[k].name)] = Stored(h.fields[k])
  BY DEF ParsedWell
<1>2. 1..upto = 1..upto - 1 \cup {upto} /\ upto \notin 1..upto - 1
  OBVIOUS
<1>3. CASE p.error # NONE
  <2>1. q = p
    BY <1>1, <1>3, ParseFieldFacts
  <2>2. PICK k \in 1..upto - 1 : p.error \in FieldDefects(h, k)
    BY <1>1, <1>3
  <2>3. k \in 1..upto /\ FieldDefects(h, k) # {}
    BY <1>2, <2>2
  <2> QED BY <1>1, <1>3, <2>1, <2>2, <2>3 DEF ParsedWell
<1>4. CASE p.error = NONE /\ FieldDefects(h, upto) # {}
  <2>1. PICK e \in FieldDefects(h, upto) : q = Fail(p, e)
    BY <1>1, <1>4, ParseFieldFacts
  <2>2. e # NONE /\ upto \in 1..upto
    BY <2>1, DefectsAreErrors
  <2>3. /\ IsMsg(q) /\ q.error = e /\ q.method = p.method
        /\ q.target = p.target /\ q.version = p.version
    BY <1>1, <2>1, FailFacts
  <2> HIDE DEF q
  <2> QED BY <1>1, <1>4, <2>1, <2>2, <2>3 DEF ParsedWell
<1>5. CASE p.error = NONE /\ FieldDefects(h, upto) = {}
  <2>1. q = AddHeader(p, f.name, Stored(f))
    BY <1>1, <1>5, ParseFieldFacts
  <2>2. /\ IsMsg(q) /\ q.error = p.error /\ q.method = p.method
        /\ q.target = p.target /\ q.version = p.version
        /\ DOMAIN q.headers = DOMAIN p.headers \cup {name}
        /\ q.headers[name] = Stored(f)
        /\ \A x \in DOMAIN p.headers : x # name => q.headers[x] = p.headers[x]
    BY <1>1, <2>1, AddHeaderFacts
  <2> HIDE DEF q
  <2>3. \A k \in 1..upto : FieldDefects(h, k) = {}
    BY <1>1, <1>2, <1>5
  <2>4. DOMAIN q.headers = {ToLower(h.fields[k].name) : k \in 1..upto}
    <3>1. DOMAIN p.headers = {ToLower(h.fields[k].name) : k \in 1..upto - 1}
      BY <1>1, <1>5
    <3> QED BY <1>2, <2>2, <3>1
  <2>5. ASSUME NEW k \in 1..upto, LastOfName(h, k, upto)
        PROVE  q.headers[ToLower(h.fields[k].name)] = Stored(h.fields[k])
    <3>1. CASE k = upto
      BY <2>2, <3>1
    <3>2. CASE k # upto
      <4>1. k \in 1..upto - 1 /\ upto \in k + 1..upto
        BY <3>2
      <4>2. ToLower(h.fields[k].name) # name
        BY <2>5, <4>1 DEF LastOfName
      <4>3. LastOfName(h, k, upto - 1)
        <5>1. \A j \in k + 1..upto - 1 : j \in k + 1..upto
          OBVIOUS
        <5> QED BY <2>5, <5>1 DEF LastOfName
      <4>4. ToLower(h.fields[k].name) \in DOMAIN p.headers
        BY <1>1, <1>5, <4>1
      <4>5. p.headers[ToLower(h.fields[k].name)] = Stored(h.fields[k])
        BY <1>1, <1>5, <4>1, <4>3
      <4> QED BY <2>2, <4>2, <4>4, <4>5
    <3> QED BY <3>1, <3>2
  <2> QED BY <1>1, <1>5, <2>2, <2>3, <2>4, <2>5 DEF ParsedWell
<1> QED
  BY <1>3, <1>4, <1>5

\* The loop over all fields, by induction on its rounds.
LEMMA LoopFacts ==
    ASSUME NEW h, h.fields \in Seq(Fields), MaxBody \in Nat
    PROVE  ParsedWell(h, FieldsParsed(h)[Len(h.fields)], Len(h.fields))
<1> DEFINE L == Len(h.fields)
           p == FieldsParsed(h)
           Bad == {upto \in 0..L : ~ParsedWell(h, p[upto], upto)}
<1>1. L \in Nat /\ \A k \in 1..L : h.fields[k] \in Fields
  OBVIOUS
<1>2. /\ p[0] = [error |-> NONE, method |-> h.method, target |-> h.target,
                 version |-> h.version, headers |-> <<>>]
      /\ \A k \in 1..L : p[k] = ParseField(p[k - 1], h.fields[k])
  BY <1>1, LoopSteps
<1> HIDE DEF p, L
<1>3. ParsedWell(h, p[0], 0)
  <2>1. p[0].headers = <<>> /\ DOMAIN p[0].headers = {}
    BY <1>2
  <2>2. {ToLower(h.fields[k].name) : k \in 1..0} = {}
    OBVIOUS
  <2> QED BY <1>2, <2>1, <2>2 DEF ParsedWell, IsMsg
<1>4. Bad = {}
  <2> SUFFICES ASSUME Bad # {} PROVE FALSE
    OBVIOUS
  <2>1. Bad \in SUBSET Nat
    BY <1>1
  <2>2. PICK m \in Bad : \A upto \in Bad : m <= upto
    BY <2>1, LeastExists
  <2>3. m # 0
    BY <1>3, <2>2
  <2>4. m \in 1..L /\ m - 1 \in 0..L /\ m - 1 \notin Bad
    BY <1>1, <2>2, <2>3
  <2>5. ParsedWell(h, p[m - 1], m - 1)
    BY <2>4
  <2>6. ParsedWell(h, ParseField(p[m - 1], h.fields[m]), m)
    BY <1>1, <2>4, <2>5, RoundKeeps
  <2> QED BY <1>2, <2>2, <2>4, <2>6
<1>5. ParsedWell(h, p[L], L)
  BY <1>1, <1>4
<1> QED
  BY <1>5 DEF p, L

-----------------------------------------------------------------------------
LEMMA FieldSeq ==
    ASSUME NEW s, s \in Seq(Fields)
    PROVE  /\ Len(s) \in Nat /\ DOMAIN s = 1..Len(s)
           /\ \A k \in 1..Len(s) : s[k] \in Fields /\ s[k].num \in Int
<1>1. /\ Len(s) \in Nat /\ DOMAIN s = 1..Len(s)
      /\ \A k \in 1..Len(s) : s[k] \in Fields
  OBVIOUS
<1>2. \A f \in Fields : f.num \in Int
  BY DEF Fields
<1> QED
  BY <1>1, <1>2

\* Every method that is stored in the table is there with its flag.
LEMMA MethodFacts ==
    ASSUME NEW m
    PROVE  /\ "" \notin DOMAIN MethodsInfo
           /\ m \in DOMAIN MethodsInfo => MethodsInfo[m] \in BOOLEAN
           /\ MethodHasBody(m) <=> m \in DOMAIN MethodsInfo /\ MethodsInfo[m] = TRUE
           /\ {"GET", "HEAD"} \subseteq DOMAIN MethodsInfo
           /\ ~MethodHasBody("GET") /\ ~MethodHasBody("HEAD")
<1>1. DOMAIN MethodsInfo = {"GET", "HEAD", "POST", "PUT", "DELETE", "PATCH"}
  BY DEF MethodsInfo
<1>2. /\ MethodsInfo["GET"] = FALSE /\ MethodsInfo["HEAD"] = FALSE
      /\ MethodsInfo["POST"] = TRUE /\ MethodsInfo["PUT"] = TRUE
      /\ MethodsInfo["DELETE"] = FALSE /\ MethodsInfo["PATCH"] = TRUE
  BY DEF MethodsInfo
<1>3. m \in DOMAIN MethodsInfo => MethodsInfo[m] \in BOOLEAN
  BY <1>1, <1>2
<1>4. "" \notin DOMAIN MethodsInfo
  BY <1>1
<1> QED
  BY <1>1, <1>2, <1>3, <1>4 DEF MethodHasBody

\* Defects() of a header whose request line is well formed is what the rounds
\* of the loop find, and the length that is missing.
LEMMA DefectsFound ==
    ASSUME NEW h, ~h.large, h.line = "three parts", h.method \in DOMAIN MethodsInfo,
           h.fields \in Seq(Fields), MaxBody \in Nat
    PROVE  /\ \A k \in 1..Len(h.fields) : FieldDefects(h, k) \subseteq Defects(h)
           /\ Defects(h) = {} <=>
                /\ \A k \in 1..Len(h.fields) : FieldDefects(h, k) = {}
                /\ MethodHasBody(h.method) => Lengths(h) # {}
           /\ MethodHasBody(h.method) /\ Lengths(h) = {} => LENGTH_REQUIRED \in Defects(h)
<1> DEFINE L == Len(h.fields)
           B == {k \in DOMAIN h.fields :
                   \/ ~h.fields[k].colon
                   \/ k \in Lengths(h) /\ (~MethodsInfo[h.method] \/ h.fields[k].num \notin 0..SizeTMax)}
           T == {k \in Lengths(h) : MethodsInfo[h.method] /\ h.fields[k].num \in MaxBody + 1..SizeTMax}
           R == IF MethodsInfo[h.method] /\ Lengths(h) = {} THEN {LENGTH_REQUIRED} ELSE {}
<1>1. Defects(h) = {BAD_REQUEST : k \in B} \cup {PAYLOAD_TOO_LARGE : k \in T} \cup R
  BY DEF Defects
<1>2. /\ DOMAIN h.fields = 1..L /\ \A k \in 1..L : h.fields[k].num \in Int
      /\ SizeTMax \in Nat
  BY FieldSeq, LengthBounds
<1>3. MethodHasBody(h.method) <=> MethodsInfo[h.method]
  BY MethodFacts
<1>4. \A k \in 1..L : FieldDefects(h, k) =
           IF k \in B THEN {BAD_REQUEST} ELSE IF k \in T THEN {PAYLOAD_TOO_LARGE} ELSE {}
  <2> TAKE k \in 1..L
  <2>1. k \in B <=> \/ ~h.fields[k].colon
                    \/ k \in Lengths(h) /\ (~MethodHasBody(h.method) \/ ~IsSizeT(h.fields[k].num))
    BY <1>2, <1>3 DEF IsSizeT
  <2>2. IsSizeT(h.fields[k].num) =>
          (h.fields[k].num \in MaxBody + 1..SizeTMax <=> h.fields[k].num > MaxBody)
    <3>1. h.fields[k].num \in Int
      BY <1>2
    <3> QED BY <3>1, OverLimit
  <2>3. k \in T <=> k \in Lengths(h) /\ MethodHasBody(h.method)
                     /\ h.fields[k].num \in MaxBody + 1..SizeTMax
    BY <1>3
  <2>4. k \in Lengths(h) <=> h.fields[k].colon /\ ToLower(h.fields[k].name) = "content-length"
    BY <1>2 DEF Lengths
  <2> HIDE DEF B, T
  <2> QED BY <2>1, <2>2, <2>3, <2>4 DEF FieldDefects
<1>5. B \subseteq 1..L /\ T \subseteq 1..L
  BY <1>2 DEF Lengths
<1>6. R # {} <=> MethodHasBody(h.method) /\ Lengths(h) = {}
  BY <1>3
<1>7. MethodHasBody(h.method) /\ Lengths(h) = {} => LENGTH_REQUIRED \in R
  BY <1>3
<1> HIDE DEF B, T, R
<1>8. \A k \in 1..L : FieldDefects(h, k) \subseteq Defects(h)
  BY <1>1, <1>4
<1>9. Defects(h) = {} <=> B = {} /\ T = {} /\ R = {}
  BY <1>1
<1>10. (\A k \in 1..L : FieldDefects(h, k) = {}) <=> B = {} /\ T = {}
  BY <1>4, <1>5
<1> QED
  BY <1>1, <1>6, <1>7, <1>8, <1>9, <1>10

\* What recv_http_msg() makes of a header that is well formed.
Parsed(h, r) ==
    /\ h.line = "three parts" /\ h.method \in DOMAIN MethodsInfo
    /\ IsMsg(r) /\ r.method = h.method /\ r.target = h.target /\ r.version = h.version
    /\ MethodHasBody(h.method) => Lengths(h) # {}
    /\ \A k \in 1..Len(h.fields) : FieldDefects(h, k) = {}
    /\ DOMAIN r.headers = {ToLower(h.fields[k].name) : k \in 1..Len(h.fields)}
    /\ \A k \in 1..Len(h.fields) : LastOfName(h, k, Len(h.fields)) =>
          r.headers[ToLower(h.fields[k].name)] = Stored(h.fields[k])

LEMMA ErrorsDiffer ==
    NONE \notin ErrorCodes
  BY DEF NONE, ErrorCodes, BAD_REQUEST, METHOD_NOT_ALLOWED, LENGTH_REQUIRED,
         PAYLOAD_TOO_LARGE, HEADER_FIELDS_TOO_LARGE

LEMMA NewRequest ==
    ASSUME NEW e, NEW m
    PROVE  /\ Request(e, m).error = e /\ Request(e, m).method = m
           /\ Request(e, m).headers = <<>>
  BY DEF Request

\* A header has an error exactly if it has a defect, which the error names.
LEMMA RequestFacts ==
    ASSUME NEW h, h \in Requests
    PROVE  LET r == RecvHttpMsg(h)
           IN  /\ r.error = NONE <=> Defects(h) = {}
               /\ r.error # NONE => r.error \in Defects(h)
               /\ r.error = NONE => Parsed(h, r)
<1> DEFINE r == RecvHttpMsg(h)
           L == Len(h.fields)
<1>1. /\ MaxBody \in Nat /\ h.fields \in Seq(Fields) /\ L \in Nat /\ DOMAIN h.fields = 1..L
      /\ h.line \in {"three parts", "no space", "other"}
  <2>1. /\ MaxBody \in Nat /\ h.fields \in Seq(Fields)
        /\ h.line \in {"three parts", "no space", "other"}
    BY HttpBounds, Zenon
  <2> QED BY <2>1, FieldSeq
<1>2. CASE h.large
  <2>1. r.error = HEADER_FIELDS_TOO_LARGE
    BY <1>2 DEF RecvHttpMsg, Request
  <2>2. Defects(h) = {HEADER_FIELDS_TOO_LARGE}
    BY <1>2 DEF Defects
  <2> QED BY <2>1, <2>2, ErrorsDiffer DEF ErrorCodes
<1>3. CASE ~h.large /\ (h.line = "no space" \/ h.method \notin DOMAIN MethodsInfo)
  <2>1. MethodToken(h) \notin DOMAIN MethodsInfo
    BY <1>3, MethodFacts DEF MethodToken
  <2>2. Create(MethodToken(h)) = Request(METHOD_NOT_ALLOWED, MethodToken(h))
    BY <2>1 DEF Create
  <2>3. Create(MethodToken(h)).error = METHOD_NOT_ALLOWED
    BY <2>2, NewRequest
  <2>4. METHOD_NOT_ALLOWED # NONE
    BY DEF METHOD_NOT_ALLOWED, NONE
  <2>5. r.error = METHOD_NOT_ALLOWED
    BY <1>3, <2>3, <2>4 DEF RecvHttpMsg
  <2>6. Defects(h) = {METHOD_NOT_ALLOWED}
    BY <1>3 DEF Defects
  <2> QED BY <2>4, <2>5, <2>6
<1>4. CASE ~h.large /\ h.line # "no space" /\ h.method \in DOMAIN MethodsInfo
  <2>1. Create(MethodToken(h)).error = NONE
    BY <1>4 DEF MethodToken, Create, Request
  <2>2. r = ParseRequestHeader(h)
    BY <1>4, <2>1 DEF RecvHttpMsg
  <2>3. CASE h.line # "three parts"
    <3>1. r.error = BAD_REQUEST
      <4>1. r = Request(BAD_REQUEST, "")
        BY <2>2, <2>3, Zenon DEF ParseRequestHeader
      <4>2. Request(BAD_REQUEST, "").error = BAD_REQUEST
        BY Zenon, NewRequest
      <4> QED BY <4>1, <4>2
    <3>2. Defects(h) = {BAD_REQUEST}
      BY <1>4, <2>3 DEF Defects
    <3> QED BY <3>1, <3>2, ErrorsDiffer DEF ErrorCodes
  <2>4. CASE h.line = "three parts"
    <3> DEFINE p == FieldsParsed(h)[L]
               missing == p.error = NONE /\ MethodHasBody(h.method) /\ ~HasHeader(p, "Content-Length")
    <3>1. r = IF missing THEN Fail(p, LENGTH_REQUIRED) ELSE p
      BY <2>2, <2>4 DEF ParseRequestHeader
    <3>2. ParsedWell(h, p, L)
      BY <1>1, LoopFacts
    <3> HIDE DEF p
    <3>3. /\ \A k \in 1..L : FieldDefects(h, k) \subseteq Defects(h)
          /\ Defects(h) = {} <=>
                /\ \A k \in 1..L : FieldDefects(h, k) = {}
                /\ MethodHasBody(h.method) => Lengths(h) # {}
          /\ MethodHasBody(h.method) /\ Lengths(h) = {} => LENGTH_REQUIRED \in Defects(h)
      BY <1>1, <1>4, <2>4, DefectsFound
    <3>4. CASE p.error # NONE
      BY <3>1, <3>2, <3>3, <3>4 DEF ParsedWell
    <3>5. CASE p.error = NONE
      <4>1. /\ IsMsg(p) /\ p.method = h.method /\ p.target = h.target /\ p.version = h.version
            /\ \A k \in 1..L : FieldDefects(h, k) = {}
            /\ DOMAIN p.headers = {ToLower(h.fields[k].name) : k \in 1..L}
            /\ \A k \in 1..L : LastOfName(h, k, L) =>
                  p.headers[ToLower(h.fields[k].name)] = Stored(h.fields[k])
        BY <3>2, <3>5 DEF ParsedWell
      <4>2. \A k \in 1..L : h.fields[k].colon
        BY <4>1 DEF FieldDefects
      <4>3. HasHeader(p, "Content-Length") <=> Lengths(h) # {}
        <5>1. ToLower("Content-Length") = "content-length"
          BY DEF ToLower
        <5> QED BY <1>1, <4>1, <4>2, <5>1 DEF HasHeader, Lengths
      <4>4. CASE missing
        <5>1. r.error = LENGTH_REQUIRED
          BY <3>1, <4>1, <4>4, FailFacts
        <5>2. LENGTH_REQUIRED \in Defects(h)
          BY <3>3, <4>3, <4>4
        <5> QED BY <5>1, <5>2, ErrorsDiffer DEF ErrorCodes
      <4>5. CASE ~missing
        <5>1. r = p /\ (MethodHasBody(h.method) => Lengths(h) # {})
          BY <3>1, <3>5, <4>3, <4>5
        <5> HIDE DEF r
        <5>2. Parsed(h, r)
          BY <1>4, <2>4, <4>1, <5>1 DEF Parsed
        <5> QED BY <3>3, <3>5, <4>1, <5>1, <5>2 DEF r
      <4> QED BY <4>4, <4>5
    <3> QED BY <3>4, <3>5
  <2> QED BY <2>3, <2>4
<1> QED
  BY <1>2, <1>3, <1>4

\* A name that occurs has a last occurrence.
LEMMA LastExists ==
    ASSUME NEW h, NEW upto \in Nat, NEW i \in 1..upto
    PROVE  \E k \in i..upto : /\ ToLower(h.fields[k].name) = ToLower(h.fields[i].name)
                           /\ LastOfName(h, k, upto)
<1> DEFINE E == {upto - k : k \in {k \in i..upto :
                                     ToLower(h.fields[k].name) = ToLower(h.fields[i].name)}}
<1>1. E \in SUBSET Nat /\ upto - i \in E
  OBVIOUS
<1>2. PICK e \in E : \A f \in E : e <= f
  BY <1>1, LeastExists
<1>3. PICK k \in i..upto : ToLower(h.fields[k].name) = ToLower(h.fields[i].name) /\ e = upto - k
  BY <1>2
<1>4. ASSUME NEW j \in k + 1..upto, ToLower(h.fields[j].name) = ToLower(h.fields[k].name)
      PROVE  FALSE
  <2>1. j \in i..upto /\ upto - j \in E
    BY <1>3, <1>4
  <2>2. e <= upto - j
    BY <1>2, <2>1
  <2> QED BY <1>3, <2>2
<1> QED
  BY <1>3, <1>4 DEF LastOfName

\* The length of a valid request, whose method has a body, is the last that
\* the client announced, and in range.
LEMMA LengthFacts ==
    ASSUME NEW h \in Requests, NEW r, Parsed(h, r)
    PROVE  /\ MethodHasBody(h.method) =>
                \E k \in Lengths(h) :
                   /\ HasHeader(r, "Content-Length")
                   /\ GetHeaderValue(r, "Content-Length") =
                        [type |-> "size_t", num |-> h.fields[k].num, opts |-> {}]
                   /\ h.fields[k].num \in 0..MaxBody
           /\ ~MethodHasBody(h.method) => Lengths(h) = {}
<1> DEFINE L == Len(h.fields)
<1>1. /\ MaxBody \in Nat /\ L \in Nat /\ DOMAIN h.fields = 1..L
      /\ \A k \in 1..L : h.fields[k].num \in Int
  <2>1. MaxBody \in Nat /\ h.fields \in Seq(Fields)
    BY HttpBounds, Zenon
  <2> QED BY <2>1, FieldSeq
<1>2. /\ MethodHasBody(h.method) => Lengths(h) # {}
      /\ \A k \in 1..L : FieldDefects(h, k) = {}
      /\ DOMAIN r.headers = {ToLower(h.fields[k].name) : k \in 1..L}
      /\ \A k \in 1..L : LastOfName(h, k, L) =>
            r.headers[ToLower(h.fields[k].name)] = Stored(h.fields[k])
  BY DEF Parsed
<1>3. ToLower("Content-Length") = "content-length"
  BY DEF ToLower
<1>4. \A k \in 1..L : h.fields[k].colon
  BY <1>2 DEF FieldDefects
<1>5. ASSUME NEW k \in 1..L, ToLower(h.fields[k].name) = "content-length"
      PROVE  MethodHasBody(h.method) /\ h.fields[k].num \in 0..MaxBody
  <2>1. h.fields[k].num \in Int /\ FieldDefects(h, k) = {} /\ h.fields[k].colon
    BY <1>1, <1>2, <1>4
  <2>2. ~(~MethodHasBody(h.method) \/ ~IsSizeT(h.fields[k].num))
    BY <1>5, <2>1 DEF FieldDefects
  <2>3. ~(h.fields[k].num > MaxBody)
    BY <1>5, <2>1, <2>2 DEF FieldDefects
  <2> QED BY <1>1, <2>1, <2>2, <2>3, LengthBounds DEF IsSizeT
<1>6. Lengths(h) = {k \in 1..L : ToLower(h.fields[k].name) = "content-length"}
  BY <1>1, <1>4 DEF Lengths
<1>7. ASSUME MethodHasBody(h.method)
      PROVE  \E k \in Lengths(h) :
               /\ HasHeader(r, "Content-Length")
               /\ GetHeaderValue(r, "Content-Length") =
                    [type |-> "size_t", num |-> h.fields[k].num, opts |-> {}]
               /\ h.fields[k].num \in 0..MaxBody
  <2>1. PICK i \in 1..L : ToLower(h.fields[i].name) = "content-length"
    BY <1>2, <1>6, <1>7
  <2>2. PICK k \in i..L : /\ ToLower(h.fields[k].name) = "content-length"
                          /\ LastOfName(h, k, L)
    BY <1>1, <2>1, LastExists
  <2>3. k \in 1..L
    BY <1>1, <2>1, <2>2
  <2>4. HasHeader(r, "Content-Length")
    BY <1>2, <1>3, <2>2, <2>3 DEF HasHeader
  <2>5. GetHeaderValue(r, "Content-Length") = Stored(h.fields[k])
    BY <1>2, <1>3, <2>2, <2>3 DEF GetHeaderValue
  <2>6. Stored(h.fields[k]) = [type |-> "size_t", num |-> h.fields[k].num, opts |-> {}]
    BY <2>2 DEF Stored
  <2> QED BY <1>5, <1>6, <2>2, <2>3, <2>4, <2>5, <2>6
<1> QED
  BY <1>5, <1>6, <1>7

\* The options that count are those of the last Connection field.
LEMMA ConnectionFacts ==
    ASSUME NEW h \in Requests, NEW r, Parsed(h, r)
    PROVE  LET conn == {k \in DOMAIN h.fields : ToLower(h.fields[k].name) = "connection"}
           IN  /\ HasHeader(r, "Connection") <=> conn # {}
               /\ conn # {} =>
                    /\ GetHeaderValue(r, "Connection").type = "string"
                    /\ GetHeaderValue(r, "Connection").opts =
                         h.fields[CHOOSE k \in conn : \A j \in conn : j <= k].opts
<1> DEFINE L == Len(h.fields)
           conn == {k \in DOMAIN h.fields : ToLower(h.fields[k].name) = "connection"}
           last == CHOOSE k \in conn : \A j \in conn : j <= k
<1>1. L \in Nat /\ DOMAIN h.fields = 1..L
  <2>1. h.fields \in Seq(Fields)
    BY HttpBounds, Zenon
  <2> QED BY <2>1, FieldSeq
<1>2. /\ DOMAIN r.headers = {ToLower(h.fields[k].name) : k \in 1..L}
      /\ \A k \in 1..L : LastOfName(h, k, L) =>
            r.headers[ToLower(h.fields[k].name)] = Stored(h.fields[k])
  BY DEF Parsed
<1>3. ToLower("Connection") = "connection"
  BY DEF ToLower
<1>4. HasHeader(r, "Connection") <=> conn # {}
  BY <1>1, <1>2, <1>3 DEF HasHeader
<1>5. ASSUME conn # {}
      PROVE  /\ GetHeaderValue(r, "Connection").type = "string"
             /\ GetHeaderValue(r, "Connection").opts = h.fields[last].opts
  <2>1. PICK i \in 1..L : ToLower(h.fields[i].name) = "connection"
    BY <1>1, <1>5
  <2>2. PICK k \in i..L : ToLower(h.fields[k].name) = "connection" /\ LastOfName(h, k, L)
    BY <1>1, <2>1, LastExists
  <2>3. k \in 1..L /\ k \in conn
    BY <1>1, <2>1, <2>2
  <2>4. \A j \in conn : j <= k
    <3>1. SUFFICES ASSUME NEW j \in conn, ~(j <= k) PROVE FALSE
      OBVIOUS
    <3>2. j \in k + 1..L /\ ToLower(h.fields[j].name) = "connection"
      BY <1>1, <2>3, <3>1
    <3> QED BY <2>2, <3>2 DEF LastOfName
  <2>5. last \in conn /\ \A j \in conn : j <= last
    BY <2>3, <2>4
  <2>6. last = k
    <3>1. conn \subseteq Nat
      BY <1>1
    <3> HIDE DEF last, conn
    <3> QED BY <2>3, <2>4, <2>5, <3>1
  <2>7. GetHeaderValue(r, "Connection") = Stored(h.fields[k])
    BY <1>2, <1>3, <2>2, <2>3 DEF GetHeaderValue
  <2>8. Stored(h.fields[k]) = [type |-> "string", num |-> h.fields[k].num, opts |-> h.fields[k].opts]
    BY <2>2 DEF Stored
  <2> HIDE DEF last
  <2>9. GetHeaderValue(r, "Connection") =
          [type |-> "string", num |-> h.fields[last].num, opts |-> h.fields[last].opts]
    BY <2>6, <2>7, <2>8
  <2> QED BY <2>9
<1> QED
  BY <1>4, <1>5

-----------------------------------------------------------------------------
LEMMA ResponseFacts ==
    ASSUME NEW r
    PROVE  LET p == MakeResponse(r)
           IN  /\ p.connection = "keep-alive" <=> WantKeepAlive(r)
               /\ p.code = IF r.error # NONE THEN r.error
                           ELSE IF r.method \notin {"GET", "HEAD"} THEN NOT_IMPLEMENTED
                           ELSE IF r.target \in {"/", "/index.html"} THEN OK ELSE NOT_FOUND
               /\ r.error = NONE => p.length = 1 /\ p.body = IF r.method = "HEAD" THEN 0 ELSE 1
<1> DEFINE p == MakeResponse(r)
           keep == IF WantKeepAlive(r) THEN "keep-alive" ELSE "close"
           allow == r.error = METHOD_NOT_ALLOWED
           page == [code |-> r.error, connection |-> keep, length |-> 1, body |-> 1,
                    allow |-> FALSE]
           code == IF r.target \in {"/", "/index.html"} THEN OK ELSE NOT_FOUND
           body == IF r.method = "HEAD" THEN 0 ELSE 1
<1>1. keep = "keep-alive" <=> WantKeepAlive(r)
  OBVIOUS
<1> HIDE DEF keep, allow
<1>2. CASE r.error # NONE
  <2>1. p = [page EXCEPT !.allow = allow]
    BY <1>2 DEF MakeResponse, MakeErrorResponse, MakePageResponse, keep, allow
  <2>2. p.code = r.error /\ p.connection = keep
    BY <2>1
  <2> QED BY <1>1, <1>2, <2>2
<1>3. CASE r.error = NONE /\ r.method \in {"GET", "HEAD"}
  <2>1. p = [code |-> code, connection |-> keep, length |-> 1, body |-> body, allow |-> FALSE]
    BY <1>3 DEF MakeResponse, MakeOkResponse, MakeMainPageResponse, MakePageResponse, keep
  <2> HIDE DEF p
  <2>2. p.code = code /\ p.connection = keep /\ p.length = 1 /\ p.body = body
    BY <2>1
  <2> QED BY <1>1, <1>3, <2>2 DEF p
<1>4. CASE r.error = NONE /\ r.method \notin {"GET", "HEAD"}
  <2>1. p = [code |-> NOT_IMPLEMENTED, connection |-> keep, length |-> 1, body |-> 1,
             allow |-> FALSE]
    BY <1>4 DEF MakeResponse, MakeOkResponse, MakePageResponse, keep
  <2>2. p.code = NOT_IMPLEMENTED /\ p.connection = keep /\ p.length = 1 /\ p.body = 1
    BY <2>1
  <2> QED BY <1>1, <1>4, <2>2
<1> QED
  BY <1>2, <1>3, <1>4

LEMMA InitHttpIInv == HttpInit => HttpIInv
  BY DEF HttpInit, HttpIInv

LEMMA NextHttpIInv == HttpIInv /\ [HttpNext]_httpVars => HttpIInv'
<1> SUFFICES ASSUME HttpIInv, [HttpNext]_httpVars PROVE HttpIInv'
  OBVIOUS
<1>1. CASE Connect
  BY <1>1 DEF Connect, HttpIInv
<1>2. CASE Answer
  BY <1>2 DEF Answer, HttpIInv
<1>3. CASE ReceiveFails \/ SendFails \/ Return
  BY <1>3 DEF ReceiveFails, SendFails, Return, Returns, HttpIInv
<1>4. ASSUME NEW h \in Requests, Receive(h) PROVE HttpIInv'
  BY <1>4 DEF Receive, HttpIInv
<1>5. CASE UNCHANGED httpVars
  BY <1>5 DEF httpVars, HttpIInv
<1> QED
  BY <1>1, <1>2, <1>3, <1>4, <1>5 DEF HttpNext

\* In every phase, the request and the response are those of the header that
\* was sent (Receive, Answer, Returns).
LEMMA HttpInvariance == HttpSpec => []HttpIInv
  BY InitHttpIInv, NextHttpIInv, PTL DEF HttpSpec

\* For every sequence of fields: the status names a defect of the header, and
\* a header without one is served by its method.
THEOREM StatusCorrect == HttpSpec => []StatusNamesADefect
<1>1. HttpIInv => StatusNamesADefect
  <2> SUFFICES ASSUME HttpIInv, phase = "answered"
               PROVE  IF Defects(sent) # {} THEN resp.code \in Defects(sent)
                      ELSE resp.code = IF sent.method \notin {"GET", "HEAD"} THEN NOT_IMPLEMENTED
                             ELSE IF sent.target \in {"/", "/index.html"} THEN OK ELSE NOT_FOUND
    BY DEF StatusNamesADefect
  <2>1. sent \in Requests /\ req = RecvHttpMsg(sent) /\ resp = MakeResponse(req)
    BY DEF HttpIInv
  <2>2. /\ req.error = NONE <=> Defects(sent) = {}
        /\ req.error # NONE => req.error \in Defects(sent)
        /\ req.error = NONE => Parsed(sent, req)
    BY <2>1, RequestFacts
  <2>3. resp.code = IF req.error # NONE THEN req.error
                    ELSE IF req.method \notin {"GET", "HEAD"} THEN NOT_IMPLEMENTED
                    ELSE IF req.target \in {"/", "/index.html"} THEN OK ELSE NOT_FOUND
    BY <2>1, ResponseFacts
  <2>4. req.error = NONE => req.method = sent.method /\ req.target = sent.target
    BY <2>2 DEF Parsed
  <2> QED BY <2>2, <2>3, <2>4
<1> QED
  BY <1>1, HttpInvariance, PTL

\* However often and in whatever case the client wrote a name, the value found
\* under it has the type that the code expects.
THEOREM TransformationsSafe == HttpSpec => []TransformationsSucceed
<1>1. HttpIInv => TransformationsSucceed
  <2> SUFFICES ASSUME HttpIInv, req.error = NONE
               PROVE  /\ MethodHasBody(req.method) =>
                           /\ HasHeader(req, "Content-Length")
                           /\ GetHeaderValue(req, "Content-Length").type = "size_t"
                           /\ GetHeaderValue(req, "Content-Length").num \in 0..MaxBody
                      /\ HasHeader(req, "Connection") =>
                           GetHeaderValue(req, "Connection").type = "string"
    BY DEF TransformationsSucceed
  <2>1. CASE phase \in {"open", "closed"}
    <3>1. req = Request(NONE, "GET")
      BY <2>1 DEF HttpIInv
    <3>2. req.method = "GET" /\ req.headers = <<>>
      <4>1. Request(NONE, "GET").method = "GET"
        BY NewRequest
      <4>2. Request(NONE, "GET").headers = <<>>
        BY NewRequest
      <4> QED BY <3>1, <4>1, <4>2
    <3>3. DOMAIN req.headers = {}
      BY <3>2
    <3> QED BY <3>2, <3>3, MethodFacts DEF HasHeader
  <2>2. CASE phase \in {"received", "answered"}
    <3>1. sent \in Requests /\ req = RecvHttpMsg(sent)
      BY <2>2 DEF HttpIInv
    <3>2. Parsed(sent, req) /\ req.method = sent.method
      BY <3>1, RequestFacts DEF Parsed
    <3>3. ASSUME MethodHasBody(req.method)
          PROVE  /\ HasHeader(req, "Content-Length")
                 /\ GetHeaderValue(req, "Content-Length").type = "size_t"
                 /\ GetHeaderValue(req, "Content-Length").num \in 0..MaxBody
      BY <3>1, <3>2, <3>3, LengthFacts
    <3>4. HasHeader(req, "Connection") => GetHeaderValue(req, "Connection").type = "string"
      BY <3>1, <3>2, ConnectionFacts
    <3> QED BY <3>3, <3>4
  <2> QED BY <2>1, <2>2 DEF HttpIInv
<1> QED
  BY <1>1, HttpInvariance, PTL

\* The persistence of a request without a defect is the one of HTTP, and of
\* several Connection fields the last decides.
THEOREM PersistenceOfHttp == HttpSpec => []KeepAliveLogic
<1> DEFINE conn == {k \in DOMAIN sent.fields : ToLower(sent.fields[k].name) = "connection"}
           opts == IF conn = {} THEN {}
                   ELSE sent.fields[CHOOSE k \in conn : \A j \in conn : j <= k].opts
           known == IF HasHeader(req, "Connection") THEN GetHeaderValue(req, "Connection").opts
                    ELSE {}
<1>1. HttpIInv => KeepAliveLogic
  <2> SUFFICES ASSUME HttpIInv, phase = "answered", Defects(sent) = {}
               PROVE  (resp.connection = "keep-alive") =
                        CASE "close" \in opts -> FALSE
                          [] "close" \notin opts /\ "keep-alive" \in opts -> TRUE
                          [] OTHER -> sent.version # "HTTP/1.0"
    BY DEF KeepAliveLogic
  <2>1. sent \in Requests /\ req = RecvHttpMsg(sent) /\ resp = MakeResponse(req)
    BY DEF HttpIInv
  <2>2. req.error = NONE /\ Parsed(sent, req)
    BY <2>1, RequestFacts
  <2>3. opts = known
    BY <2>1, <2>2, ConnectionFacts
  <2>4. req.version = sent.version
    BY <2>2 DEF Parsed
  <2> HIDE DEF opts
  <2>5. WantKeepAlive(req) <=> /\ req.error = NONE
                               /\ "close" \notin opts
                               /\ "keep-alive" \in opts \/ req.version # "HTTP/1.0"
    BY <2>3, Zenon DEF WantKeepAlive
  <2>6. resp.connection = "keep-alive" <=> WantKeepAlive(req)
    BY <2>1, ResponseFacts
  <2>7. resp.connection = "keep-alive" <=> /\ "close" \notin opts
                                           /\ "keep-alive" \in opts \/ sent.version # "HTTP/1.0"
    BY <2>2, <2>4, <2>5, <2>6
  <2> QED BY <2>7
<1> QED
  BY <1>1, HttpInvariance, PTL

\* A response that was sent promises to keep the connection exactly if the
\* server reads on, and it reads on after nothing else: no error, no request
\* that did not arrive, no response that could not be sent.
THEOREM PersistenceTold == HttpSpec => PersistenceAsAnnounced
<1> DEFINE Told == /\ phase = "answered" => (resp.connection = "keep-alive") = (phase' = "open")
                   /\ phase # "closed" /\ phase' = "open" =>
                        phase = "answered" /\ resp.code \notin ErrorCodes
<1>1. HttpIInv /\ [HttpNext]_httpVars => [Told]_httpVars
  <2> SUFFICES ASSUME HttpIInv, HttpNext PROVE Told
    OBVIOUS
  <2>1. CASE Connect \/ Answer \/ \E h \in Requests : Receive(h)
    BY <2>1 DEF Connect, Answer, Receive
  <2>2. CASE ReceiveFails \/ SendFails
    BY <2>2 DEF ReceiveFails, SendFails, Returns
  <2>3. CASE Return
    <3>1. phase = "answered" /\ resp = MakeResponse(req)
      BY <2>3 DEF HttpIInv, Return
    <3>2. phase' = IF WantKeepAlive(req) THEN "open" ELSE "closed"
      BY <2>3 DEF Return, Returns
    <3>3. resp.connection = "keep-alive" <=> WantKeepAlive(req)
      BY <3>1, ResponseFacts
    <3>4. WantKeepAlive(req) => resp.code \in {NOT_IMPLEMENTED, OK, NOT_FOUND}
      <4>1. WantKeepAlive(req) => req.error = NONE
        BY DEF WantKeepAlive
      <4> QED BY <3>1, <4>1, ResponseFacts
    <3>5. {NOT_IMPLEMENTED, OK, NOT_FOUND} \cap ErrorCodes = {}
      BY DEF NOT_IMPLEMENTED, OK, NOT_FOUND, ErrorCodes, BAD_REQUEST, METHOD_NOT_ALLOWED,
             LENGTH_REQUIRED, PAYLOAD_TOO_LARGE, HEADER_FIELDS_TOO_LARGE
    <3> QED BY <3>1, <3>2, <3>3, <3>4, <3>5
  <2> QED BY <2>1, <2>2, <2>3 DEF HttpNext
<1> QED
  BY <1>1, HttpInvariance, PTL DEF HttpSpec, PersistenceAsAnnounced

\* On a connection that stays open both sides agree where this response ends
\* and the next request begins.
THEOREM MessagesInSync == HttpSpec => MessagesStayInSync
<1> DEFINE InSync == phase = "answered" /\ phase' = "open" =>
                /\ resp.body = IF sent.method = "HEAD" THEN 0 ELSE resp.length
                /\ \A i \in Lengths(sent) : Cardinality(Lengths(sent)) = 1 =>
                      consumed = sent.fields[i].num
<1>1. HttpIInv /\ [HttpNext]_httpVars => [InSync]_httpVars
  <2> SUFFICES ASSUME HttpIInv, HttpNext, phase = "answered", phase' = "open"
               PROVE  InSync
    BY DEF HttpNext
  <2>1. /\ sent \in Requests /\ req = RecvHttpMsg(sent) /\ resp = MakeResponse(req)
        /\ consumed = AnnouncedBody(req)
    BY DEF HttpIInv
  <2>2. WantKeepAlive(req)
    BY DEF HttpNext, Connect, Answer, Receive, Return, ReceiveFails, SendFails, Returns
  <2>3. req.error = NONE
    BY <2>2 DEF WantKeepAlive
  <2>4. Parsed(sent, req) /\ req.method = sent.method
    BY <2>1, <2>3, RequestFacts DEF Parsed
  <2>5. resp.body = IF sent.method = "HEAD" THEN 0 ELSE resp.length
    <3>1. resp.length = 1 /\ resp.body = IF req.method = "HEAD" THEN 0 ELSE 1
      BY <2>1, <2>3, ResponseFacts
    <3> QED BY <2>4, <3>1
  <2>6. ASSUME NEW i \in Lengths(sent), Cardinality(Lengths(sent)) = 1
        PROVE  consumed = sent.fields[i].num
    <3>1. MethodHasBody(sent.method)
      BY <2>1, <2>4, LengthFacts
    <3>2. PICK k \in Lengths(sent) :
             GetHeaderValue(req, "Content-Length") =
                [type |-> "size_t", num |-> sent.fields[k].num, opts |-> {}]
      BY <2>1, <2>4, <3>1, LengthFacts
    <3>3. k = i
      <4>1. sent.fields \in Seq(Fields)
        BY <2>1, HttpBounds, Zenon
      <4>2. Lengths(sent) \in SUBSET (1..Len(sent.fields)) /\ Len(sent.fields) \in Nat
        BY <4>1, FieldSeq DEF Lengths
      <4>3. IsFiniteSet(Lengths(sent))
        <5>1. IsFiniteSet(1..Len(sent.fields))
          BY <4>2, FS_Interval
        <5> QED BY <4>2, <5>1, FS_Subset, Zenon
      <4>4. \E x : Lengths(sent) = {x}
        BY <2>6, <4>3, FS_Singleton
      <4> QED BY <4>4
    <3>4. consumed = GetHeaderValue(req, "Content-Length").num
      BY <2>1, <2>3, <2>4, <3>1 DEF AnnouncedBody
    <3> QED BY <3>2, <3>3, <3>4
  <2> QED BY <2>5, <2>6
<1> QED
  BY <1>1, HttpInvariance, PTL DEF HttpSpec, MessagesStayInSync
=============================================================================
