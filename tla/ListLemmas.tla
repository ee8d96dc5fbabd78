----------------------------- MODULE ListLemmas -----------------------------
(***************************************************************************)
(* Facts about lists without repetition: what adding at the head, taking   *)
(* the head and deleting an entry do to the entries of a list, and that    *)
(* there are finitely many of them.                                        *)
(***************************************************************************)
EXTENDS Integers, SequencesExt, SequenceTheorems, FiniteSetTheorems, TLAPS

\* The entries of a list are its values at 1..Len.
LEMMA ToSetMember ==
    ASSUME NEW S, NEW q \in Seq(S)
    PROVE  /\ ToSet(q) \subseteq S
           /\ \A x : x \in ToSet(q) <=> \E i \in 1..Len(q) : q[i] = x
  BY LenProperties, ElementOfSeq DEF ToSet

\* A list has finitely many entries.
LEMMA ToSetFinite ==
    ASSUME NEW S, NEW q \in Seq(S)
    PROVE  IsFiniteSet(ToSet(q))
<1>1. Len(q) \in Nat /\ q \in [1..Len(q) -> S]
  BY LenProperties
<1>2. IsFiniteSet(1..Len(q))
  BY <1>1, FS_Interval
<1>3. q \in Surjection(1..Len(q), ToSet(q))
  BY <1>1, ToSetMember DEF Surjection
<1> QED
  BY <1>2, <1>3, FS_Surjection

\* Adding a new entry at the head.
LEMMA ConsFacts ==
    ASSUME NEW S, NEW q \in Seq(S), IsInjective(q), NEW e \in S, e \notin ToSet(q)
    PROVE  /\ Cons(e, q) \in Seq(S)
           /\ Len(Cons(e, q)) = Len(q) + 1
           /\ ToSet(Cons(e, q)) = ToSet(q) \cup {e}
           /\ IsInjective(Cons(e, q))
<1> DEFINE r == Cons(e, q)
<1>1. Len(q) \in Nat /\ DOMAIN q = 1..Len(q)
  BY LenProperties
<1>2. <<e>> \in Seq(S) /\ Len(<<e>>) = 1 /\ <<e>>[1] = e
  OBVIOUS
<1>3. /\ r \in Seq(S) /\ Len(r) = Len(q) + 1
      /\ \A i \in 1..(1 + Len(q)) : r[i] = IF i <= 1 THEN <<e>>[i] ELSE q[i - 1]
  BY <1>1, <1>2, ConcatProperties DEF Cons
<1>4. DOMAIN r = 1..(Len(q) + 1)
  BY <1>3, LenProperties
<1> HIDE DEF r
<1>5. r[1] = e /\ \A i \in 1..Len(q) : r[i + 1] = q[i]
  BY <1>1, <1>2, <1>3
<1>6. \A j \in 1..(Len(q) + 1) : j = 1 \/ (j - 1 \in 1..Len(q) /\ r[j] = q[j - 1])
  BY <1>1, <1>3
<1>7. ToSet(r) = ToSet(q) \cup {e}
  <2>1. ASSUME NEW x \in ToSet(r) PROVE x \in ToSet(q) \cup {e}
    BY <1>4, <1>5, <1>6, <1>1, <2>1 DEF ToSet
  <2>2. e \in ToSet(r)
    BY <1>1, <1>4, <1>5 DEF ToSet
  <2>3. ASSUME NEW x \in ToSet(q) PROVE x \in ToSet(r)
    <3>1. PICK i \in 1..Len(q) : q[i] = x
      BY <1>1 DEF ToSet
    <3>2. i + 1 \in 1..(Len(q) + 1) /\ r[i + 1] = x
      BY <1>1, <1>5, <3>1
    <3> QED BY <1>4, <3>2 DEF ToSet
  <2> QED BY <2>1, <2>2, <2>3
<1>8. IsInjective(r)
  <2> SUFFICES ASSUME NEW a \in 1..(Len(q) + 1), NEW b \in 1..(Len(q) + 1), r[a] = r[b]
               PROVE  a = b
    BY <1>4 DEF IsInjective
  <2>1. \A i \in 1..Len(q) : q[i] # e
    BY <1>1 DEF ToSet
  <2>2. (a = 1) <=> (b = 1)
    BY <1>5, <1>6, <2>1
  <2>3. CASE a # 1
    BY <1>1, <1>6, <2>2, <2>3 DEF IsInjective
  <2> QED BY <2>2, <2>3
<1> QED
  BY <1>3, <1>7, <1>8 DEF r

\* Where the entries are after adding one at the head.
LEMMA ConsElements ==
    ASSUME NEW S, NEW q \in Seq(S), NEW e \in S
    PROVE  /\ Cons(e, q) \in Seq(S)
           /\ Len(Cons(e, q)) = Len(q) + 1
           /\ DOMAIN Cons(e, q) = 1..(Len(q) + 1)
           /\ Cons(e, q)[1] = e
           /\ \A j \in 2..(Len(q) + 1) : Cons(e, q)[j] = q[j - 1]
<1> DEFINE r == Cons(e, q)
<1>1. Len(q) \in Nat
  BY LenProperties
<1>2. <<e>> \in Seq(S) /\ Len(<<e>>) = 1 /\ <<e>>[1] = e
  OBVIOUS
<1>3. /\ r \in Seq(S) /\ Len(r) = Len(q) + 1
      /\ \A i \in 1..(1 + Len(q)) : r[i] = IF i <= 1 THEN <<e>>[i] ELSE q[i - 1]
  BY <1>1, <1>2, ConcatProperties DEF Cons
<1>4. DOMAIN r = 1..(Len(q) + 1)
  BY <1>3, LenProperties
<1> HIDE DEF r
<1>5. r[1] = e /\ \A j \in 2..(Len(q) + 1) : r[j] = q[j - 1]
  BY <1>1, <1>2, <1>3
<1> QED
  BY <1>3, <1>4, <1>5 DEF r

\* Where the entries are after deleting the one at position i.
LEMMA RemoveAtElements ==
    ASSUME NEW S, NEW q \in Seq(S), NEW i \in 1..Len(q)
    PROVE  /\ RemoveAt(q, i) \in Seq(S)
           /\ Len(RemoveAt(q, i)) = Len(q) - 1
           /\ DOMAIN RemoveAt(q, i) = 1..(Len(q) - 1)
           /\ \A j \in 1..(i - 1) : RemoveAt(q, i)[j] = q[j]
           /\ \A j \in i..(Len(q) - 1) : RemoveAt(q, i)[j] = q[j + 1]
<1> DEFINE a == SubSeq(q, 1, i - 1)
           b == SubSeq(q, i + 1, Len(q))
           r == RemoveAt(q, i)
<1>0. Len(q) \in Nat /\ i \in Nat /\ 1 <= i /\ i <= Len(q)
  BY LenProperties
<1>1. Len(q) \in Nat /\ DOMAIN q = 1..Len(q) /\ i \in Int
  BY LenProperties
<1>2. /\ a \in Seq(S) /\ Len(a) = i - 1
      /\ \A j \in 1..(i - 1) : a[j] = q[j]
  <2>1. \A j \in 1..(i - 1) : q[j] \in S
    BY <1>1, ElementOfSeq
  <2>2. /\ a \in Seq(S) /\ Len(a) = IF 1 <= i - 1 THEN (i - 1) - 1 + 1 ELSE 0
        /\ \A j \in 1..((i - 1) - 1 + 1) : a[j] = q[1 + j - 1]
    BY <1>1, <2>1, SubSeqProperties
  <2> HIDE DEF a
  <2>3. \A j \in 1..(i - 1) : a[j] = q[j]
    <3> TAKE j \in 1..(i - 1)
    <3>1. j \in 1..((i - 1) - 1 + 1) /\ 1 + j - 1 = j
      BY <1>1
    <3> QED BY <2>2, <3>1
  <2> QED BY <1>1, <2>2, <2>3
<1>3. /\ b \in Seq(S) /\ Len(b) = Len(q) - i
      /\ \A j \in 1..(Len(q) - i) : b[j] = q[i + j]
  <2>1. \A j \in (i + 1)..Len(q) : q[j] \in S
    BY <1>1, ElementOfSeq
  <2>2. /\ b \in Seq(S) /\ Len(b) = IF i + 1 <= Len(q) THEN Len(q) - (i + 1) + 1 ELSE 0
        /\ \A j \in 1..(Len(q) - (i + 1) + 1) : b[j] = q[(i + 1) + j - 1]
    BY <1>1, <2>1, SubSeqProperties
  <2> HIDE DEF b
  <2>3. \A j \in 1..(Len(q) - i) : b[j] = q[i + j]
    <3> TAKE j \in 1..(Len(q) - i)
    <3>1. j \in 1..(Len(q) - (i + 1) + 1) /\ (i + 1) + j - 1 = i + j
      BY <1>1
    <3> QED BY <2>2, <3>1
  <2>4. Len(b) = Len(q) - i
    <3>1. CASE i = Len(q)
      <4>1. ~(i + 1 <= Len(q)) /\ Len(q) - i = 0
        BY <1>1, <3>1
      <4> QED BY <2>2, <4>1
    <3>2. CASE i # Len(q)
      <4>1. i + 1 <= Len(q) /\ Len(q) - (i + 1) + 1 = Len(q) - i
        BY <1>0, <3>2
      <4> QED BY <2>2, <4>1
    <3> QED BY <3>1, <3>2
  <2> QED BY <2>2, <2>3, <2>4
<1>4. /\ r \in Seq(S) /\ Len(r) = Len(a) + Len(b)
      /\ \A j \in 1..(Len(a) + Len(b)) : r[j] = IF j <= Len(a) THEN a[j] ELSE b[j - Len(a)]
  BY <1>2, <1>3, ConcatProperties DEF RemoveAt
<1> HIDE DEF a, b
<1>5. Len(r) = Len(q) - 1 /\ DOMAIN r = 1..(Len(q) - 1)
  BY <1>1, <1>2, <1>3, <1>4, LenProperties
<1> HIDE DEF r
<1>6. \A j \in 1..(i - 1) : r[j] = q[j]
  <2> TAKE j \in 1..(i - 1)
  <2>1. j \in 1..(Len(a) + Len(b)) /\ j <= Len(a)
    BY <1>1, <1>2, <1>3
  <2> QED BY <1>2, <1>4, <2>1
<1>7. \A j \in i..(Len(q) - 1) : r[j] = q[j + 1]
  <2> TAKE j \in i..(Len(q) - 1)
  <2>1. /\ j \in 1..(Len(a) + Len(b)) /\ ~(j <= Len(a))
        /\ j - Len(a) \in 1..(Len(q) - i) /\ i + (j - Len(a)) = j + 1
    BY <1>1, <1>2, <1>3
  <2> QED BY <1>3, <1>4, <2>1
<1> QED
  BY <1>4, <1>5, <1>6, <1>7 DEF r

\* Deleting the entry at position i from a list without repetition.
LEMMA RemoveAtFacts ==
    ASSUME NEW S, NEW q \in Seq(S), IsInjective(q), NEW i \in 1..Len(q)
    PROVE  /\ RemoveAt(q, i) \in Seq(S)
           /\ Len(RemoveAt(q, i)) = Len(q) - 1
           /\ ToSet(RemoveAt(q, i)) = ToSet(q) \ {q[i]}
           /\ IsInjective(RemoveAt(q, i))
<1> DEFINE r == RemoveAt(q, i)
<1>1. Len(q) \in Nat /\ DOMAIN q = 1..Len(q) /\ i \in Int
  BY LenProperties
<1>4. r \in Seq(S)
  BY RemoveAtElements
<1>5. Len(r) = Len(q) - 1 /\ DOMAIN r = 1..(Len(q) - 1)
  BY RemoveAtElements
<1>6. \A j \in 1..(i - 1) : r[j] = q[j]
  BY RemoveAtElements
<1>7. \A j \in i..(Len(q) - 1) : r[j] = q[j + 1]
  BY RemoveAtElements
<1> HIDE DEF r
<1>8. ToSet(r) = ToSet(q) \ {q[i]}
  <2>1. ASSUME NEW x \in ToSet(r) PROVE x \in ToSet(q) \ {q[i]}
    <3>1. PICK j \in 1..(Len(q) - 1) : r[j] = x
      BY <1>5 DEF ToSet
    <3>2. CASE j < i
      <4>1. j \in 1..(i - 1) /\ j \in 1..Len(q) /\ j # i
        BY <1>1, <3>1, <3>2
      <4> QED BY <1>1, <1>6, <3>1, <4>1 DEF ToSet, IsInjective
    <3>3. CASE ~(j < i)
      <4>1. j \in i..(Len(q) - 1) /\ j + 1 \in 1..Len(q) /\ j + 1 # i
        BY <1>1, <3>1, <3>3
      <4> QED BY <1>1, <1>7, <3>1, <4>1 DEF ToSet, IsInjective
    <3> QED BY <3>2, <3>3
  <2>2. ASSUME NEW x \in ToSet(q), x # q[i] PROVE x \in ToSet(r)
    <3>1. PICK k \in 1..Len(q) : q[k] = x
      BY <1>1 DEF ToSet
    <3>2. CASE k < i
      <4>1. k \in 1..(i - 1) /\ k \in 1..(Len(q) - 1)
        BY <1>1, <3>1, <3>2
      <4> QED BY <1>5, <1>6, <3>1, <4>1 DEF ToSet
    <3>3. CASE k > i
      <4>1. k - 1 \in i..(Len(q) - 1) /\ k - 1 \in 1..(Len(q) - 1) /\ (k - 1) + 1 = k
        BY <1>1, <3>1, <3>3
      <4> QED BY <1>5, <1>7, <3>1, <4>1 DEF ToSet
    <3> QED BY <1>1, <2>2, <3>1, <3>2, <3>3
  <2> QED BY <2>1, <2>2
<1>9. IsInjective(r)
  <2> SUFFICES ASSUME NEW j \in 1..(Len(q) - 1), NEW k \in 1..(Len(q) - 1), r[j] = r[k]
               PROVE  j = k
    BY <1>5 DEF IsInjective
  <2>1. \A n \in 1..(Len(q) - 1) :
          \/ n < i /\ n \in 1..Len(q) /\ r[n] = q[n]
          \/ n >= i /\ n + 1 \in 1..Len(q) /\ r[n] = q[n + 1]
    <3> TAKE n \in 1..(Len(q) - 1)
    <3>1. CASE n < i
      <4>1. n \in 1..(i - 1) /\ n \in 1..Len(q)
        BY <1>1, <3>1
      <4> QED BY <1>6, <3>1, <4>1
    <3>2. CASE n >= i
      <4>1. n \in i..(Len(q) - 1) /\ n + 1 \in 1..Len(q)
        BY <1>1, <3>2
      <4> QED BY <1>7, <3>2, <4>1
    <3> QED BY <1>1, <3>1, <3>2
  <2>2. \A m, n \in 1..Len(q) : q[m] = q[n] => m = n
    BY <1>1 DEF IsInjective
  <2> QED BY <1>1, <2>1, <2>2
<1> QED
  BY <1>4, <1>5, <1>8, <1>9 DEF r

\* Taking the head.
LEMMA TailFacts ==
    ASSUME NEW S, NEW q \in Seq(S), IsInjective(q), q # <<>>
    PROVE  /\ Head(q) \in ToSet(q) /\ Head(q) \in S
           /\ Tail(q) \in Seq(S)
           /\ Len(Tail(q)) = Len(q) - 1
           /\ ToSet(Tail(q)) = ToSet(q) \ {Head(q)}
           /\ IsInjective(Tail(q))
<1>1. Len(q) \in Nat \ {0} /\ DOMAIN q = 1..Len(q)
  BY LenProperties, EmptySeq
<1>2. Head(q) = q[1] /\ 1 \in 1..Len(q)
  BY <1>1
<1>3. Head(q) \in ToSet(q) /\ Head(q) \in S
  BY <1>1, <1>2, ElementOfSeq DEF ToSet
<1>4. Tail(q) = RemoveAt(q, 1)
  <2>1. SubSeq(q, 1, 0) = <<>>
    BY SubSeqEmpty
  <2>2. Tail(q) = SubSeq(q, 2, Len(q)) /\ Tail(q) \in Seq(S)
    BY TailIsSubSeq, HeadTailProperties
  <2> QED BY <2>1, <2>2, ConcatEmptySeq DEF RemoveAt
<1>5. /\ RemoveAt(q, 1) \in Seq(S)
      /\ Len(RemoveAt(q, 1)) = Len(q) - 1
      /\ ToSet(RemoveAt(q, 1)) = ToSet(q) \ {q[1]}
      /\ IsInjective(RemoveAt(q, 1))
  BY <1>2, RemoveAtFacts
<1> QED
  BY <1>2, <1>3, <1>4, <1>5

\* Adding a new entry at the end.
LEMMA AppendFacts ==
    ASSUME NEW S, NEW q \in Seq(S), IsInjective(q), NEW e \in S, e \notin ToSet(q)
    PROVE  /\ Append(q, e) \in Seq(S)
           /\ Len(Append(q, e)) = Len(q) + 1
           /\ ToSet(Append(q, e)) = ToSet(q) \cup {e}
           /\ IsInjective(Append(q, e))
<1> DEFINE r == Append(q, e)
<1>1. Len(q) \in Nat /\ DOMAIN q = 1..Len(q)
  BY LenProperties
<1>2. /\ r \in Seq(S) /\ Len(r) = Len(q) + 1
      /\ \A i \in 1..Len(q) : r[i] = q[i]
      /\ r[Len(q) + 1] = e
  BY AppendProperties
<1>3. DOMAIN r = 1..(Len(q) + 1)
  BY <1>2, LenProperties
<1> HIDE DEF r
<1>4. \A j \in 1..(Len(q) + 1) : j = Len(q) + 1 \/ j \in 1..Len(q)
  BY <1>1
<1>5. \A i \in 1..Len(q) : i \in 1..(Len(q) + 1) /\ i # Len(q) + 1
  BY <1>1
<1>6. Len(q) + 1 \in 1..(Len(q) + 1)
  BY <1>1
<1>7. \A x : x \in ToSet(r) <=> x \in ToSet(q) \/ x = e
  BY <1>1, <1>2, <1>3, <1>4, <1>5, <1>6 DEF ToSet
<1>8. ToSet(r) = ToSet(q) \cup {e}
  BY <1>7
<1>9. IsInjective(r)
  <2>1. \A i \in 1..Len(q) : q[i] # e
    BY <1>1 DEF ToSet
  <2> QED BY <1>1, <1>2, <1>3, <1>4, <2>1 DEF IsInjective
<1> QED
  BY <1>2, <1>8, <1>9 DEF r
=============================================================================
