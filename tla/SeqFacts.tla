------------------------------ MODULE SeqFacts ------------------------------
(***************************************************************************)
(* Facts about the operators on sequences that the lists of the program    *)
(* are modelled with (the timer queue, the request queue of the block      *)
(* device), for sequences of any length.                                   *)
(***************************************************************************)
EXTENDS SequencesExt, SequenceTheorems, WellFoundedInduction, TLAPS

\* Taking out the element at position i shifts the later ones down by one.
LEMMA RemoveAtFacts ==
    ASSUME NEW S, NEW s \in Seq(S), NEW i \in 1 .. Len(s)
    PROVE  /\ RemoveAt(s, i) \in Seq(S)
           /\ Len(RemoveAt(s, i)) = Len(s) - 1
           /\ \A j \in 1 .. Len(s) - 1 :
                RemoveAt(s, i)[j] = IF j < i THEN s[j] ELSE s[j + 1]
  <1> DEFINE a == SubSeq(s, 1, i - 1)
             b == SubSeq(s, i + 1, Len(s))
  <1>1. a \in Seq(S) /\ Len(a) = i - 1 /\ \A j \in 1 .. i - 1 : a[j] = s[j]
    BY SubSeqProperties
  <1>2. /\ b \in Seq(S) /\ Len(b) = Len(s) - i
        /\ \A j \in 1 .. Len(s) - i : b[j] = s[i + j]
    BY SubSeqProperties
  <1>3. RemoveAt(s, i) = a \o b
    BY DEF RemoveAt
  <1> HIDE DEF a, b
  <1>4. /\ a \o b \in Seq(S)
        /\ Len(a \o b) = Len(a) + Len(b)
        /\ \A j \in 1 .. Len(a) + Len(b) :
             (a \o b)[j] = IF j <= Len(a) THEN a[j] ELSE b[j - Len(a)]
    BY <1>1, <1>2, ConcatProperties, Zenon
  <1>5. RemoveAt(s, i) \in Seq(S) /\ Len(RemoveAt(s, i)) = Len(s) - 1
    BY <1>1, <1>2, <1>3, <1>4
  <1>6. ASSUME NEW j \in 1 .. Len(s) - 1
        PROVE  RemoveAt(s, i)[j] = IF j < i THEN s[j] ELSE s[j + 1]
    <2>1. RemoveAt(s, i)[j] = IF j <= i - 1 THEN a[j] ELSE b[j - (i - 1)]
      BY <1>1, <1>2, <1>3, <1>4
    <2> QED
      BY <1>1, <1>2, <2>1
  <1> QED
    BY <1>5, <1>6

\* r holds the elements of s at the positions other than i, in their order
Drops(r, s, i) ==
  /\ \A j, k \in 1 .. Len(r) : j < k =>
       \E a, b \in 1 .. Len(s) :
         a < b /\ a # i /\ b # i /\ r[j] = s[a] /\ r[k] = s[b]
  /\ \A j \in 1 .. Len(r) : \E a \in 1 .. Len(s) : a # i /\ r[j] = s[a]
  /\ \A a \in 1 .. Len(s) : a # i => \E j \in 1 .. Len(r) : r[j] = s[a]

\* RemoveAt keeps the other elements in their order.
LEMMA RemoveAtDrops ==
    ASSUME NEW S, NEW s \in Seq(S), NEW i \in 1 .. Len(s)
    PROVE  Drops(RemoveAt(s, i), s, i)
  <1> DEFINE r == RemoveAt(s, i)
  <1>1. /\ r \in Seq(S)
        /\ Len(r) = Len(s) - 1
        /\ \A j \in 1 .. Len(s) - 1 : r[j] = IF j < i THEN s[j] ELSE s[j + 1]
    BY RemoveAtFacts
  <1> HIDE DEF r
  <1> DEFINE at(j) == IF j < i THEN j ELSE j + 1
  <1>2. ASSUME NEW j \in 1 .. Len(r)
        PROVE  at(j) \in 1 .. Len(s) /\ at(j) # i /\ r[j] = s[at(j)]
    BY <1>1
  <1>3. ASSUME NEW j \in 1 .. Len(r), NEW k \in 1 .. Len(r), j < k
        PROVE  at(j) < at(k)
    BY <1>1, <1>3
  <1>4. ASSUME NEW a \in 1 .. Len(s), a # i
        PROVE  \E j \in 1 .. Len(r) : at(j) = a
    <2>1. CASE a < i
      <3>1. a \in 1 .. Len(r)
        BY <1>1, <2>1
      <3> QED
        BY <2>1, <3>1
    <2>2. CASE a > i
      <3>1. a - 1 \in 1 .. Len(r) /\ at(a - 1) = a
        BY <1>1, <2>2
      <3> QED
        BY <3>1
    <2> QED
      BY <1>4, <2>1, <2>2
  <1> HIDE DEF at
  <1>5. ASSUME NEW j \in 1 .. Len(r), NEW k \in 1 .. Len(r), j < k
        PROVE  \E a, b \in 1 .. Len(s) :
                 a < b /\ a # i /\ b # i /\ r[j] = s[a] /\ r[k] = s[b]
    BY ONLY <1>2, <1>3, <1>5, j \in 1 .. Len(r), k \in 1 .. Len(r), Zenon
  <1>6. ASSUME NEW j \in 1 .. Len(r)
        PROVE  \E a \in 1 .. Len(s) : a # i /\ r[j] = s[a]
    BY <1>2, Zenon
  <1>7. ASSUME NEW a \in 1 .. Len(s), a # i
        PROVE  \E j \in 1 .. Len(r) : r[j] = s[a]
    BY <1>2, <1>4, <1>7, Zenon
  <1> QED
    BY <1>5, <1>6, <1>7, Zenon DEF Drops, r

\* r is s with e put between the elements before position i and the others
Adds(r, s, i, e) ==
  /\ \A j, k \in 1 .. Len(r) : j < k =>
       \/ \E a, b \in 1 .. Len(s) : a < b /\ r[j] = s[a] /\ r[k] = s[b]
       \/ r[j] = e /\ \E b \in i .. Len(s) : r[k] = s[b]
       \/ r[k] = e /\ \E a \in 1 .. (i - 1) : r[j] = s[a]
  /\ \A j \in 1 .. Len(r) : r[j] = e \/ \E a \in 1 .. Len(s) : r[j] = s[a]
  /\ \A a \in 1 .. Len(s) : \E j \in 1 .. Len(r) : r[j] = s[a]
  /\ \E j \in 1 .. Len(r) : r[j] = e

\* What InsertAt and Append do, from the positions alone.
LEMMA AddsFacts ==
    ASSUME NEW S, NEW s \in Seq(S), NEW i \in 1 .. Len(s) + 1, NEW e,
           NEW r \in Seq(S), Len(r) = Len(s) + 1,
           \A j \in 1 .. Len(s) + 1 :
             r[j] = IF j < i THEN s[j] ELSE IF j = i THEN e ELSE s[j - 1]
    PROVE  Adds(r, s, i, e)
  <1> DEFINE at(a) == IF a < i THEN a ELSE a + 1
             of(j) == IF j < i THEN j ELSE j - 1
  <1>1. ASSUME NEW j \in 1 .. Len(r), j # i
        PROVE  /\ of(j) \in 1 .. Len(s) /\ r[j] = s[of(j)]
               /\ j < i => of(j) \in 1 .. (i - 1)
               /\ i < j => of(j) \in i .. Len(s)
    BY <1>1
  <1>2. ASSUME NEW j \in 1 .. Len(r), NEW k \in 1 .. Len(r), j < k, j # i, k # i
        PROVE  of(j) < of(k)
    BY <1>2
  <1>3. ASSUME NEW a \in 1 .. Len(s)
        PROVE  at(a) \in 1 .. Len(r) /\ r[at(a)] = s[a]
    BY <1>3
  <1>4. i \in 1 .. Len(r) /\ r[i] = e
    OBVIOUS
  <1> HIDE DEF at, of
  <1>5. ASSUME NEW j \in 1 .. Len(r), NEW k \in 1 .. Len(r), j < k
        PROVE  \/ \E a, b \in 1 .. Len(s) : a < b /\ r[j] = s[a] /\ r[k] = s[b]
               \/ r[j] = e /\ \E b \in i .. Len(s) : r[k] = s[b]
               \/ r[k] = e /\ \E a \in 1 .. (i - 1) : r[j] = s[a]
    <2>1. CASE j = i
      <3>1. i < k /\ k # i
        BY <1>5, <2>1
      <3> QED
        BY <1>1, <1>4, <2>1, <3>1, Zenon
    <2>2. CASE k = i
      <3>1. j < i /\ j # i
        BY <1>5, <2>2
      <3> QED
        BY <1>1, <1>4, <2>2, <3>1, Zenon
    <2>3. CASE j # i /\ k # i
      BY <1>1, <1>2, <1>5, <2>3, Zenon
    <2> QED
      BY <2>1, <2>2, <2>3
  <1>6. ASSUME NEW j \in 1 .. Len(r)
        PROVE  r[j] = e \/ \E a \in 1 .. Len(s) : r[j] = s[a]
    BY <1>1, <1>4, Zenon
  <1>7. ASSUME NEW a \in 1 .. Len(s)
        PROVE  \E j \in 1 .. Len(r) : r[j] = s[a]
    BY <1>3, Zenon
  <1> QED
    BY <1>4, <1>5, <1>6, <1>7, Zenon DEF Adds

\* InsertAt and Append put e where Adds says.
LEMMA InsertAtAdds ==
    ASSUME NEW S, NEW s \in Seq(S), NEW e \in S
    PROVE  /\ \A i \in 1 .. Len(s) : Adds(InsertAt(s, i, e), s, i, e)
           /\ Adds(Append(s, e), s, Len(s) + 1, e)
  <1>1. ASSUME NEW i \in 1 .. Len(s) PROVE Adds(InsertAt(s, i, e), s, i, e)
    <2> DEFINE r == InsertAt(s, i, e)
    <2>1. /\ r \in Seq(S) /\ Len(r) = Len(s) + 1 /\ i \in 1 .. Len(s) + 1
          /\ \A j \in 1 .. Len(s) + 1 :
               r[j] = IF j < i THEN s[j] ELSE IF j = i THEN e ELSE s[j - 1]
      <3> DEFINE a == SubSeq(s, 1, i - 1)
                 b == SubSeq(s, i, Len(s))
                 ae == a \o <<e>>
      <3>1. a \in Seq(S) /\ Len(a) = i - 1 /\ \A j \in 1 .. i - 1 : a[j] = s[j]
        BY SubSeqProperties
      <3>2. /\ b \in Seq(S) /\ Len(b) = Len(s) - i + 1
            /\ \A j \in 1 .. Len(s) - i + 1 : b[j] = s[i - 1 + j]
        BY SubSeqProperties
      <3>3. r = ae \o b
        BY DEF InsertAt
      <3> HIDE DEF r, a, b
      <3>4. /\ ae \in Seq(S) /\ Len(ae) = i
            /\ \A j \in 1 .. i : ae[j] = IF j < i THEN s[j] ELSE e
        BY <3>1
      <3> HIDE DEF ae
      <3>5. /\ ae \o b \in Seq(S)
            /\ Len(ae \o b) = Len(ae) + Len(b)
            /\ \A j \in 1 .. Len(ae) + Len(b) :
                 (ae \o b)[j] = IF j <= Len(ae) THEN ae[j] ELSE b[j - Len(ae)]
        BY <3>2, <3>4, ConcatProperties, Zenon
      <3>6. Len(r) = Len(s) + 1
        BY <3>2, <3>3, <3>4, <3>5
      <3>7. ASSUME NEW j \in 1 .. Len(s) + 1
            PROVE  r[j] = IF j < i THEN s[j] ELSE IF j = i THEN e ELSE s[j - 1]
        <4>1. r[j] = IF j <= i THEN ae[j] ELSE b[j - i]
          BY <3>2, <3>3, <3>4, <3>5
        <4> QED
          BY <3>2, <3>4, <4>1
      <3> QED
        BY <3>3, <3>5, <3>6, <3>7
    <2> HIDE DEF r
    <2>2. Adds(r, s, i, e)
      BY <2>1, AddsFacts, Zenon
    <2> QED
      BY <2>2 DEF r
  <1>2. Adds(Append(s, e), s, Len(s) + 1, e)
    <2> DEFINE r == Append(s, e)
               i == Len(s) + 1
    <2>1. /\ r \in Seq(S) /\ Len(r) = Len(s) + 1 /\ i \in 1 .. Len(s) + 1
          /\ \A j \in 1 .. Len(s) + 1 :
               r[j] = IF j < i THEN s[j] ELSE IF j = i THEN e ELSE s[j - 1]
      BY AppendProperties
    <2> HIDE DEF r, i
    <2>2. Adds(r, s, i, e)
      BY <2>1, AddsFacts, Zenon
    <2> QED
      BY <2>2 DEF r, i
  <1> QED
    BY <1>1, <1>2

\* A non-empty set of natural numbers has a smallest element, which Min is.
LEMMA MinFacts ==
    ASSUME NEW I \in SUBSET Nat, I # {}
    PROVE  /\ Min(I) \in I
           /\ \A j \in I : Min(I) <= j
  <1> DEFINE R == OpToRel(<, Nat)
  <1>1. \A x, y \in Nat : x < y => <<x, y>> \in R
    BY DEF OpToRel
  <1>2. PICK x \in I : \A y \in I : ~ (<<y, x>> \in R)
    BY WFMin, NatLessThanWellFounded, Zenon
  <1> HIDE DEF R
  <1>3. \A y \in I : ~ (y < x)
    BY <1>1, <1>2, Zenon
  <1>4. \A y \in I : x <= y
    BY <1>3
  <1> QED
    BY <1>4, Zenon DEF Min
=============================================================================
