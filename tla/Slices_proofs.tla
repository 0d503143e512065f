---------------------------- MODULE Slices_proofs ----------------------------
(***************************************************************************)
(* Lemmas about cutting sequences and joining them, and about the first of *)
(* some places, for the other proofs.                                      *)
(***************************************************************************)
EXTENDS Slices, SequenceTheorems, WellFoundedInduction, TLAPS

(* The two parts of s, byte by byte. *)
LEMMA Cut ==
  ASSUME NEW S, NEW s \in Seq(S), NEW n \in 0..Len(s)
  PROVE  /\ Take(n, s) \in Seq(S) /\ Skip(n, s) \in Seq(S)
         /\ Len(Take(n, s)) = n /\ Len(Skip(n, s)) = Len(s) - n
         /\ \A i \in 1..n : Take(n, s)[i] = s[i]
         /\ \A i \in 1..Len(s) - n : Skip(n, s)[i] = s[n + i]
<1>1. Len(s) \in Nat /\ n \in Int
  BY LenProperties
<1> QED
  BY <1>1 DEF Take, Skip

(* The two halves of s are s. *)
LEMMA Rejoin ==
  ASSUME NEW S, NEW s \in Seq(S), NEW n \in 0..Len(s)
  PROVE  Take(n, s) \o Skip(n, s) = s
<1>1. Len(s) \in Nat /\ n \in Int
  BY LenProperties
<1>2. /\ 1 \in 1..Len(s) + 1 /\ n \in 1 - 1..Len(s)
      /\ Len(s) \in n..Len(s)
  BY <1>1
<1>3. SubSeq(s, 1, n) \o SubSeq(s, n + 1, Len(s)) = SubSeq(s, 1, Len(s))
  BY <1>2, ConcatAdjacentSubSeq, Zenon
<1> QED
  BY <1>3, SubSeqFull, Zenon DEF Take, Skip

(* Two sequences joined, byte by byte. *)
LEMMA Joined ==
  ASSUME NEW S, NEW s \in Seq(S), NEW t \in Seq(S)
  PROVE  /\ s \o t \in Seq(S) /\ Len(s \o t) = Len(s) + Len(t)
         /\ \A i \in 1..Len(s) : (s \o t)[i] = s[i]
         /\ \A i \in Len(s) + 1..Len(s) + Len(t) : (s \o t)[i] = t[i - Len(s)]
<1>1. ASSUME NEW m \in Nat, NEW n \in Nat, m = Len(s), n = Len(t)
      PROVE  /\ s \o t \in Seq(S) /\ Len(s \o t) = m + n
             /\ \A i \in 1..m : (s \o t)[i] = s[i]
             /\ \A i \in m + 1..m + n : (s \o t)[i] = t[i - m]
  BY <1>1, ConcatProperties
<1>2. Len(s) \in Nat /\ Len(t) \in Nat
  BY LenProperties
<1> QED
  BY <1>1, <1>2, Zenon

(* The first half of s \o t, when it ends with s. *)
LEMMA TakeFirst ==
  ASSUME NEW S, NEW s \in Seq(S), NEW t \in Seq(S)
  PROVE  Take(Len(s), s \o t) = s
<1> DEFINE whole == s \o t
<1>1. /\ whole \in Seq(S) /\ Len(whole) = Len(s) + Len(t)
      /\ \A i \in 1..Len(s) : whole[i] = s[i]
      /\ Len(s) \in Nat /\ Len(t) \in Nat
  BY ConcatProperties, LenProperties
<1> HIDE DEF whole
<1>2. Len(s) \in 0..Len(whole)
  BY <1>1
<1>3. /\ Take(Len(s), whole) \in Seq(S) /\ Len(Take(Len(s), whole)) = Len(s)
      /\ \A i \in 1..Len(s) : Take(Len(s), whole)[i] = s[i]
  BY <1>1, <1>2, Cut
<1>4. Take(Len(s), whole) = s
  BY <1>3, SeqEqual
<1> QED
  BY <1>4 DEF whole

(* The second half of s \o t, when it begins with t. *)
LEMMA SkipFirst ==
  ASSUME NEW S, NEW s \in Seq(S), NEW t \in Seq(S)
  PROVE  Skip(Len(s), s \o t) = t
<1> DEFINE whole == s \o t
<1>1. /\ whole \in Seq(S) /\ Len(whole) = Len(s) + Len(t)
      /\ \A i \in Len(s) + 1..Len(s) + Len(t) : whole[i] = t[i - Len(s)]
      /\ Len(s) \in Nat /\ Len(t) \in Nat
  BY Joined, LenProperties
<1> HIDE DEF whole
<1>2. Len(s) \in 0..Len(whole) /\ Len(whole) - Len(s) = Len(t)
  BY <1>1
<1>3. /\ Skip(Len(s), whole) \in Seq(S) /\ Len(Skip(Len(s), whole)) = Len(t)
      /\ \A i \in 1..Len(t) : Skip(Len(s), whole)[i] = whole[Len(s) + i]
  <2>1. ASSUME NEW v \in Seq(S), NEW m \in 0..Len(v)
        PROVE  /\ Skip(m, v) \in Seq(S) /\ Len(Skip(m, v)) = Len(v) - m
               /\ \A i \in 1..Len(v) - m : Skip(m, v)[i] = v[m + i]
    BY <2>1, Cut
  <2> QED
    BY <1>1, <1>2, <2>1, Zenon
<1>4. ASSUME NEW i \in 1..Len(t) PROVE whole[Len(s) + i] = t[i]
  <2>1. /\ Len(s) + i \in Len(s) + 1..Len(s) + Len(t)
        /\ (Len(s) + i) - Len(s) = i
    BY <1>1
  <2> QED
    BY <2>1, <1>1, Zenon
<1>5. Skip(Len(s), whole) = t
  BY <1>3, <1>4, SeqEqual
<1> QED
  BY <1>5 DEF whole

(* Places in what is left of l after g, and n more. *)
LEMMA Arith ==
  ASSUME NEW l \in Nat, NEW g \in Nat, NEW n \in Nat, g + n <= l
  PROVE  /\ (l - g) - n = l - (g + n)
         /\ \A i \in 1..l - (g + n) :
              n + i \in 1..l - g /\ g + (n + i) = (g + n) + i
         /\ \A i \in g + 1..g + n :
              i - g \in 1..n /\ i - g \in 1..l - g /\ g + (i - g) = i
OBVIOUS

(* Going on from a place in s. *)
LEMMA GoOn ==
  ASSUME NEW S, NEW s \in Seq(S), NEW g \in 0..Len(s), NEW n \in 0..Len(s) - g
  PROVE  /\ Take(g, s) \o Take(n, Skip(g, s)) = Take(g + n, s)
         /\ Skip(n, Skip(g, s)) = Skip(g + n, s)
<1> DEFINE r == Skip(g, s)
<1>0. Len(s) \in Nat /\ g \in Nat /\ n \in Nat /\ g + n \in 0..Len(s)
  BY LenProperties
<1>1. /\ r \in Seq(S) /\ Len(r) = Len(s) - g
      /\ \A i \in 1..Len(s) - g : r[i] = s[g + i]
      /\ Take(g, s) \in Seq(S) /\ Len(Take(g, s)) = g
      /\ \A i \in 1..g : Take(g, s)[i] = s[i]
  BY Cut
<1>2. /\ Take(g + n, s) \in Seq(S) /\ Len(Take(g + n, s)) = g + n
      /\ \A i \in 1..g + n : Take(g + n, s)[i] = s[i]
      /\ Skip(g + n, s) \in Seq(S)
      /\ Len(Skip(g + n, s)) = Len(s) - (g + n)
      /\ \A i \in 1..Len(s) - (g + n) : Skip(g + n, s)[i] = s[g + n + i]
  BY <1>0, Cut
<1> HIDE DEF r
<1>3. n \in 0..Len(r)
  BY <1>0, <1>1
<1>4. /\ Take(n, r) \in Seq(S) /\ Len(Take(n, r)) = n
      /\ \A i \in 1..n : Take(n, r)[i] = r[i]
      /\ Skip(n, r) \in Seq(S) /\ Len(Skip(n, r)) = Len(r) - n
      /\ \A i \in 1..Len(r) - n : Skip(n, r)[i] = r[n + i]
  BY <1>1, <1>3, Cut
<1>5. Skip(n, r) = Skip(g + n, s)
  <2>0. g + n <= Len(s)
    BY <1>0
  <2>1. Len(Skip(n, r)) = Len(Skip(g + n, s))
    <3>1. (Len(s) - g) - n = Len(s) - (g + n)
      BY <1>0, <2>0, Arith
    <3>2. Len(Skip(n, r)) = (Len(s) - g) - n
      BY <1>1, <1>4, Zenon
    <3> QED
      BY <3>1, <3>2, <1>2, Zenon
  <2>2. ASSUME NEW i \in 1..Len(Skip(n, r))
        PROVE  Skip(n, r)[i] = Skip(g + n, s)[i]
    <3>1. i \in 1..Len(s) - (g + n) /\ i \in 1..Len(r) - n
      BY <2>1, <1>2, <1>4
    <3>2. n + i \in 1..Len(s) - g /\ g + (n + i) = (g + n) + i
      BY <1>0, <2>0, <3>1, Arith
    <3>3. Skip(n, r)[i] = r[n + i]
      BY <3>1, <1>4
    <3>4. r[n + i] = s[g + (n + i)]
      BY <3>2, <1>1
    <3> QED
      BY <3>1, <3>2, <3>3, <3>4, <1>2
  <2> QED
    BY <2>1, <2>2, <1>2, <1>4, SeqEqual
<1>6. Take(g, s) \o Take(n, r) = Take(g + n, s)
  <2> DEFINE c == Take(g, s) \o Take(n, r)
  <2>1. /\ c \in Seq(S) /\ Len(c) = g + n
        /\ \A i \in 1..g : c[i] = Take(g, s)[i]
        /\ \A i \in g + 1..g + n : c[i] = Take(n, r)[i - g]
    <3> DEFINE a == Take(g, s)
               b == Take(n, r)
    <3>1. a \in Seq(S) /\ b \in Seq(S) /\ Len(a) = g /\ Len(b) = n
      BY <1>1, <1>4
    <3> HIDE DEF a, b
    <3>2. /\ a \o b \in Seq(S) /\ Len(a \o b) = g + n
          /\ \A i \in 1..g : (a \o b)[i] = a[i]
          /\ \A i \in g + 1..g + n : (a \o b)[i] = b[i - g]
      <4>1. /\ a \o b \in Seq(S) /\ Len(a \o b) = Len(a) + Len(b)
            /\ \A i \in 1..Len(a) : (a \o b)[i] = a[i]
            /\ \A i \in Len(a) + 1..Len(a) + Len(b) : (a \o b)[i] = b[i - Len(a)]
        BY <3>1, Joined, Zenon
      <4> QED
        BY <3>1, <4>1, Zenon
    <3> QED
      BY <3>2 DEF a, b
  <2> HIDE DEF c
  <2>2. ASSUME NEW i \in 1..g + n
        PROVE  c[i] = Take(g + n, s)[i]
    <3>1. CASE i <= g
      BY <3>1, <2>1, <1>0, <1>1, <1>2
    <3>2. CASE i > g
      <4>0. i \in g + 1..g + n /\ g + n <= Len(s)
        BY <3>2, <1>0
      <4>1. i - g \in 1..n /\ i - g \in 1..Len(s) - g /\ g + (i - g) = i
        BY <4>0, <1>0, Arith
      <4>2. c[i] = Take(n, r)[i - g]
        BY <4>0, <2>1
      <4>3. Take(n, r)[i - g] = r[i - g]
        BY <4>1, <1>4
      <4>4. r[i - g] = s[g + (i - g)]
        BY <4>1, <1>1
      <4>5. c[i] = s[i]
        BY <4>1, <4>2, <4>3, <4>4
      <4> QED
        BY <4>5, <1>2
    <3> QED
      BY <3>1, <3>2, <1>0
  <2>3. c = Take(g + n, s)
    BY <2>1, <2>2, <1>2, SeqEqual
  <2> QED
    BY <2>3 DEF c
<1> QED
  BY <1>5, <1>6 DEF r

(* Bytes that go from the front of s to the end of g stay in order. *)
LEMMA PassOn ==
  ASSUME NEW S, NEW g \in Seq(S), NEW s \in Seq(S), NEW n \in 0..Len(s)
  PROVE  (g \o Take(n, s)) \o Skip(n, s) = g \o s
<1> DEFINE a == Take(n, s)
           b == Skip(n, s)
<1>1. a \in Seq(S) /\ b \in Seq(S)
  BY Cut
<1>2. a \o b = s
  BY Rejoin
<1> HIDE DEF a, b
<1>3. (g \o a) \o b = g \o (a \o b)
  BY <1>1, ConcatAssociative
<1>4. (g \o a) \o b = g \o s
  BY <1>2, <1>3
<1> QED
  BY <1>4 DEF a, b

(* A slice of g is one of whatever begins with g. *)
LEMMA SliceStays ==
  ASSUME NEW S, NEW g \in Seq(S), NEW t \in Seq(S), NEW f \in Nat, NEW l \in Nat,
         f + l <= Len(g)
  PROVE  SubSeq(g \o t, f + 1, f + l) = SubSeq(g, f + 1, f + l)
<1>1. Len(g) \in Nat
  BY LenProperties
<1>2. CASE l = 0
  <2>1. f + l < f + 1
    BY <1>2
  <2> QED
    BY <2>1, SubSeqEmpty
<1>3. CASE l # 0
  <2>1. f + 1 \in 1..Len(g) /\ f + l \in 1..Len(g)
    BY <1>1, <1>3
  <2> QED
    BY <2>1, SubSeqOfConcat1
<1> QED
  BY <1>2, <1>3

(* The slice up to the end of g, continued. *)
LEMMA SliceGrows ==
  ASSUME NEW S, NEW g \in Seq(S), NEW t \in Seq(S), NEW f \in Nat, NEW l \in Nat,
         f + l = Len(g)
  PROVE  SubSeq(g, f + 1, f + l) \o t = SubSeq(g \o t, f + 1, f + (l + Len(t)))
<1> DEFINE w == g \o t
<1>1. Len(t) \in Nat /\ Len(g) \in Nat /\ w \in Seq(S) /\ Len(w) = Len(g) + Len(t)
  BY LenProperties, ConcatProperties
<1>2. SubSeq(w, f + 1, f + l) = SubSeq(g, f + 1, f + l)
  BY SliceStays
<1>3. SubSeq(w, Len(g) + 1, Len(g) + Len(t)) = t
  <2>1. CASE Len(t) = 0
    <3>1. Len(g) + Len(t) < Len(g) + 1
      BY <1>1, <2>1
    <3> QED
      BY <1>1, <2>1, <3>1, SubSeqEmpty, EmptySeq
  <2>2. CASE Len(t) # 0
    <3>1. /\ Len(g) + 1 \in Len(g) + 1..Len(g) + Len(t)
          /\ Len(g) + Len(t) \in Len(g) + 1..Len(g) + Len(t)
          /\ (Len(g) + 1) - Len(g) = 1 /\ (Len(g) + Len(t)) - Len(g) = Len(t)
      BY <1>1, <2>2
    <3>2. SubSeq(w, Len(g) + 1, Len(g) + Len(t)) = SubSeq(t, 1, Len(t))
      BY <3>1, SubSeqOfConcat2
    <3> QED
      BY <3>2, SubSeqFull
  <2> QED
    BY <2>1, <2>2
<1> HIDE DEF w
<1>4. /\ f + 1 \in 1..Len(w) + 1 /\ f + l \in (f + 1) - 1..Len(w)
      /\ Len(w) \in f + l..Len(w) /\ Len(w) = f + (l + Len(t))
  BY <1>1
<1>5. SubSeq(w, f + 1, f + l) \o SubSeq(w, (f + l) + 1, Len(w))
        = SubSeq(w, f + 1, Len(w))
  BY <1>1, <1>4, ConcatAdjacentSubSeq, Zenon
<1> QED
  BY <1>1, <1>2, <1>3, <1>4, <1>5 DEF w

(* There is a first one among any places. *)
LEMMA Least ==
  ASSUME NEW T \in SUBSET Nat, T # {}
  PROVE  \E m \in T : \A n \in T : m <= n
<1> DEFINE R == {ss \in Nat \X Nat : ss[1] < ss[2]}
<1>1. IsWellFoundedOn(R, Nat)
  BY NatLessThanWellFounded DEF OpToRel
<1>2. \A x, y \in Nat : x < y => <<x, y>> \in R
  OBVIOUS
<1> HIDE DEF R
<1>3. PICK m \in T : \A y \in T : ~ (<<y, m>> \in R)
  BY <1>1, WFMin
<1>4. \A n \in T : ~ (n < m)
  BY <1>2, <1>3
<1> QED
  BY <1>4
=============================================================================
