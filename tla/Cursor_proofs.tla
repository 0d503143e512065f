---------------------------- MODULE Cursor_proofs ----------------------------
(***************************************************************************)
(* Proofs about Cursor, for every width of u64 and usize, every allocator  *)
(* and all contents: it implements ByteFile, step for step, and a call     *)
(* that fails can be repeated.                                             *)
(***************************************************************************)
EXTENDS Cursor, Slices_proofs

(* What the assumptions say of the widths. *)
LEMMA Widths ==
  /\ Half \in Nat /\ Half > 0 /\ MaxU64 \in Nat /\ MaxU64 = 2 * Half - 1
  /\ MaxUsize \in Nat /\ MaxUsize <= MaxU64
  /\ MaxCap \in Nat /\ MaxCap <= MaxUsize /\ MaxCap + 1 <= MaxU64
  /\ \A s \in Contents \cup Buffers :
       s \in Seq(Byte) /\ Len(s) \in Nat /\ Len(s) <= MaxCap
<1>1. /\ Half \in Nat \ {0} /\ MaxUsize \in 0..MaxU64 /\ MaxCap \in Nat
      /\ 2 * MaxCap <= MaxUsize
  BY CursorAssumption DEF U64
<1>2. Contents \cup Buffers \subseteq {s \in Seq(Byte) : Len(s) <= MaxCap}
  BY CursorAssumption
<1>3. MaxU64 \in Nat /\ MaxU64 = 2 * Half - 1
  BY <1>1 DEF MaxU64
<1>4. MaxUsize \in Nat /\ MaxUsize <= MaxU64
  BY <1>1, <1>3
<1>5. MaxCap <= MaxUsize /\ MaxCap + 1 <= MaxU64
  BY <1>1, <1>3, <1>4
<1> QED
  BY <1>1, <1>2, <1>3, <1>4, <1>5, LenProperties

(* A number of at most 0..d is itself modulo d + 1. *)
LEMMA SmallMod ==
  ASSUME NEW d \in Nat, NEW n \in 0..d
  PROVE  n % (d + 1) = n
OBVIOUS

LEMMA ModRange ==
  ASSUME NEW d \in Nat, NEW n \in Nat
  PROVE  n % (d + 1) \in 0..d
OBVIOUS

-----------------------------------------------------------------------------
(* Seek computes with exact numbers: a position if the sum is one, and     *)
(* nothing otherwise, also for the smallest offset (impls_always.rs:63).   *)
THEOREM NewPosExact ==
  ASSUME NEW base \in U64, NEW offset \in I64
  PROVE  NewPos(base, offset) =
           IF base + offset \in U64 THEN {base + offset} ELSE {}
<1>1. /\ base \in Int /\ offset \in Int /\ base >= 0 /\ base <= 2 * Half - 1
      /\ offset >= -Half /\ offset <= Half - 1 /\ Half \in Nat
      /\ MaxU64 = 2 * Half - 1
  BY Widths DEF U64, I64
<1>2. CASE offset >= 0
  <2>1. AsU64(offset) = offset
    BY <1>2 DEF AsU64
  <2>2. NewPos(base, offset)
          = IF base + offset <= MaxU64 THEN {base + offset} ELSE {}
    BY <1>2, <2>1 DEF NewPos, CheckedAdd
  <2>3. base + offset \in U64 <=> base + offset <= MaxU64
    BY <1>1, <1>2 DEF U64
  <2> QED
    BY <2>2, <2>3
<1>3. CASE ~(offset >= 0)
  <2>1. AsU64(WrappingNeg(offset)) = -offset
    BY <1>1, <1>3 DEF AsU64, WrappingNeg
  <2>2. /\ base >= -offset <=> base + offset \in U64
        /\ base - (-offset) = base + offset
    BY <1>1, <1>3 DEF U64
  <2> QED
    BY <1>3, <2>1, <2>2 DEF NewPos, CheckedSub
<1> QED
  BY <1>2, <1>3

-----------------------------------------------------------------------------
(* The types, and where the bytes ahead begin. *)
LEMMA Here ==
  ASSUME TypeOK
  PROVE  /\ inner \in Seq(Byte) /\ Len(inner) \in Nat /\ Len(inner) <= MaxCap
         /\ pos \in Nat /\ pos <= MaxU64
         /\ Start \in 0..Len(inner)
         /\ Start = Min2(pos, Len(inner))
<1>1. /\ inner \in Seq(Byte) /\ Len(inner) \in Nat /\ Len(inner) <= MaxCap
      /\ pos \in Nat /\ pos <= MaxU64
  BY Widths, LenProperties DEF TypeOK, U64
<1>2. Min2(pos, Len(inner)) \in 0..Len(inner)
  BY <1>1 DEF Min2
<1>3. Min2(pos, Len(inner)) \in 0..MaxUsize
  BY <1>1, <1>2, Widths
<1>4. Start = Min2(pos, Len(inner))
  BY <1>3, Widths, SmallMod DEF Start, AsUsize
<1> QED
  BY <1>1, <1>2, <1>4

LEMMA Rest ==
  ASSUME NEW l \in Nat, NEW p \in Nat
  PROVE  l - Min2(p, l) = Max2(l - p, 0) /\ Max2(l - p, 0) \in Nat
<1>1. CASE p <= l
  BY <1>1 DEF Min2, Max2
<1>2. CASE p > l
  BY <1>2 DEF Min2, Max2
<1> QED
  BY <1>1, <1>2

(* The bytes at the position are the ones of the file. *)
LEMMA AheadIs ==
  ASSUME TypeOK, NEW n \in Nat
  PROVE  /\ ReadSlice(Available, n) = File!Ahead(n)
         /\ File!Ahead(n) \in Seq(Byte)
         /\ Len(File!Ahead(n)) = Min2(n, Max2(Len(inner) - pos, 0))
<1> DEFINE a == Available
           h == File!Ahead(n)
<1>1. PICK l \in Nat, p \in Nat : l = Len(inner) /\ p = pos
  BY Here
<1>2. /\ a \in Seq(Byte) /\ Len(a) = l - Start
      /\ \A i \in 1..l - Start : a[i] = inner[Start + i]
      /\ Start = Min2(p, l) /\ Start \in 0..l
  BY <1>1, Here, Cut DEF Available
<1>3. Len(a) = Max2(l - p, 0) /\ Len(a) \in Nat
  <2>1. l - Min2(p, l) = Max2(l - p, 0) /\ Max2(l - p, 0) \in Nat
    BY Rest
  <2>2. Len(a) = l - Min2(p, l)
    BY <1>2, Zenon
  <2> QED
    BY <2>1, <2>2, Zenon
<1> DEFINE m == Min2(n, Max2(l - p, 0))
<1>4. /\ m \in Nat /\ m = Min2(Len(a), n) /\ m \in 0..Len(a)
      /\ m = File!Smaller(n, File!Greater(Len(inner) - pos, 0))
  BY <1>1, <1>3 DEF Min2, Max2, File!Smaller, File!Greater
<1>5. h = [i \in 1..m |-> inner[pos + i]]
  BY <1>4 DEF File!Ahead
<1>6. \A i \in 1..m : pos + i \in 1..Len(inner) /\ Start + i = pos + i
                        /\ i \in 1..l - Start
  BY <1>1, <1>2 DEF Min2, Max2
<1>7. /\ ReadSlice(a, n) \in Seq(Byte) /\ Len(ReadSlice(a, n)) = m
      /\ \A i \in 1..m : ReadSlice(a, n)[i] = a[i]
  <2>1. ReadSlice(a, n) = Take(m, a)
    BY <1>4, Zenon DEF ReadSlice
  <2>2. a \in Seq(Byte) /\ m \in 0..Len(a)
    BY <1>2, <1>4, Zenon
  <2> HIDE DEF a, m
  <2>3. /\ Take(m, a) \in Seq(Byte) /\ Len(Take(m, a)) = m
        /\ \A i \in 1..m : Take(m, a)[i] = a[i]
    BY <2>2, Cut
  <2> QED
    BY <2>1, <2>3, Zenon
<1>8. \A i \in 1..m : inner[pos + i] \in Byte
  BY <1>6, Here, ElementOfSeq
<1> HIDE DEF m
<1>9. h \in Seq(Byte) /\ Len(h) = m /\ \A i \in 1..m : h[i] = inner[pos + i]
  <2>1. h \in [1..m -> Byte]
    BY <1>5, <1>8
  <2> QED
    BY <1>4, <1>5, <2>1
<1>10. ReadSlice(a, n) = h
  <2> HIDE DEF a, h
  <2>1. \A i \in 1..m : ReadSlice(a, n)[i] = h[i]
    BY <1>2, <1>6, <1>7, <1>9
  <2> QED
    BY <2>1, <1>7, <1>9, SeqEqual
<1> QED
  BY <1>1, <1>9, <1>10 DEF m

-----------------------------------------------------------------------------
(* The middle of s, from p on, replaced by b. *)
Splice(p, b, s) == Take(p, s) \o b \o Skip(p + Len(b), s)

IsSplice(r, p, b, s) ==
  /\ r \in Seq(Byte) /\ Len(r) = Len(s)
  /\ \A i \in 1..p : r[i] = s[i]
  /\ \A i \in p + 1..p + Len(b) : r[i] = b[i - p]
  /\ \A i \in p + Len(b) + 1..Len(s) : r[i] = s[i]

LEMMA Replaced ==
  ASSUME NEW s \in Seq(Byte), NEW b \in Seq(Byte), NEW p \in Nat,
         p + Len(b) \in 0..Len(s)
  PROVE  IsSplice(Splice(p, b, s), p, b, s)
<1>0. PICK k \in Nat, l \in Nat : k = Len(b) /\ l = Len(s) /\ p + k <= l
  BY LenProperties
<1>1. p \in 0..Len(s) /\ p + k \in 0..Len(s) /\ p + k \in Nat
  BY <1>0
<1>2. PICK t, u : t = Take(p, s) /\ u = Skip(p + k, s)
  OBVIOUS
<1>3. /\ t \in Seq(Byte) /\ Len(t) = p /\ \A i \in 1..p : t[i] = s[i]
      /\ u \in Seq(Byte) /\ Len(u) = l - (p + k)
      /\ \A i \in 1..l - (p + k) : u[i] = s[(p + k) + i]
  BY <1>0, <1>1, <1>2, Cut
<1>4. PICK v : v = t \o b
  OBVIOUS
<1>5. /\ v \in Seq(Byte) /\ Len(v) = p + k
      /\ \A i \in 1..p : v[i] = t[i]
      /\ \A i \in p + 1..p + k : v[i] = b[i - p]
  <2>1. t \in Seq(Byte)
    BY <1>3
  <2>2. /\ t \o b \in Seq(Byte) /\ Len(t \o b) = Len(t) + Len(b)
        /\ \A i \in 1..Len(t) : (t \o b)[i] = t[i]
        /\ \A i \in Len(t) + 1..Len(t) + Len(b) : (t \o b)[i] = b[i - Len(t)]
    BY <2>1, Joined, Zenon
  <2> QED
    BY <1>0, <1>3, <1>4, <2>2, Zenon
<1>6. PICK r : r = v \o u
  OBVIOUS
<1>7. /\ r \in Seq(Byte) /\ Len(r) = l
      /\ \A i \in 1..p + k : r[i] = v[i]
      /\ \A i \in (p + k) + 1..l : r[i] = u[i - (p + k)]
  <2>0. v \in Seq(Byte) /\ u \in Seq(Byte)
    BY <1>3, <1>5
  <2>1. /\ v \o u \in Seq(Byte) /\ Len(v \o u) = Len(v) + Len(u)
        /\ \A i \in 1..Len(v) : (v \o u)[i] = v[i]
        /\ \A i \in Len(v) + 1..Len(v) + Len(u) : (v \o u)[i] = u[i - Len(v)]
    BY <2>0, Joined, Zenon
  <2>2. (p + k) + (l - (p + k)) = l
    OBVIOUS
  <2> QED
    BY <1>3, <1>5, <1>6, <2>1, <2>2, Zenon
<1>8. ASSUME NEW i \in 1..p PROVE r[i] = s[i]
  <2>1. i \in 1..p + k
    OBVIOUS
  <2> QED
    BY <1>3, <1>5, <1>7, <2>1
<1>9. ASSUME NEW i \in p + 1..p + k PROVE r[i] = b[i - p]
  <2>1. i \in 1..p + k
    OBVIOUS
  <2> QED
    BY <1>5, <1>7, <2>1
<1>10. ASSUME NEW i \in p + k + 1..l PROVE r[i] = s[i]
  <2>1. /\ i \in (p + k) + 1..l
        /\ i - (p + k) \in 1..l - (p + k) /\ (p + k) + (i - (p + k)) = i
    BY <1>0
  <2>2. r[i] = u[i - (p + k)]
    BY <1>7, <2>1
  <2>3. u[i - (p + k)] = s[(p + k) + (i - (p + k))]
    BY <1>3, <2>1
  <2> QED
    BY <2>1, <2>2, <2>3
<1>11. r = Splice(p, b, s)
  BY <1>0, <1>2, <1>4, <1>6, Zenon DEF Splice
<1>12. IsSplice(r, p, b, s)
  BY <1>0, <1>7, <1>8, <1>9, <1>10, Zenon DEF IsSplice
<1> QED
  BY <1>11, <1>12, Zenon

(* The file after a write, byte by byte. *)
LEMMA OverIs ==
  ASSUME TypeOK, NEW b \in Seq(Byte)
  PROVE  /\ File!Over(b) \in Seq(Byte)
         /\ Len(File!Over(b)) = Max2(Len(inner), pos + Len(b))
         /\ \A i \in 1..Max2(Len(inner), pos + Len(b)) :
              File!Over(b)[i] =
                IF i > pos /\ i <= pos + Len(b) THEN b[i - pos]
                ELSE IF i <= Len(inner) THEN inner[i] ELSE Zero
<1> DEFINE m == Max2(Len(inner), pos + Len(b))
           e(i) == IF i > pos /\ i <= pos + Len(b) THEN b[i - pos]
                   ELSE IF i <= Len(inner) THEN inner[i] ELSE Zero
<1>1. File!Over(b) = [i \in 1..m |-> e(i)]
  BY DEF File!Over, File!Greater, Max2
<1>2. m \in Nat /\ pos \in Nat /\ Len(b) \in Nat
  BY Here, LenProperties DEF Max2
<1>3. ASSUME NEW i \in 1..m PROVE e(i) \in Byte
  <2>1. CASE i > pos /\ i <= pos + Len(b)
    <3>1. i - pos \in 1..Len(b)
      BY <1>2, <2>1
    <3> QED
      BY <2>1, <3>1, ElementOfSeq
  <2>2. CASE ~(i > pos /\ i <= pos + Len(b)) /\ i <= Len(inner)
    <3>1. i \in 1..Len(inner) /\ inner \in Seq(Byte)
      BY <1>2, <2>2, Here
    <3> QED
      BY <2>2, <3>1, ElementOfSeq
  <2>3. CASE ~(i > pos /\ i <= pos + Len(b)) /\ ~(i <= Len(inner))
    BY <2>3, CursorAssumption
  <2> QED
    BY <2>1, <2>2, <2>3
<1> HIDE DEF m, e
<1>4. /\ [i \in 1..m |-> e(i)] \in Seq(Byte) /\ Len([i \in 1..m |-> e(i)]) = m
  <2>1. [i \in 1..m |-> e(i)] \in [1..m -> Byte]
    BY <1>3
  <2> QED
    BY <1>2, <2>1
<1> QED
  BY <1>1, <1>4 DEF m, e

-----------------------------------------------------------------------------
(* How far a write of k bytes at p reaches in a vector of length l. *)
LEMMA Extent ==
  ASSUME NEW l \in Nat, NEW p \in Nat, NEW k \in Nat
  PROVE  \E w, o \in Nat :
           /\ w = Max2(l, p) /\ o = Min2(k, w - p)
           /\ l <= w /\ p <= w /\ w - l \in Nat
           /\ o <= k /\ p + o <= w /\ k - o \in Nat
           /\ Max2(l, p + o) = w /\ Max2(l, p + k) = w + (k - o)
           /\ o = k \/ p + o = w
<1> DEFINE w == Max2(l, p)
           o == Min2(k, w - p)
<1>1. CASE l <= p
  <2>1. w = p /\ o = 0
    BY <1>1 DEF Max2, Min2
  <2> QED
    BY <1>1, <2>1 DEF Max2, Min2
<1>2. CASE l > p
  <2>1. w = l
    BY <1>2 DEF Max2
  <2>2. CASE k <= l - p
    <3>1. o = k
      BY <2>1, <2>2, <1>2 DEF Min2
    <3> QED
      BY <1>2, <2>1, <2>2, <3>1 DEF Max2
  <2>3. CASE k > l - p
    <3>1. o = l - p
      BY <2>1, <2>3, <1>2 DEF Min2
    <3> QED
      BY <1>2, <2>1, <2>3, <3>1 DEF Max2
  <2> QED
    BY <1>2, <2>2, <2>3
<1> QED
  BY <1>1, <1>2
(* The vector, up to the position at least: a gap holds zeros. *)
LEMMA PaddedIs ==
  ASSUME TypeOK, NEW w \in Nat, w = NewLen
  PROVE  /\ Padded \in Seq(Byte) /\ Len(Padded) = w
         /\ \A i \in 1..w : Padded[i] = IF i <= Len(inner) THEN inner[i] ELSE Zero
<1>1. PICK l \in Nat, p \in Nat : l = Len(inner) /\ p = pos
  BY Here
<1>2. w - l \in Nat /\ l <= w /\ l + (w - l) = w
  BY <1>1 DEF NewLen, Max2
<1>3. PICK z : z = Filled(w - l)
  OBVIOUS
<1>4. z \in Seq(Byte) /\ Len(z) = w - l /\ \A i \in 1..w - l : z[i] = Zero
  <2>1. z = [i \in 1..w - l |-> Zero] /\ Zero \in Byte
    BY <1>3, CursorAssumption DEF Filled
  <2> QED
    BY <1>2, <2>1
<1>5. inner \in Seq(Byte)
  BY Here
<1>6. /\ inner \o z \in Seq(Byte) /\ Len(inner \o z) = Len(inner) + Len(z)
      /\ \A i \in 1..Len(inner) : (inner \o z)[i] = inner[i]
      /\ \A i \in Len(inner) + 1..Len(inner) + Len(z) :
           (inner \o z)[i] = z[i - Len(inner)]
  BY <1>4, <1>5, Joined, Zenon
<1>7. PICK d : d = inner \o z
  OBVIOUS
<1>8. /\ d \in Seq(Byte) /\ Len(d) = w
      /\ \A i \in 1..l : d[i] = inner[i]
      /\ \A i \in l + 1..w : d[i] = z[i - l]
  BY <1>1, <1>2, <1>4, <1>6, <1>7, Zenon
<1>9. ASSUME NEW i \in 1..w PROVE d[i] = IF i <= l THEN inner[i] ELSE Zero
  <2>1. CASE i <= l
    BY <1>8, <2>1
  <2>2. CASE ~(i <= l)
    <3>1. i \in l + 1..w /\ i - l \in 1..w - l
      BY <2>2
    <3> QED
      BY <1>4, <1>8, <2>2, <3>1
  <2> QED
    BY <2>1, <2>2
<1>10. Padded = d
  BY <1>1, <1>3, <1>7 DEF Padded
<1> QED
  BY <1>1, <1>8, <1>9, <1>10, Zenon

(* vec_write splits what it is given into what lies within the vector and  *)
(* what comes after it.                                                    *)
LEMMA Pieces ==
  ASSUME TypeOK, NEW b \in Seq(Byte)
  PROVE  \E l, p, k, w, o \in Nat :
           /\ l = Len(inner) /\ p = pos /\ k = Len(b) /\ w = NewLen
           /\ Overwrite(b) = Take(o, b) /\ Fill(b) = Skip(o, b)
           /\ l <= w /\ p <= w
           /\ o <= k /\ p + o <= w /\ k - o \in Nat
           /\ Max2(l, p + o) = w /\ Max2(l, p + k) = w + (k - o)
           /\ o = k \/ p + o = w
<1>1. PICK l \in Nat, p \in Nat, k \in Nat : l = Len(inner) /\ p = pos /\ k = Len(b)
  BY Here, LenProperties
<1>2. PICK w \in Nat, o \in Nat :
           /\ w = Max2(l, p) /\ o = Min2(k, w - p)
           /\ l <= w /\ p <= w /\ w - l \in Nat
           /\ o <= k /\ p + o <= w /\ k - o \in Nat
           /\ Max2(l, p + o) = w /\ Max2(l, p + k) = w + (k - o)
           /\ o = k \/ p + o = w
  BY Extent
<1>3. w = NewLen
  BY <1>1, <1>2 DEF NewLen
<1>4. Overwrite(b) = Take(o, b) /\ Fill(b) = Skip(o, b)
  BY <1>1, <1>2, <1>3 DEF Overwrite, Fill
<1> WITNESS l \in Nat, p \in Nat, k \in Nat, w \in Nat, o \in Nat
<1> QED
  BY <1>1, <1>2, <1>3, <1>4, Zenon
(* What vec_write leaves: after its first half, and after all of it. *)
LEMMA VecWrites ==
  ASSUME TypeOK, NEW b \in Seq(Byte)
  PROVE  /\ \E j \in 0..Len(b) : Patched(b) = File!Over(SubSeq(b, 1, j))
         /\ Patched(b) \o Fill(b) = File!Over(b)
         /\ Patched(b) \in Seq(Byte) /\ Len(Patched(b)) = NewLen
         /\ File!Over(b) \in Seq(Byte)
         /\ NewLen + Len(Fill(b)) = Max2(Len(inner), pos + Len(b))
<1>1. PICK l \in Nat, p \in Nat, k \in Nat, w \in Nat, o \in Nat :
           /\ l = Len(inner) /\ p = pos /\ k = Len(b) /\ w = NewLen
           /\ Overwrite(b) = Take(o, b) /\ Fill(b) = Skip(o, b)
           /\ l <= w /\ p <= w
           /\ o <= k /\ p + o <= w /\ k - o \in Nat
           /\ Max2(l, p + o) = w /\ Max2(l, p + k) = w + (k - o)
           /\ o = k \/ p + o = w
  BY Pieces
<1>2. PICK v, f, d : v = Overwrite(b) /\ f = Fill(b) /\ d = Padded
  OBVIOUS
<1>3. o \in 0..Len(b)
  BY <1>1
<1>4. /\ v \in Seq(Byte) /\ f \in Seq(Byte) /\ Len(v) = o /\ Len(f) = k - o
      /\ \A i \in 1..o : v[i] = b[i]
      /\ \A i \in 1..k - o : f[i] = b[o + i]
  <2>1. /\ Take(o, b) \in Seq(Byte) /\ Skip(o, b) \in Seq(Byte)
        /\ Len(Take(o, b)) = o /\ Len(Skip(o, b)) = Len(b) - o
        /\ \A i \in 1..o : Take(o, b)[i] = b[i]
        /\ \A i \in 1..Len(b) - o : Skip(o, b)[i] = b[o + i]
    BY <1>3, Cut, Zenon
  <2>2. v = Take(o, b) /\ f = Skip(o, b) /\ Len(b) = k
    BY <1>1, <1>2
  <2> QED
    BY <2>1, <2>2, Zenon
<1>5. /\ d \in Seq(Byte) /\ Len(d) = w
      /\ \A i \in 1..w : d[i] = IF i <= l THEN inner[i] ELSE Zero
  BY <1>1, <1>2, PaddedIs, Zenon
<1>6. PICK r : r = Splice(p, v, d)
  OBVIOUS
<1>7. r = Patched(b)
  BY <1>1, <1>2, <1>6 DEF Patched, Splice
<1>8. /\ r \in Seq(Byte) /\ Len(r) = w
      /\ \A i \in 1..p : r[i] = d[i]
      /\ \A i \in p + 1..p + o : r[i] = v[i - p]
      /\ \A i \in p + o + 1..w : r[i] = d[i]
  <2>1. p \in Nat /\ p + Len(v) \in 0..Len(d)
    BY <1>1, <1>4, <1>5
  <2>2. d \in Seq(Byte) /\ v \in Seq(Byte)
    BY <1>4, <1>5
  <2>3. IsSplice(Splice(p, v, d), p, v, d)
    BY <2>1, <2>2, Replaced, Zenon
  <2> QED
    BY <1>4, <1>5, <1>6, <2>3, Zenon DEF IsSplice
<1>9. v = SubSeq(b, 1, o)
  BY <1>1, <1>2 DEF Take
<1>10. /\ File!Over(v) \in Seq(Byte) /\ Len(File!Over(v)) = w
       /\ \A i \in 1..w : File!Over(v)[i] =
            IF i > p /\ i <= p + o THEN v[i - p]
            ELSE IF i <= l THEN inner[i] ELSE Zero
  <2>1. v \in Seq(Byte)
    BY <1>4
  <2>2. /\ File!Over(v) \in Seq(Byte)
        /\ Len(File!Over(v)) = Max2(Len(inner), pos + Len(v))
        /\ \A i \in 1..Max2(Len(inner), pos + Len(v)) : File!Over(v)[i] =
             IF i > pos /\ i <= pos + Len(v) THEN v[i - pos]
             ELSE IF i <= Len(inner) THEN inner[i] ELSE Zero
    BY <2>1, OverIs, Zenon
  <2> QED
    BY <1>1, <1>4, <2>2, Zenon
<1>11. ASSUME NEW i \in 1..w
       PROVE  r[i] = IF i > p /\ i <= p + o THEN v[i - p]
                     ELSE IF i <= l THEN inner[i] ELSE Zero
  <2>1. CASE i <= p
    <3>1. i \in 1..p
      BY <2>1
    <3> QED
      BY <1>5, <1>8, <2>1, <3>1
  <2>2. CASE i > p /\ i <= p + o
    <3>1. i \in p + 1..p + o
      BY <2>2
    <3> QED
      BY <1>8, <2>2, <3>1
  <2>3. CASE i > p + o
    <3>1. i \in p + o + 1..w
      BY <2>3
    <3> QED
      BY <1>5, <1>8, <2>3, <3>1
  <2> QED
    BY <2>1, <2>2, <2>3
<1>12. r = File!Over(v)
  <2>1. \A i \in 1..w : r[i] = File!Over(v)[i]
    BY <1>10, <1>11, Zenon
  <2> QED
    BY <1>8, <1>10, <2>1, SeqEqual, Zenon
<1>13. PICK g : g = r \o f
  OBVIOUS
<1>14. /\ g \in Seq(Byte) /\ Len(g) = w + (k - o)
       /\ \A i \in 1..w : g[i] = r[i]
       /\ \A i \in w + 1..w + (k - o) : g[i] = f[i - w]
  <2>1. r \in Seq(Byte) /\ f \in Seq(Byte)
    BY <1>4, <1>8
  <2>2. /\ r \o f \in Seq(Byte) /\ Len(r \o f) = Len(r) + Len(f)
        /\ \A i \in 1..Len(r) : (r \o f)[i] = r[i]
        /\ \A i \in Len(r) + 1..Len(r) + Len(f) : (r \o f)[i] = f[i - Len(r)]
    BY <2>1, Joined, Zenon
  <2> QED
    BY <1>4, <1>8, <1>13, <2>2, Zenon
<1>15. /\ File!Over(b) \in Seq(Byte) /\ Len(File!Over(b)) = w + (k - o)
       /\ \A i \in 1..w + (k - o) : File!Over(b)[i] =
            IF i > p /\ i <= p + k THEN b[i - p]
            ELSE IF i <= l THEN inner[i] ELSE Zero
  <2>1. /\ File!Over(b) \in Seq(Byte)
        /\ Len(File!Over(b)) = Max2(Len(inner), pos + Len(b))
        /\ \A i \in 1..Max2(Len(inner), pos + Len(b)) : File!Over(b)[i] =
             IF i > pos /\ i <= pos + Len(b) THEN b[i - pos]
             ELSE IF i <= Len(inner) THEN inner[i] ELSE Zero
    BY OverIs, Zenon
  <2>2. /\ Len(inner) = l /\ pos = p /\ Len(b) = k
        /\ Max2(l, p + k) = w + (k - o)
    BY <1>1
  <2> QED
    BY <2>1, <2>2, Zenon
<1>16. ASSUME NEW i \in 1..w + (k - o)
       PROVE  g[i] = IF i > p /\ i <= p + k THEN b[i - p]
                     ELSE IF i <= l THEN inner[i] ELSE Zero
  <2>1. CASE i <= w
    <3>1. i \in 1..w
      BY <2>1
    <3>2. g[i] = IF i > p /\ i <= p + o THEN v[i - p]
                 ELSE IF i <= l THEN inner[i] ELSE Zero
      BY <1>11, <1>14, <3>1
    <3>3. CASE i > p /\ i <= p + o
      <4>1. i - p \in 1..o /\ i <= p + k
        BY <1>1, <3>3
      <4> QED
        BY <1>4, <3>2, <3>3, <4>1
    <3>4. CASE ~(i > p /\ i <= p + o)
      <4>1. ~(i > p /\ i <= p + k)
        BY <1>1, <2>1, <3>4
      <4> QED
        BY <3>2, <3>4, <4>1
    <3> QED
      BY <3>3, <3>4
  <2>2. CASE i > w
    <3>1. i \in w + 1..w + (k - o) /\ i - w \in 1..k - o
      BY <1>1, <2>2
    <3>2. p + o = w
      BY <1>1, <2>2
    <3>3. g[i] = b[o + (i - w)]
      BY <1>4, <1>14, <3>1
    <3>4. o + (i - w) = i - p /\ i > p /\ i <= p + k
      BY <1>1, <2>2, <3>2
    <3> QED
      BY <3>3, <3>4
  <2> QED
    BY <2>1, <2>2
<1>17. g = File!Over(b)
  <2>1. \A i \in 1..w + (k - o) : g[i] = File!Over(b)[i]
    BY <1>15, <1>16, Zenon
  <2> QED
    BY <1>14, <1>15, <2>1, SeqEqual, Zenon
<1>18. \E j \in 0..Len(b) : Patched(b) = File!Over(SubSeq(b, 1, j))
  BY <1>3, <1>7, <1>9, <1>12, Zenon
<1>19. Patched(b) \o Fill(b) = File!Over(b)
  BY <1>2, <1>7, <1>13, <1>17, Zenon
<1>20. NewLen + Len(Fill(b)) = Max2(Len(inner), pos + Len(b))
  BY <1>1, <1>2, <1>4, Zenon
<1> QED
  BY <1>1, <1>7, <1>8, <1>15, <1>18, <1>19, <1>20, Zenon
-----------------------------------------------------------------------------
(* Where a write of k bytes at p goes in a slice of l bytes. *)
LEMMA Room ==
  ASSUME NEW l \in Nat, NEW p \in Nat, NEW k \in Nat
  PROVE  \E q \in Nat :
           /\ q = Min2(p, l) /\ q \in 0..l
           /\ Min2(l - q, k) = k =>
                /\ q + k \in 0..l /\ k \in 0..l - q
                /\ \/ q = p /\ p + k <= l
                   \/ q = l /\ k = 0 /\ p > l
           /\ Min2(l - q, k) # k => p + k > l
<1>1. CASE p <= l
  BY <1>1 DEF Min2
<1>2. CASE p > l
  <2>1. Min2(p, l) = l /\ l - l = 0
    BY <1>2 DEF Min2
  <2>2. Min2(0, k) = k => k = 0
    BY DEF Min2
  <2> QED
    BY <1>2, <2>1, <2>2
<1> QED
  BY <1>1, <1>2

(* Cutting twice is cutting once, and joining is associative: what the     *)
(* slice holds after a write.                                              *)
LEMMA CutTwice ==
  ASSUME NEW s \in Seq(Byte), NEW q \in Nat, NEW k \in Nat,
         q + k \in 0..Len(s)
  PROVE  Skip(k, Skip(q, s)) = Skip(q + k, s)
<1>1. PICK l \in Nat : l = Len(s) /\ q + k <= l
  BY LenProperties
<1>2. q \in 0..Len(s)
  BY <1>1
<1>3. PICK t, u, r : t = Skip(q, s) /\ u = Skip(k, t) /\ r = Skip(q + k, s)
  OBVIOUS
<1>4. t \in Seq(Byte) /\ Len(t) = l - q /\ \A i \in 1..l - q : t[i] = s[q + i]
  BY <1>1, <1>2, <1>3, Cut
<1>5. /\ r \in Seq(Byte) /\ Len(r) = l - (q + k)
      /\ \A i \in 1..l - (q + k) : r[i] = s[(q + k) + i]
  BY <1>1, <1>3, Cut
<1>6. k \in 0..Len(t)
  BY <1>1, <1>4
<1>7. /\ u \in Seq(Byte) /\ Len(u) = (l - q) - k
      /\ \A i \in 1..(l - q) - k : u[i] = t[k + i]
  BY <1>3, <1>4, <1>6, Cut
<1>8. (l - q) - k = l - (q + k)
  OBVIOUS
<1>9. ASSUME NEW i \in 1..l - (q + k) PROVE u[i] = r[i]
  <2>1. k + i \in 1..l - q /\ q + (k + i) = (q + k) + i /\ i \in 1..(l - q) - k
    BY <1>1
  <2> QED
    BY <1>4, <1>5, <1>7, <2>1
<1>10. u = r
  BY <1>5, <1>7, <1>8, <1>9, SeqEqual
<1> QED
  BY <1>3, <1>10

LEMMA SliceWrites ==
  ASSUME TypeOK, NEW b \in Seq(Byte), ~WritePanics(Available, b)
  PROVE  \/ /\ pos + Len(b) <= Len(inner)
            /\ Take(Start, inner) \o WriteSlice(Available, b) = File!Over(b)
         \/ b = <<>> /\ Take(Start, inner) \o WriteSlice(Available, b) = inner
<1>1. PICK l \in Nat, p \in Nat, k \in Nat : l = Len(inner) /\ p = pos /\ k = Len(b)
  BY Here, LenProperties
<1>2. PICK q \in Nat :
           /\ q = Min2(p, l) /\ q \in 0..l
           /\ Min2(l - q, k) = k =>
                /\ q + k \in 0..l /\ k \in 0..l - q
                /\ \/ q = p /\ p + k <= l
                   \/ q = l /\ k = 0 /\ p > l
           /\ Min2(l - q, k) # k => p + k > l
  BY Room
<1>3. q = Start /\ inner \in Seq(Byte) /\ q \in 0..Len(inner)
  BY <1>1, <1>2, Here
<1>4. Len(Available) = l - q
  BY <1>1, <1>3, Cut DEF Available
<1>5. Min2(l - q, k) = k
  BY <1>1, <1>4 DEF WritePanics, WriteCount
<1>6. q + k \in 0..Len(inner)
  BY <1>1, <1>2, <1>5
<1>7. Skip(k, Available) = Skip(q + k, inner)
  BY <1>3, <1>6, CutTwice DEF Available
<1>8. Take(Start, inner) \o WriteSlice(Available, b) = Splice(q, b, inner)
  <2>1. /\ Take(q, inner) \in Seq(Byte) /\ Skip(q + k, inner) \in Seq(Byte)
    BY <1>3, <1>6, Cut
  <2>2. Take(q, inner) \o (b \o Skip(q + k, inner))
          = (Take(q, inner) \o b) \o Skip(q + k, inner)
    BY <2>1, ConcatAssociative
  <2> QED
    BY <1>1, <1>3, <1>7, <2>2 DEF WriteSlice, Splice
<1>9. PICK r : r = Splice(q, b, inner)
  OBVIOUS
<1>10. /\ r \in Seq(Byte) /\ Len(r) = l
       /\ \A i \in 1..q : r[i] = inner[i]
       /\ \A i \in q + 1..q + k : r[i] = b[i - q]
       /\ \A i \in q + k + 1..l : r[i] = inner[i]
  <2>1. IsSplice(Splice(q, b, inner), q, b, inner)
    <3>1. q \in Nat /\ q + Len(b) \in 0..Len(inner)
      BY <1>1, <1>6
    <3> QED
      BY <1>3, <3>1, Replaced, Zenon
  <2> QED
    BY <1>1, <1>9, <2>1, Zenon DEF IsSplice
<1>11. CASE q = p /\ p + k <= l
  <2>1. Max2(l, p + k) = l
    BY <1>11 DEF Max2
  <2>2. /\ File!Over(b) \in Seq(Byte) /\ Len(File!Over(b)) = l
        /\ \A i \in 1..l : File!Over(b)[i] =
             IF i > p /\ i <= p + k THEN b[i - p]
             ELSE IF i <= l THEN inner[i] ELSE Zero
    <3>1. /\ File!Over(b) \in Seq(Byte)
          /\ Len(File!Over(b)) = Max2(Len(inner), pos + Len(b))
          /\ \A i \in 1..Max2(Len(inner), pos + Len(b)) : File!Over(b)[i] =
               IF i > pos /\ i <= pos + Len(b) THEN b[i - pos]
               ELSE IF i <= Len(inner) THEN inner[i] ELSE Zero
      BY OverIs, Zenon
    <3>2. Len(inner) = l /\ pos = p /\ Len(b) = k
      BY <1>1
    <3> QED
      BY <2>1, <3>1, <3>2, Zenon
  <2>3. ASSUME NEW i \in 1..l PROVE r[i] = File!Over(b)[i]
    <3>1. CASE i <= p
      BY <1>10, <1>11, <2>2, <3>1
    <3>2. CASE i > p /\ i <= p + k
      BY <1>10, <1>11, <2>2, <3>2
    <3>3. CASE i > p + k
      BY <1>10, <1>11, <2>2, <3>3
    <3> QED
      BY <3>1, <3>2, <3>3
  <2>4. r = File!Over(b)
    BY <1>10, <2>2, <2>3, SeqEqual
  <2> QED
    BY <1>1, <1>8, <1>9, <1>11, <2>4
<1>12. CASE q = l /\ k = 0
  <2>1. \A i \in 1..l : r[i] = inner[i]
    BY <1>10, <1>12
  <2>2. r = inner
    BY <1>1, <1>3, <1>10, <2>1, SeqEqual
  <2>3. b = <<>>
    BY <1>1, <1>12, EmptySeq
  <2> QED
    BY <1>8, <1>9, <2>2, <2>3
<1> QED
  BY <1>2, <1>5, <1>11, <1>12

LEMMA PanicsOnlyWhenFull ==
  ASSUME TypeOK, NEW b \in Seq(Byte), WritePanics(Available, b)
  PROVE  pos + Len(b) > Len(inner)
<1>1. PICK l \in Nat, p \in Nat, k \in Nat : l = Len(inner) /\ p = pos /\ k = Len(b)
  BY Here, LenProperties
<1>2. PICK q \in Nat :
           /\ q = Min2(p, l) /\ q \in 0..l
           /\ Min2(l - q, k) = k =>
                /\ q + k \in 0..l /\ k \in 0..l - q
                /\ \/ q = p /\ p + k <= l
                   \/ q = l /\ k = 0 /\ p > l
           /\ Min2(l - q, k) # k => p + k > l
  BY Room
<1>3. Len(Available) = l - q
  BY <1>1, <1>2, Here, Cut DEF Available
<1> QED
  BY <1>1, <1>2, <1>3 DEF WritePanics, WriteCount
-----------------------------------------------------------------------------
(* Reading what is there is no overflow. *)
LEMMA NoOverflow ==
  ASSUME TypeOK, NEW n \in Nat
  PROVE  /\ Len(File!Ahead(n)) \in Nat
         /\ pos + Len(File!Ahead(n)) \in U64 /\ pos + Len(File!Ahead(n)) <= MaxU64
<1>1. PICK l \in Nat, p \in Nat, m \in Nat :
        l = Len(inner) /\ p = pos /\ m = MaxU64 /\ l <= m /\ p <= m
  BY Here, Widths
<1>2. Len(File!Ahead(n)) = Min2(n, Max2(l - p, 0))
  BY <1>1, AheadIs
<1>3. /\ Min2(n, Max2(l - p, 0)) \in Nat
      /\ p + Min2(n, Max2(l - p, 0)) <= m
  BY <1>1 DEF Min2, Max2
<1> QED
  BY <1>1, <1>2, <1>3 DEF U64

(* Every step, one operation after the other, keeps the types and is one   *)
(* of the file.                                                            *)
LEMMA ReadIs ==
  ASSUME TypeOK, NEW n \in 0..MaxCap + 1, Read(n)
  PROVE  TypeOK' /\ File!Next
<1>1. n \in Nat /\ n \in 0..MaxU64
  BY Widths
<1>2. PICK h : h = File!Ahead(n)
  OBVIOUS
<1>3. /\ Len(h) \in Nat /\ pos + Len(h) \in U64 /\ pos + Len(h) <= MaxU64
  BY <1>1, <1>2, NoOverflow
<1>4. ReadSlice(Available, n) = h
  BY <1>1, <1>2, AheadIs
<1>5. /\ UNCHANGED <<inner, kind>> /\ pos' = pos + Len(h)
      /\ ret' = Answer("read", n, h, "ok", Len(h))
  <2>1. Advance(Len(h), Answer("read", n, h, "ok", Len(h)))
    BY <1>4 DEF Read
  <2>2. ~(pos + Len(h) > MaxU64)
    BY <1>3, Widths, Here
  <2> QED
    BY <2>1, <2>2 DEF Advance
<1>6. File!Read(n)
  BY <1>2, <1>5 DEF File!Read, File!MoveTo, File!Answer, Answer
<1>7. TypeOK'
  BY <1>3, <1>5 DEF TypeOK, Answer
<1> QED
  BY <1>1, <1>6, <1>7 DEF File!Next

LEMMA ReadExactIs ==
  ASSUME TypeOK, NEW n \in 0..MaxCap + 1, ReadExact(n)
  PROVE  TypeOK' /\ File!Next
<1>1. n \in Nat /\ n \in 0..MaxU64
  BY Widths
<1>2. PICK h : h = File!Ahead(n)
  OBVIOUS
<1>3. /\ Len(h) \in Nat /\ pos + Len(h) \in U64 /\ pos + Len(h) <= MaxU64
  BY <1>1, <1>2, NoOverflow
<1>4. ReadSlice(Available, n) = h
  BY <1>1, <1>2, AheadIs
<1>5. CASE Len(h) = n
  <2>1. Advance(n, Answer("read_exact", n, h, "ok", 0))
    BY <1>4, <1>5 DEF ReadExact, ReadsExactly, AllRead
  <2>2. ~(pos + n > MaxU64)
    BY <1>3, <1>5, Widths, Here
  <2>3. /\ UNCHANGED <<inner, kind>> /\ pos' = pos + n
        /\ ret' = Answer("read_exact", n, h, "ok", 0)
    BY <2>1, <2>2 DEF Advance
  <2>4. File!ReadExact(n)
    BY <1>2, <1>5, <2>3 DEF File!ReadExact, File!MoveTo, File!Answer, Answer
  <2>5. TypeOK'
    BY <1>3, <1>5, <2>3 DEF TypeOK, Answer
  <2> QED
    BY <1>1, <2>4, <2>5 DEF File!Next
<1>6. CASE Len(h) # n
  <2>1. ret' = Answer("read_exact", n, <<>>, "UnexpectedEof", 0) /\ Unmoved
    BY <1>4, <1>6 DEF ReadExact, ReadsExactly, EndReached
  <2>2. File!ReadExact(n)
    BY <1>2, <1>6, <2>1 DEF File!ReadExact, File!Still, File!Answer, Answer, Unmoved
  <2>3. TypeOK'
    BY <2>1 DEF TypeOK, Unmoved, Answer
  <2> QED
    BY <1>1, <2>2, <2>3 DEF File!Next
<1> QED
  BY <1>5, <1>6

(* All there is to look at. *)
LEMMA AllAhead ==
  ASSUME TypeOK
  PROVE  Available = File!Ahead(Len(inner))
<1>0. PICK a : a = Available
  OBVIOUS
<1>1. PICK l \in Nat : a = Available /\ l = Len(inner)
  BY <1>0, Here
<1>2. a \in Seq(Byte) /\ Len(a) \in Nat /\ Len(a) <= l
  BY <1>1, Here, Cut DEF Available
<1>3. ReadSlice(a, l) = a
  <2>1. Min2(Len(a), l) = Len(a)
    BY <1>2 DEF Min2
  <2> QED
    BY <1>2, <2>1 DEF ReadSlice, Take
<1>4. ReadSlice(Available, l) = File!Ahead(l)
  BY AheadIs
<1> QED
  BY <1>1, <1>3, <1>4

LEMMA FillBufIs ==
  ASSUME TypeOK, FillBuf
  PROVE  TypeOK' /\ File!Next
<1>1. File!Look
  BY AllAhead DEF FillBuf, Unmoved, Answer, File!Look, File!Still, File!Answer
<1>2. TypeOK'
  BY DEF TypeOK, FillBuf, Unmoved, Answer
<1> QED
  BY <1>1, <1>2 DEF File!Next

LEMMA ConsumeIs ==
  ASSUME TypeOK, NEW amt \in 0..MaxUsize, Consume(amt)
  PROVE  TypeOK' /\ File!Next
<1>1. amt \in Nat /\ amt \in 0..MaxU64
  BY Widths
<1>2. UNCHANGED <<inner, kind>>
  BY DEF Consume, Advance
<1>3. CASE pos + amt <= MaxU64 /\ pos' = pos + amt
                /\ ret' = Answer("consume", amt, <<>>, "ok", 0)
  <2>1. File!Pass(amt)
    BY <1>2, <1>3 DEF File!Pass, File!MoveTo, File!Answer, Answer
  <2>2. pos' \in U64
    BY <1>1, <1>3, Here DEF U64
  <2>3. TypeOK'
    BY <1>2, <1>3, <2>2 DEF TypeOK, Answer
  <2> QED
    BY <1>1, <2>1, <2>3 DEF File!Next
<1>4. ASSUME pos + amt > MaxU64
      PROVE  amt > Len(File!Ahead(Len(inner)))
  <2>1. PICK h \in Nat : h = Len(File!Ahead(Len(inner))) /\ pos + h <= MaxU64
    BY Here, NoOverflow
  <2> QED
    BY <1>1, <1>4, <2>1, Here, Widths
<1>5. CASE pos + amt > MaxU64 /\ pos' = pos
             /\ ret' = Answer("consume", amt, <<>>, "panic", 0)
  <2>1. File!Pass(amt)
    BY <1>2, <1>4, <1>5 DEF File!Pass, File!Still, File!Answer, Answer
  <2>2. TypeOK'
    BY <1>2, <1>5 DEF TypeOK, Answer
  <2> QED
    BY <1>1, <2>1, <2>2 DEF File!Next
<1>6. CASE pos + amt > MaxU64 /\ pos' = (pos + amt) % (MaxU64 + 1)
             /\ ret' = Answer("consume", amt, <<>>, "ok", 0)
  <2>1. pos' \in 0..MaxU64
    <3>1. pos + amt \in Nat /\ MaxU64 \in Nat
      BY <1>1, Here, Widths
    <3> QED
      BY <1>6, <3>1, ModRange
  <2>2. File!Pass(amt)
    BY <1>2, <1>4, <1>6, <2>1 DEF File!Pass, File!MoveTo, File!Answer, Answer
  <2>3. TypeOK'
    BY <1>2, <1>6, <2>1 DEF TypeOK, Answer, U64
  <2> QED
    BY <1>1, <2>2, <2>3 DEF File!Next
<1>7. PICK answer : answer = Answer("consume", amt, <<>>, "ok", 0)
  OBVIOUS
<1>8. Answer(answer.op, answer.arg, answer.data, "panic", 0)
        = Answer("consume", amt, <<>>, "panic", 0)
  BY <1>7 DEF Answer
<1> QED
  BY <1>3, <1>5, <1>6, <1>7, <1>8 DEF Consume, Advance
LEMMA Fitting ==
  ASSUME NEW l \in Nat, NEW p \in Nat, NEW k \in Nat, NEW m \in Nat, l <= m
  PROVE  Max2(l, p + k) <= m <=> p + k <= m
BY DEF Max2

LEMMA BufferIs ==
  ASSUME NEW b \in Buffers
  PROVE  b \in Seq(Byte) /\ Len(b) \in Nat
BY Widths

LEMMA WriteToSliceIs ==
  ASSUME TypeOK, NEW b \in Buffers, WriteToSlice(b)
  PROVE  TypeOK' /\ File!Next
<1>0. b \in Seq(Byte) /\ Len(b) \in Nat
  BY BufferIs
<1>1. /\ kind = "slice" /\ ~WritePanics(Available, b)
      /\ inner' = Take(Start, inner) \o WriteSlice(Available, b)
      /\ pos' = pos + Len(b) /\ ret' = Written(b) /\ UNCHANGED kind
  BY DEF WriteToSlice
<1>2. CASE pos + Len(b) <= Len(inner) /\ inner' = File!Over(b)
  <2>1. File!Write(b)
    BY <1>1, <1>2 DEF File!Write, File!Fits, File!Answer, Written, Answer
  <2>2. inner' \in Seq(Byte) /\ Len(inner') = Len(inner)
    <3>1. Max2(Len(inner), pos + Len(b)) = Len(inner)
      BY <1>0, <1>2, Here DEF Max2
    <3> QED
      BY <1>0, <1>2, <3>1, OverIs
  <2>3. pos' \in U64
    BY <1>0, <1>1, <1>2, Here, Widths DEF U64
  <2>4. TypeOK'
    BY <1>1, <2>2, <2>3, Here DEF TypeOK, Written, Answer
  <2> QED
    BY <2>1, <2>4 DEF File!Next
<1>3. CASE b = <<>> /\ inner' = inner
  <2>1. pos' = pos
    BY <1>1, <1>3, Here
  <2>2. File!Write(b)
    BY <1>1, <1>3, <2>1 DEF File!Write, File!Answer, Written, Answer
  <2>3. TypeOK'
    BY <1>1, <1>3, <2>1 DEF TypeOK, Written, Answer
  <2> QED
    BY <2>2, <2>3 DEF File!Next
<1> QED
  BY <1>0, <1>1, <1>2, <1>3, SliceWrites

LEMMA SliceWritePanicsIs ==
  ASSUME TypeOK, NEW b \in Buffers, SliceWritePanics(b)
  PROVE  TypeOK' /\ File!Next
<1>1. kind = "slice" /\ ret' = Unwritten(b, "panic") /\ Unmoved
  BY DEF SliceWritePanics
<1>2. pos + Len(b) > Len(inner)
  BY BufferIs, PanicsOnlyWhenFull DEF SliceWritePanics
<1>3. ~File!Fits(b)
  <2>1. Len(b) \in Nat /\ pos \in Nat /\ Len(inner) \in Nat
    BY BufferIs, Here
  <2> QED
    BY <1>1, <1>2, <2>1 DEF File!Fits
<1>4. File!WriteFails(b)
  BY <1>1, <1>3
  DEF File!WriteFails, File!Answer, Unwritten, Answer, Unmoved
<1>5. TypeOK'
  BY <1>1 DEF TypeOK, Unwritten, Answer, Unmoved
<1> QED
  BY <1>4, <1>5 DEF File!Next

LEMMA WriteTooFarIs ==
  ASSUME TypeOK, NEW b \in Buffers, WriteTooFar(b)
  PROVE  TypeOK' /\ File!Next
<1>1. /\ kind = "vec" /\ pos > MaxUsize
      /\ ret' = Unwritten(b, "InvalidInput") /\ Unmoved
  BY DEF WriteTooFar
<1>2. ~File!Fits(b)
  <2>1. Len(b) \in Nat /\ pos \in Nat
    BY BufferIs, Here
  <2>2. ~(pos + Len(b) <= MaxCap)
    BY <1>1, <2>1, Widths
  <2> QED
    BY <1>1, <2>2 DEF File!Fits
<1>3. File!WriteFails(b)
  BY <1>1, <1>2
  DEF File!WriteFails, File!Still, File!Answer, Unwritten, Answer, Unmoved
<1>4. TypeOK'
  BY <1>1 DEF TypeOK, Unwritten, Answer, Unmoved
<1> QED
  BY <1>3, <1>4 DEF File!Next

LEMMA PaddingFailsIs ==
  ASSUME TypeOK, NEW b \in Buffers, PaddingFails(b)
  PROVE  TypeOK' /\ File!Next
<1>1. /\ kind = "vec" /\ NewLen > MaxCap
      /\ ret' = Unwritten(b, "panic") /\ Unmoved
  BY DEF PaddingFails
<1>2. ~File!Fits(b)
  <2>1. /\ Len(b) \in Nat /\ pos \in Nat /\ Len(inner) \in Nat
        /\ MaxCap \in Nat /\ Len(inner) <= MaxCap
    BY BufferIs, Here, Widths
  <2>2. ~(pos <= MaxCap)
    BY <1>1, <2>1 DEF NewLen, Max2
  <2>3. ~(pos + Len(b) <= MaxCap)
    BY <2>1, <2>2
  <2> QED
    BY <1>1, <2>3 DEF File!Fits
<1>3. File!WriteFails(b)
  BY <1>1, <1>2
  DEF File!WriteFails, File!Answer, Unwritten, Answer, Unmoved
<1>4. TypeOK'
  BY <1>1 DEF TypeOK, Unwritten, Answer, Unmoved
<1> QED
  BY <1>3, <1>4 DEF File!Next

LEMMA ExtendFailsIs ==
  ASSUME TypeOK, NEW b \in Buffers, ExtendFails(b)
  PROVE  TypeOK' /\ File!Next
<1>0. b \in Seq(Byte) /\ Len(b) \in Nat
  BY BufferIs
<1>1. /\ kind = "vec" /\ NewLen <= MaxCap /\ NewLen + Len(Fill(b)) > MaxCap
      /\ inner' = Patched(b) /\ ret' = Unwritten(b, "panic")
      /\ UNCHANGED <<kind, pos>>
  BY DEF ExtendFails
<1>2. /\ \E j \in 0..Len(b) : Patched(b) = File!Over(SubSeq(b, 1, j))
      /\ Patched(b) \in Seq(Byte) /\ Len(Patched(b)) = NewLen
      /\ NewLen + Len(Fill(b)) = Max2(Len(inner), pos + Len(b))
  BY <1>0, VecWrites
<1>3. ~File!Fits(b)
  <2>1. ~(Max2(Len(inner), pos + Len(b)) <= MaxCap)
    <3>1. Max2(Len(inner), pos + Len(b)) \in Nat /\ MaxCap \in Nat
      BY <1>0, Here, Widths DEF Max2
    <3> QED
      BY <1>1, <1>2, <3>1
  <2>2. ~(pos + Len(b) <= MaxCap)
    BY <1>0, <2>1, Here, Widths, Fitting
  <2> QED
    BY <1>1, <2>2 DEF File!Fits
<1>4. File!WriteFails(b)
  BY <1>1, <1>2, <1>3
  DEF File!WriteFails, File!Answer, Unwritten, Answer
<1>5. TypeOK'
  BY <1>1, <1>2 DEF TypeOK, Unwritten, Answer
<1> QED
  BY <1>4, <1>5 DEF File!Next

LEMMA WriteToVecIs ==
  ASSUME TypeOK, NEW b \in Buffers, WriteToVec(b)
  PROVE  TypeOK' /\ File!Next
<1>0. b \in Seq(Byte) /\ Len(b) \in Nat
  BY BufferIs
<1>1. /\ kind = "vec" /\ NewLen + Len(Fill(b)) <= MaxCap
      /\ inner' = Patched(b) \o Fill(b)
      /\ pos' = pos + Len(b) /\ ret' = Written(b) /\ UNCHANGED kind
  BY DEF WriteToVec
<1>2. /\ Patched(b) \o Fill(b) = File!Over(b)
      /\ File!Over(b) \in Seq(Byte)
      /\ NewLen + Len(Fill(b)) = Max2(Len(inner), pos + Len(b))
  BY <1>0, VecWrites
<1>3. Len(File!Over(b)) = Max2(Len(inner), pos + Len(b))
  BY <1>0, OverIs
<1>4. pos + Len(b) <= MaxCap
  BY <1>0, <1>1, <1>2, Here, Widths, Fitting
<1>5. File!Write(b)
  BY <1>1, <1>2, <1>4 DEF File!Write, File!Fits, File!Answer, Written, Answer
<1>6. pos' \in U64
  BY <1>0, <1>1, <1>4, Here, Widths DEF U64
<1>7. TypeOK'
  BY <1>1, <1>2, <1>3, <1>6 DEF TypeOK, Written, Answer
<1> QED
  BY <1>5, <1>7 DEF File!Next

LEMMA SeekIs ==
  ASSUME TypeOK, NEW op, NEW base \in U64, NEW offset \in I64,
         Seek(op, base, offset)
  PROVE  TypeOK' /\ File!Seek(op, base, offset)
<1>1. NewPos(base, offset) = IF base + offset \in U64 THEN {base + offset} ELSE {}
  BY NewPosExact
<1>2. CASE base + offset \in U64
  <2>1. /\ pos' = base + offset
        /\ ret' = Answer(op, offset, <<>>, "ok", base + offset)
        /\ UNCHANGED <<inner, kind>>
    BY <1>1, <1>2 DEF Seek
  <2>2. File!Seek(op, base, offset)
    BY <1>2, <2>1 DEF File!Seek, File!MoveTo, File!Answer, Answer, U64
  <2>3. TypeOK'
    BY <1>2, <2>1 DEF TypeOK, Answer
  <2> QED
    BY <2>2, <2>3
<1>3. CASE ~(base + offset \in U64)
  <2>1. ret' = Answer(op, offset, <<>>, "InvalidInput", 0) /\ Unmoved
    BY <1>1, <1>3 DEF Seek
  <2>2. File!Seek(op, base, offset)
    BY <1>3, <2>1 DEF File!Seek, File!Still, File!Answer, Answer, U64, Unmoved
  <2>3. TypeOK'
    BY <2>1 DEF TypeOK, Answer, Unmoved
  <2> QED
    BY <2>2, <2>3
<1> QED
  BY <1>2, <1>3

LEMMA SeekStepIs ==
  ASSUME TypeOK, SeekStep
  PROVE  TypeOK' /\ File!Next
<1>1. Len(inner) \in U64 /\ pos \in U64
  BY Here, Widths DEF U64
<1>2. ASSUME NEW offset \in I64, SeekEnd(offset) \/ SeekCurrent(offset)
      PROVE  TypeOK' /\ File!Next
  <2>1. offset \in -(MaxU64 + 1)..MaxU64
    BY Widths DEF I64
  <2>2. CASE SeekEnd(offset)
    BY <1>1, <2>1, <2>2, SeekIs DEF SeekEnd, File!Next
  <2>3. CASE SeekCurrent(offset)
    BY <1>1, <2>1, <2>3, SeekIs DEF SeekCurrent, File!Next
  <2> QED
    BY <1>2, <2>2, <2>3
<1>3. ASSUME NEW n \in U64, SetPosition(n)
      PROVE  TypeOK' /\ File!Next
  <2>1. File!SetPosition(n)
    BY <1>3 DEF SetPosition, File!SetPosition, File!MoveTo, File!Answer, Answer
  <2>2. TypeOK'
    BY <1>3 DEF TypeOK, SetPosition, Answer
  <2> QED
    BY <2>1, <2>2 DEF File!Next, U64
<1> QED
  BY <1>2, <1>3 DEF SeekStep

LEMMA GetMutIs ==
  ASSUME TypeOK, NEW c \in Contents, GetMut(c)
  PROVE  TypeOK' /\ File!Next
<1>1. c \in Seq(Byte) /\ Len(c) <= MaxCap
  BY Widths
<1>2. File!Replace(c)
  BY DEF GetMut, File!Replace, File!Answer, Answer
<1>3. TypeOK'
  BY <1>1 DEF TypeOK, GetMut, Answer
<1> QED
  BY <1>2, <1>3 DEF File!Next

LEMMA StepIs ==
  ASSUME TypeOK, Next
  PROVE  TypeOK' /\ File!Next
<1>1. CASE ReadStep
  BY <1>1, ReadIs, ReadExactIs DEF ReadStep
<1>2. CASE BufStep
  BY <1>2, FillBufIs, ConsumeIs DEF BufStep
<1>3. CASE WriteStep
  BY <1>3, WriteToSliceIs, SliceWritePanicsIs, WriteTooFarIs, PaddingFailsIs,
     ExtendFailsIs, WriteToVecIs DEF WriteStep
<1>4. CASE SeekStep
  BY <1>4, SeekStepIs
<1>5. CASE \E c \in Contents : GetMut(c)
  BY <1>5, GetMutIs
<1> QED
  BY <1>1, <1>2, <1>3, <1>4, <1>5 DEF Next

LEMMA InitIs ==
  ASSUME Init
  PROVE  TypeOK /\ File!Init
<1>1. inner \in Seq(Byte) /\ Len(inner) <= MaxCap
  BY Widths DEF Init
<1>2. 0 \in U64
  BY Widths DEF U64
<1> QED
  BY <1>1, <1>2 DEF Init, TypeOK, Answer, File!Init, File!Answer

(* The bytes fit into what the allocator gives, the position into a u64    *)
(* (impls_always.rs:4-76, impls_alloc.rs:159-171).                         *)
THEOREM Typed == Spec => []TypeOK
<1>1. TypeOK /\ [Next]_vars => TypeOK'
  <2>1. ASSUME TypeOK, UNCHANGED vars PROVE TypeOK'
    BY <2>1 DEF TypeOK, vars
  <2> QED
    BY <2>1, StepIs
<1> QED
  BY <1>1, InitIs, PTL DEF Spec

(* A cursor over a vector or a slice implements a file: what is read is    *)
(* what was written there, gaps are zeros, a write that fails leaves a     *)
(* prefix, seeks are exact (impls_always.rs:4-76, impls_alloc.rs:159-171). *)
THEOREM Implements == Spec => IsAFile
<1>1. TypeOK /\ [Next]_vars => [File!Next]_File!fileVars
  <2>1. ASSUME UNCHANGED vars PROVE UNCHANGED File!fileVars
    BY <2>1 DEF vars, File!fileVars
  <2> QED
    BY <2>1, StepIs
<1>2. Init => File!Init
  BY InitIs
<1> QED
  BY <1>1, <1>2, Typed, PTL DEF Spec, IsAFile, File!Spec
(* What a write to the file keeps: all that is before the position. *)
LEMMA OverKeeps ==
  ASSUME TypeOK, NEW b \in Seq(Byte), NEW i \in 1..Len(inner), i <= pos
  PROVE  File!Over(b)[i] = inner[i]
<1>1. PICK l \in Nat, p \in Nat, k \in Nat : l = Len(inner) /\ p = pos /\ k = Len(b)
  BY Here, LenProperties
<1>2. i \in 1..Max2(l, p + k) /\ ~(i > p) /\ i <= l
  BY <1>1 DEF Max2
<1>3. File!Over(b)[i] = IF i > pos /\ i <= pos + Len(b) THEN b[i - pos]
                        ELSE IF i <= Len(inner) THEN inner[i] ELSE Zero
  BY <1>1, <1>2, OverIs
<1> QED
  BY <1>1, <1>2, <1>3

(* A call that fails has moved nothing, and changed nothing before the     *)
(* position: a write that ran out of memory can be made again              *)
(* (impls_alloc.rs:159-171, impls_always.rs:17-20).                        *)
THEOREM Repeatable == Spec => FailureCanBeRepeated
<1> DEFINE Kept == /\ pos' = pos
                   /\ \A i \in 1..Len(inner) : i <= pos => inner'[i] = inner[i]
<1>1. ASSUME TypeOK, Next, ret'.out # "ok"
      PROVE  Kept
  <2>1. ASSUME NEW b \in Buffers, File!WriteFails(b)
        PROVE  Kept
    <3>1. pos' = pos
      BY <2>1 DEF File!WriteFails, File!Still
    <3>2. CASE inner' = inner
      BY <3>1, <3>2
    <3>3. ASSUME NEW k \in 0..Len(b), inner' = File!Over(SubSeq(b, 1, k))
          PROVE  Kept
      <4>1. SubSeq(b, 1, k) \in Seq(Byte)
        <5>1. b \in Seq(Byte)
          BY BufferIs
        <5> QED
          BY <5>1, Cut DEF Take
      <4> QED
        BY <1>1, <3>1, <3>3, <4>1, OverKeeps
    <3> QED
      BY <2>1, <3>2, <3>3 DEF File!WriteFails, File!Still
  <2>2. ASSUME NEW n \in 0..MaxU64,
               File!Read(n) \/ File!ReadExact(n) \/ File!Pass(n) \/ File!SetPosition(n)
        PROVE  Kept
    BY <1>1, <2>2
    DEF File!Read, File!ReadExact, File!Pass, File!SetPosition, File!Still, File!Answer
  <2>3. CASE File!Look
    BY <2>3 DEF File!Look, File!Still
  <2>4. ASSUME NEW b \in Buffers, File!Write(b)
        PROVE  Kept
    BY <1>1, <2>4 DEF File!Write, File!Answer
  <2>5. ASSUME NEW op, NEW base, NEW offset, File!Seek(op, base, offset)
        PROVE  Kept
    BY <1>1, <2>5 DEF File!Seek, File!Still, File!Answer
  <2>6. ASSUME NEW c \in Contents, File!Replace(c)
        PROVE  Kept
    BY <1>1, <2>6 DEF File!Replace, File!Answer
  <2>7. File!Next
    BY <1>1, StepIs
  <2> QED
    BY <2>1, <2>2, <2>3, <2>4, <2>5, <2>6, <2>7 DEF File!Next
<1>2. TypeOK /\ [Next]_vars =>
        [ret'.out # "ok" =>
           /\ pos' = pos
           /\ \A i \in 1..Len(inner) : i <= pos => inner'[i] = inner[i]]_vars
  BY <1>1
<1> QED
  BY <1>2, Typed, PTL DEF Spec, FailureCanBeRepeated
=============================================================================
