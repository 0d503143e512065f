-------------------------- MODULE ReadToEnd_proofs --------------------------
(***************************************************************************)
(* Proofs about ReadToEnd and ReadToString, for every vector, source,      *)
(* amount of room asked for at a time and capacity.  That the reader is    *)
(* never asked with an empty slice needs to know how long the vector is at *)
(* every point of the loop, and that the real part is what was given needs *)
(* to know how far the reader is with its source.                          *)
(***************************************************************************)
EXTENDS ReadToString, Slices_proofs

Cell == Byte \cup {Zero, Junk}

given == len - Len(Initial)

(* The vector's length, between what is real and what is allocated. *)
Shape ==
  /\ Len(Initial) <= len /\ len <= Len(vec)
  /\ pc # "end" => Len(vec) <= cap /\ rres = "run"
  /\ pc = "read" => len < Len(vec)
  /\ pc = "end" => Len(vec) = len
  /\ rres = "ok" => count = len - Len(Initial)

(* The real part and the reader's rest are the two halves of the whole. *)
Halves ==
  /\ given <= Len(Source)
  /\ Take(len, vec) = Initial \o Take(given, Source)
  /\ rres # "panic" => src = Skip(given, Source)

IInv == TypeOK /\ Shape /\ Halves

-----------------------------------------------------------------------------
LEMMA Assoc ==
  ASSUME NEW s \in Seq(Byte), NEW t \in Seq(Byte), NEW u \in Seq(Byte)
  PROVE  (s \o t) \o u = s \o (t \o u)
BY ConcatAssociative

LEMMA Typing ==
  /\ Initial \in Seq(Byte) /\ Source \in Seq(Byte)
  /\ Len(Initial) \in Nat /\ Len(Source) \in Nat
  /\ Len(Initial) <= MaxCap /\ MaxCap \in Nat
  /\ Seq(Byte) \subseteq Seq(Cell)
<1>1. Initial \in Seq(Byte) /\ Source \in Seq(Byte)
  BY ReadToEndAssumption
<1>2. Seq(Byte) \subseteq Seq(Cell)
  BY DEF Cell
<1> QED
  BY <1>1, <1>2, LenProperties, ReadToEndAssumption

LEMMA InitIInv == Init => IInv
<1> SUFFICES ASSUME Init PROVE IInv
  OBVIOUS
<1> USE Typing DEF Init
<1>1. TypeOK
  BY DEF TypeOK, Cell
<1>2. Shape
  BY DEF Shape
<1>3. Halves
  <2>1. given = 0 /\ 0 \in 0..Len(Source)
    BY DEF given
  <2>2. Take(len, vec) = Initial
    BY SubSeqFull, Zenon DEF Take
  <2>3. Take(0, Source) = <<>> /\ Skip(0, Source) = Source
    BY SubSeqFull, SubSeqEmpty DEF Take, Skip
  <2>4. Initial \o <<>> = Initial
    BY ConcatEmptySeq
  <2> QED
    BY <2>1, <2>2, <2>3, <2>4 DEF Halves
<1> QED
  BY <1>1, <1>2, <1>3 DEF IInv

(* Every exit leaves the real part, and nothing else. *)
LEMMA LeaveIInv ==
  ASSUME IInv, pc # "end", NEW r, r \in {"ok", "panic"} \cup ErrorKind, Leave(r),
         r # "panic" => src' = src,
         src' \in Seq(Byte), count' \in Nat,
         r = "ok" => count' = len - Len(Initial)
  PROVE  IInv'
<1> USE Typing
<1>1. /\ vec \in Seq(Cell) /\ len \in Nat /\ len <= Len(vec)
      /\ len \in 0..Len(vec) /\ Len(Initial) <= len
  <2>1. vec \in Seq(Cell) /\ len \in Nat /\ len <= Len(vec) /\ Len(vec) \in Nat
    BY LenProperties DEF IInv, TypeOK, Shape, Cell
  <2> QED
    BY <2>1 DEF IInv, Shape
<1>2. vec' = Take(len, vec) /\ len' = len /\ cap' = cap /\ pc' = "end" /\ rres' = r
  BY DEF Leave
<1>3. vec' \in Seq(Cell) /\ Len(vec') = len
  BY <1>1, <1>2, Cut
<1>4. TypeOK'
  BY <1>2, <1>3 DEF IInv, TypeOK, Cell
<1>5. Shape'
  BY <1>1, <1>2, <1>3 DEF Shape
<1>6. Take(len', vec') = Take(len, vec)
  BY <1>2, <1>3, SubSeqFull, Zenon DEF Take
<1>7. given' = given
  BY <1>2 DEF given
<1>8. Halves'
  <2>1. rres = "run"
    BY DEF IInv, Shape
  <2>2. src = Skip(given, Source)
    BY <2>1 DEF IInv, Halves
  <2> QED
    BY <1>2, <1>6, <1>7, <2>2 DEF IInv, Halves
<1> QED
  BY <1>4, <1>5, <1>8 DEF IInv

LEMMA FilledLen ==
  ASSUME NEW b \in Cell, NEW n \in Nat
  PROVE  Filled(b, n) \in Seq(Cell) /\ Len(Filled(b, n)) = n
BY DEF Filled

(* What the reader may do to the room keeps the real part. *)
LEMMA WrittenKeeps ==
  ASSUME IInv, pc = "read",
         NEW g \in Seq(Byte), Len(g) <= Room, NEW v \in Written(g)
  PROVE  /\ v \in Seq(Cell) /\ Len(v) = Len(vec)
         /\ Take(len + Len(g), v) = Take(len, vec) \o g
<1> DEFINE real == Take(len, vec)
           rest == Room - Len(g)
           head == real \o g
<1>1. /\ vec \in Seq(Cell) /\ len \in Nat /\ Len(vec) \in Nat /\ len <= Len(vec)
      /\ len \in 0..Len(vec)
  <2>1. vec \in Seq(Cell) /\ len \in Nat /\ Len(vec) \in Nat /\ len <= Len(vec)
    BY LenProperties DEF IInv, TypeOK, Shape, Cell
  <2> QED
    BY <2>1
<1>2. g \in Seq(Cell) /\ Len(g) \in Nat
  BY Typing, LenProperties
<1>3. real \in Seq(Cell) /\ Len(real) = len
  BY <1>1, Cut
<1> HIDE DEF real
<1>4. head \in Seq(Cell) /\ Len(head) = len + Len(g)
  BY <1>2, <1>3, ConcatProperties
<1> HIDE DEF head
<1>5. /\ rest \in Nat /\ Len(vec) = len + Len(g) + rest
      /\ len + Len(g) \in 0..Len(vec) /\ Len(vec) - (len + Len(g)) = rest
  BY <1>1, <1>2 DEF Room
<1>6. PICK tail \in {Skip(len + Len(g), vec), Filled(Junk, rest)} :
        v = head \o tail
  BY DEF Written, head, real
<1> HIDE DEF rest
<1>7. tail \in Seq(Cell) /\ Len(tail) = rest
  <2>1. CASE tail = Skip(len + Len(g), vec)
    BY <2>1, <1>1, <1>5, Cut
  <2>2. CASE tail = Filled(Junk, rest)
    BY <2>2, <1>5, FilledLen DEF Cell
  <2> QED
    BY <1>6, <2>1, <2>2
<1>8. v \in Seq(Cell) /\ Len(v) = Len(head) + Len(tail)
  BY <1>4, <1>6, <1>7, ConcatProperties
<1>9. Len(v) = Len(vec)
  BY <1>4, <1>5, <1>7, <1>8, <1>1, <1>2
<1>10. Take(Len(head), v) = head
  BY <1>4, <1>6, <1>7, TakeFirst
<1> QED
  BY <1>4, <1>8, <1>9, <1>10 DEF head, real

LEMMA GrowIInv ==
  ASSUME IInv, NEW c, Grow(c)
  PROVE  IInv'
<1> USE Typing
<1>1. /\ vec \in Seq(Cell) /\ len \in Nat /\ Len(vec) = len /\ rres = "run"
      /\ Len(Initial) <= len
  BY DEF IInv, TypeOK, Shape, Cell, Grow
<1>2. c \in Nat /\ c <= MaxCap /\ len < c /\ c - len \in Nat
  BY <1>1, ReadToEndAssumption DEF Grow
<1>3. /\ Filled(Zero, c - len) \in Seq(Cell)
      /\ Len(Filled(Zero, c - len)) = c - len
  BY <1>2, FilledLen DEF Cell
<1>4. vec' = vec \o Filled(Zero, c - len) /\ cap' = c /\ pc' = "read"
  BY DEF Grow
<1>5. UNCHANGED <<len, src, rres, count>>
  BY DEF Grow
<1>6. vec' \in Seq(Cell) /\ Len(vec') = len + (c - len)
  BY <1>1, <1>3, <1>4, ConcatProperties
<1>7. Len(vec') = c
  BY <1>1, <1>2, <1>6
<1>8. Take(len, vec') = Take(len, vec)
  <2>1. Take(Len(vec), vec \o Filled(Zero, c - len)) = vec
    BY <1>1, <1>3, TakeFirst
  <2>2. Take(Len(vec), vec) = vec
    BY <1>1, SubSeqFull, Zenon DEF Take
  <2> QED
    BY <2>1, <2>2, <1>1, <1>4
<1>9. TypeOK'
  BY <1>2, <1>4, <1>5, <1>6 DEF IInv, TypeOK, Cell
<1>10. Shape'
  BY <1>1, <1>2, <1>4, <1>5, <1>7 DEF Shape
<1>11. Halves'
  <2>1. given' = given
    BY <1>5 DEF given
  <2> QED
    BY <2>1, <1>5, <1>8 DEF IInv, Halves
<1> QED
  BY <1>9, <1>10, <1>11 DEF IInv

LEMMA ReadIInv ==
  ASSUME IInv, NEW n \in 1..Len(src), Read(n)
  PROVE  IInv'
<1> USE Typing
<1>1. /\ pc = "read" /\ rres = "run" /\ len \in Nat /\ src \in Seq(Byte)
      /\ Len(src) \in Nat /\ n \in 0..Len(src) /\ n \in Nat /\ n <= Room
      /\ Len(vec) <= cap /\ cap \in 0..MaxCap /\ Len(Initial) <= len
      /\ count \in Nat
  <2>1. src \in Seq(Byte) /\ Len(src) \in Nat
    BY LenProperties DEF IInv, TypeOK
  <2> QED
    BY <2>1 DEF IInv, TypeOK, Shape, Read
<1>2. vec \in Seq(Cell) /\ Len(vec) \in Nat /\ len + n <= Len(vec)
  <2>1. vec \in Seq(Cell) /\ Len(vec) \in Nat
    BY LenProperties DEF IInv, TypeOK, Cell
  <2> QED
    BY <2>1, <1>1 DEF Room
<1>3. /\ Take(n, src) \in Seq(Byte) /\ Len(Take(n, src)) = n
      /\ Skip(n, src) \in Seq(Byte)
  BY <1>1, Cut
<1>4. vec' \in Written(Take(n, src))
  BY DEF Read
<1>5. /\ vec' \in Seq(Cell) /\ Len(vec') = Len(vec)
      /\ Take(len + n, vec') = Take(len, vec) \o Take(n, src)
  BY <1>1, <1>3, <1>4, WrittenKeeps
<1>6. src' = Skip(n, src) /\ len' = len + n /\ pc' = "room"
  BY DEF Read
<1>7. UNCHANGED <<cap, rres, count>>
  BY DEF Read
<1>8. TypeOK'
  <2>1. len' \in 0..MaxCap
    BY <1>1, <1>2, <1>6
  <2> QED
    BY <2>1, <1>1, <1>3, <1>5, <1>6, <1>7 DEF IInv, TypeOK, Cell
<1>9. Shape'
  BY <1>1, <1>2, <1>5, <1>6, <1>7 DEF Shape
<1>10. /\ given \in 0..Len(Source) /\ given \in Nat
       /\ Take(len, vec) = Initial \o Take(given, Source)
       /\ src = Skip(given, Source)
  BY <1>1 DEF IInv, Halves, given
<1>11. given' = given + n
  BY <1>1, <1>6 DEF given
<1> DEFINE g == given
<1>12. Len(src) = Len(Source) - g /\ n \in 0..Len(Source) - g
  BY <1>1, <1>10, Cut
<1>13. /\ Take(g, Source) \o Take(n, Skip(g, Source)) = Take(g + n, Source)
       /\ Skip(n, Skip(g, Source)) = Skip(g + n, Source)
  BY <1>10, <1>12, GoOn
<1>14. Halves'
  <2>1. given' <= Len(Source)
    BY <1>10, <1>11, <1>12
  <2>2. src' = Skip(given', Source)
    BY <1>6, <1>10, <1>11, <1>13
  <2>3. Take(g, Source) \in Seq(Byte)
    BY <1>10, Cut
  <2>4. (Initial \o Take(g, Source)) \o Take(n, src)
          = Initial \o (Take(g, Source) \o Take(n, src))
    BY <2>3, <1>3, Assoc
  <2>5. Take(len', vec') = Initial \o Take(given', Source)
    BY <2>4, <1>5, <1>6, <1>10, <1>11, <1>13
  <2> QED
    BY <2>1, <2>2, <2>5 DEF Halves
<1> QED
  BY <1>8, <1>9, <1>14 DEF IInv

LEMMA ReadInterruptedIInv ==
  ASSUME IInv, ReadInterrupted
  PROVE  IInv'
<1> USE Typing
<1>1. /\ pc = "read" /\ len \in Nat /\ Len(vec) \in Nat /\ len < Len(vec)
      /\ <<>> \in Seq(Byte) /\ Len(<<>>) = 0 /\ Len(<<>>) <= Room
      /\ vec \in Seq(Cell)
  <2>1. vec \in Seq(Cell) /\ Len(vec) \in Nat
    BY LenProperties DEF IInv, TypeOK, Cell
  <2>2. <<>> \in Seq(Byte) /\ Len(<<>>) = 0
    BY EmptySeq
  <2> QED
    BY <2>1, <2>2 DEF IInv, TypeOK, Shape, ReadInterrupted, Room
<1>2. /\ vec' \in Written(<<>>) /\ pc' = "room"
      /\ UNCHANGED <<cap, len, src, rres, count>>
  BY DEF ReadInterrupted
<1>3. /\ vec' \in Seq(Cell) /\ Len(vec') = Len(vec)
      /\ Take(len + 0, vec') = Take(len, vec) \o <<>>
  BY <1>1, <1>2, WrittenKeeps
<1>4. Take(len, vec') = Take(len, vec)
  <2>1. len \in 0..Len(vec) /\ len + 0 = len
    BY <1>1
  <2>2. Take(len, vec) \in Seq(Cell)
    BY <1>1, <2>1, Cut
  <2> QED
    BY <2>1, <2>2, <1>3, ConcatEmptySeq
<1>5. TypeOK'
  BY <1>2, <1>3 DEF IInv, TypeOK, Cell
<1>6. Shape'
  BY <1>1, <1>2, <1>3 DEF IInv, Shape
<1>7. Halves'
  <2>1. given' = given
    BY <1>2 DEF given
  <2> QED
    BY <2>1, <1>2, <1>4 DEF IInv, Halves
<1> QED
  BY <1>5, <1>6, <1>7 DEF IInv

(* Every step of the loop keeps the invariant. *)
LEMMA NextIInv == IInv /\ [Next]_fillVars => IInv'
<1> SUFFICES ASSUME IInv, [Next]_fillVars PROVE IInv'
  OBVIOUS
<1> USE Typing
<1>0. /\ len \in Nat /\ Len(Initial) <= len /\ count \in Nat
      /\ src \in Seq(Byte) /\ Len(src) \in Nat
      /\ len - Len(Initial) \in Nat
  <2>1. src \in Seq(Byte) /\ Len(src) \in Nat
    BY LenProperties DEF IInv, TypeOK
  <2>2. len \in Nat /\ Len(Initial) <= len /\ count \in Nat
    BY DEF IInv, TypeOK, Shape
  <2> QED
    BY <2>1, <2>2
<1>1. CASE \E c \in 0..MaxCap : Grow(c)
  BY <1>1, GrowIInv
<1>2. CASE GrowFails
  BY <1>0, <1>2, LeaveIInv DEF GrowFails
<1>3. CASE RoomLeft
  <2>1. /\ pc = "room" /\ pc' = "read" /\ len < Len(vec)
        /\ UNCHANGED <<vec, cap, len, src, rres, count>>
    <3>1. Len(vec) \in Nat
      BY LenProperties DEF IInv, TypeOK
    <3> QED
      BY <3>1, <1>0, <1>3 DEF RoomLeft
  <2>2. TypeOK'
    BY <2>1 DEF IInv, TypeOK
  <2>3. Shape'
    BY <2>1 DEF IInv, Shape
  <2>4. Halves'
    BY <2>1 DEF IInv, Halves, given
  <2> QED
    BY <2>2, <2>3, <2>4 DEF IInv
<1>4. CASE \E n \in 1..Len(src) : Read(n)
  BY <1>4, ReadIInv
<1>5. CASE ReadZero
  <2>1. /\ pc # "end" /\ Leave("ok") /\ src' = src
        /\ count' = len - Len(Initial)
    BY <1>5 DEF ReadZero
  <2> QED
    BY <2>1, <1>0, LeaveIInv
<1>6. CASE ReadInterrupted
  BY <1>6, ReadInterruptedIInv
<1>7. ASSUME NEW e \in Fault, ReadFail(e) PROVE IInv'
  <2>1. pc # "end" /\ Leave(e) /\ src' = src /\ count' = count
    BY <1>7 DEF ReadFail
  <2>2. e \in ErrorKind /\ e # "ok"
    BY ReadToEndAssumption DEF ErrorKind
  <2> QED
    BY <2>1, <2>2, <1>0, LeaveIInv
<1>8. ASSUME NEW n \in 0..Len(src), ReadMiscount(n) PROVE IInv'
  <2>1. /\ pc # "end" /\ Leave("panic") /\ src' = Skip(n, src)
        /\ count' = count
    BY <1>8 DEF ReadMiscount
  <2>2. src' \in Seq(Byte)
    BY <2>1, <1>0, Cut
  <2> QED
    BY <2>1, <2>2, <1>0, LeaveIInv
<1>9. CASE UNCHANGED fillVars
  BY <1>9 DEF fillVars, IInv, TypeOK, Shape, Halves, given
<1> QED
  BY <1>1, <1>2, <1>3, <1>4, <1>5, <1>6, <1>7, <1>8, <1>9
  DEF Next, Fill, EnsureRoom, Answer, Returned

LEMMA CountPromised == IInv => CountsAppended
<1> SUFFICES ASSUME IInv PROVE CountsAppended
  OBVIOUS
<1>1. rres = "ok" => pc = "end"
  BY DEF IInv, Shape
<1> QED
  BY <1>1 DEF IInv, Shape, CountsAppended

LEMMA PartPromised == IInv => RealPart
<1> SUFFICES ASSUME IInv PROVE RealPart
  OBVIOUS
<1> USE Typing
<1>1. given \in 0..Len(Source)
  BY DEF IInv, TypeOK, Shape, Halves, given
<1>2. Take(len, vec) = Initial \o Take(given, Source)
  BY DEF IInv, Halves
<1>3. ASSUME rres # "panic"
      PROVE  Take(len, vec) \o src = Initial \o Source
  <2>1. src = Skip(given, Source)
    BY <1>3 DEF IInv, Halves
  <2>2. /\ Take(given, Source) \in Seq(Byte)
        /\ Skip(given, Source) \in Seq(Byte)
    BY <1>1, Cut
  <2>3. Take(given, Source) \o Skip(given, Source) = Source
    BY <1>1, Rejoin
  <2>4. (Initial \o Take(given, Source)) \o Skip(given, Source)
          = Initial \o (Take(given, Source) \o Skip(given, Source))
    BY <2>2, Assoc
  <2> QED
    BY <1>2, <2>1, <2>3, <2>4
<1> QED
  BY <1>1, <1>2, <1>3 DEF RealPart

LEMMA Promised ==
  IInv => TypeOK /\ NeverAsksForNothing /\ Truncated /\ CountsAppended /\ RealPart
<1>1. IInv => NeverAsksForNothing
  BY LenProperties DEF IInv, TypeOK, Shape, NeverAsksForNothing
<1>2. IInv => Truncated
  BY DEF IInv, Shape, Truncated
<1> QED
  BY <1>1, <1>2, CountPromised, PartPromised DEF IInv

(* The invariant of the loop holds in every state. *)
THEOREM Inductive == Spec => []IInv
BY InitIInv, NextIInv, PTL DEF Spec

(* Types, ranges and the states of the loop (TypeOK). *)
THEOREM Typed == Spec => []TypeOK
BY Promised, Inductive, PTL

(* The reader always gets room to write to (impls_alloc.rs:67-76): its     *)
(* Ok(0) can mean the end only.                                            *)
THEOREM AlwaysRoom == Spec => []NeverAsksForNothing
BY Promised, Inductive, PTL

(* However read_to_end is left, the vector ends with the real part.        *)
THEOREM GuardTruncates == Spec => []Truncated
BY Promised, Inductive, PTL

(* The number returned is the number of bytes appended.                    *)
THEOREM Counted == Spec => []CountsAppended
BY Promised, Inductive, PTL

(* The real part of the vector is what was there and what was given, in    *)
(* order; nothing given is missing, and no filling is in it.               *)
THEOREM OnlyReal == Spec => []RealPart
BY Promised, Inductive, PTL

-----------------------------------------------------------------------------
(* read_to_string: the guard is where the call found the end, and the      *)
(* verdict is given once the loop has ended.                               *)
Outer ==
  /\ ret = "run" => glen = Len(Initial)
  /\ ret # "run" => pc = "end"
  /\ ReportsWhatWasRead

(* Text and bytes behind it are text if and only if the bytes are.         *)
LEMMA TextTail ==
  ASSUME NEW s \in Seq(Byte), NEW t \in Seq(Byte), A!IsUtf8(s)
  PROVE  A!IsUtf8(s \o t) <=> A!IsUtf8(t)
<1> DEFINE w == s \o t
<1>1. PICK m \in Nat, n \in Nat : m = Len(s) /\ n = Len(t)
  BY LenProperties
<1>2. /\ Len(w) = m + n
      /\ \A i \in 1..m : w[i] = s[i]
      /\ \A i \in m + 1..m + n : w[i] = t[i - m]
  BY <1>1, Joined, Zenon
<1>3. \A i \in 1..n : w[m + i] = t[i]
  <2>1. ASSUME NEW i \in 1..n PROVE w[m + i] = t[i]
    <3>1. m + i \in m + 1..m + n /\ (m + i) - m = i
      OBVIOUS
    <3> QED
      BY <3>1, <1>2, Zenon
  <2> QED
    BY <2>1
<1>4. \A i \in 1..m :
        /\ s[i] \in Lead <=> i < m /\ s[i + 1] \in Cont
        /\ s[i] \in Cont => i > 1
  BY <1>1 DEF A!IsUtf8
<1> HIDE DEF w
<1>5. ASSUME A!IsUtf8(w) PROVE A!IsUtf8(t)
  <2>1. \A i \in 1..m + n :
          /\ w[i] \in Lead <=> i < m + n /\ w[i + 1] \in Cont
          /\ w[i] \in Cont => i > 1
    BY <1>2, <1>5 DEF A!IsUtf8
  <2>2. ASSUME NEW i \in 1..n
        PROVE  /\ t[i] \in Lead <=> i < n /\ t[i + 1] \in Cont
               /\ t[i] \in Cont => i > 1
    <3>1. /\ m + i \in 1..m + n /\ (m + i < m + n <=> i < n)
          /\ (m + i) + 1 = m + (i + 1) /\ (i < n => i + 1 \in 1..n)
      OBVIOUS
    <3>2. t[i] \in Lead <=> i < n /\ t[i + 1] \in Cont
      BY <3>1, <2>1, <1>3
    <3>3. CASE i = 1 /\ t[i] \in Cont
      <4>1. w[m + 1] \in Cont
        BY <3>3, <1>3
      <4>2. m > 0
        BY <3>3, <4>1, <2>1, <3>1
      <4>3. m \in 1..m /\ m \in 1..m + n /\ m < m + n
        BY <4>2, <3>3
      <4>4. w[m] \in Lead
        BY <4>1, <4>3, <2>1
      <4>5. s[m] \notin Lead
        BY <4>3, <1>4
      <4> QED
        BY <4>3, <4>4, <4>5, <1>2
    <3> QED
      BY <3>1, <3>2, <3>3
  <2> QED
    BY <2>2, <1>1 DEF A!IsUtf8
<1>6. ASSUME A!IsUtf8(t) PROVE A!IsUtf8(w)
  <2>1. \A i \in 1..n :
          /\ t[i] \in Lead <=> i < n /\ t[i + 1] \in Cont
          /\ t[i] \in Cont => i > 1
    BY <1>1, <1>6 DEF A!IsUtf8
  <2>2. ASSUME NEW i \in 1..m + n
        PROVE  /\ w[i] \in Lead <=> i < m + n /\ w[i + 1] \in Cont
               /\ w[i] \in Cont => i > 1
    <3>1. CASE i < m
      <4>1. i \in 1..m /\ i + 1 \in 1..m /\ i < m + n
        BY <3>1
      <4> QED
        BY <3>1, <4>1, <1>2, <1>4
    <3>2. CASE i = m
      <4>1. i \in 1..m /\ w[i] = s[i]
        BY <3>2, <1>2
      <4>2. n > 0 => w[i + 1] = t[1] /\ t[1] \notin Cont
        BY <3>2, <1>3, <2>1
      <4> QED
        BY <3>2, <4>1, <4>2, <1>4
    <3>3. CASE i > m
      <4>1. PICK j \in 1..n : i = m + j
        <5>1. i - m \in 1..n /\ i = m + (i - m)
          BY <3>3
        <5> QED
          BY <5>1
      <4>2. /\ (i < m + n <=> j < n) /\ i + 1 = m + (j + 1)
            /\ (j < n => j + 1 \in 1..n) /\ (j > 1 => i > 1)
        BY <4>1
      <4>3. w[i] = t[j] /\ (j < n => w[i + 1] = t[j + 1])
        BY <4>1, <4>2, <1>3
      <4>4. /\ t[j] \in Lead <=> j < n /\ t[j + 1] \in Cont
            /\ t[j] \in Cont => j > 1
        BY <2>1
      <4> QED
        BY <4>2, <4>3, <4>4
    <3> QED
      BY <3>1, <3>2, <3>3
  <2> QED
    BY <2>2, <1>2 DEF A!IsUtf8
<1> QED
  BY <1>5, <1>6 DEF w

(* What is checked is what was read, and the String is text if it is. *)
LEMMA CheckedPart ==
  ASSUME IInv, pc = "end", glen = Len(Initial)
  PROVE  A!IsUtf8(vec) <=> A!IsUtf8(A!Appended)
<1> USE Typing
<1>1. given \in 0..Len(Source) /\ Len(vec) = len /\ vec \in Seq(Cell)
  BY DEF IInv, TypeOK, Shape, Halves, given, Cell
<1> DEFINE t == Take(given, Source)
<1>2. t \in Seq(Byte)
  BY <1>1, Cut
<1>3. vec = Initial \o t
  <2>1. Take(len, vec) = vec
    BY <1>1, SubSeqFull, Zenon DEF Take
  <2> QED
    BY <2>1 DEF IInv, Halves
<1> HIDE DEF t
<1>4. A!Appended = Skip(Len(Initial), Initial \o t)
  BY <1>3 DEF A!Appended, Skip
<1>5. A!Appended = t
  BY <1>2, <1>4, SkipFirst
<1>6. A!IsUtf8(Initial \o t) <=> A!IsUtf8(t)
  BY <1>2, TextTail, ReadToStringAssumption
<1> QED
  BY <1>3, <1>5, <1>6, Zenon

(* Every step of read_to_string keeps the invariant. *)
LEMMA StringStep ==
  ASSUME IInv, Outer, [StringNext]_allVars
  PROVE  IInv' /\ Outer'
<1>1. CASE Fill /\ UNCHANGED <<glen, ret>>
  <2>1. pc # "end"
    BY <1>1 DEF Fill, EnsureRoom, Answer, Grow, GrowFails, RoomLeft, Read,
      ReadZero, ReadInterrupted, ReadFail, ReadMiscount
  <2>2. ret' = "run" /\ glen' = Len(Initial)
    BY <1>1, <2>1 DEF Outer
  <2>3. Outer'
    BY <2>2 DEF Outer, ReportsWhatWasRead, A!ReportsText, A!FirstErrorWins
  <2>4. IInv'
    BY <1>1, NextIInv DEF Next
  <2> QED
    BY <2>3, <2>4
<1>2. ASSUME UNCHANGED fillVars PROVE IInv'
  BY <1>2, NextIInv
<1>3. CASE Checked
  <2>1. /\ UNCHANGED fillVars /\ ret = "run" /\ rres \notin {"run", "panic"}
        /\ vec' = vec /\ rres' = rres /\ pc' = pc
    BY <1>3 DEF Checked, A!Check, fillVars
  <2>2. pc = "end"
    BY <2>1 DEF IInv, Shape
  <2>3. A!IsUtf8(vec) <=> A!IsUtf8(A!Appended)
    BY <2>1, <2>2, CheckedPart DEF Outer
  <2>4. \/ A!IsUtf8(vec) /\ ret' = rres
        \/ ~A!IsUtf8(vec) /\ ret' = IF rres = "ok" THEN "InvalidData" ELSE rres
    BY <1>3, <2>3 DEF Checked, A!Check
  <2>5. A!IsUtf8(vec)' <=> A!IsUtf8(vec)
    BY <2>1
  <2>6. ReportsWhatWasRead'
    <3>1. ret' = "ok" => rres' = "ok" /\ A!IsUtf8(vec)'
      BY <2>1, <2>4, <2>5
    <3>2. ret' = "InvalidData" => rres' = ret' \/ (rres' = "ok" /\ ~A!IsUtf8(vec)')
      BY <2>1, <2>4, <2>5
    <3>3. A!FirstErrorWins'
      BY <2>1, <2>4 DEF A!FirstErrorWins
    <3> QED
      BY <3>1, <3>2, <3>3 DEF ReportsWhatWasRead, A!ReportsText
  <2> QED
    BY <1>2, <2>1, <2>2, <2>4, <2>6 DEF Outer
<1>4. CASE Unwound
  <2>1. /\ UNCHANGED fillVars /\ ret = "run" /\ rres = "panic" /\ ret' = "panic"
        /\ rres' = rres /\ pc' = pc
    BY <1>4 DEF Unwound, A!Unwind, fillVars
  <2>2. Outer'
    BY <2>1 DEF IInv, Shape, Outer, ReportsWhatWasRead, A!ReportsText,
      A!FirstErrorWins
  <2> QED
    BY <1>2, <2>1, <2>2
<1>5. CASE UNCHANGED allVars
  <2>1. UNCHANGED fillVars /\ vec' = vec /\ rres' = rres /\ pc' = pc
        /\ glen' = glen /\ ret' = ret
    BY <1>5 DEF allVars, fillVars
  <2>2. Outer'
    BY <2>1 DEF Outer, ReportsWhatWasRead, A!ReportsText, A!FirstErrorWins
  <2> QED
    BY <1>2, <2>1, <2>2
<1> QED
  BY <1>1, <1>3, <1>4, <1>5 DEF StringNext, StringReturned

(* read_to_string, the loop within included, keeps its invariant. *)
THEOREM StringInductive == StringSpec => [](IInv /\ Outer)
<1>1. StringInit => IInv /\ Outer
  <2>1. StringInit => IInv
    BY InitIInv DEF StringInit
  <2>2. StringInit => Outer
    BY DEF StringInit, Init, A!Enter, Outer, ReportsWhatWasRead,
      A!ReportsText, A!FirstErrorWins
  <2> QED
    BY <2>1, <2>2
<1>2. IInv /\ Outer /\ [StringNext]_allVars => (IInv /\ Outer)'
  BY StringStep
<1> QED
  BY <1>1, <1>2, PTL DEF StringSpec

(* Called by read_to_string, read_to_end keeps all it promises by itself   *)
(* (impls_alloc.rs:88-92).                                                 *)
THEOREM CalledByString ==
  StringSpec => [](TypeOK /\ NeverAsksForNothing /\ Truncated
                     /\ CountsAppended /\ RealPart)
<1>1. IInv => TypeOK /\ NeverAsksForNothing /\ Truncated /\ CountsAppended /\ RealPart
  BY Promised
<1> QED
  BY <1>1, StringInductive, PTL

(* The verdict of read_to_string matches what was read, and the reader's   *)
(* error comes first (impls_alloc.rs:112-119).                             *)
THEOREM Judged == StringSpec => []ReportsWhatWasRead
<1>1. Outer => ReportsWhatWasRead
  BY DEF Outer
<1> QED
  BY <1>1, StringInductive, PTL

(***************************************************************************)
(* How many steps read_to_end can take at most, interruptions aside: each  *)
(* byte may need a look at the room and an answer of the reader.           *)
(***************************************************************************)
Due ==
  CASE pc = "room" -> 2
    [] pc = "read" -> 1
    [] pc = "end"  -> 0

StepsLeft == 2 * Len(src) + Due

LEMMA StepsLeftType == IInv => StepsLeft \in Nat
<1> SUFFICES ASSUME IInv PROVE StepsLeft \in Nat
  OBVIOUS
<1>1. Len(src) \in Nat
  BY LenProperties DEF IInv, TypeOK
<1>2. Due \in Nat
  BY DEF Due, IInv, TypeOK
<1> QED
  BY <1>1, <1>2 DEF StepsLeft

LEMMA FewerSteps ==
  ASSUME IInv, Next, fillVars' # fillVars
  PROVE  \/ StepsLeft' < StepsLeft
         \/ ReadInterrupted /\ StepsLeft' = StepsLeft + 1
<1>0. src \in Seq(Byte) /\ Len(src) \in Nat
  BY LenProperties DEF IInv, TypeOK
<1>1. CASE EnsureRoom
  <2>1. pc = "room" /\ pc' \in {"read", "end"} /\ src' = src
    BY <1>1 DEF EnsureRoom, Grow, GrowFails, RoomLeft, Leave
  <2>2. Due = 2 /\ Due' \in {0, 1}
    BY <2>1 DEF Due
  <2> QED
    BY <1>0, <2>1, <2>2 DEF StepsLeft
<1>2. ASSUME NEW n \in 1..Len(src), Read(n) PROVE StepsLeft' < StepsLeft
  <2>1. src' = Skip(n, src) /\ n \in 0..Len(src) /\ n \in Nat /\ n > 0
    BY <1>0, <1>2 DEF Read
  <2>2. Len(src') = Len(src) - n
    BY <1>0, <2>1, Cut
  <2>3. Due = 1 /\ Due' = 2
    BY <1>2 DEF Due, Read
  <2> QED
    BY <1>0, <2>1, <2>2, <2>3 DEF StepsLeft
<1>3. CASE ReadZero \/ \E e \in Fault : ReadFail(e)
  <2>1. pc = "read" /\ pc' = "end" /\ src' = src
    BY <1>3 DEF ReadZero, ReadFail, Leave
  <2>2. Due = 1 /\ Due' = 0
    BY <2>1 DEF Due
  <2> QED
    BY <1>0, <2>1, <2>2 DEF StepsLeft
<1>4. ASSUME NEW n \in 0..Len(src), ReadMiscount(n)
      PROVE  StepsLeft' < StepsLeft
  <2>1. src' = Skip(n, src) /\ n \in Nat
    BY <1>0, <1>4 DEF ReadMiscount
  <2>2. Len(src') = Len(src) - n
    BY <1>0, <1>4, <2>1, Cut
  <2>3. Due = 1 /\ Due' = 0
    BY <1>4 DEF Due, ReadMiscount, Leave
  <2> QED
    BY <1>0, <2>1, <2>2, <2>3 DEF StepsLeft
<1>5. CASE ReadInterrupted
  <2>1. Due = 1 /\ Due' = 2 /\ src' = src
    BY <1>5 DEF ReadInterrupted, Due
  <2> QED
    BY <1>0, <1>5, <2>1 DEF StepsLeft
<1>6. ~Returned
  BY DEF Returned
<1> QED
  BY <1>1, <1>2, <1>3, <1>4, <1>5, <1>6 DEF Next, Fill, Answer

(* Every turn of the loop that is not interrupted brings its end nearer,   *)
(* and an interruption undoes no more than the look at the room before it: *)
(* n bytes take at most 2n + 2 steps, however they are portioned and the   *)
(* vector grows (impls_alloc.rs:62-99).                                    *)
THEOREM Bounded ==
  Spec => /\ StepsLeft = 2 * Len(Source) + 2
          /\ [](StepsLeft \in Nat)
          /\ [][\/ StepsLeft' < StepsLeft
                \/ ReadInterrupted /\ StepsLeft' = StepsLeft + 1]_fillVars
<1> DEFINE Fewer == \/ StepsLeft' < StepsLeft
                    \/ ReadInterrupted /\ StepsLeft' = StepsLeft + 1
<1>1. Init => StepsLeft = 2 * Len(Source) + 2
  BY Typing DEF Init, StepsLeft, Due
<1>2. IInv /\ [Next]_fillVars => [Fewer]_fillVars
  BY FewerSteps
<1> QED
  BY <1>1, <1>2, StepsLeftType, Inductive, PTL DEF Spec
=============================================================================
