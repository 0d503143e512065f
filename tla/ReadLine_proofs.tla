--------------------------- MODULE ReadLine_proofs ---------------------------
(***************************************************************************)
(* Proofs about ReadLine, and with it ReadUntil, for every String, source  *)
(* and delimiter.  That calls deliver line after line needs to know where  *)
(* the delimiters are among the bytes of the line at hand, and that each   *)
(* byte goes to the String once needs to know how far it is ahead of what  *)
(* the reader has been told.                                               *)
(***************************************************************************)
EXTENDS ReadLine, Slices_proofs

(* How much of the source is in the String, and was when the line began. *)
given  == Len(vec) - Len(Initial)
marked == mark - Len(Initial)

(* The delimiter of the line at hand has been appended. *)
Found == done /\ (pc = "consume" \/ rres \in {"ok", "panic"})

(* The places of the loop. *)
Shape ==
  /\ mark \in Nat /\ from \in Nat
  /\ pc = "fill" => rres = "run" /\ read = Len(vec) - from
  /\ pc = "consume" => rres = "run" /\ read + used = Len(vec) - from
  /\ pc = "end" => rres # "run"
  /\ rres = "ok" => read = Len(vec) - from

(* The String and the reader's rest, which begins with what is in hand. *)
Halves ==
  /\ given <= Len(Source) /\ InHand <= given
  /\ vec = Initial \o Take(given, Source)
  /\ src = Skip(given - InHand, Source)

(* Of the bytes of this line only the last one can be the delimiter. *)
Delims ==
  /\ Found => marked < given
  /\ \A i \in marked + 1..given : Source[i] = Delim <=> Found /\ i = given

IInv == TypeOK /\ Shape /\ Halves /\ Delims

(* The same, around the loop. *)
Outer ==
  /\ ret = "run" => glen = from
  /\ ret # "run" => pc = "end"
  /\ ReportsLine

-----------------------------------------------------------------------------
(* Line(s) ends with the first delimiter of s, or is all of s. *)
IsLine(s, k) ==
  /\ Line(s) = Take(k, s)
  /\ \A i \in 1..k : s[i] = Delim <=> Places(s) # {} /\ i = k
  /\ Places(s) # {} => k > 0
  /\ Places(s) = {} => k = Len(s)

LEMMA LineOf ==
  ASSUME NEW s \in Seq(Byte)
  PROVE  \E k \in 0..Len(s) : IsLine(s, k)
<1>1. Len(s) \in Nat
  BY LenProperties
<1>2. CASE Places(s) = {}
  <2>1. \A i \in 1..Len(s) : s[i] # Delim
    BY <1>2 DEF Places
  <2>2. Line(s) = Take(Len(s), s)
    BY <1>2, SubSeqFull, Zenon DEF Line, Take
  <2>3. IsLine(s, Len(s))
    BY <1>2, <2>1, <2>2 DEF IsLine
  <2> QED
    BY <1>1, <2>3
<1>3. CASE Places(s) # {}
  <2> DEFINE P == Places(s)
             k == CHOOSE i \in P : \A j \in P : i <= j
  <2>1. P \in SUBSET Nat /\ P \subseteq 1..Len(s)
    BY <1>1 DEF Places
  <2>2. \E i \in P : \A j \in P : i <= j
    <3> HIDE DEF P
    <3>1. P # {}
      BY <1>3 DEF P
    <3> QED
      BY <2>1, <3>1, Least
  <2>3. k \in P /\ \A j \in P : k <= j
    BY <2>2
  <2>4. Line(s) = Take(k, s)
    BY <1>3 DEF Line
  <2> HIDE DEF k
  <2>5. k \in 1..Len(s) /\ s[k] = Delim
    BY <2>3 DEF Places
  <2>6. ASSUME NEW i \in 1..k
        PROVE  s[i] = Delim <=> i = k
    <3>1. i \in 1..Len(s)
      BY <1>1, <2>5
    <3>2. s[i] = Delim => k <= i
      BY <2>3, <3>1 DEF Places
    <3> QED
      BY <1>1, <2>5, <3>2
  <2>7. IsLine(s, k)
    BY <1>3, <2>4, <2>5, <2>6 DEF IsLine
  <2> QED
    BY <1>1, <2>5, <2>7
<1> QED
  BY <1>2, <1>3
-----------------------------------------------------------------------------
LEMMA Typing ==
  /\ Initial \in Seq(Byte) /\ Source \in Seq(Byte)
  /\ Len(Initial) \in Nat /\ Len(Source) \in Nat
BY ReadUntilAssumption, LenProperties

LEMMA Assoc ==
  ASSUME NEW s \in Seq(Byte), NEW t \in Seq(Byte), NEW u \in Seq(Byte)
  PROVE  (s \o t) \o u = s \o (t \o u)
BY ConcatAssociative

LEMMA TakeTake ==
  ASSUME NEW s \in Seq(Byte), NEW n \in 0..Len(s), NEW k \in 0..n
  PROVE  Take(k, Take(n, s)) = Take(k, s)
<1>1. Len(s) \in Nat /\ n \in Nat /\ k \in 0..Len(s)
  BY LenProperties
<1> DEFINE t == Take(n, s)
<1>2. /\ t \in Seq(Byte) /\ Len(t) = n
      /\ \A i \in 1..n : t[i] = s[i]
  BY Cut
<1>3. /\ Take(k, s) \in Seq(Byte) /\ Len(Take(k, s)) = k
      /\ \A i \in 1..k : Take(k, s)[i] = s[i]
  BY <1>1, Cut
<1> HIDE DEF t
<1>4. /\ Take(k, t) \in Seq(Byte) /\ Len(Take(k, t)) = k
      /\ \A i \in 1..k : Take(k, t)[i] = t[i]
  BY <1>2, Cut
<1>5. \A i \in 1..k : Take(k, t)[i] = Take(k, s)[i]
  BY <1>1, <1>2, <1>3, <1>4
<1>6. Take(k, t) = Take(k, s)
  BY <1>3, <1>4, <1>5, SeqEqual
<1> QED
  BY <1>6 DEF t

(* The String after k more bytes of the source. *)
LEMMA Glue ==
  ASSUME NEW g \in 0..Len(Source), NEW k \in 0..Len(Source) - g
  PROVE  /\ (Initial \o Take(g, Source)) \o Take(k, Skip(g, Source))
               = Initial \o Take(g + k, Source)
         /\ Skip(k, Skip(g, Source)) = Skip(g + k, Source)
<1>1. /\ Take(g, Source) \o Take(k, Skip(g, Source)) = Take(g + k, Source)
      /\ Skip(k, Skip(g, Source)) = Skip(g + k, Source)
  BY Typing, GoOn
<1>2. /\ Take(g, Source) \in Seq(Byte) /\ Skip(g, Source) \in Seq(Byte)
      /\ Len(Skip(g, Source)) = Len(Source) - g
  BY Typing, Cut
<1>3. Take(k, Skip(g, Source)) \in Seq(Byte)
  BY <1>2, Cut
<1>4. (Initial \o Take(g, Source)) \o Take(k, Skip(g, Source))
        = Initial \o (Take(g, Source) \o Take(k, Skip(g, Source)))
  BY <1>2, <1>3, Typing, Assoc
<1> QED
  BY <1>1, <1>4, Zenon

(* What the invariant says of the numbers. *)
LEMMA Numbers ==
  ASSUME IInv
  PROVE  /\ vec \in Seq(Byte) /\ src \in Seq(Byte)
         /\ Len(vec) \in Nat /\ Len(src) \in Nat /\ used \in Nat
         /\ given \in 0..Len(Source) /\ given \in Nat
         /\ marked \in 0..given /\ marked \in Nat
         /\ mark \in Nat /\ from \in Nat /\ read \in Nat
         /\ Len(Initial) <= mark /\ mark <= from /\ from <= Len(vec)
         /\ InHand \in 0..given
<1>1. /\ vec \in Seq(Byte) /\ src \in Seq(Byte)
      /\ Len(vec) \in Nat /\ Len(src) \in Nat
  BY LenProperties DEF IInv, TypeOK
<1> QED
  BY <1>1, Typing DEF IInv, TypeOK, Shape, Halves, given, marked, InHand

LEMMA InitIInv == LineInit => IInv /\ Outer
<1> SUFFICES ASSUME LineInit PROVE IInv /\ Outer
  OBVIOUS
<1>1. /\ vec = Initial /\ src = Source
      /\ from = Len(Initial) /\ mark = Len(Initial)
      /\ used = 0 /\ done = FALSE /\ read = 0 /\ pc = "fill" /\ rres = "run"
      /\ glen = Len(vec) /\ ret = "run"
  BY DEF LineInit, Init, A!Enter
<1>2. given = 0 /\ marked = 0 /\ InHand = 0
  BY <1>1, Typing DEF given, marked, InHand
<1>3. TypeOK
  <2>1. {vec, src} \subseteq Seq(Byte)
    BY <1>1, Typing
  <2>2. Len(Initial) <= mark /\ mark <= from /\ from <= Len(vec)
    BY <1>1, Typing
  <2> QED
    BY <1>1, <2>1, <2>2 DEF TypeOK
<1>4. Shape
  BY <1>1, Typing DEF Shape
<1>5. Halves
  <2>1. Take(0, Source) = <<>> /\ Skip(0, Source) = Source
    BY Typing, SubSeqFull, SubSeqEmpty DEF Take, Skip
  <2>2. Initial \o <<>> = Initial
    BY Typing, ConcatEmptySeq
  <2> QED
    BY <1>1, <1>2, <2>1, <2>2, Typing DEF Halves
<1>6. Delims
  BY <1>1, <1>2 DEF Delims, Found
<1>7. Outer
  BY <1>1 DEF Outer, ReportsLine, A!FirstErrorWins
<1> QED
  BY <1>3, <1>4, <1>5, <1>6, <1>7 DEF IInv

(* The line's share of a portion is appended. *)
LEMMA AvailableStep ==
  ASSUME IInv, NEW n \in 0..Len(src), Available(n)
  PROVE  IInv'
<1>0. /\ vec \in Seq(Byte) /\ src \in Seq(Byte) /\ n \in Nat
      /\ Len(vec) \in Nat /\ Len(src) \in Nat /\ used \in Nat
      /\ given \in 0..Len(Source) /\ given \in Nat
      /\ marked \in 0..given /\ marked \in Nat
      /\ mark \in Nat /\ from \in Nat /\ read \in Nat
      /\ Len(Initial) <= mark /\ mark <= from /\ from <= Len(vec)
  BY Numbers
<1>1. pc = "fill" /\ rres = "run" /\ InHand = 0 /\ ~Found
  BY DEF Available, IInv, Shape, InHand, Found
<1> DEFINE available == Take(n, src)
<1>2. /\ available \in Seq(Byte) /\ Len(available) = n
      /\ \A i \in 1..n : available[i] = src[i]
  BY <1>0, Cut
<1>3. PICK k \in 0..Len(available) : IsLine(available, k)
  BY <1>2, LineOf
<1>4. /\ vec' = vec \o Line(available) /\ used' = Len(Line(available))
      /\ done' = (Places(available) # {}) /\ pc' = "consume"
      /\ UNCHANGED <<from, mark, src, read, rres>>
  BY DEF Available
<1>5. k \in 0..n /\ k \in Nat /\ k \in 0..Len(src)
  BY <1>0, <1>2, <1>3
<1>6. Line(available) = Take(k, src)
  BY <1>0, <1>3, <1>5, TakeTake DEF IsLine
<1>7. Take(k, src) \in Seq(Byte) /\ Len(Take(k, src)) = k
  BY <1>0, <1>5, Cut
<1>8. src = Skip(given, Source)
  BY <1>0, <1>1 DEF IInv, Halves
<1>9. /\ Len(src) = Len(Source) - given
      /\ \A i \in 1..Len(Source) - given : src[i] = Source[given + i]
  BY <1>0, <1>8, Typing, Cut
<1>10. k \in 0..Len(Source) - given
  BY <1>5, <1>9
<1>11. vec' = Initial \o Take(given + k, Source)
  <2>1. vec = Initial \o Take(given, Source)
    BY DEF IInv, Halves
  <2>2. ASSUME NEW g \in 0..Len(Source), k \in 0..Len(Source) - g
        PROVE  (Initial \o Take(g, Source)) \o Take(k, Skip(g, Source))
                 = Initial \o Take(g + k, Source)
    BY <2>2, Glue
  <2>3. (Initial \o Take(given, Source)) \o Take(k, Skip(given, Source))
           = Initial \o Take(given + k, Source)
    BY <2>2, <1>0, <1>10, Zenon
  <2> QED
    BY <1>4, <1>6, <1>8, <2>1, <2>3, Zenon
<1>12. vec' \in Seq(Byte) /\ Len(vec') = Len(vec) + k
  BY <1>0, <1>4, <1>6, <1>7, ConcatProperties
<1>13. given' = given + k /\ marked' = marked /\ used' = k /\ InHand' = k
  BY <1>0, <1>4, <1>6, <1>7, <1>12, <1>5, Typing DEF given, marked, InHand
<1>14. TypeOK'
  BY <1>0, <1>1, <1>4, <1>5, <1>12, <1>13 DEF TypeOK, IInv
<1>15. Shape'
  <2>1. read = Len(vec) - from
    BY <1>1 DEF IInv, Shape
  <2> QED
    BY <2>1, <1>0, <1>1, <1>4, <1>5, <1>12, <1>13 DEF Shape
<1>16. Halves'
  <2>1. given' <= Len(Source) /\ InHand' <= given' /\ given' - InHand' = given
    BY <1>0, <1>5, <1>10, <1>13, Typing
  <2> QED
    BY <2>1, <1>4, <1>8, <1>11, <1>13 DEF Halves
<1>17. Delims'
  <2>1. Found' <=> Places(available) # {}
    BY <1>1, <1>4 DEF Found
  <2>2. Places(available) # {} => k > 0
    BY <1>3 DEF IsLine
  <2>3. ASSUME NEW i \in marked' + 1..given'
        PROVE  Source[i] = Delim <=> Found' /\ i = given'
    <3>1. i \in marked + 1..given + k /\ i \in Nat
      BY <1>0, <1>5, <1>13
    <3>2. CASE i <= given
      <4>1. Source[i] # Delim
        BY <1>0, <1>1, <3>1, <3>2 DEF IInv, Delims
      <4> QED
        BY <4>1, <1>0, <1>5, <1>13, <2>1, <2>2, <3>2
    <3>3. CASE i > given
      <4>1. i - given \in 1..k /\ i - given \in 1..n /\ given + (i - given) = i
            /\ i - given \in 1..Len(Source) - given
        BY <1>0, <1>5, <1>10, <3>1, <3>3
      <4>2. available[i - given] = Source[i]
        BY <4>1, <1>2, <1>9
      <4>3. available[i - given] = Delim <=> Places(available) # {} /\ i - given = k
        BY <4>1, <1>3 DEF IsLine
      <4>4. i - given = k <=> i = given'
        BY <1>0, <1>5, <1>13, <3>1
      <4> QED
        BY <2>1, <4>2, <4>3, <4>4
    <3> QED
      BY <3>1, <3>2, <3>3, <1>0
  <2>4. Found' => marked' < given'
    BY <1>0, <1>5, <1>13, <2>1, <2>2
  <2> QED
    BY <2>3, <2>4 DEF Delims
<1> QED
  BY <1>14, <1>15, <1>16, <1>17 DEF IInv
(* The reader is told what was used. *)
LEMMA ConsumeStep ==
  ASSUME IInv, Consume
  PROVE  IInv'
<1>0. /\ vec \in Seq(Byte) /\ src \in Seq(Byte)
      /\ Len(vec) \in Nat /\ Len(src) \in Nat /\ used \in Nat
      /\ given \in 0..Len(Source) /\ given \in Nat
      /\ mark \in Nat /\ from \in Nat /\ read \in Nat
      /\ InHand \in 0..given
  BY Numbers
<1>1. /\ pc = "consume" /\ rres = "run" /\ InHand = used
      /\ used <= Len(src) /\ (Found <=> done) /\ read + used = Len(vec) - from
  BY DEF Consume, IInv, TypeOK, Shape, InHand, Found
<1>2. /\ src' = Skip(used, src) /\ read' = read + used
      /\ \/ (done \/ used = 0) /\ pc' = "end" /\ rres' = "ok"
         \/ ~done /\ pc' = "fill" /\ rres' = rres
      /\ UNCHANGED <<vec, from, mark, used, done>>
  BY DEF Consume, Return
<1>3. /\ given' = given /\ marked' = marked /\ InHand' = 0 /\ (Found' <=> Found)
  BY <1>1, <1>2 DEF given, marked, InHand, Found
<1>4. src' = Skip(given, Source) /\ src' \in Seq(Byte)
  <2>1. src = Skip(given - used, Source)
    BY <1>1 DEF IInv, Halves
  <2>2. /\ given - used \in 0..Len(Source) /\ (given - used) + used = given
        /\ used \in 0..Len(Source) - (given - used) /\ used \in 0..Len(src)
    BY <1>0, <1>1, Typing
  <2>3. ASSUME NEW g \in 0..Len(Source), used \in 0..Len(Source) - g
        PROVE  Skip(used, Skip(g, Source)) = Skip(g + used, Source)
    BY <2>3, Glue
  <2>4. Skip(used, Skip(given - used, Source)) = Skip((given - used) + used, Source)
    BY <2>2, <2>3, Zenon
  <2>5. Skip(used, src) \in Seq(Byte)
    BY <1>0, <2>2, Cut
  <2> QED
    BY <1>2, <2>1, <2>2, <2>4, <2>5, Zenon
<1>5. TypeOK'
  BY <1>0, <1>2, <1>4 DEF IInv, TypeOK
<1>6. Shape'
  BY <1>0, <1>1, <1>2 DEF Shape
<1>7. Halves'
  <2>1. given' - InHand' = given /\ InHand' <= given' /\ given' <= Len(Source)
    BY <1>0, <1>3, Typing
  <2> QED
    BY <2>1, <1>2, <1>3, <1>4 DEF IInv, Halves
<1>8. Delims'
  BY <1>3 DEF IInv, Delims
<1> QED
  BY <1>5, <1>6, <1>7, <1>8 DEF IInv

(* The call ends without it: the reader failed, or panicked in consume. *)
LEMMA GivesUp ==
  ASSUME IInv, NEW r, Return(r),
         \/ pc = "fill" /\ r \in ErrorKind
         \/ pc = "consume" /\ r = "panic",
         UNCHANGED <<vec, from, mark, src, used, done, read>>
  PROVE  IInv'
<1>1. pc' = "end" /\ rres' = r /\ rres = "run" /\ r # "run" /\ r # "ok"
  BY DEF Return, ErrorKind, IInv, Shape
<1>2. given' = given /\ marked' = marked /\ InHand' = InHand /\ (Found' <=> Found)
  BY <1>1 DEF given, marked, InHand, Found, ErrorKind
<1>3. TypeOK'
  BY <1>1 DEF IInv, TypeOK
<1>4. Shape'
  BY <1>1 DEF IInv, Shape
<1>5. Halves'
  BY <1>2 DEF IInv, Halves
<1>6. Delims'
  BY <1>2 DEF IInv, Delims
<1> QED
  BY <1>3, <1>4, <1>5, <1>6 DEF IInv

(* Another call goes on with the line, or with the next one. *)
LEMMA CallAgainStep ==
  ASSUME IInv, CallAgain
  PROVE  IInv'
<1>0. /\ vec \in Seq(Byte) /\ Len(vec) \in Nat
      /\ given \in 0..Len(Source) /\ given \in Nat
      /\ marked \in 0..given /\ mark \in Nat /\ from \in Nat
      /\ Len(Initial) <= mark /\ mark <= from /\ from <= Len(vec)
  BY Numbers
<1>1. /\ pc = "end" /\ rres \notin {"run", "panic"}
      /\ pc' = "fill" /\ rres' = "run" /\ read' = 0 /\ from' = Len(vec)
      /\ mark' = IF rres = "ok" THEN Len(vec) ELSE mark
      /\ UNCHANGED <<vec, src, used, done>>
  BY DEF CallAgain, IInv, Shape
<1>2. given' = given /\ InHand' = 0 /\ InHand = 0 /\ ~Found'
  BY <1>1 DEF given, InHand, Found
<1>3. TypeOK'
  BY <1>0, <1>1, Typing DEF IInv, TypeOK
<1>4. Shape'
  BY <1>0, <1>1 DEF Shape
<1>5. Halves'
  BY <1>1, <1>2 DEF IInv, Halves
<1>6. Delims'
  <2>1. CASE rres = "ok"
    <3>1. marked' = given'
      BY <1>1, <2>1 DEF given, marked
    <3> QED
      BY <1>0, <1>2, <3>1 DEF Delims
  <2>2. CASE rres # "ok"
    <3>1. marked' = marked /\ ~Found
      BY <1>1, <2>2 DEF marked, Found
    <3> QED
      BY <1>2, <3>1 DEF IInv, Delims
  <2> QED
    BY <2>1, <2>2
<1> QED
  BY <1>3, <1>4, <1>5, <1>6 DEF IInv

(* Every step of the loop keeps the invariant. *)
LEMMA LoopStep ==
  ASSUME IInv, Loop
  PROVE  IInv' /\ pc # "end"
<1>0. pc # "end"
  BY DEF Loop, Available, FillInterrupted, FillFails, Consume, ConsumePanics
<1>1. CASE \E n \in 0..Len(src) : Available(n)
  BY <1>0, <1>1, AvailableStep
<1>2. CASE FillInterrupted
  BY <1>2 DEF FillInterrupted, untilVars, IInv, TypeOK, Shape, Halves, Delims,
    given, marked, InHand, Found
<1>3. ASSUME NEW e \in Fault, FillFails(e) PROVE IInv'
  <2>1. /\ pc = "fill" /\ Return(e) /\ e \in ErrorKind
        /\ UNCHANGED <<vec, from, mark, src, used, done, read>>
    BY <1>3, ReadUntilAssumption DEF FillFails
  <2> QED
    BY <2>1, GivesUp
<1>4. CASE Consume
  BY <1>0, <1>4, ConsumeStep
<1>5. CASE ConsumePanics
  <2>1. /\ pc = "consume" /\ Return("panic")
        /\ UNCHANGED <<vec, from, mark, src, used, done, read>>
    BY <1>5 DEF ConsumePanics
  <2> QED
    BY <2>1, GivesUp
<1> QED
  BY <1>0, <1>1, <1>2, <1>3, <1>4, <1>5 DEF Loop

LInv == IInv /\ Outer

LEMMA SameLoop ==
  ASSUME IInv, UNCHANGED untilVars
  PROVE  IInv'
BY DEF untilVars, IInv, TypeOK, Shape, Halves, Delims,
  given, marked, InHand, Found

(* Every step of read_line keeps the invariant. *)
LEMMA NextLInv == LInv /\ [LineNext]_lineVars => LInv'
<1> SUFFICES ASSUME LInv, [LineNext]_lineVars PROVE LInv'
  OBVIOUS
<1> USE DEF LInv
<1>1. CASE Loop /\ UNCHANGED <<glen, ret>>
  <2>1. IInv' /\ pc # "end"
    BY <1>1, LoopStep
  <2>2. ret = "run" /\ ret' = "run" /\ glen' = glen /\ from' = from
    BY <1>1, <2>1 DEF Outer, Loop, Available, FillInterrupted, FillFails,
      Consume, ConsumePanics, untilVars
  <2>3. Outer'
    BY <2>2 DEF Outer, ReportsLine, A!FirstErrorWins
  <2> QED
    BY <2>1, <2>3
<1>2. CASE Checked
  <2>1. UNCHANGED untilVars /\ ret = "run" /\ rres \notin {"run", "panic"}
    BY <1>2 DEF Checked, A!Check, untilVars
  <2>2. IInv'
    BY <2>1, SameLoop
  <2>3. glen = from
    BY <2>1 DEF Outer
  <2> DEFINE appended == SubSeq(vec, from + 1, Len(vec))
  <2>4. \/ A!IsUtf8(appended) /\ ret' = rres
        \/ ~A!IsUtf8(appended) /\ ret' = IF rres = "ok" THEN "InvalidData" ELSE rres
    BY <1>2, <2>3 DEF Checked, A!Check, A!Appended
  <2>5. appended' = appended /\ rres' = rres /\ pc' = pc
    BY <2>1 DEF untilVars
  <2>6. pc = "end" /\ ret' # "run"
    BY <2>1, <2>4 DEF IInv, Shape, TypeOK
  <2>7. ReportsLine'
    <3>1. ret' = "ok" => rres' = "ok" /\ A!IsUtf8(appended)
      BY <2>1, <2>4, <2>5
    <3>2. ret' = "InvalidData" =>
            rres' = ret' \/ (rres' = "ok" /\ ~A!IsUtf8(appended))
      BY <2>1, <2>4, <2>5
    <3>3. A!FirstErrorWins'
      BY <2>1, <2>4, <2>5 DEF A!FirstErrorWins
    <3> QED
      BY <2>5, <3>1, <3>2, <3>3 DEF ReportsLine
  <2> QED
    BY <2>2, <2>5, <2>6, <2>7 DEF Outer
<1>3. CASE Unwound
  <2>1. UNCHANGED untilVars /\ ret = "run" /\ rres = "panic" /\ ret' = "panic"
    BY <1>3 DEF Unwound, A!Unwind, untilVars
  <2>2. IInv'
    BY <2>1, SameLoop
  <2>3. Outer'
    BY <2>1 DEF IInv, TypeOK, Shape, untilVars, Outer, ReportsLine, A!FirstErrorWins
  <2> QED
    BY <2>2, <2>3
<1>4. CASE ReadLineAgain
  <2>1. CallAgain /\ glen' = Len(vec) /\ ret' = "run"
    BY <1>4 DEF ReadLineAgain
  <2>2. IInv'
    BY <2>1, CallAgainStep
  <2>3. from' = Len(vec)
    BY <2>1 DEF CallAgain
  <2> QED
    BY <2>1, <2>2, <2>3 DEF Outer, ReportsLine, A!FirstErrorWins
<1>5. CASE UNCHANGED lineVars
  <2>1. UNCHANGED untilVars /\ UNCHANGED <<glen, ret>>
    BY <1>5 DEF lineVars
  <2>2. IInv'
    BY <2>1, SameLoop
  <2> QED
    BY <2>1, <2>2 DEF untilVars, Outer, ReportsLine, A!FirstErrorWins
<1> QED
  BY <1>1, <1>2, <1>3, <1>4, <1>5 DEF LineNext, Returned
-----------------------------------------------------------------------------
(* The inductive invariant: where the delimiters are in what was appended  *)
(* for the line, and how far the String is ahead of the reader.            *)
THEOREM Inductive == LineSpec => []LInv
<1>1. LineInit => LInv
  BY InitIInv DEF LInv
<1> QED
  BY <1>1, NextLInv, PTL DEF LineSpec

(* What is told to the reader as used is something it has                  *)
(* (impls_alloc.rs:135-147).                                               *)
THEOREM Typed == LineSpec => []TypeOK
<1>1. LInv => TypeOK
  BY DEF LInv, IInv
<1> QED
  BY <1>1, Inductive, PTL

(* Ok(n) counts what this call appended, of all calls (impls_alloc.rs:147). *)
THEOREM Counted == LineSpec => []CountsThisCall
<1>1. LInv => CountsThisCall
  BY DEF LInv, IInv, Shape, CountsThisCall
<1> QED
  BY <1>1, Inductive, PTL

(* The verdict of a call is about what that call appended, and an error of *)
(* the reader is not hidden by it (impls_alloc.rs:112-119).                *)
THEOREM Judged == LineSpec => []ReportsLine
<1>1. LInv => ReportsLine
  BY DEF LInv, Outer
<1> QED
  BY <1>1, Inductive, PTL

(* Every byte is in the String or still with the reader, once, over any    *)
(* number of calls, whatever failed (impls_alloc.rs:121-152).              *)
THEOREM Lossless == LineSpec => []NothingLost
<1>1. ASSUME IInv PROVE NothingLost
  <2> DEFINE k == given - InHand
             front == Initial \o Take(k, Source)
             hand == Take(InHand, Skip(k, Source))
  <2>1. /\ k \in 0..Len(Source) /\ InHand \in 0..Len(Source) - k
        /\ k + InHand = given /\ Len(vec) - InHand = Len(Initial) + k
        /\ given \in 0..Len(Source)
    <3>1. /\ given \in 0..Len(Source) /\ InHand \in 0..given
          /\ Len(vec) \in Nat /\ Len(Initial) \in Nat /\ Len(Source) \in Nat
      BY <1>1, Numbers, Typing, Zenon
    <3>2. PICK h \in Nat, s \in Nat, g \in Nat :
            h = InHand /\ s = Len(Source) /\ g = given
      <4>1. InHand \in Nat /\ Len(Source) \in Nat /\ given \in Nat
        <5>1. \A a \in 0..Len(Source) : a \in Nat /\ \A c \in 0..a : c \in Nat
          OBVIOUS
        <5> QED
          BY <3>1, <5>1, Zenon
      <4> QED
        BY <4>1, Zenon
    <3>3. g \in 0..s /\ h \in 0..g
      BY <3>1, <3>2, Zenon
    <3>4. /\ g - h \in 0..s /\ h \in 0..s - (g - h)
          /\ (g - h) + h = g
      BY <3>3
    <3>5. Len(vec) - h = Len(Initial) + (g - h)
      BY <3>1, <3>2, <3>3 DEF given
    <3> QED
      BY <3>1, <3>2, <3>4, <3>5, Zenon
  <2>2. /\ vec = Initial \o Take(given, Source) /\ src = Skip(k, Source)
    BY <1>1 DEF IInv, Halves
  <2>3. /\ Take(k, Source) \in Seq(Byte) /\ Len(Take(k, Source)) = k
        /\ Skip(k, Source) \in Seq(Byte) /\ Len(Skip(k, Source)) = Len(Source) - k
    BY <2>1, Typing, Cut
  <2>4. hand \in Seq(Byte)
    BY <2>1, <2>3, Cut
  <2>5. front \in Seq(Byte) /\ Len(front) = Len(Initial) + k
    BY <2>3, Typing, ConcatProperties
  <2>6. ASSUME NEW g \in 0..Len(Source), NEW h \in 0..Len(Source) - g
        PROVE  (Initial \o Take(g, Source)) \o Take(h, Skip(g, Source))
                 = Initial \o Take(g + h, Source)
    BY Glue
  <2>7. front \o hand = Initial \o Take(k + InHand, Source)
    BY <2>1, <2>6, Zenon
  <2>8. front \o hand = vec
    BY <2>1, <2>2, <2>7, Zenon
  <2>9. Take(Len(front), front \o hand) = front
    <3> HIDE DEF front, hand
    <3> QED
      BY <2>4, <2>5, TakeFirst
  <2>10. Take(Len(vec) - InHand, vec) = front
    BY <2>1, <2>5, <2>8, <2>9, Zenon
  <2>11. front \o src = Initial \o (Take(k, Source) \o Skip(k, Source))
    BY <2>2, <2>3, Typing, Assoc
  <2>12. Take(k, Source) \o Skip(k, Source) = Source
    BY <2>1, Typing, Rejoin
  <2> QED
    BY <2>10, <2>11, <2>12, Zenon DEF NothingLost
<1>2. LInv => NothingLost
  BY <1>1 DEF LInv
<1> QED
  BY <1>2, Inductive, PTL

(* What the calls for a line have appended is a part of the source.        *)
LEMMA LineSoFar ==
  ASSUME IInv
  PROVE  /\ Skip(mark, vec) \in Seq(Byte) /\ Len(Skip(mark, vec)) = given - marked
         /\ \A i \in 1..given - marked : Skip(mark, vec)[i] = Source[marked + i]
<1>0. /\ vec \in Seq(Byte) /\ Len(vec) \in Nat /\ mark \in 0..Len(vec)
      /\ given \in 0..Len(Source) /\ marked \in 0..given
      /\ Len(vec) - mark = given - marked /\ mark = Len(Initial) + marked
      /\ Len(vec) = Len(Initial) + given
  BY Numbers, Typing DEF given, marked
<1>1. /\ Skip(mark, vec) \in Seq(Byte) /\ Len(Skip(mark, vec)) = given - marked
      /\ \A i \in 1..given - marked : Skip(mark, vec)[i] = vec[mark + i]
  <2>1. ASSUME NEW v \in Seq(Byte), NEW m \in 0..Len(v)
        PROVE  /\ Skip(m, v) \in Seq(Byte) /\ Len(Skip(m, v)) = Len(v) - m
               /\ \A i \in 1..Len(v) - m : Skip(m, v)[i] = v[m + i]
    BY <2>1, Cut
  <2> QED
    BY <1>0, <2>1, Zenon
<1> DEFINE t == Take(given, Source)
<1>2. /\ t \in Seq(Byte) /\ Len(t) = given
      /\ \A i \in 1..given : t[i] = Source[i]
  BY <1>0, Typing, Cut
<1>3. vec = Initial \o t
  BY DEF IInv, Halves
<1> HIDE DEF t
<1>4. \A i \in Len(Initial) + 1..Len(Initial) + given :
        vec[i] = t[i - Len(Initial)]
  BY <1>2, <1>3, Typing, Joined
<1>5. ASSUME NEW i \in 1..given - marked
      PROVE  vec[mark + i] = Source[marked + i]
  <2>1. /\ mark + i \in Len(Initial) + 1..Len(Initial) + given
        /\ (mark + i) - Len(Initial) = marked + i /\ marked + i \in 1..given
    BY <1>0, Typing
  <2>2. vec[mark + i] = t[marked + i]
    BY <2>1, <1>4
  <2> QED
    BY <2>1, <2>2, <1>2
<1> QED
  BY <1>1, <1>5

(* Line after line: what was appended since the line began is the          *)
(* beginning of that line of the source, and after Ok with the delimiter   *)
(* all of it (impls_alloc.rs:128-152).                                     *)
THEOREM LineByLine == LineSpec => []OneLine
<1>1. ASSUME IInv PROVE OneLine
  <2> DEFINE rest == Skip(marked, Source)
             got == Skip(mark, vec)
             d == given - marked
  <2>1. /\ marked \in 0..Len(Source) /\ d \in Nat /\ d <= Len(Source) - marked
        /\ given \in Nat /\ marked \in Nat /\ given = marked + d
        /\ Len(Source) \in Nat
    BY <1>1, Numbers, Typing
  <2>2. /\ rest \in Seq(Byte) /\ Len(rest) = Len(Source) - marked
        /\ \A i \in 1..Len(Source) - marked : rest[i] = Source[marked + i]
    BY <2>1, Typing, Cut
  <2>3. /\ got \in Seq(Byte) /\ Len(got) = d
        /\ \A i \in 1..d : got[i] = Source[marked + i]
    BY <1>1, LineSoFar
  <2>4. /\ Found => d > 0
        /\ \A i \in 1..d : Source[marked + i] = Delim <=> Found /\ i = d
    <3>1. \A i \in 1..d : marked + i \in marked + 1..given
                          /\ (marked + i = given <=> i = d)
      BY <2>1
    <3> QED
      BY <1>1, <2>1, <3>1 DEF IInv, Delims
  <2> HIDE DEF rest, got, d
  <2>5. PICK k \in 0..Len(rest) : IsLine(rest, k)
    BY <2>2, LineOf
  <2>6. /\ k \in Nat /\ Line(rest) = Take(k, rest)
        /\ Take(k, rest) \in Seq(Byte) /\ Len(Take(k, rest)) = k
        /\ \A i \in 1..k : Take(k, rest)[i] = rest[i]
    <3>1. /\ Take(k, rest) \in Seq(Byte) /\ Len(Take(k, rest)) = k
          /\ \A i \in 1..k : Take(k, rest)[i] = rest[i]
      BY <2>2, <2>5, Cut
    <3> QED
      BY <3>1, <2>1, <2>2, <2>5 DEF IsLine
  <2>7. d <= k
    <3>1. CASE Places(rest) = {}
      BY <3>1, <2>1, <2>2, <2>5 DEF IsLine
    <3>2. CASE Places(rest) # {} /\ k < d
      <4>1. k \in 1..k /\ k \in 1..d /\ k \in 1..Len(Source) - marked
        BY <3>2, <2>1, <2>5, <2>6 DEF IsLine
      <4>2. rest[k] = Delim
        BY <3>2, <4>1, <2>5 DEF IsLine
      <4>3. Source[marked + k] = Delim
        BY <4>1, <4>2, <2>2
      <4> QED
        BY <3>2, <4>1, <4>3, <2>4
    <3> QED
      BY <3>1, <3>2, <2>1, <2>6
  <2>8. got = Take(d, Line(rest))
    <3>1. /\ Take(d, Take(k, rest)) \in Seq(Byte) /\ Len(Take(d, Take(k, rest))) = d
          /\ \A i \in 1..d : Take(d, Take(k, rest))[i] = Take(k, rest)[i]
      <4>1. d \in 0..Len(Take(k, rest))
        BY <2>1, <2>6, <2>7
      <4> DEFINE s == Take(k, rest)
      <4>2. s \in Seq(Byte) /\ d \in 0..Len(s)
        BY <4>1, <2>6
      <4> HIDE DEF s
      <4>3. /\ Take(d, s) \in Seq(Byte) /\ Len(Take(d, s)) = d
            /\ \A i \in 1..d : Take(d, s)[i] = s[i]
        BY <4>2, Cut
      <4> QED
        BY <4>3 DEF s
    <3>2. ASSUME NEW i \in 1..d
          PROVE  got[i] = Take(d, Take(k, rest))[i]
      <4>1. i \in 1..k /\ i \in 1..Len(Source) - marked
        BY <2>1, <2>6, <2>7
      <4>2. got[i] = rest[i]
        BY <4>1, <2>2, <2>3
      <4>3. Take(d, Take(k, rest))[i] = rest[i]
        BY <4>1, <3>1, <2>6
      <4> QED
        BY <4>2, <4>3
    <3>3. got = Take(d, Take(k, rest))
      <4> DEFINE s == Take(d, Take(k, rest))
      <4>1. s \in Seq(Byte) /\ Len(s) = d /\ \A i \in 1..d : got[i] = s[i]
        BY <3>1, <3>2
      <4> HIDE DEF s
      <4>2. got = s
        BY <4>1, <2>3, SeqEqual
      <4> QED
        BY <4>2 DEF s
    <3> QED
      BY <3>3, <2>6, Zenon
  <2>9. ASSUME rres = "ok", done PROVE got = Line(rest)
    <3>1. Found
      BY <2>9 DEF Found
    <3>2. d \in 1..d /\ d \in 1..Len(Source) - marked
      BY <3>1, <2>1, <2>4
    <3>3. Source[marked + d] = Delim
      BY <3>1, <3>2, <2>4
    <3>4. d \in 1..k /\ rest[d] = Delim
      BY <3>2, <3>3, <2>1, <2>2, <2>6, <2>7
    <3>5. d = k
      BY <3>4, <2>5 DEF IsLine
    <3>6. Take(d, Line(rest)) = Line(rest)
      BY <3>5, <2>6, SubSeqFull DEF Take
    <3> QED
      BY <3>6, <2>8, Zenon
  <2>10. Len(got) <= Len(Line(rest)) /\ got = Take(Len(got), Line(rest))
    BY <2>3, <2>6, <2>7, <2>8, Zenon
  <2> QED
    BY <2>9, <2>10, Zenon DEF OneLine, rest, got, marked
<1>2. LInv => OneLine
  BY <1>1 DEF LInv
<1> QED
  BY <1>2, Inductive, PTL

(***************************************************************************)
(* How many steps a call can take at most, interruptions aside: for each   *)
(* byte fill_buf may be asked, and told.                                   *)
(***************************************************************************)
Due ==
  CASE pc = "fill"    -> 2
    [] pc = "consume" -> 1
    [] pc = "end"     -> 0

StepsLeft == 2 * Len(src) + Due

LEMMA StepsLeftType == IInv => StepsLeft \in Nat
<1> SUFFICES ASSUME IInv PROVE StepsLeft \in Nat
  OBVIOUS
<1>1. Len(src) \in Nat
  BY Numbers
<1>2. Due \in Nat
  BY DEF Due, IInv, TypeOK
<1> QED
  BY <1>1, <1>2 DEF StepsLeft

LEMMA FewerSteps ==
  ASSUME IInv, Loop, untilVars' # untilVars
  PROVE  StepsLeft' < StepsLeft
<1>0. src \in Seq(Byte) /\ Len(src) \in Nat /\ used \in Nat
  BY Numbers
<1>1. CASE \/ \E n \in 0..Len(src) : Available(n)
           \/ \E e \in Fault : FillFails(e)
  <2>1. pc = "fill" /\ pc' \in {"consume", "end"} /\ src' = src
    BY <1>1 DEF Available, FillFails, Return
  <2>2. Due = 2 /\ Due' \in {0, 1}
    BY <2>1 DEF Due
  <2> QED
    BY <1>0, <2>1, <2>2 DEF StepsLeft
<1>2. CASE FillInterrupted
  BY <1>2 DEF FillInterrupted
<1>3. CASE Consume
  <2>1. /\ pc = "consume" /\ src' = Skip(used, src)
        /\ pc' = "end" \/ (pc' = "fill" /\ used # 0)
    BY <1>3 DEF Consume, Return
  <2>2. used \in 0..Len(src)
    BY <1>0, <2>1 DEF IInv, TypeOK
  <2>3. Len(src') = Len(src) - used
    BY <1>0, <2>1, <2>2, Cut
  <2>4. Due = 1 /\ (Due' = 0 \/ (Due' = 2 /\ used # 0))
    BY <2>1 DEF Due
  <2> QED
    BY <1>0, <2>2, <2>3, <2>4 DEF StepsLeft
<1>4. CASE ConsumePanics
  <2>1. Due = 1 /\ Due' = 0 /\ src' = src
    BY <1>4 DEF ConsumePanics, Return, Due
  <2> QED
    BY <1>0, <2>1 DEF StepsLeft
<1> QED
  BY <1>1, <1>2, <1>3, <1>4 DEF Loop

(* Within a call every step but an interruption brings its return nearer,  *)
(* however fill_buf portions the stream: with n bytes left a call is over  *)
(* after at most 2n + 2 steps (impls_alloc.rs:128-152).                    *)
THEOREM Bounded ==
  LineSpec => /\ [](StepsLeft \in Nat)
              /\ [][StepsLeft' < StepsLeft \/ ReadLineAgain]_untilVars
<1>1. LInv => StepsLeft \in Nat
  BY StepsLeftType DEF LInv
<1>2. ASSUME LInv, [LineNext]_lineVars, untilVars' # untilVars
      PROVE  StepsLeft' < StepsLeft \/ ReadLineAgain
  <2>1. CASE Loop
    BY <1>2, <2>1, FewerSteps DEF LInv
  <2>2. CASE Checked \/ Unwound \/ Returned \/ UNCHANGED lineVars
    BY <1>2, <2>2 DEF Checked, A!Check, Unwound, A!Unwind, Returned,
      lineVars, untilVars
  <2> QED
    BY <1>2, <2>1, <2>2 DEF LineNext
<1>3. LInv /\ [LineNext]_lineVars
        => [StepsLeft' < StepsLeft \/ ReadLineAgain]_untilVars
  BY <1>2
<1> QED
  BY <1>1, <1>3, Inductive, PTL DEF LineSpec
=============================================================================
