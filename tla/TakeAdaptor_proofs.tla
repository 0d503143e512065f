------------------------- MODULE TakeAdaptor_proofs -------------------------
(***************************************************************************)
(* Proofs about TakeAdaptor, for every source, limit, buffer length and    *)
(* width of usize.  That read_exact hands out the next bytes of the stream *)
(* needs to know, while it runs, that the buffer ends where the stream is. *)
(***************************************************************************)
EXTENDS TakeAdaptor, Slices_proofs

Cell == Byte \cup {Junk}

(* The part of its buffer that read_exact has filled: the last bytes the   *)
(* client was given, as long as it runs.                                   *)
Filled ==
  /\ left <= MaxUsize
  /\ xres = "ok" => left = 0
  /\ honest =>
       /\ from + Len(part) <= Len(got)
       /\ xres = "run" => from + Len(part) = Len(got)
       /\ part = SubSeq(got, from + 1, from + Len(part))

IInv == TypeOK /\ LimitHeld /\ InOrder /\ Filled

-----------------------------------------------------------------------------
LEMMA NothingUnwritten ==
  ASSUME NEW S, NEW s \in Seq(S)
  PROVE  s \o Unwritten(0) = s
<1>1. Unwritten(0) = <<>>
  BY DEF Unwritten
<1> QED
  BY <1>1, ConcatEmptySeq

LEMMA UnwrittenCells ==
  ASSUME NEW n \in Nat
  PROVE  Unwritten(n) \in Seq(Cell) /\ Len(Unwritten(n)) = n
BY DEF Unwritten, Cell

(* What cap_min lends is neither more than there is nor than is allowed. *)
LEMMA Capped ==
  ASSUME limit \in Nat, NEW len \in 0..MaxUsize
  PROVE  CapMin(len) \in Nat /\ CapMin(len) <= len /\ CapMin(len) <= limit
BY TakeAssumption DEF CapMin, Min2

-----------------------------------------------------------------------------
LEMMA InitIInv == Init => IInv
<1> SUFFICES ASSUME Init PROVE IInv
  OBVIOUS
<1>1. /\ src \in Seq(Byte) /\ got \in Seq(Cell) /\ part \in Seq(Cell)
      /\ Len(got) = 0 /\ Len(part) = 0 /\ Len(src) \in Nat
  BY TakeAssumption, EmptySeq, LenProperties DEF Init, Cell
<1>2. TypeOK
  BY <1>1, TakeAssumption DEF Init, TypeOK, Cell
<1>3. LimitHeld
  BY <1>1, TakeAssumption DEF Init, LimitHeld, Taken
<1>4. InOrder
  BY <1>1, ConcatEmptySeq DEF Init, InOrder
<1>5. Filled
  <2>1. SubSeq(got, from + 1, from + Len(part)) = <<>>
    BY <1>1, SubSeqEmpty DEF Init
  <2> QED
    BY <1>1, <2>1, TakeAssumption DEF Init, Filled
<1> QED
  BY <1>2, <1>3, <1>4, <1>5 DEF IInv

(* The inner reader gives bytes: Take::read, whoever called it. *)
LEMMA GivesStep ==
  ASSUME IInv, first' = first,
         NEW len \in 0..MaxUsize, NEW k \in 0..Len(src), NEW n \in 0..MaxUsize,
         Gives(len, k, n)
  PROVE  /\ src' \in Seq(Byte) /\ held' \in 0..Len(src') /\ limit' \in Nat
         /\ got' \in Seq(Cell) /\ honest' \in BOOLEAN /\ answer' = "ok"
         /\ LimitHeld' /\ InOrder'
         /\ k <= n
         /\ honest' => /\ honest /\ n = k /\ k <= len
                      /\ got' = got \o Take(k, src)
<1>1. /\ src \in Seq(Byte) /\ src \in Seq(Cell) /\ got \in Seq(Cell)
      /\ limit \in Nat /\ first \in Nat /\ honest \in BOOLEAN
      /\ Len(src) \in Nat /\ Len(Source) \in Nat /\ MaxUsize \in Nat
  BY TakeAssumption, SeqMonotonic, LenProperties DEF IInv, TypeOK, Cell
<1>2. /\ CapMin(len) \in Nat /\ CapMin(len) <= len /\ CapMin(len) <= limit
  BY <1>1, Capped
<1>3. k <= CapMin(len) /\ k <= n /\ k \in Nat /\ n \in Nat
  BY <1>1, <1>2 DEF Gives, Min2
<1>4. Min2(n, len) - k \in Nat /\ k <= n /\ (n = k => Min2(n, len) - k = 0)
  BY <1>1, <1>2, <1>3 DEF Min2
<1>5. /\ Take(k, src) \in Seq(Byte) /\ Take(k, src) \in Seq(Cell)
      /\ src' \in Seq(Byte) /\ Len(src') = Len(src) - k
  BY <1>1, Cut, SeqMonotonic DEF Gives, Cell
<1>6. got \o Take(k, src) \in Seq(Cell)
  BY <1>1, <1>5, ConcatProperties
<1>7. Unwritten(Min2(n, len) - k) \in Seq(Cell)
  BY <1>4, UnwrittenCells
<1>8. got' \in Seq(Cell)
  BY <1>6, <1>7, ConcatProperties DEF Gives
<1>9. honest' => honest /\ n = k
  BY <1>1 DEF Gives
<1>10. n = k => got' = got \o Take(k, src)
  BY <1>4, <1>6, NothingUnwritten DEF Gives
<1>11. InOrder'
  <2>1. (got \o Take(k, src)) \o Skip(k, src) = got \o src
    BY <1>1, PassOn
  <2> QED
    BY <2>1, <1>9, <1>10 DEF Gives, InOrder, IInv
<1>12. limit' \in Nat /\ limit' = IF limit >= n THEN limit - n ELSE 0
  BY <1>1, <1>3 DEF Gives, SaturatingSub
<1>13. LimitHeld'
  <2>1. Taken' = Taken + k /\ Taken \in Int
    BY <1>1, <1>3, <1>5 DEF Taken
  <2>2. Taken + limit <= first /\ (honest => Taken + limit = first)
    BY DEF IInv, LimitHeld
  <2>3. Taken' + limit' <= first
    BY <1>1, <1>2, <1>3, <1>12, <2>1, <2>2
  <2>4. honest' => Taken' + limit' = first
    BY <1>1, <1>2, <1>3, <1>9, <1>12, <2>1, <2>2
  <2> QED
    BY <2>3, <2>4 DEF LimitHeld
<1>14. /\ held' = 0 /\ 0 \in 0..Len(src') /\ honest' \in BOOLEAN /\ answer' = "ok"
  BY <1>1, <1>5 DEF Gives
<1> QED
  BY <1>1, <1>2, <1>3, <1>4, <1>5, <1>8, <1>9, <1>10, <1>11, <1>12, <1>13, <1>14

(* While read_exact does not run, the client may be given more. *)
LEMMA FilledStays ==
  ASSUME TypeOK, Filled, xres # "run", UNCHANGED <<exactVars, from>>,
         honest' => honest /\ \E t \in Seq(Cell) : got' = got \o t
  PROVE  Filled'
<1>1. /\ got \in Seq(Cell) /\ part \in Seq(Cell) /\ from \in Nat
      /\ Len(got) \in Nat /\ Len(part) \in Nat
  BY LenProperties DEF TypeOK, Cell
<1>2. ASSUME honest'
      PROVE  /\ from + Len(part) <= Len(got')
             /\ part = SubSeq(got', from + 1, from + Len(part))
  <2>1. PICK t \in Seq(Cell) : got' = got \o t
    BY <1>2
  <2>2. /\ from + Len(part) <= Len(got)
        /\ part = SubSeq(got, from + 1, from + Len(part))
    BY <1>2 DEF Filled
  <2>3. Len(got') = Len(got) + Len(t) /\ Len(t) \in Nat
    BY <1>1, <2>1, ConcatProperties, LenProperties
  <2>4. SubSeq(got \o t, from + 1, from + Len(part))
          = SubSeq(got, from + 1, from + Len(part))
    BY <1>1, <2>2, SliceStays
  <2> QED
    BY <1>1, <2>1, <2>2, <2>3, <2>4
<1> QED
  BY <1>2 DEF Filled, exactVars

(* Nothing moves but the answer. *)
LEMMA AnswerOnly ==
  ASSUME IInv, UNCHANGED <<innerVars, limit, first, from>>,
         answer' \in {"ok", "panic"} \cup ErrorKind
  PROVE  /\ UNCHANGED exactVars => IInv'
         /\ LimitHeld' /\ InOrder'
<1>1. LimitHeld' /\ InOrder'
  BY DEF IInv, innerVars, LimitHeld, Taken, InOrder
<1>2. UNCHANGED exactVars => TypeOK' /\ Filled'
  BY DEF IInv, TypeOK, Filled, innerVars, exactVars
<1> QED
  BY <1>1, <1>2 DEF IInv

LEMMA ReadStep ==
  ASSUME IInv, NEW len \in Lengths, Read(len)
  PROVE  IInv'
<1>1. len \in 0..MaxUsize /\ Len(src) \in Nat /\ xres # "run"
  BY TakeAssumption, LenProperties DEF Read, Idle, IInv, TypeOK
<1>2. CASE AtLimit
  BY <1>2, AnswerOnly DEF AtLimit, Read
<1>3. CASE \E e \in Fault : InnerFails(e)
  BY <1>3, AnswerOnly, TakeAssumption DEF InnerFails, Read
<1>4. CASE \E k \in 0..Len(src), n \in 0..MaxUsize : Gives(len, k, n)
  <2>1. PICK k \in 0..Len(src), n \in 0..MaxUsize : Gives(len, k, n)
    BY <1>4
  <2>2. UNCHANGED <<first, from, exactVars>>
    BY DEF Read
  <2>3. /\ src' \in Seq(Byte) /\ held' \in 0..Len(src') /\ limit' \in Nat
        /\ got' \in Seq(Cell) /\ honest' \in BOOLEAN /\ answer' = "ok"
        /\ LimitHeld' /\ InOrder'
        /\ honest' => honest /\ got' = got \o Take(k, src)
    BY <1>1, <2>1, <2>2, GivesStep
  <2>4. TypeOK'
    BY <2>2, <2>3 DEF IInv, TypeOK, exactVars, Cell
  <2>5. Take(k, src) \in Seq(Cell)
    BY <2>1, Cut, SeqMonotonic DEF IInv, TypeOK, Cell
  <2>6. Filled'
    BY <1>1, <2>2, <2>3, <2>5, FilledStays DEF IInv
  <2> QED
    BY <2>3, <2>4, <2>6 DEF IInv
<1> QED
  BY <1>2, <1>3, <1>4 DEF Read

LEMMA CallReadExactStep ==
  ASSUME IInv, NEW len \in Lengths, CallReadExact(len)
  PROVE  IInv'
<1>1. /\ part' = <<>> /\ left' = len /\ xres' = "run" /\ from' = Len(got)
      /\ UNCHANGED <<innerVars, limit, first, answer>> /\ len \in 0..MaxUsize
  BY TakeAssumption DEF CallReadExact, Enter
<1>2. got \in Seq(Cell) /\ Len(got) \in Nat
  BY LenProperties DEF IInv, TypeOK, Cell
<1>3. part' \in Seq(Cell) /\ Len(part') = 0
  BY <1>1, EmptySeq
<1>4. TypeOK' /\ LimitHeld' /\ InOrder'
  BY <1>1, <1>2, <1>3, TakeAssumption
    DEF IInv, TypeOK, innerVars, Cell, LimitHeld, Taken, InOrder
<1>5. SubSeq(got', from' + 1, from' + Len(part')) = <<>>
  BY <1>1, <1>2, <1>3, SubSeqEmpty
<1>6. Filled'
  BY <1>1, <1>2, <1>3, <1>5, TakeAssumption DEF Filled, innerVars
<1> QED
  BY <1>4, <1>6 DEF IInv

(* The buffer stays as it is: read_exact returns, or asks again. *)
LEMMA ReturnStep ==
  ASSUME IInv, UNCHANGED <<got, honest, from, part, left>>,
         xres' = "ok" => left = 0,
         xres' = "run" => xres = "run"
  PROVE  Filled'
BY DEF IInv, Filled

LEMMA ExactAtLimitStep == IInv /\ ExactAtLimit => IInv'
<1> SUFFICES ASSUME IInv, ExactAtLimit PROVE IInv'
  OBVIOUS
<1>1. /\ UNCHANGED <<innerVars, limit, first, from>> /\ answer' = "ok"
      /\ UNCHANGED <<part, left>> /\ xres' = "UnexpectedEof"
  BY DEF ExactAtLimit, AtLimit, Reading, Reply, Return, IInv, TypeOK
<1>2. LimitHeld' /\ InOrder'
  BY <1>1, AnswerOnly
<1>3. TypeOK'
  BY <1>1 DEF IInv, TypeOK, innerVars, ErrorKind
<1>4. Filled'
  BY <1>1, ReturnStep DEF innerVars
<1> QED
  BY <1>2, <1>3, <1>4 DEF IInv

LEMMA ExactFailsStep ==
  ASSUME IInv, NEW e \in Fault, ExactFails(e)
  PROVE  IInv'
<1>1. /\ UNCHANGED <<innerVars, limit, first, from>> /\ answer' = e
      /\ UNCHANGED <<part, left>> /\ xres' \in {xres, e}
      /\ e \in ErrorKind /\ xres = "run"
  BY TakeAssumption
    DEF ExactFails, InnerFails, Reading, ReplyErr, Return, exactVars
<1>2. LimitHeld' /\ InOrder'
  BY <1>1, AnswerOnly
<1>3. TypeOK'
  BY <1>1 DEF IInv, TypeOK, innerVars
<1>4. xres' # "ok"
  BY <1>1 DEF ErrorKind
<1>5. Filled'
  BY <1>1, <1>4, ReturnStep DEF innerVars
<1> QED
  BY <1>2, <1>3, <1>5 DEF IInv

LEMMA ExactDoneStep == IInv /\ ExactDone => IInv'
<1> SUFFICES ASSUME IInv, ExactDone PROVE IInv'
  OBVIOUS
<1>1. UNCHANGED takeVars /\ UNCHANGED <<part, left>> /\ xres' = "ok" /\ left = 0
  BY DEF ExactDone, Finish, Return
<1>2. TypeOK' /\ LimitHeld' /\ InOrder'
  BY <1>1
    DEF IInv, TypeOK, takeVars, innerVars, LimitHeld, Taken, InOrder
<1>3. Filled'
  BY <1>1, ReturnStep DEF takeVars, innerVars
<1> QED
  BY <1>2, <1>3 DEF IInv

(* The slice up to the end of the cells g, continued. *)
LEMMA CellsGrow ==
  ASSUME NEW g \in Seq(Cell), NEW t \in Seq(Cell), NEW f \in Nat, NEW l \in Nat,
         f + l = Len(g)
  PROVE  SubSeq(g, f + 1, f + l) \o t = SubSeq(g \o t, f + 1, f + (l + Len(t)))
BY SliceGrows

(* The loop goes on, behind what it was given. *)
LEMMA ExactGivesStep ==
  ASSUME IInv, NEW k \in 0..Len(src), NEW n \in 0..MaxUsize, ExactGives(k, n)
  PROVE  IInv'
<1> DEFINE bytes == Take(k, src)
<1>1. /\ left \in 0..MaxUsize /\ left > 0 /\ xres = "run"
      /\ MaxUsize \in Nat /\ n \in Nat
      /\ UNCHANGED <<first, from>> /\ from \in Nat
  BY TakeAssumption DEF ExactGives, Reading, IInv, TypeOK, Filled
<1>2. /\ src' \in Seq(Byte) /\ held' \in 0..Len(src') /\ limit' \in Nat
      /\ got' \in Seq(Cell) /\ honest' \in BOOLEAN /\ answer' = "ok"
      /\ LimitHeld' /\ InOrder'
      /\ k <= n
      /\ honest' => honest /\ n = k /\ k <= left /\ got' = got \o bytes
  BY <1>1, GivesStep DEF ExactGives
<1>3. /\ bytes \in Seq(Cell) /\ Len(bytes) = k /\ k \in Nat
      /\ got \in Seq(Cell) /\ part \in Seq(Cell)
      /\ Len(part) \in Nat /\ Len(got) \in Nat
  BY Cut, SeqMonotonic, LenProperties DEF IInv, TypeOK, Cell
<1> HIDE DEF bytes
<1>4. Reply(n, bytes)
  BY DEF ExactGives, bytes
<1>5. CASE n = 0 /\ Return("UnexpectedEof")
  <2>1. UNCHANGED <<part, left>> /\ xres' = "UnexpectedEof" /\ k = 0
    BY <1>2, <1>3, <1>5 DEF Return
  <2>2. TypeOK'
    BY <1>1, <1>2, <2>1 DEF IInv, TypeOK, Cell, ErrorKind
  <2>3. ASSUME honest' PROVE got' = got /\ honest
    <3>1. bytes = <<>>
      BY <1>3, <2>1, EmptySeq
    <3> QED
      BY <1>2, <1>3, <2>3, <3>1, ConcatEmptySeq
  <2>4. Filled'
    BY <1>1, <2>1, <2>3 DEF IInv, Filled
  <2> QED
    BY <1>2, <2>2, <2>4 DEF IInv
<1>6. CASE n > left /\ Return("panic")
  <2>1. UNCHANGED <<part, left>> /\ xres' = "panic"
    BY <1>6 DEF Return
  <2>2. TypeOK'
    BY <1>1, <1>2, <2>1 DEF IInv, TypeOK, Cell
  <2>3. ~honest'
    BY <1>1, <1>2, <1>3, <1>6
  <2>4. Filled'
    BY <1>1, <2>1, <2>3 DEF IInv, Filled
  <2> QED
    BY <1>2, <2>2, <2>4 DEF IInv
<1>7. CASE /\ n \in 1..left
           /\ part' = part \o bytes \o Unwritten(n - Len(bytes))
           /\ left' = left - n
           /\ UNCHANGED xres
  <2>1. n - Len(bytes) \in Nat /\ left' \in Nat /\ left' <= MaxUsize
    BY <1>1, <1>2, <1>3, <1>7
  <2>2. part \o bytes \in Seq(Cell) /\ Len(part \o bytes) = Len(part) + Len(bytes)
    BY <1>3, ConcatProperties
  <2>3. part' \in Seq(Cell)
    BY <1>7, <2>1, <2>2, UnwrittenCells, ConcatProperties
  <2>4. TypeOK'
    BY <1>1, <1>2, <1>7, <2>1, <2>3 DEF IInv, TypeOK, Cell
  <2>5. ASSUME honest'
        PROVE  /\ from + Len(part') = Len(got')
               /\ part' = SubSeq(got', from + 1, from + Len(part'))
    <3>1. honest /\ n = k /\ got' = got \o bytes
      BY <1>2, <2>5
    <3>2. n - Len(bytes) = 0
      BY <1>3, <3>1
    <3>3. part' = part \o bytes
      BY <1>7, <2>2, <3>2, NothingUnwritten
    <3>4. /\ from + Len(part) = Len(got)
          /\ part = SubSeq(got, from + 1, from + Len(part))
      BY <1>1, <3>1 DEF IInv, Filled
    <3>5. PICK l \in Nat, g \in Nat, b \in Nat :
            l = Len(part) /\ g = Len(got) /\ b = Len(bytes)
      BY <1>3
    <3>6. SubSeq(got, from + 1, from + l) \o bytes
            = SubSeq(got \o bytes, from + 1, from + (l + Len(bytes)))
      <4>1. l \in Nat /\ from \in Nat /\ from + l = Len(got)
        BY <1>1, <3>4, <3>5, Zenon
      <4>2. got \in Seq(Cell) /\ bytes \in Seq(Cell)
        BY <1>3
      <4>3. from + l = Len(got)
        BY <4>1
      <4> QED
        BY <4>1, <4>2, <4>3, CellsGrow, Zenon
    <3>7. Len(part') = l + b /\ Len(got') = g + b
      BY <1>3, <2>2, <3>1, <3>3, <3>5, ConcatProperties
    <3>8. from + (l + b) = g + b
      <4>1. from + l = g
        BY <3>4, <3>5, Zenon
      <4> QED
        BY <4>1, <1>1
    <3>9. from + Len(part') = Len(got')
      BY <3>7, <3>8, Zenon
    <3>10. part' = SubSeq(got', from + 1, from + Len(part'))
      <4>1. part = SubSeq(got, from + 1, from + l)
        BY <3>4, <3>5, Zenon
      <4>2. part' = SubSeq(got', from + 1, from + (l + b))
        BY <3>1, <3>3, <3>5, <3>6, <4>1, Zenon
      <4> QED
        BY <4>2, <3>7, Zenon
    <3> QED
      BY <3>9, <3>10
  <2>6. Filled'
    <3>1. xres' # "ok" /\ from' = from /\ left' <= MaxUsize
      BY <1>1, <1>7, <2>1
    <3>2. honest' => /\ from' + Len(part') = Len(got')
                    /\ part' = SubSeq(got', from' + 1, from' + Len(part'))
      BY <2>5, <3>1, Zenon
    <3>3. Len(got') \in Nat
      BY <1>2, LenProperties
    <3> QED
      BY <3>1, <3>2, <3>3 DEF Filled
  <2> QED
    BY <1>2, <2>4, <2>6 DEF IInv
<1> QED
  BY <1>4, <1>5, <1>6, <1>7 DEF Reply

-----------------------------------------------------------------------------
LEMMA FillBufStep == IInv /\ FillBuf => IInv'
<1> SUFFICES ASSUME IInv, FillBuf PROVE IInv'
  OBVIOUS
<1>1. CASE AtLimit
  BY <1>1, AnswerOnly DEF FillBuf, AtLimit
<1>2. CASE \E e \in Fault : InnerFails(e)
  BY <1>2, AnswerOnly, TakeAssumption DEF FillBuf, InnerFails
<1>3. CASE \E n \in 0..Len(src) :
             held' = n /\ answer' = "ok" /\ UNCHANGED <<src, got, honest, limit>>
  <2>1. UNCHANGED <<first, from, exactVars>>
    BY DEF FillBuf
  <2>2. /\ UNCHANGED <<src, got, honest, limit>> /\ answer' = "ok"
        /\ held' \in 0..Len(src)
    BY <1>3
  <2>3. TypeOK'
    BY <2>1, <2>2 DEF IInv, TypeOK, exactVars
  <2>4. LimitHeld' /\ InOrder'
    BY <2>1, <2>2 DEF IInv, LimitHeld, Taken, InOrder
  <2>5. Filled'
    BY <2>1, <2>2 DEF IInv, Filled, exactVars
  <2> QED
    BY <2>3, <2>4, <2>5 DEF IInv
<1> QED
  BY <1>1, <1>2, <1>3 DEF FillBuf

(* The inner reader is told amt, and n bytes go from it to the client: as  *)
(* many as the limit goes down by, or somebody is not honest.              *)
LEMMA PassStep ==
  ASSUME IInv, NEW amt \in Lengths,
         NEW n \in 0..Min2(CapMin(amt), Len(src)), Passed(amt, n),
         answer' \in {"ok", "panic"},
         (honest' = honest /\ n = CapMin(amt)) \/ honest' = FALSE
  PROVE  IInv'
<1> DEFINE m == CapMin(amt)
<1>1. /\ src \in Seq(Byte) /\ src \in Seq(Cell) /\ got \in Seq(Cell)
      /\ {limit, first} \subseteq Nat /\ honest \in BOOLEAN
      /\ Len(src) \in Nat /\ Len(Source) \in Nat /\ held \in 0..Len(src)
  BY TakeAssumption, SeqMonotonic, LenProperties DEF IInv, TypeOK, Cell
<1>call. /\ xres # "run" /\ limit' = limit - m
      /\ src' = Skip(n, src) /\ held' = SaturatingSub(held, n)
      /\ got' = got \o Take(n, src)
      /\ UNCHANGED <<first, from, exactVars>>
  BY DEF Passed, Idle
<1>told. m \in Nat /\ m <= limit
  BY <1>1, Capped, TakeAssumption
<1>passed. n \in 0..Len(src) /\ n \in Nat /\ n <= m
  BY <1>1, <1>told DEF Min2
<1>fair. (honest' = honest /\ n = m) \/ honest' = FALSE
  OBVIOUS
<1> HIDE DEF m
<1>2. /\ src' \in Seq(Byte) /\ Len(src') = Len(src) - n
      /\ Take(n, src) \in Seq(Cell)
  BY <1>call, <1>1, <1>passed, Cut
<1>3. got' \in Seq(Cell)
  BY <1>call, <1>1, <1>2, ConcatProperties
<1>4. held' \in 0..Len(src') /\ limit' \in Nat /\ honest' \in BOOLEAN
  <2>1. held' = IF held >= n THEN held - n ELSE 0
    BY <1>call DEF SaturatingSub
  <2>2. held' \in 0..Len(src')
    BY <1>1, <1>passed, <1>2, <2>1
  <2>3. limit' \in Nat
    BY <1>call, <1>1, <1>told
  <2> QED
    BY <1>1, <1>fair, <2>2, <2>3
<1>5. TypeOK'
  BY <1>call, <1>2, <1>3, <1>4 DEF IInv, TypeOK, exactVars, Cell
<1>6. LimitHeld'
  <2>1. Taken' = Taken + n /\ Taken \in Int
    BY <1>1, <1>passed, <1>2 DEF Taken
  <2>2. Taken + limit <= first /\ (honest => Taken + limit = first)
    BY DEF IInv, LimitHeld
  <2>3. Taken' + limit' <= first'
    BY <1>call, <1>1, <1>told, <1>passed, <2>1, <2>2
  <2>4. ASSUME honest' PROVE Taken' + limit' = first'
    <3>1. n = m /\ Taken + limit = first
      BY <1>fair, <2>2, <2>4
    <3> QED
      BY <1>call, <1>1, <1>told, <2>1, <3>1
  <2> QED
    BY <2>3, <2>4 DEF LimitHeld
<1>7. InOrder'
  <2>1. got' \o src' = got \o src
    BY <1>call, <1>1, <1>passed, PassOn
  <2>2. honest' => honest
    BY <1>fair
  <2> QED
    BY <2>1, <2>2 DEF IInv, InOrder
<1>8. Filled'
  <2>1. honest' => honest /\ \E t \in Seq(Cell) : got' = got \o t
    BY <1>call, <1>fair, <1>2
  <2> QED
    BY <1>call, <2>1, FilledStays DEF IInv
<1> QED
  BY <1>5, <1>6, <1>7, <1>8 DEF IInv

LEMMA ConsumeStep ==
  ASSUME IInv, NEW amt \in Lengths, Consume(amt)
  PROVE  IInv'
<1>1. CapMin(amt) \in 0..Min2(CapMin(amt), Len(src))
  <2>1. CapMin(amt) \in Nat /\ CapMin(amt) <= held
    BY Capped, TakeAssumption DEF Consume, IInv, TypeOK
  <2>2. held \in 0..Len(src) /\ Len(src) \in Nat
    BY LenProperties DEF IInv, TypeOK
  <2> QED
    BY <2>1, <2>2 DEF Min2
<1> QED
  BY <1>1, PassStep DEF Consume

LEMMA ConsumeTooMuchStep ==
  ASSUME IInv, NEW amt \in Lengths, ConsumeTooMuch(amt)
  PROVE  IInv'
BY PassStep DEF ConsumeTooMuch

LEMMA ConsumePanicsStep ==
  ASSUME IInv, NEW amt \in Lengths, ConsumePanics(amt)
  PROVE  IInv'
<1>1. PICK k \in 0..CapMin(amt) : Passed(amt, k)
  BY DEF ConsumePanics
<1>2. k \in 0..Min2(CapMin(amt), Len(src))
  <2>1. CapMin(amt) \in 1..held /\ held \in 0..Len(src) /\ Len(src) \in Nat
    BY LenProperties DEF ConsumePanics, IInv, TypeOK
  <2> QED
    BY <2>1 DEF Min2
<1> QED
  BY <1>1, <1>2, PassStep DEF ConsumePanics

LEMMA NextIInv == IInv /\ [Next]_vars => IInv'
<1> SUFFICES ASSUME IInv, [Next]_vars PROVE IInv'
  OBVIOUS
<1>1. CASE Client
  <2>1. PICK len \in Lengths : \/ Read(len) \/ CallReadExact(len) \/ Consume(len)
                               \/ ConsumeTooMuch(len) \/ ConsumePanics(len)
    BY <1>1 DEF Client
  <2> QED
    BY <2>1, ReadStep, CallReadExactStep, ConsumeStep, ConsumeTooMuchStep,
       ConsumePanicsStep
<1>2. CASE FillBuf
  BY <1>2, FillBufStep
<1>3. CASE Loop
  BY <1>3, ExactAtLimitStep, ExactDoneStep, ExactGivesStep, ExactFailsStep DEF Loop
<1>4. CASE UNCHANGED vars
  BY <1>4 DEF vars, takeVars, innerVars, exactVars,
    IInv, TypeOK, LimitHeld, Taken, InOrder, Filled
<1> QED
  BY <1>1, <1>2, <1>3, <1>4 DEF Next

-----------------------------------------------------------------------------
(* The inductive invariant: types, the allowance, the order of the bytes,  *)
(* and where the buffer of read_exact ends.                                *)
THEOREM Inductive == Spec => []IInv
BY InitIInv, NextIInv, PTL DEF Spec

(* Types and ranges: the limit never goes below zero (impls_always.rs:172, *)
(* 192).                                                                   *)
THEOREM Typed == Spec => []TypeOK
<1>1. IInv => TypeOK
  BY DEF IInv
<1> QED
  BY <1>1, Inductive, PTL

(* A Take passes on no more than its limit, whatever its inner reader and  *)
(* its client do (impls_always.rs:157-195).                                *)
THEOREM Limited == Spec => []LimitHeld
<1>1. IInv => LimitHeld
  BY DEF IInv
<1> QED
  BY <1>1, Inductive, PTL

(* Each byte reaches the client once and in order, through whichever call. *)
THEOREM Ordered == Spec => []InOrder
<1>1. IInv => InOrder
  BY DEF IInv
<1> QED
  BY <1>1, Inductive, PTL

(* read_exact fills its buffer with the next bytes, or fails with the ones *)
(* it has filled it with (lib.rs:191-202).                                 *)
THEOREM Exact == Spec => []ExactOrError
<1>1. IInv => ExactOrError
  BY DEF IInv, Filled, ExactOrError
<1> QED
  BY <1>1, Inductive, PTL

(* At its limit a Take does not ask its inner reader (impls_always.rs:165, *)
(* 180): it does not fail, nor fill its buffer, and no call moves a byte.  *)
THEOREM Quiet == Spec => QuietAtLimit
<1>1. ASSUME TypeOK, [Next]_vars, limit = 0
      PROVE  src' = src /\ held' = held /\ answer' \in {answer, "ok"}
  <2>0. /\ src \in Seq(Byte) /\ Len(src) \in Nat /\ held \in Nat /\ limit \in Nat
        /\ Skip(0, src) = src
    <3>1. src \in Seq(Byte) /\ Len(src) \in Nat /\ held \in Nat /\ limit \in Nat
      BY <1>1, LenProperties DEF TypeOK
    <3>2. Skip(0, src) = src
      BY <3>1, SubSeqFull DEF Skip
    <3> QED
      BY <3>1, <3>2
  <2>1. ASSUME NEW len \in Lengths PROVE CapMin(len) = 0
    BY <1>1, <2>0, <2>1, Capped, TakeAssumption
  <2>2. CASE Client
    <3>1. PICK len \in Lengths : \/ Read(len) \/ CallReadExact(len)
                                 \/ Consume(len) \/ ConsumeTooMuch(len)
                                 \/ ConsumePanics(len)
      BY <2>2 DEF Client
    <3>2. CASE Read(len)
      BY <1>1, <3>2 DEF Read, AtLimit, Gives, InnerFails, innerVars
    <3>3. CASE CallReadExact(len)
      BY <3>3 DEF CallReadExact, innerVars
    <3>4. CASE Consume(len)
      <4>1. SaturatingSub(held, 0) = held
        BY <2>0 DEF SaturatingSub
      <4> QED
        BY <3>4, <4>1, <2>0, <2>1 DEF Consume, Passed
    <3>5. CASE ConsumeTooMuch(len) \/ ConsumePanics(len)
      BY <3>5, <2>0, <2>1 DEF ConsumeTooMuch, ConsumePanics
    <3> QED
      BY <3>1, <3>2, <3>3, <3>4, <3>5
  <2>3. CASE FillBuf
    BY <1>1, <2>3 DEF FillBuf, AtLimit, InnerFails, innerVars
  <2>4. CASE Loop
    BY <1>1, <2>4 DEF Loop, ExactAtLimit, ExactDone, ExactGives, ExactFails,
      AtLimit, Gives, InnerFails, innerVars, takeVars
  <2>5. CASE UNCHANGED vars
    BY <2>5 DEF vars, takeVars, innerVars
  <2> QED
    BY <1>1, <2>2, <2>3, <2>4, <2>5 DEF Next
<1>2. TypeOK /\ [Next]_vars =>
        [limit = 0 =>
           src' = src /\ held' = held /\ answer' \in {answer, "ok"}]_vars
  BY <1>1
<1> QED
  BY <1>2, Typed, PTL DEF Spec, QuietAtLimit

(* Whatever the inner reader answers, read_exact is over, or has less left *)
(* to fill: only an interruption lets it ask again for the same, and       *)
(* nothing the client does with the Take in between can set it back        *)
(* (lib.rs:191-202).                                                       *)
THEOREM Bounded ==
  Spec => [][xres = "run" => xres' # "run" \/ left' < left]_exactVars
<1>1. ASSUME TypeOK, Next, exactVars' # exactVars, xres = "run"
      PROVE  xres' # "run" \/ left' < left
  <2>0. left \in Nat /\ Fault \subseteq ErrorKind
    BY <1>1, TakeAssumption DEF TypeOK
  <2>1. CASE Client \/ FillBuf
    BY <1>1, <2>1 DEF Client, Read, CallReadExact, Consume, ConsumeTooMuch,
      ConsumePanics, Passed, FillBuf, Idle, exactVars
  <2>2. CASE ExactAtLimit \/ ExactDone
    BY <2>2 DEF ExactAtLimit, ExactDone, Finish, Reply, Return
  <2>3. ASSUME NEW k \in 0..Len(src), NEW n \in 0..MaxUsize, ExactGives(k, n)
        PROVE  xres' # "run" \/ left' < left
    <3>1. Reply(n, Take(k, src))
      BY <2>3 DEF ExactGives
    <3>2. CASE n \in 1..left /\ left' = left - n
      BY <2>0, <3>2
    <3>3. CASE Return("UnexpectedEof") \/ Return("panic")
      BY <3>3 DEF Return
    <3> QED
      BY <3>1, <3>2, <3>3 DEF Reply
  <2>4. ASSUME NEW e \in Fault, ExactFails(e) PROVE xres' # "run"
    <3>1. Return(e)
      BY <1>1, <2>4 DEF ExactFails, ReplyErr
    <3> QED
      BY <2>0, <3>1 DEF Return, ErrorKind
  <2> QED
    BY <1>1, <2>1, <2>2, <2>3, <2>4 DEF Next, Loop
<1>2. TypeOK /\ [Next]_vars
        => [xres = "run" => xres' # "run" \/ left' < left]_exactVars
  BY <1>1 DEF vars
<1> QED
  BY <1>2, Typed, PTL DEF Spec
=============================================================================
