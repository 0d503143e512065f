------------------------- MODULE SkipClients_proofs -------------------------
(***************************************************************************)
(* Proofs about SkipClients, for every stream, buffer and number of bytes  *)
(* to skip.  That a string ends behind its first nul needs to know that    *)
(* none has been passed while it is under way, in whatever portions and    *)
(* over however many calls; that a skip reads what is behind it needs to   *)
(* know where the reader is, also when a seek went backwards.              *)
(***************************************************************************)
EXTENDS SkipClients, Slices_proofs

(* Where the string under way, or the last one, ended and what was read    *)
(* too much began; or that it has not ended yet.                           *)
Passed == Nuls(from) # {} /\ pos - over = from + FirstNul(from)
NonePassed == \A i \in Nuls(from) : from + i > pos

(* Which call is under way, and that nothing has gone wrong in it yet. *)
Calling ==
  /\ phase \in {"string", "back"} => call = "string" /\ ~astray
  /\ phase = "skip" => call = "skip"

(* Within a string: between two fills no nul has been passed, and before   *)
(* the seek back the first one has.                                        *)
StringPlace ==
  /\ call = "string" => from <= pos
  /\ phase = "string" => over = 0 /\ NonePassed
  /\ phase = "back" => Passed

(* Within a skip: what is behind the reader, with what is still to be      *)
(* skipped, is what was there, what was to be skipped and what was read.   *)
Plain ==
  pos + todo = from + want + Len(rest) /\ (todo > 0 => rest = <<>>)

(* A skip that is no i64, from within the stream, may seek backwards ...   *)
TurnedBack ==
  /\ want >= Half /\ todo = want - (Half - 1)
  /\ pos = from + want - 2 * Half /\ rest = <<>>

(* ... and then, in its second seek, past the end.                         *)
Beyond == want >= Half /\ todo = 0 /\ pos > Len(Source) /\ rest = <<>>

InReach == from <= Len(Source) \/ want < Half

SkipPlace ==
  call = "skip" /\ InReach =>
    /\ Plain \/ (from <= Len(Source) /\ (TurnedBack \/ Beyond))
    /\ phase = "skip" /\ todo > 0 =>
         IF "Seek" \in provided THEN Plain => todo = want ELSE Plain

IInv ==
  /\ TypeOK /\ Calling /\ StringPlace /\ SkipPlace
  /\ StringByString /\ SkipsExactly /\ EndIsTheEnd

-----------------------------------------------------------------------------
(* The stream. *)
LEMMA Sizes ==
  /\ Source \in Seq(Byte) /\ Len(Source) \in Nat /\ Half \in Nat
  /\ 4 * Len(Source) < Half /\ Len(Source) < Half /\ 0 < Half
  /\ MaxU64 = 2 * Half - 1 /\ MaxU64 \in Nat
<1>1. Source \in Seq(Byte) /\ Half \in Nat /\ 4 * Len(Source) < Half
  BY SkipAssumption
<1>2. Len(Source) \in Nat
  BY <1>1, LenProperties
<1> QED
  BY <1>1, <1>2 DEF MaxU64

LEMMA AfterIs ==
  ASSUME NEW p \in Nat
  PROVE  /\ After(p) = Skip(p, Source) /\ After(p) \in Seq(Byte)
         /\ Len(After(p)) = IF p <= Len(Source) THEN Len(Source) - p ELSE 0
         /\ \A i \in 1..Len(Source) - p : After(p)[i] = Source[p + i]
<1>1. After(p) = Skip(p, Source)
  BY DEF After, Skip
<1>2. CASE p <= Len(Source)
  <2>1. p \in 0..Len(Source) /\ Source \in Seq(Byte)
    BY <1>2, Sizes
  <2>2. /\ Skip(p, Source) \in Seq(Byte)
        /\ Len(Skip(p, Source)) = Len(Source) - p
        /\ \A i \in 1..Len(Source) - p : Skip(p, Source)[i] = Source[p + i]
    BY <2>1, Cut
  <2> QED
    BY <1>1, <1>2, <2>2, Zenon
<1>3. CASE p > Len(Source)
  <2>1. After(p) = <<>>
    BY <1>3, Sizes, SubSeqEmpty DEF After
  <2> QED
    BY <1>1, <1>3, <2>1, Sizes, EmptySeq
<1> QED
  BY <1>2, <1>3, Sizes

LEMMA AheadIs ==
  ASSUME TypeOK
  PROVE  /\ pos \in Nat /\ Ahead \in Nat
         /\ Ahead = IF pos <= Len(Source) THEN Len(Source) - pos ELSE 0
<1>1. pos \in Nat
  BY Sizes DEF TypeOK
<1>2. Ahead = IF pos <= Len(Source) THEN Len(Source) - pos ELSE 0
  BY <1>1, AfterIs, Zenon DEF Ahead
<1> QED
  BY <1>1, <1>2, Sizes

LEMMA NulsAre ==
  ASSUME NEW p \in Nat
  PROVE  /\ Nuls(p) \subseteq Nat
         /\ \A i \in Nat : i \in Nuls(p) <=>
              0 < i /\ p + i <= Len(Source) /\ Source[p + i] = Nul
<1>1. Nuls(p) \subseteq Nat
  BY AfterIs, Sizes DEF Nuls
<1>2. ASSUME NEW i \in Nat
      PROVE  i \in 1..Len(After(p)) <=> 0 < i /\ p + i <= Len(Source)
  <2> DEFINE m == Len(After(p))
  <2>1. m = IF p <= Len(Source) THEN Len(Source) - p ELSE 0
    BY AfterIs, Zenon
  <2> HIDE DEF m
  <2>2. i \in 1..m <=> 0 < i /\ p + i <= Len(Source)
    BY <2>1, Sizes
  <2> QED
    BY <2>2 DEF m
<1>3. ASSUME NEW i \in Nat, 0 < i, p + i <= Len(Source)
      PROVE  After(p)[i] = Source[p + i]
  <2>1. i \in 1..Len(Source) - p
    BY <1>3, Sizes
  <2> QED
    BY <2>1, AfterIs, Zenon
<1> QED
  BY <1>1, <1>2, <1>3 DEF Nuls

LEMMA FirstNulIs ==
  ASSUME NEW p \in Nat, Nuls(p) # {}
  PROVE  /\ FirstNul(p) \in Nuls(p) /\ FirstNul(p) \in Nat
         /\ \A i \in Nuls(p) : FirstNul(p) <= i
<1>1. Nuls(p) \in SUBSET Nat
  BY NulsAre
<1>2. \E m \in Nuls(p) : \A n \in Nuls(p) : m <= n
  BY <1>1, Least
<1> QED
  BY <1>1, <1>2 DEF FirstNul

(* Nuls ahead of q that are ahead of p, too. *)
LEMMA NulsAhead ==
  ASSUME NEW p \in Nat, NEW q \in Nat, p <= q,
         \A i \in Nuls(p) : p + i > q
  PROVE  /\ \A i \in Nuls(p) : (p + i) - q \in Nuls(q)
         /\ \A i \in Nuls(q) : (q - p) + i \in Nuls(p)
         /\ Nuls(q) # {} => /\ Nuls(p) # {}
                            /\ p + FirstNul(p) = q + FirstNul(q)
<1>1. ASSUME NEW i \in Nuls(p) PROVE (p + i) - q \in Nuls(q)
  <2>1. /\ i \in Nat /\ p + i <= Len(Source) /\ Source[p + i] = Nul
        /\ p + i > q
    BY NulsAre
  <2>2. /\ (p + i) - q \in Nat /\ 0 < (p + i) - q
        /\ q + ((p + i) - q) = p + i
    BY <2>1
  <2> QED
    BY <2>1, <2>2, NulsAre
<1>2. ASSUME NEW i \in Nuls(q) PROVE (q - p) + i \in Nuls(p)
  <2>1. i \in Nat /\ 0 < i /\ q + i <= Len(Source) /\ Source[q + i] = Nul
    BY NulsAre
  <2>2. /\ (q - p) + i \in Nat /\ 0 < (q - p) + i
        /\ p + ((q - p) + i) = q + i
    BY <2>1
  <2> QED
    BY <2>1, <2>2, NulsAre
<1>3. ASSUME Nuls(q) # {}
      PROVE  Nuls(p) # {} /\ p + FirstNul(p) = q + FirstNul(q)
  <2>1. /\ FirstNul(q) \in Nuls(q) /\ FirstNul(q) \in Nat
        /\ \A i \in Nuls(q) : FirstNul(q) <= i
    BY <1>3, FirstNulIs
  <2>2. Nuls(p) # {} /\ (q - p) + FirstNul(q) \in Nuls(p)
    BY <1>2, <2>1
  <2>3. /\ FirstNul(p) \in Nuls(p) /\ FirstNul(p) \in Nat
        /\ \A i \in Nuls(p) : FirstNul(p) <= i
    BY <2>2, FirstNulIs
  <2>4. FirstNul(p) <= (q - p) + FirstNul(q)
    BY <2>2, <2>3
  <2>5. FirstNul(q) <= (p + FirstNul(p)) - q
    BY <1>1, <2>1, <2>3
  <2> QED
    BY <2>1, <2>2, <2>3, <2>4, <2>5
<1> QED
  BY <1>1, <1>2, <1>3

(* The bytes from p on, as they are read. *)
LEMMA Portion ==
  ASSUME NEW p \in Nat, NEW n \in Nat, p + n <= Len(Source)
  PROVE  SubSeq(Source, p + 1, p + n) = Take(n, Skip(p, Source))
<1> DEFINE s == SubSeq(Source, p + 1, p + n)
           t == Take(n, Skip(p, Source))
<1>1. /\ p \in 0..Len(Source) /\ n \in 0..Len(Source) - p
      /\ Len(Source) - p \in Nat
  BY Sizes
<1>2. /\ Skip(p, Source) \in Seq(Byte)
      /\ Len(Skip(p, Source)) = Len(Source) - p
      /\ \A i \in 1..Len(Source) - p : Skip(p, Source)[i] = Source[p + i]
  BY <1>1, Sizes, Cut
<1>3. /\ t \in Seq(Byte) /\ Len(t) = n
      /\ \A i \in 1..n : t[i] = Skip(p, Source)[i]
  <2>1. n \in 0..Len(Skip(p, Source))
    BY <1>1, <1>2
  <2> QED
    BY <1>2, <2>1, Cut, Zenon
<1>4. s \in Seq(Byte) /\ Len(s) = n /\ \A i \in 1..n : s[i] = Source[p + i]
  BY <1>1, Sizes
<1> HIDE DEF s, t
<1>5. ASSUME NEW i \in 1..n PROVE s[i] = t[i]
  <2>1. s[i] = Source[p + i] /\ t[i] = Skip(p, Source)[i]
    BY <1>3, <1>4, Zenon
  <2>2. i \in 1..Len(Source) - p
    BY <1>1
  <2>3. Skip(p, Source)[i] = Source[p + i]
    BY <1>2, <2>2, Zenon
  <2> QED
    BY <2>1, <2>3, Zenon
<1>6. s = t
  BY <1>3, <1>4, <1>5, SeqEqual
<1> QED
  BY <1>6 DEF s, t

-----------------------------------------------------------------------------
(* The steps of skip_one_string. *)
LEMMA Typing ==
  ASSUME TypeOK
  PROVE  /\ pos \in Nat /\ from \in Nat /\ want \in Nat /\ todo \in Nat
         /\ pos <= MaxU64 /\ from <= MaxU64 /\ want <= MaxU64
         /\ todo <= MaxU64 /\ over \in Nat /\ over <= BufSize
         /\ BufSize \in Nat /\ 0 < BufSize
BY Sizes, SkipAssumption DEF TypeOK

(* What all of them leave alone. *)
WithinString ==
  /\ phase \in {"string", "back"}
  /\ UNCHANGED <<provided, callVars, todo, rest>>

LEMMA StringFrame ==
  ASSUME IInv, WithinString
  PROVE  /\ call = "string" /\ ~astray
         /\ call' = "string" /\ from' = from /\ want' = want
         /\ SkipPlace' /\ SkipsExactly'
         /\ Nuls(from)' = Nuls(from) /\ FirstNul(from)' = FirstNul(from)
<1>1. call = "string" /\ ~astray
  BY DEF IInv, Calling, WithinString
<1>2. call' = "string" /\ from' = from /\ want' = want
  BY <1>1 DEF WithinString, callVars
<1>3. SkipPlace' /\ SkipsExactly'
  BY <1>2 DEF SkipPlace, SkipsExactly
<1> QED
  BY <1>1, <1>2, <1>3 DEF Nuls, FirstNul, After

(* Some bytes are passed, none of them a nul. *)
LEMMA GoesOn ==
  ASSUME IInv, WithinString, phase = "string",
         NEW n \in 0..Ahead, pos' = pos + n, ~NulWithin(n),
         UNCHANGED <<phase, over, astray, res>>
  PROVE  IInv'
<1>1. /\ pos \in Nat /\ from \in Nat /\ n \in Nat /\ Ahead \in Nat
      /\ n = 0 \/ pos + n <= Len(Source)
  BY AheadIs, Typing, Sizes DEF IInv
<1>2. /\ from <= pos /\ over = 0 /\ NonePassed
  BY StringFrame DEF IInv, StringPlace
<1>3. \A i \in Nuls(pos) : i > n
  <2>1. ASSUME NEW i \in Nuls(pos) PROVE i > n
    <3>1. FirstNul(pos) \in Nat /\ FirstNul(pos) <= i /\ i \in Nat
      BY <1>1, FirstNulIs, NulsAre
    <3>2. ~ (FirstNul(pos) <= n)
      BY DEF NulWithin
    <3> QED
      BY <1>1, <3>1, <3>2
  <2> QED
    BY <2>1
<1>4. ASSUME NEW i \in Nuls(from) PROVE from + i > pos + n
  <2>1. (from + i) - pos \in Nuls(pos)
    BY <1>1, <1>2, NulsAhead DEF NonePassed
  <2>2. i \in Nat
    BY <1>1, NulsAre
  <2> QED
    BY <1>1, <1>3, <2>1, <2>2
<1>5. StringPlace'
  BY <1>1, <1>2, <1>4, StringFrame DEF StringPlace, NonePassed
<1>6. TypeOK'
  <2>1. pos' \in 0..MaxU64
    BY <1>1, Sizes, Typing DEF IInv
  <2> QED
    BY <2>1 DEF IInv, TypeOK, WithinString, callVars
<1>7. StringByString' /\ EndIsTheEnd'
  BY DEF StringByString, EndIsTheEnd, Done
<1> QED
  BY <1>5, <1>6, <1>7, StringFrame DEF IInv, Calling, WithinString, callVars

(* The nul is passed, perhaps with what is behind it. *)
LEMMA NulPassed ==
  ASSUME IInv, WithinString, phase = "string", Nuls(pos) # {},
         over' \in 0..BufSize, pos' \in 0..Len(Source),
         pos' - over' = pos + FirstNul(pos),
         astray' = astray,
         \/ phase' = "idle" /\ res' = "ok"
         \/ phase' = "back" /\ res' = res
  PROVE  IInv'
<1>1. pos \in Nat /\ from \in Nat /\ over' \in Nat /\ pos' \in Nat
  BY Typing, SkipAssumption, Sizes DEF IInv
<1>2. from <= pos /\ NonePassed
  BY StringFrame DEF IInv, StringPlace
<1>3. /\ Nuls(from) # {} /\ from + FirstNul(from) = pos + FirstNul(pos)
  BY <1>1, <1>2, NulsAhead DEF NonePassed
<1>4. Passed'
  BY <1>3, StringFrame DEF Passed
<1>5. from' <= pos'
  <2>1. FirstNul(pos) \in Nat
    BY <1>1, FirstNulIs
  <2> QED
    BY <1>1, <1>2, <2>1, StringFrame
<1>6. StringPlace' /\ StringByString' /\ Calling'
  BY <1>4, <1>5, StringFrame
     DEF StringPlace, StringByString, Calling, Done, Passed
<1>7. TypeOK'
  <2>1. pos' \in 0..MaxU64
    BY Sizes
  <2> QED
    BY <2>1 DEF IInv, TypeOK, WithinString, callVars
<1>8. EndIsTheEnd'
  BY StringFrame DEF EndIsTheEnd, Done
<1> QED
  BY <1>6, <1>7, <1>8, StringFrame DEF IInv

(* An error, or the end of the stream, ends the call where it is. *)
LEMMA StringStops ==
  ASSUME IInv, WithinString, phase = "string",
         UNCHANGED <<pos, over, astray>>, NEW r, Return(r),
         r \in Fault \/ (r = "UnexpectedEof" /\ Ahead = 0)
  PROVE  IInv'
<1>1. pos \in Nat /\ from \in Nat
  BY Typing DEF IInv
<1>2. from <= pos /\ over = 0 /\ NonePassed
  BY StringFrame DEF IInv, StringPlace
<1>3. r # "ok" /\ (r = "UnexpectedEof" => Ahead = 0)
  BY SkipAssumption
<1>4. NonePassed'
  BY <1>2, StringFrame DEF NonePassed
<1>5. StringPlace' /\ StringByString' /\ Calling'
  BY <1>2, <1>3, <1>4, StringFrame
     DEF StringPlace, StringByString, Calling, Done, Passed, NonePassed, Return
<1>6. TypeOK'
  BY DEF IInv, TypeOK, WithinString, callVars, Return
<1>7. EndIsTheEnd'
  <2>1. ASSUME Ahead = 0 PROVE Nuls(from) = {}
    <3>1. pos >= Len(Source)
      BY <2>1, AheadIs, Sizes DEF IInv
    <3>2. ASSUME NEW i \in Nuls(from) PROVE FALSE
      <4>1. i \in Nat /\ from + i <= Len(Source)
        BY <1>1, NulsAre
      <4>2. from + i > pos
        BY <1>2 DEF NonePassed
      <4> QED
        BY <1>1, <3>1, <4>1, <4>2, Sizes
    <3> QED
      BY <3>2
  <2>2. Ahead' = Ahead
    BY DEF Ahead, After
  <2> QED
    BY <1>3, <2>1, <2>2, StringFrame DEF EndIsTheEnd, Done, Return
<1> QED
  BY <1>5, <1>6, <1>7, StringFrame DEF IInv

LEMMA OwnFillStep ==
  ASSUME IInv, NEW n \in Nat, OwnFill(n)
  PROVE  IInv'
<1>1. /\ WithinString /\ phase = "string" /\ astray' = astray /\ over' = over
      /\ n \in 1..Ahead
  BY DEF OwnFill, InString, WithinString
<1>2. pos \in Nat /\ Ahead \in Nat /\ pos + n <= Len(Source)
  BY <1>1, AheadIs, Sizes DEF IInv
<1>3. over = 0 /\ 0 \in 0..BufSize
  BY <1>1, Typing DEF IInv, StringPlace
<1>4. CASE NulWithin(n)
  <2>1. Nuls(pos) # {} /\ FirstNul(pos) <= n
    BY <1>4 DEF NulWithin
  <2>2. FirstNul(pos) \in Nat
    BY <1>2, <2>1, FirstNulIs
  <2>3. pos' = pos + FirstNul(pos) /\ phase' = "idle" /\ res' = "ok"
    BY <1>4 DEF OwnFill, Return
  <2>4. pos' \in 0..Len(Source) /\ pos' - over' = pos + FirstNul(pos)
    BY <1>1, <1>2, <1>3, <2>1, <2>2, <2>3, Sizes
  <2> QED
    BY <1>1, <1>3, <2>1, <2>3, <2>4, NulPassed
<1>5. CASE ~NulWithin(n)
  <2>1. pos' = pos + n /\ UNCHANGED <<phase, res>>
    BY <1>5 DEF OwnFill
  <2>2. n \in 0..Ahead
    BY <1>1, <1>2
  <2> QED
    BY <1>1, <1>5, <2>1, <2>2, GoesOn
<1> QED
  BY <1>4, <1>5

LEMMA OverFillStep ==
  ASSUME IInv, NEW n \in Nat, OverFill(n)
  PROVE  IInv'
<1>1. /\ WithinString /\ phase = "string" /\ astray' = astray /\ res' = res
      /\ n \in 1..Min2(Ahead, BufSize) /\ pos' = pos + n
  BY DEF OverFill, InString, WithinString
<1>2. /\ pos \in Nat /\ Ahead \in Nat /\ pos + n <= Len(Source)
      /\ n \in 0..Ahead /\ n <= BufSize
  BY <1>1, AheadIs, Typing, Sizes DEF IInv, Min2
<1>3. CASE NulWithin(n)
  <2>1. Nuls(pos) # {} /\ FirstNul(pos) <= n
    BY <1>3 DEF NulWithin
  <2>2. FirstNul(pos) \in Nat
    BY <1>2, <2>1, FirstNulIs
  <2>3. over' = n - FirstNul(pos) /\ phase' = "back"
    BY <1>3 DEF OverFill
  <2>4. /\ over' \in 0..BufSize /\ pos' \in 0..Len(Source)
        /\ pos' - over' = pos + FirstNul(pos)
    <3>1. BufSize \in Nat /\ Len(Source) \in Nat
      BY Sizes, Typing DEF IInv
    <3>2. PICK f \in Nat : f = FirstNul(pos)
      BY <2>2
    <3>3. f <= n /\ over' = n - f /\ pos' = pos + n
      BY <1>1, <2>1, <2>3, <3>2, Zenon
    <3>4. over' \in 0..BufSize /\ pos' \in 0..Len(Source)
      BY <1>2, <3>1, <3>3
    <3>5. pos' - over' = pos + f
      BY <1>2, <3>3
    <3> QED
      BY <3>2, <3>4, <3>5, Zenon
  <2> QED
    BY <1>1, <2>1, <2>3, <2>4, NulPassed
<1>4. CASE ~NulWithin(n)
  <2>1. UNCHANGED <<over, phase>>
    BY <1>4 DEF OverFill
  <2> QED
    BY <1>1, <1>2, <1>4, <2>1, GoesOn
<1> QED
  BY <1>3, <1>4

LEMMA OneByteStep ==
  ASSUME IInv, OneByte
  PROVE  IInv'
<1>1. /\ WithinString /\ phase = "string" /\ astray' = astray /\ over' = over
  BY DEF OneByte, InString, WithinString
<1>2. pos \in Nat /\ Ahead \in Nat
  BY AheadIs DEF IInv
<1>3. CASE Ahead = 0
  <2>1. UNCHANGED pos /\ Return("UnexpectedEof")
    BY <1>3 DEF OneByte
  <2> QED
    BY <1>1, <1>3, <2>1, StringStops
<1>4. CASE Ahead # 0
  <2>1. pos' = pos + 1 /\ 1 \in 0..Ahead /\ pos + 1 <= Len(Source)
    BY <1>2, <1>4, AheadIs, Sizes DEF OneByte, IInv
  <2>2. CASE NulWithin(1)
    <3>1. Nuls(pos) # {} /\ FirstNul(pos) <= 1
      BY <2>2 DEF NulWithin
    <3>2. FirstNul(pos) = 1
      <4>1. FirstNul(pos) \in Nuls(pos) /\ FirstNul(pos) \in Nat
        BY <1>2, <3>1, FirstNulIs
      <4>2. 0 < FirstNul(pos)
        BY <1>2, <4>1, NulsAre
      <4> QED
        BY <3>1, <4>1, <4>2
    <3>3. phase' = "idle" /\ res' = "ok"
      BY <1>4, <2>2 DEF OneByte, Return
    <3>4. over = 0 /\ 0 \in 0..BufSize
      BY <1>1, Typing DEF IInv, StringPlace
    <3>5. pos' \in 0..Len(Source) /\ pos' - over' = pos + FirstNul(pos)
      BY <1>1, <1>2, <2>1, <3>2, <3>4, Sizes
    <3> QED
      BY <1>1, <3>1, <3>3, <3>4, <3>5, NulPassed
  <2>3. CASE ~NulWithin(1)
    <3>1. UNCHANGED <<phase, res>>
      BY <1>4, <2>3 DEF OneByte
    <3> QED
      BY <1>1, <2>1, <2>3, <3>1, GoesOn
  <2> QED
    BY <2>2, <2>3
<1> QED
  BY <1>3, <1>4

LEMMA NoNulStep ==
  ASSUME IInv, NoNul
  PROVE  IInv'
<1>1. /\ WithinString /\ phase = "string" /\ Ahead = 0
      /\ UNCHANGED <<pos, over, astray>> /\ Return("UnexpectedEof")
  BY DEF NoNul, InString, WithinString
<1> QED
  BY <1>1, StringStops

LEMMA FillFailsStep ==
  ASSUME IInv, NEW e \in Fault, FillFails(e)
  PROVE  IInv'
<1>1. /\ WithinString /\ phase = "string"
      /\ UNCHANGED <<pos, over, astray>> /\ Return(e)
  BY DEF FillFails, InString, WithinString
<1> QED
  BY <1>1, StringStops

LEMMA ByteFailsStep ==
  ASSUME IInv, NEW e \in Fault, ByteFails(e)
  PROVE  IInv'
<1>1. /\ WithinString /\ phase = "string" /\ UNCHANGED <<pos, over, astray>>
  BY DEF ByteFails, InString, WithinString
<1>2. CASE e = "Interrupted"
  <2>1. pos \in Nat /\ 0 \in 0..Ahead /\ pos' = pos + 0
    BY <1>1, AheadIs DEF IInv
  <2>2. ~NulWithin(0)
    <3>1. ASSUME Nuls(pos) # {} PROVE ~ (FirstNul(pos) <= 0)
      BY <2>1, <3>1, FirstNulIs, NulsAre
    <3> QED
      BY <3>1 DEF NulWithin
  <2>3. UNCHANGED <<phase, res>>
    BY <1>2 DEF ByteFails
  <2> QED
    BY <1>1, <2>1, <2>2, <2>3, GoesOn
<1>3. CASE e # "Interrupted"
  <2>1. Return(e)
    BY <1>3 DEF ByteFails
  <2> QED
    BY <1>1, <2>1, StringStops
<1> QED
  BY <1>2, <1>3

(* The seek back ends the call, behind the nul or astray. *)
LEMMA SeekBackStep ==
  ASSUME IInv,
         SeekBack \/ \E e \in Fault : SeekBackFails(e)
  PROVE  IInv'
<1>1. WithinString /\ phase = "back"
  BY DEF SeekBack, SeekBackFails, InBack, WithinString
<1>2. Passed /\ from <= pos
  BY <1>1, StringFrame DEF IInv, StringPlace
<1>3. /\ pos \in Nat /\ over \in Nat /\ over <= BufSize /\ from \in Nat
      /\ pos <= MaxU64 /\ BufSize \in Nat
  BY Typing DEF IInv
<1>4. FirstNul(from) \in Nat
  BY <1>2, <1>3, FirstNulIs DEF Passed
<1>5. /\ phase' = "idle" /\ over' \in 0..BufSize /\ pos' \in 0..MaxU64
      /\ pos' - over' = pos - over /\ from <= pos'
      /\ astray' \in BOOLEAN /\ (res' = "ok" \/ astray')
      /\ res' \in {"ok"} \cup Fault
  <2>1. CASE SeekBack
    <3>1. pos - over \in 0..MaxU64 /\ from <= pos - over
      BY <1>2, <1>3, <1>4, Sizes DEF Passed
    <3> QED
      BY <1>3, <2>1, <3>1 DEF SeekBack, Return, InBack, IInv, TypeOK
  <2>2. CASE \E e \in Fault : SeekBackFails(e)
    BY <1>2, <1>3, <2>2, Sizes DEF SeekBackFails, Return
  <2> QED
    BY <2>1, <2>2
<1>6. Passed'
  BY <1>1, <1>2, <1>5, StringFrame DEF Passed
<1>7. StringPlace' /\ StringByString' /\ Calling'
  BY <1>5, <1>6, StringFrame, <1>1
     DEF StringPlace, StringByString, Calling, Done, Passed
<1>8. TypeOK'
  BY <1>1, <1>5 DEF IInv, TypeOK, WithinString, callVars
<1>9. EndIsTheEnd'
  <2>1. res' # "UnexpectedEof"
    BY <1>5, SkipAssumption
  <2> QED
    BY <2>1 DEF EndIsTheEnd
<1> QED
  BY <1>1, <1>7, <1>8, <1>9, StringFrame DEF IInv

LEMMA BeginStringStep ==
  ASSUME IInv, BeginString
  PROVE  IInv'
<1>1. /\ phase = "idle" /\ phase' = "string" /\ call' = "string"
      /\ pos' = pos /\ over' = 0 /\ astray' = FALSE
      /\ UNCHANGED <<provided, todo, rest, want, res>>
  BY DEF BeginString
<1>2. pos \in Nat /\ BufSize \in Nat
  BY Typing DEF IInv
<1>3. from' \in 0..MaxU64 /\ from' <= pos' /\ NonePassed'
  <2>1. CASE call = "string" /\ res # "ok" /\ ~astray
    <3>1. from' = from
      BY <2>1 DEF BeginString
    <3>2. NonePassed /\ from <= pos
      BY <1>1, <2>1
         DEF IInv, StringByString, Done, StringPlace, NonePassed
    <3> QED
      BY <1>1, <3>1, <3>2 DEF IInv, TypeOK, NonePassed, Nuls, After
  <2>2. CASE ~ (call = "string" /\ res # "ok" /\ ~astray)
    <3>1. from' = pos
      BY <2>2 DEF BeginString
    <3>2. \A i \in Nuls(pos) : pos + i > pos
      BY <1>2, NulsAre
    <3> QED
      BY <1>1, <1>2, <3>1, <3>2 DEF IInv, TypeOK, NonePassed, Nuls, After
  <2> QED
    BY <2>1, <2>2
<1>4. TypeOK'
  <2>1. 0 \in 0..BufSize
    BY <1>2
  <2>2. {pos', from', want', todo'} \subseteq 0..MaxU64
    BY <1>1, <1>3 DEF IInv, TypeOK
  <2> QED
    BY <1>1, <2>1, <2>2 DEF IInv, TypeOK
<1>5. StringPlace' /\ Calling'
  BY <1>1, <1>3 DEF StringPlace, Calling
<1>6. SkipPlace' /\ SkipsExactly' /\ StringByString' /\ EndIsTheEnd'
  BY <1>1 DEF SkipPlace, SkipsExactly, StringByString, EndIsTheEnd, Done
<1> QED
  BY <1>4, <1>5, <1>6 DEF IInv

-----------------------------------------------------------------------------
(* The steps of read_with_skip. *)

(* What all of them leave alone. *)
WithinSkip == phase = "skip" /\ UNCHANGED <<provided, callVars, astray, over>>

LEMMA SkipFrame ==
  ASSUME IInv, WithinSkip
  PROVE  /\ call = "skip" /\ call' = "skip" /\ from' = from /\ want' = want
         /\ astray' = astray /\ over' = over /\ provided' = provided
         /\ StringByString'
<1>1. call = "skip"
  BY DEF IInv, Calling, WithinSkip
<1>2. /\ call' = "skip" /\ from' = from /\ want' = want
      /\ astray' = astray /\ over' = over /\ provided' = provided
  BY <1>1 DEF WithinSkip, callVars
<1> QED
  BY <1>1, <1>2 DEF StringByString, Done

(* The reader is elsewhere, and the call goes on. *)
LEMMA SkipGoesOn ==
  ASSUME IInv, WithinSkip, UNCHANGED <<phase, res>>,
         pos' \in 0..MaxU64, todo' \in 0..MaxU64, rest' \in Seq(Byte),
         SkipPlace',
         InReach => /\ Len(rest') <= Len(After(from + want))
                    /\ rest' = SubSeq(After(from + want), 1, Len(rest'))
  PROVE  IInv'
<1>1. /\ call' = "skip" /\ from' = from /\ want' = want /\ phase' = "skip"
      /\ StringPlace' /\ StringByString' /\ Calling'
  BY SkipFrame DEF WithinSkip, Calling, StringPlace
<1>2. SkipsExactly'
  BY <1>1 DEF SkipsExactly, InReach, Done
<1>3. EndIsTheEnd'
  BY <1>1 DEF EndIsTheEnd, Done
<1>4. TypeOK'
  <2>1. {pos', from', want', todo'} \subseteq 0..MaxU64
    BY <1>1 DEF IInv, TypeOK
  <2> QED
    BY <1>1, <2>1, SkipFrame DEF IInv, TypeOK
<1> QED
  BY <1>1, <1>2, <1>3, <1>4 DEF IInv

(* The call ends where it is. *)
LEMMA SkipStops ==
  ASSUME IInv, WithinSkip, UNCHANGED <<pos, todo, rest>>, NEW r, Return(r),
         r \in {"ok", "UnexpectedEof", "InvalidInput"} \cup Fault,
         r = "ok" /\ InReach => rest = After(from + want),
         r = "UnexpectedEof" => from + want > Len(Source)
  PROVE  IInv'
<1>1. /\ call' = "skip" /\ from' = from /\ want' = want
      /\ phase' = "idle" /\ res' = r /\ call = "skip"
      /\ StringPlace' /\ StringByString' /\ Calling'
  BY SkipFrame DEF Return, Calling, StringPlace
<1>2. SkipPlace'
  BY <1>1 DEF SkipPlace, InReach, Plain, TurnedBack, Beyond, IInv
<1>3. SkipsExactly'
  BY <1>1 DEF SkipsExactly, InReach, IInv
<1>4. EndIsTheEnd'
  BY <1>1 DEF EndIsTheEnd, Done
<1>5. TypeOK'
  BY <1>1, SkipFrame DEF IInv, TypeOK
<1> QED
  BY <1>1, <1>2, <1>3, <1>4, <1>5 DEF IInv

(* What is known of a skip under way. *)
LEMMA SkipTyping ==
  ASSUME IInv, WithinSkip
  PROVE  /\ pos \in Nat /\ from \in Nat /\ want \in Nat /\ todo \in Nat
         /\ pos <= MaxU64 /\ want <= MaxU64 /\ todo <= MaxU64
         /\ rest \in Seq(Byte) /\ Len(rest) \in Nat
         /\ InReach => /\ Len(rest) <= Len(After(from + want))
                       /\ rest = SubSeq(After(from + want), 1, Len(rest))
         /\ rest = <<>> <=> Len(rest) = 0
<1>1. rest \in Seq(Byte)
  BY DEF IInv, TypeOK
<1>2. Len(rest) \in Nat /\ (rest = <<>> <=> Len(rest) = 0)
  BY <1>1, LenProperties, EmptySeq
<1>3. InReach => /\ Len(rest) <= Len(After(from + want))
                 /\ rest = SubSeq(After(from + want), 1, Len(rest))
  BY SkipFrame DEF IInv, SkipsExactly, InReach
<1> QED
  BY <1>1, <1>2, <1>3, Typing DEF IInv

LEMMA SeekAheadStep ==
  ASSUME IInv, SeekAhead
  PROVE  IInv'
<1>1. /\ WithinSkip /\ todo > 0 /\ "Seek" \in provided
      /\ pos + AsI64(todo) \in 0..MaxU64 /\ pos' = pos + AsI64(todo)
      /\ todo' = todo - Min2(todo, Half - 1)
      /\ UNCHANGED <<phase, rest, res>>
  BY DEF SeekAhead, InSkip, Seeking, WithinSkip
<1>2. /\ pos \in Nat /\ from \in Nat /\ want \in Nat /\ todo \in Nat
      /\ pos <= MaxU64 /\ want <= MaxU64 /\ todo <= MaxU64
      /\ rest = <<>> => Len(rest) = 0
  BY <1>1, SkipTyping
<1>3. todo' \in Nat /\ todo' <= todo
  BY <1>1, <1>2, Sizes DEF Min2
<1>4. call = "skip" /\ from' = from /\ want' = want /\ provided' = provided
  BY <1>1, SkipFrame
<1>5. ASSUME InReach
      PROVE  /\ Plain' \/ (from <= Len(Source) /\ (TurnedBack' \/ Beyond'))
             /\ Plain' /\ todo' > 0 => todo' = want
  <2>1. CASE Plain /\ todo < Half
    <3>1. AsI64(todo) = todo /\ todo' = 0
      BY <1>1, <1>2, <2>1, Sizes DEF AsI64, Min2
    <3> QED
      BY <1>1, <1>2, <1>4, <2>1, <3>1 DEF Plain
  <2>2. CASE Plain /\ todo >= Half
    <3>1. AsI64(todo) = todo - 2 * Half /\ todo' = todo - (Half - 1)
      BY <1>1, <1>2, <2>2, Sizes DEF AsI64, Min2
    <3>2. todo = want /\ rest = <<>> /\ pos = from
      BY <1>1, <1>2, <1>4, <1>5, <2>2 DEF IInv, SkipPlace, Plain, WithinSkip
    <3>3. TurnedBack' /\ from <= Len(Source)
      BY <1>1, <1>2, <1>4, <1>5, <2>2, <3>1, <3>2, Sizes
         DEF TurnedBack, InReach
    <3>4. ~Plain'
      BY <1>1, <1>2, <1>4, <3>1, <3>2, Sizes DEF Plain
    <3> QED
      BY <3>3, <3>4
  <2>3. CASE TurnedBack /\ from <= Len(Source)
    <3>1. todo < Half
      <4>1. pos < Half /\ todo <= Half
        BY <1>2, <2>3, Sizes DEF TurnedBack
      <4>2. CASE todo = Half
        BY <1>1, <1>2, <4>1, <4>2, Sizes DEF AsI64
      <4> QED
        BY <1>2, <4>1, <4>2, Sizes
    <3>2. AsI64(todo) = todo /\ todo' = 0
      BY <1>1, <1>2, <3>1, Sizes DEF AsI64, Min2
    <3>3. pos' > Len(Source)
      BY <1>1, <1>2, <2>3, <3>2, Sizes DEF TurnedBack
    <3> QED
      BY <1>1, <1>4, <2>3, <3>2, <3>3 DEF TurnedBack, Beyond
  <2>4. ~Beyond
    BY <1>1, <1>2 DEF Beyond
  <2> QED
    BY <1>2, <1>4, <1>5, <2>1, <2>2, <2>3, <2>4, Sizes DEF IInv, SkipPlace
<1>6. SkipPlace'
  BY <1>1, <1>4, <1>5 DEF SkipPlace, InReach
<1>7. /\ pos' \in 0..MaxU64 /\ todo' \in 0..MaxU64 /\ rest' \in Seq(Byte)
      /\ InReach => /\ Len(rest') <= Len(After(from + want))
                    /\ rest' = SubSeq(After(from + want), 1, Len(rest'))
  BY <1>1, <1>2, <1>3, SkipTyping, Sizes
<1> QED
  BY <1>1, <1>6, <1>7, SkipGoesOn

LEMMA ThrowAwayStep ==
  ASSUME IInv, NEW n \in Nat, ThrowAway(n)
  PROVE  IInv'
<1>1. /\ WithinSkip /\ todo > 0 /\ "Seek" \notin provided
      /\ n \in 1..Min2(Ahead, Min2(todo, BufSize))
      /\ pos' = pos + n /\ todo' = todo - n /\ UNCHANGED <<phase, rest, res>>
  BY DEF ThrowAway, InSkip, Throwing, WithinSkip
<1>2. /\ pos \in Nat /\ from \in Nat /\ want \in Nat /\ todo \in Nat
      /\ pos <= MaxU64 /\ want <= MaxU64 /\ todo <= MaxU64
      /\ rest = <<>> => Len(rest) = 0
  BY <1>1, SkipTyping
<1>3. n <= todo /\ pos + n <= Len(Source)
  BY <1>1, <1>2, AheadIs, Typing, Sizes DEF IInv, Min2
<1>4. call = "skip" /\ from' = from /\ want' = want /\ provided' = provided
  BY <1>1, SkipFrame
<1>5. ASSUME InReach PROVE Plain'
  <2>1. Plain
    BY <1>1, <1>4, <1>5 DEF IInv, SkipPlace, WithinSkip
  <2> QED
    BY <1>1, <1>2, <1>3, <1>4, <2>1 DEF Plain
<1>6. SkipPlace'
  BY <1>1, <1>4, <1>5 DEF SkipPlace, InReach
<1>7. /\ pos' \in 0..MaxU64 /\ todo' \in 0..MaxU64 /\ rest' \in Seq(Byte)
      /\ InReach => /\ Len(rest') <= Len(After(from + want))
                    /\ rest' = SubSeq(After(from + want), 1, Len(rest'))
  BY <1>1, <1>2, <1>3, SkipTyping, Sizes
<1> QED
  BY <1>1, <1>6, <1>7, SkipGoesOn

LEMMA ThrowEndsStep ==
  ASSUME IInv, ThrowEnds
  PROVE  IInv'
<1>1. /\ WithinSkip /\ todo > 0 /\ "Seek" \notin provided /\ Ahead = 0
      /\ Return("UnexpectedEof") /\ UNCHANGED <<pos, todo, rest>>
  BY DEF ThrowEnds, InSkip, Throwing, WithinSkip
<1>2. /\ pos \in Nat /\ from \in Nat /\ want \in Nat /\ todo \in Nat
      /\ rest = <<>> => Len(rest) = 0
  BY <1>1, SkipTyping
<1>3. pos >= Len(Source)
  BY <1>1, AheadIs, Sizes DEF IInv
<1>4. from + want > Len(Source)
  <2>1. CASE InReach
    <3>1. Plain
      BY <1>1, <2>1, SkipFrame DEF IInv, SkipPlace, WithinSkip
    <3> QED
      BY <1>1, <1>2, <1>3, <3>1, Sizes DEF Plain
  <2>2. CASE ~InReach
    BY <1>2, <2>2, Sizes DEF InReach
  <2> QED
    BY <2>1, <2>2
<1> QED
  BY <1>1, <1>4, SkipStops

LEMMA ReadRestStep ==
  ASSUME IInv, NEW n \in Nat, ReadRest(n)
  PROVE  IInv'
<1> DEFINE piece == SubSeq(Source, pos + 1, pos + n)
           tail  == After(from + want)
<1>1. /\ WithinSkip /\ todo = 0 /\ n \in 1..Ahead /\ pos' = pos + n
      /\ rest' = rest \o piece /\ UNCHANGED <<phase, todo, res>>
  BY DEF ReadRest, InSkip, WithinSkip
<1>2. /\ pos \in Nat /\ from \in Nat /\ want \in Nat /\ from + want \in Nat
      /\ rest \in Seq(Byte) /\ Len(rest) \in Nat
      /\ InReach => Len(rest) <= Len(tail) /\ rest = SubSeq(tail, 1, Len(rest))
  <2>1. /\ pos \in Nat /\ from \in Nat /\ want \in Nat
        /\ rest \in Seq(Byte) /\ Len(rest) \in Nat
        /\ InReach => /\ Len(rest) <= Len(tail)
                      /\ rest = SubSeq(tail, 1, Len(rest))
    BY <1>1, SkipTyping, Zenon
  <2> HIDE DEF tail
  <2>2. from + want \in Nat
    BY <2>1
  <2> QED
    BY <2>1, <2>2
<1>3. pos + n <= Len(Source) /\ n > 0
  BY <1>1, <1>2, AheadIs, Sizes DEF IInv
<1>4. /\ piece = Take(n, Skip(pos, Source))
      /\ piece \in Seq(Byte) /\ Len(piece) = n
  <2>1. pos \in 0..Len(Source) /\ n \in 0..Len(Source) - pos
    BY <1>2, <1>3, Sizes
  <2>2. /\ Skip(pos, Source) \in Seq(Byte)
        /\ Len(Skip(pos, Source)) = Len(Source) - pos
    BY <2>1, Sizes, Cut
  <2>3. /\ Take(n, Skip(pos, Source)) \in Seq(Byte)
        /\ Len(Take(n, Skip(pos, Source))) = n
    BY <2>1, <2>2, Cut
  <2>4. piece = Take(n, Skip(pos, Source))
    BY <1>2, <1>3, Portion
  <2> QED
    BY <2>3, <2>4, Zenon
<1>5. call = "skip" /\ from' = from /\ want' = want /\ provided' = provided
  BY <1>1, SkipFrame
<1>6. tail = Skip(from + want, Source) /\ tail \in Seq(Byte)
      /\ Len(tail) = IF from + want <= Len(Source)
                     THEN Len(Source) - (from + want) ELSE 0
  BY <1>2, AfterIs, Zenon
<1> HIDE DEF piece, tail
<1>7. rest' \in Seq(Byte) /\ Len(rest') = Len(rest) + n
  <2>1. /\ rest \o piece \in Seq(Byte)
        /\ Len(rest \o piece) = Len(rest) + Len(piece)
    BY <1>2, <1>4, Joined
  <2> QED
    BY <1>1, <1>4, <2>1, Zenon
<1>8. ASSUME InReach
      PROVE  /\ Plain' /\ Len(rest') <= Len(tail)
             /\ rest' = SubSeq(tail, 1, Len(rest'))
  <2>1. pos = (from + want) + Len(rest)
    <3>1. ~TurnedBack
      BY <1>1, <1>2, Sizes DEF TurnedBack
    <3>2. ~Beyond
      BY <1>2, <1>3, Sizes DEF Beyond
    <3>3. Plain
      BY <1>5, <1>8, <3>1, <3>2 DEF IInv, SkipPlace
    <3> QED
      BY <1>1, <1>2, <3>3 DEF Plain
  <2>2. Plain'
    BY <1>1, <1>2, <1>5, <1>7, <2>1 DEF Plain
  <2>3. Len(tail) = Len(Source) - (from + want)
    BY <1>2, <1>3, <1>6, <2>1, Sizes
  <2>4. Len(rest) \in 0..Len(tail) /\ n \in 0..Len(tail) - Len(rest)
    BY <1>1, <1>2, <1>3, <2>1, <2>3, Sizes
  <2>5. Take(Len(rest), tail) \o Take(n, Skip(Len(rest), tail))
          = Take(Len(rest) + n, tail)
    BY <1>6, <2>4, GoOn
  <2>6. Skip(Len(rest), tail) = Skip(pos, Source)
    <3>1. /\ from + want \in 0..Len(Source)
          /\ Len(rest) \in 0..Len(Source) - (from + want)
      BY <1>2, <1>3, <2>1, Sizes
    <3>2. Skip(Len(rest), Skip(from + want, Source))
            = Skip((from + want) + Len(rest), Source)
      BY <3>1, Sizes, GoOn
    <3> QED
      BY <1>6, <2>1, <3>2
  <2>7. Take(Len(rest), tail) = rest
    BY <1>2, <1>8 DEF Take
  <2>8. rest' = Take(Len(rest'), tail)
    BY <1>1, <1>4, <1>7, <2>5, <2>6, <2>7
  <2>9. Len(rest') <= Len(tail)
    BY <1>2, <1>7, <2>4, Sizes, <2>3
  <2> QED
    BY <2>2, <2>8, <2>9 DEF Take
<1>9. SkipPlace'
  BY <1>1, <1>5, <1>8 DEF SkipPlace, InReach
<1>10. pos' \in 0..MaxU64 /\ todo' \in 0..MaxU64
  BY <1>1, <1>2, <1>3, Sizes
<1> QED
  BY <1>1, <1>7, <1>8, <1>9, <1>10, SkipGoesOn DEF tail

LEMMA RestEndsStep ==
  ASSUME IInv, RestEnds
  PROVE  IInv'
<1> DEFINE tail == After(from + want)
<1>1. /\ WithinSkip /\ todo = 0 /\ Ahead = 0
      /\ Return("ok") /\ UNCHANGED <<pos, todo, rest>>
  BY DEF RestEnds, InSkip, WithinSkip
<1>2. /\ pos \in Nat /\ from \in Nat /\ want \in Nat /\ from + want \in Nat
      /\ rest \in Seq(Byte) /\ Len(rest) \in Nat
      /\ InReach => Len(rest) <= Len(tail) /\ rest = SubSeq(tail, 1, Len(rest))
      /\ rest = <<>> => Len(rest) = 0
  BY <1>1, SkipTyping
<1>3. pos >= Len(Source)
  BY <1>1, AheadIs, Sizes DEF IInv
<1>4. tail \in Seq(Byte) /\ Len(tail) = IF from + want <= Len(Source)
                                        THEN Len(Source) - (from + want) ELSE 0
  BY <1>2, AfterIs, Zenon
<1> HIDE DEF tail
<1>5. ASSUME InReach PROVE rest = tail
  <2>1. Len(tail) <= Len(rest)
    <3>1. CASE Plain
      BY <1>1, <1>2, <1>3, <1>4, <3>1, Sizes DEF Plain
    <3>2. CASE Beyond
      BY <1>2, <1>4, <3>2, Sizes DEF Beyond
    <3>3. ~TurnedBack
      BY <1>1, <1>2, Sizes DEF TurnedBack
    <3> QED
      BY <1>1, <1>5, <3>1, <3>2, <3>3, SkipFrame DEF IInv, SkipPlace
  <2>2. Len(rest) = Len(tail)
    BY <1>2, <1>4, <1>5, <2>1, LenProperties
  <2>3. SubSeq(tail, 1, Len(tail)) = tail
    BY <1>4, SubSeqFull
  <2> QED
    BY <1>2, <1>5, <2>2, <2>3
<1> QED
  BY <1>1, <1>5, SkipStops DEF tail

LEMMA SeekOutsideStep ==
  ASSUME IInv, SeekOutside
  PROVE  IInv'
<1>1. /\ WithinSkip /\ Return("InvalidInput") /\ UNCHANGED <<pos, todo, rest>>
  BY DEF SeekOutside, InSkip, WithinSkip
<1> QED
  BY <1>1, SkipStops

LEMMA Stutter ==
  ASSUME IInv, UNCHANGED vars
  PROVE  IInv'
BY DEF IInv, TypeOK, Calling, StringPlace, SkipPlace, StringByString,
       SkipsExactly, EndIsTheEnd, Done, NonePassed, Passed, Plain,
       TurnedBack, Beyond, InReach, Ahead, Nuls, FirstNul, After, vars,
       callVars

LEMMA SkipFailsStep ==
  ASSUME IInv, NEW e \in Fault, SkipFails(e)
  PROVE  IInv'
<1>1. /\ WithinSkip /\ UNCHANGED <<pos, todo, rest>>
  BY DEF SkipFails, InSkip, WithinSkip
<1>2. CASE todo = 0 /\ e = "Interrupted"
  <2>1. UNCHANGED vars
    BY <1>1, <1>2 DEF SkipFails, WithinSkip, vars
  <2> QED
    BY <2>1, Stutter
<1>3. CASE ~ (todo = 0 /\ e = "Interrupted")
  <2>1. Return(e)
    BY <1>3 DEF SkipFails
  <2>2. e # "ok" /\ e # "UnexpectedEof"
    BY SkipAssumption
  <2> QED
    BY <1>1, <2>1, <2>2, SkipStops
<1> QED
  BY <1>2, <1>3

LEMMA BeginSkipStep ==
  ASSUME IInv, NEW n \in Skips, BeginSkip(n)
  PROVE  IInv'
<1>1. /\ phase = "idle" /\ phase' = "skip" /\ call' = "skip"
      /\ from' = pos /\ want' = n /\ todo' = n /\ rest' = <<>> /\ over' = 0
      /\ astray' = FALSE /\ pos' = pos /\ provided' = provided /\ res' = res
  BY DEF BeginSkip
<1>2. pos \in Nat /\ n \in Nat /\ BufSize \in Nat /\ n \in 0..MaxU64
  BY Typing, SkipAssumption, Sizes DEF IInv
<1>3. Len(<<>>) = 0 /\ <<>> \in Seq(Byte)
  BY EmptySeq
<1>4. Plain' /\ todo' = want'
  BY <1>1, <1>2, <1>3 DEF Plain
<1>5. SkipPlace' /\ StringPlace' /\ Calling'
  BY <1>1, <1>4 DEF SkipPlace, StringPlace, Calling
<1>6. StringByString' /\ EndIsTheEnd'
  BY <1>1 DEF StringByString, EndIsTheEnd, Done
<1>7. SkipsExactly'
  <2>1. After(pos + n) \in Seq(Byte) /\ Len(After(pos + n)) \in Nat
    BY <1>2, AfterIs, LenProperties
  <2>2. SubSeq(After(pos + n), 1, 0) = <<>>
    BY <2>1, SubSeqEmpty
  <2>3. /\ Len(rest') <= Len(After(pos + n))
        /\ rest' = SubSeq(After(pos + n), 1, Len(rest'))
    BY <1>1, <1>3, <2>1, <2>2
  <2> QED
    BY <1>1, <2>3 DEF SkipsExactly, Done
<1>8. TypeOK'
  <2>1. 0 \in 0..BufSize
    BY <1>2
  <2>2. {pos', from', want', todo'} \subseteq 0..MaxU64
    BY <1>1, <1>2 DEF IInv, TypeOK
  <2> QED
    BY <1>1, <1>3, <2>1, <2>2 DEF IInv, TypeOK
<1> QED
  BY <1>5, <1>6, <1>7, <1>8 DEF IInv

LEMMA SetStep ==
  ASSUME IInv, NEW t \in {"BufRead", "Seek"}, Set(t)
  PROVE  IInv'
<1>1. /\ phase = "idle" /\ phase' = "idle"
      /\ provided' = provided \cup {t}
      /\ UNCHANGED <<pos, over, todo, rest, call, from, want, astray, res>>
  BY DEF Set, callVars
<1>2. TypeOK'
  BY <1>1 DEF IInv, TypeOK
<1> QED
  BY <1>1, <1>2
     DEF IInv, Calling, StringPlace, SkipPlace, StringByString,
         SkipsExactly, EndIsTheEnd, Done, NonePassed, Passed, Plain,
         TurnedBack, Beyond, InReach, Ahead, Nuls, FirstNul, After
-----------------------------------------------------------------------------
LEMMA InitIInv == Init => IInv
<1> SUFFICES ASSUME Init PROVE IInv
  OBVIOUS
<1>1. TypeOK
  <2>1. <<>> \in Seq(Byte) /\ 0 \in 0..BufSize /\ 0 \in 0..MaxU64
    BY EmptySeq, SkipAssumption, Sizes
  <2> QED
    BY <2>1 DEF Init, TypeOK
<1>2. phase = "idle" /\ call = "none" /\ res = "ok"
  BY DEF Init
<1> QED
  BY <1>1, <1>2
     DEF IInv, Calling, StringPlace, SkipPlace, StringByString,
         SkipsExactly, EndIsTheEnd, Done

LEMMA NextIInv == IInv /\ [Next]_vars => IInv'
<1> SUFFICES ASSUME IInv, [Next]_vars PROVE IInv'
  OBVIOUS
<1>1. CASE UNCHANGED vars
  BY <1>1, Stutter
<1>2. CASE Program
  BY <1>2, SetStep, BeginStringStep, BeginSkipStep DEF Program
<1>3. CASE Progress
  <2>1. ASSUME NEW n \in 1..Len(Source),
               OwnFill(n) \/ OverFill(n) \/ ThrowAway(n) \/ ReadRest(n)
        PROVE  IInv'
    <3>1. n \in Nat
      BY Sizes
    <3> QED
      BY <2>1, <3>1, OwnFillStep, OverFillStep, ThrowAwayStep, ReadRestStep
  <2> QED
    BY <1>3, <2>1, NoNulStep, SeekBackStep, OneByteStep, SeekAheadStep,
       SeekOutsideStep, ThrowEndsStep, RestEndsStep DEF Progress
<1>4. CASE Failure
  BY <1>4, FillFailsStep, SeekBackStep, ByteFailsStep, SkipFailsStep
     DEF Failure
<1> QED
  BY <1>1, <1>2, <1>3, <1>4 DEF Next

(* Between two fills, seeks or reads it is known what has been passed.     *)
THEOREM Inductive == Spec => []IInv
BY InitIInv, NextIInv, PTL DEF Spec

(* Positions and numbers of bytes stay in u64, and a BufReader has never   *)
(* more in hand than its buffer holds.                                     *)
THEOREM Typed == Spec => []TypeOK
<1>1. IInv => TypeOK
  BY DEF IInv
<1> QED
  BY <1>1, Inductive, PTL

(* skip_one_string (field_with_dyn.rs:48): each of its three ways ends     *)
(* just behind the first nul, however many calls it took and however the   *)
(* bytes came; until then no nul is lost.                                  *)
THEOREM OneString == Spec => []StringByString
<1>1. IInv => StringByString
  BY DEF IInv
<1> QED
  BY <1>1, Inductive, PTL

(* read_with_skip (motivation.rs:64): by seeks or by reads, what it        *)
(* appends is what lies behind the bytes to be skipped.                    *)
THEOREM Exact == Spec => []SkipsExactly
<1>1. IInv => SkipsExactly
  BY DEF IInv
<1> QED
  BY <1>1, Inductive, PTL

(* UnexpectedEof is returned for a missing nul, or missing bytes, only     *)
(* (field_with_dyn.rs:81, motivation.rs:94).                               *)
THEOREM RealEnd == Spec => []EndIsTheEnd
<1>1. IInv => EndIsTheEnd
  BY DEF IInv
<1> QED
  BY <1>1, Inductive, PTL

(***************************************************************************)
(* How many steps a call can take at most, interruptions aside.  A skip by *)
(* seeks may go anywhere, and then has all of the stream to read.          *)
(***************************************************************************)
StepsLeft ==
  CASE phase = "string"             -> Ahead + 2
    [] phase = "back"               -> 1
    [] phase = "skip" /\ todo > 0   -> todo + Len(Source) + 1
    [] phase = "skip" /\ ~(todo > 0) -> Ahead + 1
    [] phase = "idle"               -> 0

LEMMA StepsLeftIs ==
  ASSUME TypeOK
  PROVE  /\ StepsLeft \in Nat
         /\ phase # "idle" => StepsLeft > 0
<1>1. Ahead \in Nat /\ todo \in Nat /\ Len(Source) \in Nat
  BY AheadIs, Sizes DEF TypeOK
<1> HIDE DEF Ahead
<1> QED
  BY <1>1 DEF StepsLeft, TypeOK

LEMMA Less ==
  ASSUME NEW a \in Nat, NEW b \in Nat, a < b
  PROVE  a + 1 < b + 1 /\ a + 2 < b + 2
OBVIOUS

LEMMA FewerSteps ==
  ASSUME IInv, Next, Half > 1, phase # "idle", vars' # vars
  PROVE  StepsLeft' < StepsLeft
<1>0. /\ IInv' /\ Len(Source) \in Nat /\ Half \in Nat
      /\ pos \in Nat /\ pos' \in Nat /\ todo \in Nat /\ BufSize \in Nat
  <2>1. IInv'
    BY NextIInv
  <2> QED
    BY <2>1, Sizes, SkipAssumption DEF IInv, TypeOK
<1>1. /\ Ahead = IF pos <= Len(Source) THEN Len(Source) - pos ELSE 0
      /\ Ahead' = IF pos' <= Len(Source) THEN Len(Source) - pos' ELSE 0
  BY <1>0, AfterIs, Zenon DEF Ahead
<1>2. Ahead \in Nat /\ Ahead' \in Nat /\ Ahead' <= Len(Source)
  BY <1>0, <1>1
<1>3. ASSUME NEW n \in 1..Ahead, pos' = pos + n
      PROVE  Ahead' < Ahead
  BY <1>0, <1>1, <1>3
<1>4. CASE phase' = "idle"
  <2>1. StepsLeft' = 0
    BY <1>4 DEF StepsLeft
  <2> QED
    BY <2>1, StepsLeftIs DEF IInv
<1>5. ASSUME phase = "string", phase' = "string", Ahead' < Ahead
      PROVE  StepsLeft' < StepsLeft
  <2>1. StepsLeft = Ahead + 2 /\ StepsLeft' = Ahead' + 2
    BY <1>5 DEF StepsLeft
  <2>2. Ahead' + 2 < Ahead + 2
    BY <1>2, <1>5, Less, Zenon
  <2> QED
    BY <2>1, <2>2, Zenon
<1>6. ASSUME NEW n \in 1..Len(Source), OwnFill(n), phase' # "idle"
      PROVE  StepsLeft' < StepsLeft
  BY <1>2, <1>3, <1>5, <1>6 DEF OwnFill, InString, Return
<1>7. ASSUME NEW n \in 1..Len(Source), OverFill(n)
      PROVE  StepsLeft' < StepsLeft
  <2>1. /\ phase = "string" /\ n \in 1..Ahead /\ pos' = pos + n
        /\ phase' \in {"string", "back"}
    BY <1>0, <1>2, <1>7 DEF OverFill, InString, Min2
  <2>2. CASE phase' = "back"
    <3>1. StepsLeft = Ahead + 2 /\ StepsLeft' = 1
      BY <2>1, <2>2 DEF StepsLeft
    <3> QED
      BY <1>2, <3>1
  <2> QED
    BY <1>2, <1>3, <1>5, <2>1, <2>2
<1>8. CASE OneByte /\ phase' # "idle"
  <2>1. /\ phase = "string" /\ phase' = "string" /\ pos' = pos + 1
        /\ 1 \in 1..Ahead
    BY <1>2, <1>8 DEF OneByte, InString, Return
  <2> QED
    BY <1>2, <1>3, <1>5, <2>1
<1>9. ASSUME phase = "skip", phase' = "skip", todo > 0,
             todo' \in Nat, todo' < todo
      PROVE  StepsLeft' < StepsLeft
  <2>1. /\ StepsLeft = todo + Len(Source) + 1
        /\ StepsLeft' \in {todo' + Len(Source) + 1, Ahead' + 1}
    BY <1>9 DEF StepsLeft
  <2>2. /\ todo' + Len(Source) + 1 < todo + Len(Source) + 1
        /\ Ahead' + 1 < todo + Len(Source) + 1
    BY <1>0, <1>2, <1>9
  <2> QED
    BY <2>1, <2>2, Zenon
<1>10. CASE SeekAhead
  <2>1. /\ phase = "skip" /\ phase' = "skip" /\ todo > 0
        /\ todo' = todo - Min2(todo, Half - 1)
    BY <1>10 DEF SeekAhead, InSkip, Seeking
  <2>2. todo' \in Nat /\ todo' < todo
    BY <1>0, <2>1 DEF Min2
  <2> QED
    BY <1>9, <2>1, <2>2
<1>11. ASSUME NEW n \in 1..Len(Source), ThrowAway(n)
       PROVE  StepsLeft' < StepsLeft
  <2>1. /\ phase = "skip" /\ phase' = "skip" /\ todo > 0
        /\ n \in 1..Min2(Ahead, Min2(todo, BufSize)) /\ todo' = todo - n
    BY <1>11 DEF ThrowAway, InSkip, Throwing
  <2>2. todo' \in Nat /\ todo' < todo
    BY <1>0, <1>2, <2>1 DEF Min2
  <2> QED
    BY <1>9, <2>1, <2>2
<1>12. ASSUME NEW n \in 1..Len(Source), ReadRest(n)
       PROVE  StepsLeft' < StepsLeft
  <2>1. /\ phase = "skip" /\ phase' = "skip" /\ todo = 0 /\ todo' = 0
        /\ n \in 1..Ahead /\ pos' = pos + n
    BY <1>12 DEF ReadRest, InSkip
  <2>2. StepsLeft = Ahead + 1 /\ StepsLeft' = Ahead' + 1
    BY <2>1 DEF StepsLeft
  <2>3. Ahead' < Ahead
    BY <1>3, <2>1
  <2>4. Ahead' + 1 < Ahead + 1
    BY <1>2, <2>3, Less, Zenon
  <2> QED
    BY <2>2, <2>4, Zenon
<1>13. CASE NoNul \/ SeekBack \/ SeekOutside \/ ThrowEnds \/ RestEnds
  <2>1. phase' = "idle"
    BY <1>13 DEF NoNul, SeekBack, SeekOutside, ThrowEnds, RestEnds, Return
  <2> QED
    BY <1>4, <2>1
<1>14. CASE Failure
  <2>1. phase' = "idle"
    BY <1>14 DEF Failure, FillFails, SeekBackFails, ByteFails, SkipFails,
      Return, InString, InSkip, vars, callVars
  <2> QED
    BY <1>4, <2>1
<1>15. ~Program
  BY DEF Program, Set, BeginString, BeginSkip
<1> QED
  BY <1>4, <1>6, <1>7, <1>8, <1>10, <1>11, <1>12, <1>13, <1>14, <1>15
     DEF Next, Progress

(* Within a call every step but an interruption brings its return nearer,  *)
(* whichever way it takes and wherever a seek lands it: neither the loop   *)
(* over the string (field_with_dyn.rs:48) nor the one over the bytes to be *)
(* skipped (motivation.rs:64) comes back to where it was.                  *)
THEOREM Bounded ==
  ASSUME Half > 1
  PROVE  Spec => /\ [](StepsLeft \in Nat)
                 /\ [][phase # "idle" => StepsLeft' < StepsLeft]_vars
<1>1. IInv => StepsLeft \in Nat
  BY StepsLeftIs DEF IInv
<1>2. IInv /\ [Next]_vars => [phase # "idle" => StepsLeft' < StepsLeft]_vars
  BY FewerSteps
<1> QED
  BY <1>1, <1>2, Inductive, PTL DEF Spec
=============================================================================
