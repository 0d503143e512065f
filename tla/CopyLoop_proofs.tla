-------------------------- MODULE CopyLoop_proofs --------------------------
(***************************************************************************)
(* Proofs about CopyLoop, for every source, buffer size and set of faults. *)
(* What copy promises about its count holds at the head of the loop only;  *)
(* the inductive invariant says what holds within, in terms of the buffer  *)
(* in hand and of how far write_all has come with it.                      *)
(***************************************************************************)
EXTENDS CopyLoop, Slices_proofs

(* write_all has put the part of buf before rest into the sink. *)
InHand ==
  /\ pc = "read" => rest = <<>> /\ written = Len(out)
  /\ pc = "write" => /\ Len(buf) <= BUF
                     /\ Len(rest) <= Len(buf)
                     /\ written + Len(buf) = Len(out) + Len(rest)
                     /\ wres = "ok" => rest = <<>>
  /\ pc = "end" => /\ result = "ok" => rest = <<>> /\ written = Len(out)
                   /\ written <= Len(out) /\ Len(out) <= written + BUF
                   /\ result # "panic" /\ rest # <<>> =>
                        result = wres /\ wres # "ok"

Running == result = "run" <=> pc # "end"

InOrder == result # "panic" => out \o rest \o src = Source

NotInterrupted == Std => wres # "Interrupted" /\ result # "Interrupted"

IInv == TypeOK /\ InHand /\ Running /\ InOrder /\ NotInterrupted

-----------------------------------------------------------------------------
LEMMA Assoc ==
  ASSUME NEW s \in Seq(Byte), NEW t \in Seq(Byte), NEW u \in Seq(Byte)
  PROVE  (s \o t) \o u = s \o (t \o u)
BY ConcatAssociative

(* Moving the first n bytes of t to the end of s. *)
LEMMA Shift ==
  ASSUME NEW s \in Seq(Byte), NEW t \in Seq(Byte), NEW n \in 0..Len(t)
  PROVE  /\ s \o Take(n, t) \in Seq(Byte)
         /\ Len(s \o Take(n, t)) = Len(s) + n
         /\ Skip(n, t) \in Seq(Byte)
         /\ Len(Skip(n, t)) = Len(t) - n
         /\ (s \o Take(n, t)) \o Skip(n, t) = s \o t
<1>1. /\ Take(n, t) \in Seq(Byte) /\ Skip(n, t) \in Seq(Byte)
      /\ Take(n, t) \o Skip(n, t) = t
      /\ Len(Take(n, t)) = n /\ Len(Skip(n, t)) = Len(t) - n
  BY Cut, Rejoin
<1>2. (s \o Take(n, t)) \o Skip(n, t) = s \o (Take(n, t) \o Skip(n, t))
  BY <1>1, Assoc
<1> QED
  BY <1>1, <1>2, ConcatProperties

-----------------------------------------------------------------------------
LEMMA InitIInv == Init => IInv
<1> SUFFICES ASSUME Init PROVE IInv
  OBVIOUS
<1>1. <<>> \in Seq(Byte) /\ Len(<<>>) = 0
  BY EmptySeq
<1>2. <<>> \o <<>> \o Source = Source
  BY <1>1, CopyAssumption, ConcatEmptySeq
<1> QED
  BY <1>1, <1>2, CopyAssumption
     DEF Init, IInv, TypeOK, InHand, Running, InOrder, NotInterrupted, Outcome

(* Ok(n) of the reader: n bytes go from the source into the hand. *)
LEMMA ReadStep ==
  ASSUME IInv, NEW n \in 1..Len(src), Read(n)
  PROVE  IInv'
<1>1. /\ pc = "read" /\ n <= BUF /\ rest = <<>> /\ written = Len(out)
      /\ src \in Seq(Byte) /\ out \in Seq(Byte) /\ result = "run"
      /\ out \o <<>> \o src = Source /\ BUF \in Nat
      /\ wres # "panic" \/ wres = "panic"
  BY CopyAssumption DEF IInv, Read, InHand, Running, InOrder, TypeOK
<1>2. /\ buf' = Take(n, src) /\ rest' = Take(n, src) /\ wres' = "run"
      /\ src' = Skip(n, src) /\ pc' = "write"
      /\ written' = written /\ result' = result /\ out' = out
  BY DEF Read, Enter
<1>3. n \in 0..Len(src) /\ Len(out) \in Nat /\ n \in Nat
  BY <1>1, LenProperties
<1>4. /\ Take(n, src) \in Seq(Byte) /\ Skip(n, src) \in Seq(Byte)
      /\ Len(Take(n, src)) = n
      /\ (out \o Take(n, src)) \o Skip(n, src) = out \o src
  <2>1. src \in Seq(Byte) /\ out \in Seq(Byte) /\ n \in 0..Len(src)
    BY <1>1, <1>3
  <2>2. /\ Take(n, src) \in Seq(Byte) /\ Skip(n, src) \in Seq(Byte)
        /\ Len(Take(n, src)) = n
    BY <2>1, Cut, Zenon
  <2>3. (out \o Take(n, src)) \o Skip(n, src) = out \o src
    BY <2>1, Shift, Zenon
  <2> QED
    BY <2>2, <2>3, Zenon
<1>5. out \o <<>> = out
  BY <1>1, ConcatEmptySeq
<1>6. TypeOK'
  BY <1>2, <1>4 DEF IInv, TypeOK, Outcome
<1>7. InHand'
  BY <1>1, <1>2, <1>3, <1>4 DEF InHand
<1>8. InOrder'
  BY <1>1, <1>2, <1>4, <1>5 DEF InOrder
<1> QED
  BY <1>1, <1>2, <1>6, <1>7, <1>8 DEF IInv, Running, NotInterrupted

(* Ok(n) of the sink, well counted or not: n bytes go from the hand to it. *)
LEMMA SinkTakes ==
  ASSUME IInv, pc = "write", wres = "run", UNCHANGED copyVars, buf' = buf,
         NEW n \in 0..Len(rest),
         out' = out \o Take(n, rest), rest' = Skip(n, rest),
         wres' \in {wres, "panic"}
  PROVE  IInv'
<1>1. /\ src \in Seq(Byte) /\ rest \in Seq(Byte) /\ out \in Seq(Byte)
      /\ Len(rest) \in Nat /\ Len(out) \in Nat /\ Len(buf) \in Nat
      /\ written \in Nat
  BY LenProperties DEF IInv, TypeOK
<1>2. /\ out' \in Seq(Byte) /\ Len(out') = Len(out) + n
      /\ rest' \in Seq(Byte) /\ Len(rest') = Len(rest) - n
      /\ out' \o rest' = out \o rest
  BY <1>1, Shift
<1>3. pc' = pc /\ src' = src /\ written' = written /\ result' = result
  BY DEF copyVars
<1>4. TypeOK'
  BY <1>2, <1>3 DEF IInv, TypeOK, Outcome
<1>5. InHand'
  <2>1. /\ written + Len(buf) = Len(out) + Len(rest)
        /\ Len(buf) <= BUF /\ Len(rest) <= Len(buf)
    BY DEF IInv, InHand
  <2>2. written + Len(buf) = (Len(out) + n) + (Len(rest) - n)
    <3>1. PICK b \in Nat, o \in Nat, r \in Nat :
            b = Len(buf) /\ o = Len(out) /\ r = Len(rest)
      BY <1>1
    <3>2. n \in 0..r /\ written + b = o + r
      BY <2>1, <3>1
    <3>3. written + b = (o + n) + (r - n)
      BY <1>1, <3>2
    <3> QED
      BY <3>1, <3>3
  <2>3. Len(rest) - n <= Len(buf)
    BY <1>1, <2>1
  <2>4. /\ written' + Len(buf') = Len(out') + Len(rest')
        /\ Len(buf') <= BUF /\ Len(rest') <= Len(buf')
    BY <1>2, <1>3, <2>1, <2>2, <2>3
  <2> QED
    BY <1>3, <2>4 DEF InHand
<1>6. InOrder'
  BY <1>2, <1>3 DEF IInv, InOrder
<1> QED
  BY <1>3, <1>4, <1>5, <1>6 DEF IInv, Running, NotInterrupted

LEMMA WriteStep ==
  ASSUME IInv, Write
  PROVE  IInv'
<1>1. pc = "write" /\ UNCHANGED copyVars /\ Step
  BY DEF Write
<1>2. ASSUME NEW n \in 1..Len(rest), Accept(n) PROVE IInv'
  <2>1. n \in 0..Len(rest)
    BY LenProperties DEF IInv, TypeOK
  <2> QED
    BY <1>1, <1>2, <2>1, SinkTakes DEF Accept, Writing
<1>3. ASSUME NEW n \in 0..Len(rest), Miscount(n) PROVE IInv'
  BY <1>1, <1>3, SinkTakes DEF Miscount, Writing
<1>4. CASE Finish
  BY <1>1, <1>4 DEF Finish, copyVars, IInv, TypeOK, InHand, Running, InOrder,
                    NotInterrupted, Outcome
<1>5. CASE Refuse
  BY <1>1, <1>5 DEF Refuse, Writing, copyVars, IInv, TypeOK, InHand, Running,
                    InOrder, NotInterrupted, Outcome, ErrorKind
<1>6. CASE Interrupted
  BY <1>1, <1>6 DEF Interrupted, callVars, copyVars, IInv, TypeOK, InHand,
                    Running, InOrder, NotInterrupted
<1>7. ASSUME NEW e \in Fault, Fail(e) PROVE IInv'
  <2>1. e \in ErrorKind /\ e # "ok"
    BY FaultAssumption DEF ErrorKind
  <2>2. Std => e # "Interrupted"
    BY <1>7 DEF Fail, IsInterrupted, StdIsInterrupted
  <2> QED
    BY <1>1, <1>7, <2>1, <2>2
       DEF Fail, Writing, copyVars, IInv, TypeOK, InHand, Running, InOrder,
           NotInterrupted, Outcome
<1> QED
  BY <1>1, <1>2, <1>3, <1>4, <1>5, <1>6, <1>7 DEF Step, Progress

LEMMA NextIInv == IInv /\ [Next]_vars => IInv'
<1> SUFFICES ASSUME IInv, [Next]_vars PROVE IInv'
  OBVIOUS
<1> USE DEF IInv, TypeOK, InHand, Running, InOrder, NotInterrupted, Outcome
<1>1. CASE UNCHANGED vars
  BY <1>1 DEF vars, copyVars, callVars
<1>2. ASSUME NEW n \in 1..Len(src), Read(n) PROVE IInv'
  BY <1>2, ReadStep
<1>3. CASE ReadZero
  BY <1>3, CopyAssumption, LenProperties DEF ReadZero, Return, callVars
<1>4. CASE ReadInterrupted
  BY <1>4 DEF ReadInterrupted, vars, copyVars, callVars
<1>5. ASSUME NEW e \in Fault, ReadFail(e) PROVE IInv'
  <2>1. e \in ErrorKind /\ e \notin {"run", "ok"}
    BY FaultAssumption DEF ErrorKind
  <2>2. Std => e # "Interrupted"
    BY <1>5 DEF ReadFail, IsInterrupted, StdIsInterrupted
  <2> QED
    BY <1>5, <2>1, <2>2, CopyAssumption, LenProperties
       DEF ReadFail, Return, callVars
<1>6. ASSUME NEW n \in 0..Len(src), ReadMiscount(n) PROVE IInv'
  <2>1. Skip(n, src) \in Seq(Byte)
    BY Cut
  <2> QED
    BY <1>6, <2>1, CopyAssumption, LenProperties
       DEF ReadMiscount, Return, callVars
<1>7. CASE Write
  BY <1>7, WriteStep
<1>8. CASE Count
  BY <1>8, LenProperties, EmptySeq DEF Count, callVars
<1>9. CASE WriteFailed
  BY <1>9, CopyAssumption, LenProperties DEF WriteFailed, Return, callVars
<1>10. CASE Returned
  BY <1>10 DEF Returned, vars, copyVars, callVars
<1> QED
  BY <1>1, <1>2, <1>3, <1>4, <1>5, <1>6, <1>7, <1>8, <1>9, <1>10 DEF Next

THEOREM Inductive == Spec => []IInv
BY InitIInv, NextIInv, PTL DEF Spec

(* The state of copy and write_all keeps its types.                        *)
THEOREM Typed == Spec => []TypeOK
<1>1. IInv => TypeOK
  BY DEF IInv
<1> QED
  BY <1>1, Inductive, PTL

(* What the sink took is a beginning of the source.                        *)
Beginning == \E n \in 0..Len(Source) : out = Take(n, Source)

LEMMA JoinBegins ==
  ASSUME NEW s \in Seq(Byte), NEW t \in Seq(Byte), NEW u \in Seq(Byte),
         (s \o t) \o u = Source
  PROVE  \E n \in 0..Len(Source) : s = Take(n, Source)
<1>1. t \o u \in Seq(Byte) /\ s \o (t \o u) = Source
  BY Assoc, ConcatProperties
<1>2. Take(Len(s), Source) = s
  BY <1>1, TakeFirst
<1>3. Len(s) \in 0..Len(Source)
  <2>1. Len(Source) = Len(s) + Len(t \o u)
    BY <1>1, ConcatProperties
  <2>2. Len(s) \in Nat /\ Len(t \o u) \in Nat
    BY <1>1, LenProperties
  <2> QED
    BY <2>1, <2>2
<1> QED
  BY <1>2, <1>3

(* A step into a panic, or after one, gives the sink nothing more: it has  *)
(* panicked, or the reader's answer has.                                   *)
LEMMA NothingInPanic ==
  ASSUME IInv, [Next]_vars, result' = "panic"
  PROVE  out' = out
<1>1. CASE Write
  BY <1>1 DEF Write, copyVars, IInv, Running
<1>2. CASE ~Write
  BY <1>2 DEF Next, Read, ReadZero, ReadInterrupted, ReadFail, ReadMiscount,
              Count, WriteFailed, Returned, vars
<1> QED
  BY <1>1, <1>2

LEMMA AlwaysBeginning == Spec => []Beginning
<1>1. Init => Beginning
  <2> SUFFICES ASSUME Init PROVE Beginning
    OBVIOUS
  <2>1. {out, rest, src} \subseteq Seq(Byte) /\ (out \o rest) \o src = Source
    BY InitIInv DEF Init, IInv, TypeOK, InOrder
  <2> QED
    BY <2>1, JoinBegins DEF Beginning
<1>2. IInv /\ IInv' /\ Beginning /\ [Next]_vars => Beginning'
  <2> SUFFICES ASSUME IInv, IInv', Beginning, [Next]_vars PROVE Beginning'
    OBVIOUS
  <2>1. CASE result' = "panic"
    BY <2>1, NothingInPanic DEF Beginning
  <2>2. CASE result' # "panic"
    <3>1. /\ {out', rest', src'} \subseteq Seq(Byte)
          /\ (out' \o rest') \o src' = Source
      BY <2>2 DEF IInv, TypeOK, InOrder
    <3> QED
      BY <2>2, <3>1, JoinBegins DEF Beginning
  <2> QED
    BY <2>1, <2>2
<1> QED
  BY <1>1, <1>2, Inductive, PTL DEF Spec

(* The stream arrives whole and in order, however reader and sink cut it   *)
(* and wherever an error strikes (impls_always.rs:145-154,                 *)
(* lib.rs:266-276), and when a miscount ends in a panic, the sink has got  *)
(* a beginning of it: for every source and every buffer size.              *)
THEOREM Conserved == Spec => []Conservation
<1>1. IInv /\ Beginning => Conservation
  BY DEF IInv, TypeOK, InHand, InOrder, Beginning, Conservation
<1> QED
  BY <1>1, Inductive, AlwaysBeginning, PTL

(* The number copy returns is the number of bytes the sink took            *)
(* (`written += len`, impls_always.rs:153).                                *)
THEOREM Counted == Spec => []CountIsExact
<1>1. IInv => CountIsExact
  BY CopyAssumption, LenProperties
     DEF IInv, TypeOK, InHand, Running, CountIsExact
<1> QED
  BY <1>1, Inductive, PTL

(* With std, an interruption never ends a copy (impls_always.rs:148,       *)
(* lib.rs:271).                                                            *)
THEOREM Retried ==
  ASSUME Std
  PROVE  Spec => []RetriesInterrupted
<1>1. IInv => RetriesInterrupted
  BY DEF IInv, NotInterrupted, RetriesInterrupted
<1> QED
  BY <1>1, Inductive, PTL

(***************************************************************************)
(* How many steps a copy can take at most, interruptions aside: a byte has *)
(* to be read, passed to the sink, and counted.                            *)
(***************************************************************************)
Due ==
  CASE pc = "read"                   -> 1
    [] pc = "write" /\ wres = "run"  -> 3
    [] pc = "write" /\ wres # "run"  -> 2
    [] pc = "end"                    -> 0

StepsLeft == 4 * Len(src) + Len(rest) + Due

LEMMA StepsLeftType == IInv => StepsLeft \in Nat
<1> SUFFICES ASSUME IInv PROVE StepsLeft \in Nat
  OBVIOUS
<1>1. Len(src) \in Nat /\ Len(rest) \in Nat
  BY LenProperties DEF IInv, TypeOK
<1>2. Due \in Nat
  BY DEF Due, IInv, TypeOK
<1> QED
  BY <1>1, <1>2 DEF StepsLeft

LEMMA FewerSteps ==
  ASSUME IInv, Next, vars' # vars
  PROVE  StepsLeft' < StepsLeft
<1>0. /\ src \in Seq(Byte) /\ rest \in Seq(Byte) /\ out \in Seq(Byte)
      /\ Len(src) \in Nat /\ Len(rest) \in Nat
      /\ pc = "read" => rest = <<>>
      /\ pc = "write" /\ wres = "ok" => rest = <<>>
      /\ Len(<<>>) = 0
  BY LenProperties, EmptySeq DEF IInv, TypeOK, InHand
<1>1. ASSUME NEW n \in 1..Len(src), Read(n) PROVE StepsLeft' < StepsLeft
  <2>1. n \in 0..Len(src) /\ n \in Nat
    BY <1>0
  <2>2. Len(src') = Len(src) - n /\ Len(rest') = n
    BY <1>0, <1>1, <2>1, Cut DEF Read, Enter
  <2>3. Due = 1 /\ Due' = 3 /\ Len(rest) = 0
    BY <1>0, <1>1 DEF Due, Read, Enter
  <2> QED
    BY <1>0, <2>1, <2>2, <2>3 DEF StepsLeft
<1>2. CASE ReadZero \/ \E e \in Fault : ReadFail(e)
  BY <1>0, <1>2 DEF ReadZero, ReadFail, Return, callVars, StepsLeft, Due
<1>3. CASE ReadInterrupted \/ Returned
  BY <1>3 DEF ReadInterrupted, Returned
<1>4. ASSUME NEW n \in 0..Len(src), ReadMiscount(n)
      PROVE  StepsLeft' < StepsLeft
  <2>0. src' = Skip(n, src) /\ rest' = rest /\ n \in Nat
    BY <1>0, <1>4 DEF ReadMiscount, callVars
  <2>1. Len(src') = Len(src) - n
    BY <1>0, <1>4, <2>0, Cut
  <2>2. Due = 1 /\ Due' = 0
    BY <1>4 DEF Due, ReadMiscount, Return
  <2> QED
    BY <1>0, <2>0, <2>1, <2>2 DEF StepsLeft
<1>5. CASE Write
  <2>0. pc = "write" /\ pc' = "write" /\ src' = src
    BY <1>5 DEF Write, copyVars
  <2>1. ASSUME NEW n \in 0..Len(rest), rest' = Skip(n, rest), wres = "run",
               n > 0 \/ wres' # "run"
        PROVE  StepsLeft' < StepsLeft
    <3>1. Len(rest') = Len(rest) - n /\ n \in Nat
      BY <1>0, <2>1, Cut
    <3>2. /\ Due = 3 /\ Due' \in {2, 3}
          /\ n = 0 => Due' = 2
      BY <2>0, <2>1 DEF Due
    <3> QED
      BY <1>0, <2>0, <3>1, <3>2 DEF StepsLeft
  <2>2. ASSUME NEW n \in 1..Len(rest), Accept(n) PROVE StepsLeft' < StepsLeft
    <3>1. n \in 0..Len(rest) /\ n > 0
      BY <1>0
    <3> QED
      BY <2>1, <2>2, <3>1 DEF Accept, Writing
  <2>3. ASSUME NEW n \in 0..Len(rest), Miscount(n) PROVE StepsLeft' < StepsLeft
    BY <2>1, <2>3 DEF Miscount, Writing
  <2>4. CASE Finish \/ Refuse \/ \E e \in Fault : Fail(e)
    <3>1. wres = "run" /\ wres' # "run" /\ rest' = rest
      BY <2>4, FaultAssumption DEF Finish, Refuse, Fail, Writing, ErrorKind
    <3>2. Due = 3 /\ Due' = 2
      BY <2>0, <3>1 DEF Due
    <3> QED
      BY <1>0, <2>0, <3>1, <3>2 DEF StepsLeft
  <2>5. CASE Interrupted
    BY <1>5, <2>5 DEF Interrupted, Write, vars
  <2> QED
    BY <1>5, <2>2, <2>3, <2>4, <2>5 DEF Write, Step, Progress
<1>6. CASE Count \/ WriteFailed
  <2>1. pc = "write" /\ wres # "run" /\ src' = src /\ rest' = rest
    BY <1>6 DEF Count, WriteFailed, callVars
  <2>2. pc' \in {"read", "end"}
    BY <1>6 DEF Count, WriteFailed, Return
  <2>3. Due = 2 /\ Due' \in {0, 1}
    BY <2>1, <2>2 DEF Due
  <2> QED
    BY <1>0, <2>1, <2>3 DEF StepsLeft
<1> QED
  BY <1>1, <1>2, <1>3, <1>4, <1>5, <1>6 DEF Next

(* Every step but an interruption brings the end nearer, whatever reader   *)
(* and sink answer: no loop of copy or write_all comes back to where it    *)
(* was (impls_always.rs:145-154, lib.rs:267-273).  A copy of n bytes is    *)
(* over after at most 4n + 1 steps, and only interruptions can delay it.   *)
THEOREM Bounded ==
  Spec => /\ StepsLeft = 4 * Len(Source) + 1
          /\ [](StepsLeft \in Nat)
          /\ [][StepsLeft' < StepsLeft]_vars
<1>1. Init => StepsLeft = 4 * Len(Source) + 1
  BY CopyAssumption, LenProperties, EmptySeq DEF Init, StepsLeft, Due
<1>2. IInv /\ [Next]_vars => [StepsLeft' < StepsLeft]_vars
  BY FewerSteps
<1> QED
  BY <1>1, <1>2, StepsLeftType, Inductive, PTL DEF Spec
=============================================================================
