------------------------------ MODULE ByteFile ------------------------------
(***************************************************************************)
(* What a cursor promises: to be a file in memory.  Positions are numbers, *)
(* a write replaces what is at its positions and leaves the rest alone,    *)
(* a gap before it reads as zeros.  Cursor implements this specification.  *)
(***************************************************************************)
EXTENDS Sequences, Integers

CONSTANTS
  Byte, Zero,
  MaxPos,     (* the largest position                                      *)
  MaxSize,    (* the largest size of a file that grows                     *)
  Contents,   (* what the program may put into a file                      *)
  Buffers     (* what it may write                                         *)

VARIABLES
  data,       (* the bytes of the file                                     *)
  grows,      (* whether a write may extend it                             *)
  pos,
  ret         (* the last call, with its argument, and its answer          *)

fileVars == <<data, grows, pos, ret>>

(* A call: its name, a number (an offset, a position, a length) and the    *)
(* bytes that went over, in either direction.                              *)
Answer(op, arg, bytes, out, n) ==
  [op |-> op, arg |-> arg, data |-> bytes, out |-> out, n |-> n]

Smaller(a, b) == IF a <= b THEN a ELSE b
Greater(a, b) == IF a <= b THEN b ELSE a

(* The next n bytes, or the ones up to the end. *)
Ahead(n) ==
  [i \in 1..Smaller(n, Greater(Len(data) - pos, 0)) |-> data[pos + i]]

(* The file after the bytes b are written at the position. *)
Over(b) ==
  [i \in 1..Greater(Len(data), pos + Len(b)) |->
     IF i > pos /\ i <= pos + Len(b) THEN b[i - pos]
     ELSE IF i <= Len(data) THEN data[i] ELSE Zero]

Fits(b) == pos + Len(b) <= IF grows THEN MaxSize ELSE Len(data)

(* A call answers; only what is said to change changes. *)
Still == UNCHANGED <<data, grows, pos>>
MoveTo(p) == pos' = p /\ UNCHANGED <<data, grows>>

Read(n) ==
  /\ ret' = Answer("read", n, Ahead(n), "ok", Len(Ahead(n)))
  /\ MoveTo(pos + Len(Ahead(n)))

(* All of n bytes, or none and an error. *)
ReadExact(n) ==
  IF Len(Ahead(n)) = n
  THEN ret' = Answer("read_exact", n, Ahead(n), "ok", 0) /\ MoveTo(pos + n)
  ELSE ret' = Answer("read_exact", n, <<>>, "UnexpectedEof", 0) /\ Still

Look == ret' = Answer("fill_buf", 0, Ahead(Len(data)), "ok", 0) /\ Still

(* Bytes that were looked at are passed; whoever passes more than that may *)
(* get anywhere, once the positions are exhausted.                         *)
Pass(n) ==
  LET Consumed(out) == Answer("consume", n, <<>>, out, 0)
  IN  \/ pos + n <= MaxPos /\ ret' = Consumed("ok") /\ MoveTo(pos + n)
      \/ /\ pos + n > MaxPos /\ n > Len(Ahead(Len(data)))
         /\ \/ ret' = Consumed("ok") /\ \E p \in 0..MaxPos : MoveTo(p)
            \/ ret' = Consumed("panic") /\ Still

(* All of b; a write of nothing may leave the gap before it open. *)
Write(b) ==
  /\ ret' = Answer("write", 0, b, "ok", Len(b))
  /\ \/ Fits(b) /\ data' = Over(b) /\ pos' = pos + Len(b)
     \/ b = <<>> /\ UNCHANGED <<data, pos>>
  /\ UNCHANGED grows

(* What does not fit is not written, or in part; the position stays, so    *)
(* that the write can be repeated.                                         *)
WriteFails(b) ==
  /\ ~Fits(b)
  /\ \/ ret' = Answer("write", 0, b, "InvalidInput", 0) /\ Still
     \/ /\ ret' = Answer("write", 0, b, "panic", 0)
        /\ \/ UNCHANGED data
           \/ \E k \in 0..Len(b) : data' = Over(SubSeq(b, 1, k))
        /\ UNCHANGED <<grows, pos>>

(* Exact arithmetic decides whether a seek is possible. *)
Seek(op, base, offset) ==
  IF base + offset \in 0..MaxPos
  THEN /\ ret' = Answer(op, offset, <<>>, "ok", base + offset)
       /\ MoveTo(base + offset)
  ELSE ret' = Answer(op, offset, <<>>, "InvalidInput", 0) /\ Still

(* The program sets the position, or replaces what is in the file. *)
SetPosition(p) ==
  ret' = Answer("set_position", p, <<>>, "ok", p) /\ MoveTo(p)

Replace(d) ==
  /\ data' = d /\ ret' = Answer("get_mut", 0, <<>>, "ok", 0)
  /\ UNCHANGED <<grows, pos>>

Init ==
  /\ data \in Contents /\ grows \in BOOLEAN /\ pos = 0
  /\ ret = Answer("new", 0, <<>>, "ok", 0)

Next ==
  \/ \E n \in 0..MaxPos :
       Read(n) \/ ReadExact(n) \/ Pass(n) \/ SetPosition(n)
  \/ Look
  \/ \E b \in Buffers : Write(b) \/ WriteFails(b)
  \/ \E offset \in -(MaxPos + 1)..MaxPos :
       Seek("seek_end", Len(data), offset) \/ Seek("seek_current", pos, offset)
  \/ \E d \in Contents : Replace(d)

Spec == Init /\ [][Next]_fileVars
=============================================================================
