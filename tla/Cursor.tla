------------------------------- MODULE Cursor -------------------------------
(***************************************************************************)
(* not_io::Cursor: bytes in memory with a position, read, written and      *)
(* seeked like a file.  Positions are u64, lengths are usize, offsets are  *)
(* i64, and the conversions between them are the ones of the code.         *)
(* Cursor<&mut [u8]> and Cursor<Vec<u8>> write differently and are alike   *)
(* otherwise.                                                              *)
(***************************************************************************)
EXTENDS Slices

CONSTANTS
  Byte, Zero,
  Half,       (* 2^63: i64 is -Half..Half - 1, u64 is 0..2 * Half - 1      *)
  MaxUsize,
  MaxCap,     (* the allocator gives no more: at most isize::MAX           *)
  Contents,   (* what the program may wrap in a cursor                     *)
  Buffers     (* what it may write                                         *)

MaxU64 == 2 * Half - 1
U64    == 0..MaxU64
I64    == -Half..Half - 1

ASSUME CursorAssumption ==
  /\ Zero \in Byte
  /\ Half \in Nat \ {0} /\ MaxUsize \in U64 /\ MaxCap \in Nat
  /\ 2 * MaxCap <= MaxUsize
  /\ Contents \cup Buffers \subseteq {s \in Seq(Byte) : Len(s) <= MaxCap}

VARIABLES
  inner,      (* the bytes                                                 *)
  kind,       (* "vec", Cursor<Vec<u8>>, or "slice", Cursor<&mut [u8]>     *)
  pos,
  ret         (* the last call and what it returned: see Answer            *)

vars == <<inner, kind, pos, ret>>

(* A call: its name, a number (an offset, a position, a length), the bytes *)
(* that went over in either direction, how it ended, and the number in Ok. *)
Answer(op, arg, bytes, out, n) ==
  [op |-> op, arg |-> arg, data |-> bytes, out |-> out, n |-> n]

Filled(n) == [i \in 1..n |-> Zero]

(* `as usize`, `as u64`, wrapping_neg. *)
AsUsize(n) == n % (MaxUsize + 1)
AsU64(n) == IF n >= 0 THEN n ELSE n + 2 * Half
WrappingNeg(n) == IF n = -Half THEN n ELSE -n

Init ==
  /\ inner \in Contents /\ kind \in {"vec", "slice"} /\ pos = 0
  /\ ret = Answer("new", 0, <<>>, "ok", 0)

Unmoved == UNCHANGED <<inner, kind, pos>>

-----------------------------------------------------------------------------
(* Where a read or a write to a slice begins, and the bytes from there. *)
Start == AsUsize(Min2(pos, Len(inner)))
Available == Skip(Start, inner)

(* consume adds to a u64.  A sum too large panics, or wraps where the      *)
(* build does not check for overflow.                                      *)
Advance(amt, answer) ==
  /\ UNCHANGED <<inner, kind>>
  /\ \/ pos + amt <= MaxU64 /\ pos' = pos + amt /\ ret' = answer
     \/ /\ pos + amt > MaxU64
        /\ pos' = pos
        /\ ret' = Answer(answer.op, answer.arg, answer.data, "panic", 0)
     \/ pos + amt > MaxU64 /\ pos' = (pos + amt) % (MaxU64 + 1) /\ ret' = answer

Read(n) ==
  LET got == ReadSlice(Available, n)
  IN  Advance(Len(got), Answer("read", n, got, "ok", Len(got)))

AllRead(n) == Answer("read_exact", n, ReadSlice(Available, n), "ok", 0)
EndReached(n) == Answer("read_exact", n, <<>>, "UnexpectedEof", 0)

(* Mutation: what there is is consumed before the error is returned. *)
ReadExact_Consumes(n) ==
  IF ReadsExactly(Available, n)
  THEN Advance(n, AllRead(n))
  ELSE Advance(Len(Available), EndReached(n))

(* `Read::read_exact(&mut self.fill_buf()?, buf)?`, then consume. *)
ReadExact(n) ==
  IF ReadsExactly(Available, n)
  THEN Advance(n, AllRead(n))
  ELSE ret' = EndReached(n) /\ Unmoved

FillBuf == ret' = Answer("fill_buf", 0, Available, "ok", 0) /\ Unmoved

Consume(amt) == Advance(amt, Answer("consume", amt, <<>>, "ok", 0))

-----------------------------------------------------------------------------
Written(b) == Answer("write", 0, b, "ok", Len(b))
Unwritten(b, out) == Answer("write", 0, b, out, 0)

(* Cursor<&mut [u8]>: write to the slice at the position, or at its end. *)
WriteToSlice(b) ==
  /\ kind = "slice"
  /\ ~WritePanics(Available, b)
  /\ inner' = Take(Start, inner) \o WriteSlice(Available, b)
  /\ pos' = pos + Len(b) /\ ret' = Written(b)
  /\ UNCHANGED kind

(* copy_from_slice panics before a byte is copied.  The slice that write   *)
(* takes away is a temporary one.                                          *)
SliceWritePanics(b) ==
  /\ kind = "slice"
  /\ WritePanics(Available, b)
  /\ ret' = Unwritten(b, "panic") /\ Unmoved

-----------------------------------------------------------------------------
(* Cursor<Vec<u8>> and Cursor<&mut Vec<u8>>: vec_write. *)
NewLen == Max2(Len(inner), pos)
Padded == inner \o Filled(NewLen - Len(inner))
Overwrite(b) == Take(Min2(Len(b), NewLen - pos), b)
Fill(b) == Skip(Min2(Len(b), NewLen - pos), b)

(* Padded, with what lies within it replaced. *)
Patched(b) ==
  Take(pos, Padded) \o Overwrite(b) \o Skip(pos + Len(Overwrite(b)), Padded)

(* The position is no usize. *)
WriteTooFar(b) ==
  /\ kind = "vec" /\ pos > MaxUsize
  /\ ret' = Unwritten(b, "InvalidInput") /\ Unmoved

(* vec.resize panics: capacity overflow. *)
PaddingFails(b) ==
  /\ kind = "vec" /\ pos <= MaxUsize /\ NewLen > MaxCap
  /\ ret' = Unwritten(b, "panic") /\ Unmoved

(* extend_from_slice panics; the rest has happened. *)
ExtendFails(b) ==
  /\ kind = "vec" /\ NewLen <= MaxCap
  /\ NewLen + Len(Fill(b)) > MaxCap
  /\ inner' = Patched(b) /\ ret' = Unwritten(b, "panic")
  /\ UNCHANGED <<kind, pos>>

WriteToVec(b) ==
  /\ kind = "vec" /\ pos <= MaxUsize
  /\ NewLen + Len(Fill(b)) <= MaxCap
  /\ inner' = Patched(b) \o Fill(b)
  /\ pos' = pos + Len(b) /\ ret' = Written(b)
  /\ UNCHANGED kind

-----------------------------------------------------------------------------
(* An Option is a set of at most one number. *)
CheckedAdd(a, b) == IF a + b <= MaxU64 THEN {a + b} ELSE {}

(* Mutation: a plain subtraction. *)
CheckedSub_Plain(a, b) == {a - b}

CheckedSub(a, b) == IF a >= b THEN {a - b} ELSE {}

(* Mutation: negated in i64, the smallest offset stays negative - and is   *)
(* added.                                                                  *)
NewPos_Negated(base, offset) ==
  IF offset >= 0 \/ offset = -Half THEN CheckedAdd(base, AsU64(offset))
  ELSE CheckedSub(base, AsU64(WrappingNeg(offset)))

NewPos(base, offset) ==
  IF offset >= 0 THEN CheckedAdd(base, AsU64(offset))
  ELSE CheckedSub(base, AsU64(WrappingNeg(offset)))

Seek(op, base, offset) ==
  \/ \E p \in NewPos(base, offset) :
       /\ pos' = p /\ ret' = Answer(op, offset, <<>>, "ok", p)
       /\ UNCHANGED <<inner, kind>>
  \/ /\ NewPos(base, offset) = {}
     /\ ret' = Answer(op, offset, <<>>, "InvalidInput", 0) /\ Unmoved

SeekEnd(offset) == Seek("seek_end", Len(inner), offset)
SeekCurrent(offset) == Seek("seek_current", pos, offset)

(* seek(Start(n)), and set_position(n). *)
SetPosition(n) ==
  /\ pos' = n /\ ret' = Answer("set_position", n, <<>>, "ok", n)
  /\ UNCHANGED <<inner, kind>>

(* Through get_mut the program has the container itself, and may put any   *)
(* other in its place: one that is shorter than the position, too.         *)
GetMut(c) ==
  /\ inner' = c /\ ret' = Answer("get_mut", 0, <<>>, "ok", 0)
  /\ UNCHANGED <<kind, pos>>

ReadStep == \E n \in 0..MaxCap + 1 : Read(n) \/ ReadExact(n)

BufStep == FillBuf \/ \E amt \in 0..MaxUsize : Consume(amt)

WriteStep ==
  \E b \in Buffers :
    \/ WriteToSlice(b) \/ SliceWritePanics(b)
    \/ WriteTooFar(b) \/ PaddingFails(b) \/ ExtendFails(b) \/ WriteToVec(b)

SeekStep ==
  \/ \E offset \in I64 : SeekEnd(offset) \/ SeekCurrent(offset)
  \/ \E n \in U64 : SetPosition(n)

Next == ReadStep \/ BufStep \/ WriteStep \/ SeekStep \/ \E c \in Contents : GetMut(c)

Spec == Init /\ [][Next]_vars

-----------------------------------------------------------------------------
TypeOK ==
  /\ inner \in Seq(Byte) /\ Len(inner) <= MaxCap
  /\ kind \in {"vec", "slice"} /\ pos \in U64
  /\ ret.out \in {"ok", "InvalidInput", "UnexpectedEof", "panic"}

(* A cursor is a file: reads, writes with a gap or across the end, writes  *)
(* that fail half-way, and seeks with offsets and positions at the limits  *)
(* of their types do what they do to a file of bytes and numbers           *)
(* (impls_always.rs:4-76, impls_alloc.rs:159-171).                         *)
File == INSTANCE ByteFile WITH
          data <- inner, grows <- kind = "vec",
          MaxPos <- MaxU64, MaxSize <- MaxCap

IsAFile == File!Spec

(* A call that fails can be made again: the position has not moved, and    *)
(* nothing before it has changed, however far the call had come.           *)
FailureCanBeRepeated ==
  [][ret'.out # "ok" =>
       /\ pos' = pos
       /\ \A i \in 1..Len(inner) : i <= pos => inner'[i] = inner[i]]_vars

(* A sink of fixed size takes what there is room for, and says how much    *)
(* that is (lib.rs:253: "Replicates the standard `Write` trait").          *)
SliceTakesWhatFits ==
  kind = "slice" /\ ret.op = "write" => ret.out # "panic"
=============================================================================
