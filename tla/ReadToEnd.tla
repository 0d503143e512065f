----------------------------- MODULE ReadToEnd -----------------------------
(***************************************************************************)
(* Read::read_to_end: append what a reader gives to a vector until it      *)
(* answers Ok(0).  The vector is kept longer than its contents, so that    *)
(* the reader has room to write to; a guard remembers how much of it is    *)
(* real, and truncates it however the function is left.                    *)
(***************************************************************************)
EXTENDS IoErrors, Slices

CONSTANTS
  Byte,
  Zero,      (* the byte new room is filled with                           *)
  Junk,      (* stands for what a reader may leave behind in the room      *)
  Initial,   (* the contents of the vector before the call                 *)
  Source,    (* what the reader has to give                                *)
  Fault,     (* the errors the reader may answer with                      *)
  Reserve,   (* room asked for at a time: 32                               *)
  MaxCap     (* the allocator gives no more than this                      *)

ASSUME ReadToEndAssumption ==
  /\ {Initial, Source} \subseteq Seq(Byte)
  /\ Fault \subseteq ErrorKind
  /\ Reserve \in Nat \ {0} /\ MaxCap \in Nat /\ Len(Initial) <= MaxCap

VARIABLES
  vec,       (* the Vec<u8>                                                *)
  cap,       (* its capacity                                               *)
  len,       (* guard.len: how much of vec is real                         *)
  src,       (* what the reader has not given yet                          *)
  pc,        (* "room", before the reader is asked; "read", in it; "end"   *)
  rres,      (* "run", then "ok", the kind of an Err, or "panic"           *)
  count      (* the number returned with "ok"                              *)

fillVars == <<vec, cap, len, src, pc, rres, count>>

Filled(b, n) == [i \in 1..n |-> b]

Init ==
  /\ vec = Initial /\ len = Len(Initial) /\ cap \in Len(Initial)..MaxCap
  /\ src = Source /\ pc = "room" /\ rres = "run" /\ count = 0

(* Mutation: no guard. *)
Leave_Unguarded(r) == pc' = "end" /\ rres' = r /\ UNCHANGED <<vec, cap, len>>

(* Every exit goes through the drop of the guard. *)
Leave(r) ==
  /\ pc' = "end" /\ rres' = r
  /\ vec' = Take(len, vec)
  /\ UNCHANGED <<cap, len>>

(* There is no room: reserve, and resize to the capacity.  reserve gives   *)
(* what it is asked for or more.                                           *)
Grow(c) ==
  /\ pc = "room" /\ Len(vec) = len
  /\ c \in len + Reserve..MaxCap
  /\ cap - len >= Reserve => c = cap
  /\ cap' = c
  /\ vec' = vec \o Filled(Zero, c - len)
  /\ pc' = "read"
  /\ UNCHANGED <<len, src, rres, count>>

(* reserve panics when the capacity overflows. *)
GrowFails ==
  /\ pc = "room" /\ Len(vec) = len /\ len + Reserve > MaxCap
  /\ Leave("panic")
  /\ UNCHANGED <<src, count>>

(* Mutation: the room is not looked at. *)
RoomLeft_Assumed ==
  /\ pc = "room"
  /\ pc' = "read"
  /\ UNCHANGED <<vec, cap, len, src, rres, count>>

RoomLeft ==
  /\ pc = "room" /\ Len(vec) > len
  /\ pc' = "read"
  /\ UNCHANGED <<vec, cap, len, src, rres, count>>

(* The reader gets &mut guard.buf[guard.len..] and can write to all of it. *)
Room == Len(vec) - len

(* Mutation: `&mut guard.buf[..]` instead of `&mut guard.buf[guard.len..]`. *)
Written_AtStart(given) == {given \o Skip(Len(given), vec)}

Written(given) ==
  LET rest == Room - Len(given)
  IN  {Take(len, vec) \o given \o tail :
        tail \in {Skip(len + Len(given), vec), Filled(Junk, rest)}}

(* Ok(n) *)
Read(n) ==
  /\ pc = "read" /\ n \in 1..Len(src) /\ n <= Room
  /\ vec' \in Written(Take(n, src))
  /\ src' = Skip(n, src)
  /\ len' = len + n
  /\ pc' = "room"
  /\ UNCHANGED <<cap, rres, count>>

(* Mutation: all of the vector is counted. *)
ReadZero_CountsAll ==
  /\ pc = "read"
  /\ count' = len
  /\ Leave("ok")
  /\ UNCHANGED src

(* Mutation: Ok(0) is data like any other. *)
ReadZero_GoesOn ==
  /\ pc = "read"
  /\ pc' = "room"
  /\ UNCHANGED <<vec, cap, len, src, rres, count>>

(* Ok(0) *)
ReadZero ==
  /\ pc = "read"
  /\ count' = len - Len(Initial)
  /\ Leave("ok")
  /\ UNCHANGED src

(* Err(e) if e.is_interrupted() => {}, after writing what it likes. *)
ReadInterrupted ==
  /\ pc = "read"
  /\ \E e \in Fault : IsInterrupted(e)
  /\ vec' \in Written(<<>>)
  /\ pc' = "room"
  /\ UNCHANGED <<cap, len, src, rres, count>>

(* Err(e) => return Err(e) *)
ReadFail(e) ==
  /\ pc = "read" /\ e \in Fault /\ ~IsInterrupted(e)
  /\ Leave(e)
  /\ UNCHANGED <<src, count>>

(* Mutation: no assertion. *)
ReadMiscount_Trusted(n) ==
  /\ pc = "read" /\ n \in 0..Len(src) /\ n <= Room
  /\ src' = Skip(n, src)
  /\ len' = len + Room + 1
  /\ pc' = "room"
  /\ UNCHANGED <<vec, cap, rres, count>>

(* Ok(n) with n > buf.len(): the assertion fails.  What the reader gave    *)
(* before, up to the room it had, is lost.                                 *)
ReadMiscount(n) ==
  /\ pc = "read" /\ n \in 0..Len(src) /\ n <= Room
  /\ src' = Skip(n, src)
  /\ Leave("panic")
  /\ UNCHANGED count

(* What the loop does by itself between two calls of the reader. *)
EnsureRoom == (\E c \in 0..MaxCap : Grow(c)) \/ GrowFails \/ RoomLeft

(* What a reader that works answers. *)
Answer == (\E n \in 1..Len(src) : Read(n)) \/ (src = <<>> /\ ReadZero)

Fill ==
  \/ EnsureRoom \/ Answer
  \/ ReadZero \/ ReadInterrupted
  \/ \E e \in Fault : ReadFail(e)
  \/ \E n \in 0..Len(src) : ReadMiscount(n)

Returned == pc = "end" /\ UNCHANGED fillVars

Next == Fill \/ Returned

(* A reader that is asked again after each interruption answers in the end *)
(* (strong fairness: the loop comes back to it); it may fail, and it may   *)
(* end early, but neither is assumed.                                      *)
Spec == Init /\ [][Next]_fillVars /\ WF_fillVars(EnsureRoom) /\ SF_fillVars(Answer)

-----------------------------------------------------------------------------
TypeOK ==
  /\ vec \in Seq(Byte \cup {Zero, Junk}) /\ src \in Seq(Byte)
  /\ cap \in 0..MaxCap /\ len \in 0..MaxCap
  /\ pc \in {"room", "read", "end"}
  /\ rres \in {"run", "ok", "panic"} \cup ErrorKind
  /\ count \in Nat

(* The real part of the vector is what it was before the call, followed by *)
(* what the reader gave, in order: no filling and nothing the reader left  *)
(* in the room gets in, and nothing given is dropped - on success, on an   *)
(* error, and when the function unwinds.                                   *)
RealPart ==
  /\ rres # "panic" => Take(len, vec) \o src = Initial \o Source
  /\ \E n \in 0..Len(Source) : Take(len, vec) = Initial \o Take(n, Source)

(* Nobody else sees the rest of the vector. *)
Truncated == pc = "end" => Len(vec) = len

(* Ok(0) means the end only if there was room for more: the reader is      *)
(* never asked with an empty slice (impls_alloc.rs:67-76).                 *)
NeverAsksForNothing == pc = "read" => Len(vec) > len /\ Len(vec) <= cap

(* The number returned is the number of bytes appended. *)
CountsAppended == rres = "ok" => count = Len(vec) - Len(Initial)

(* read_to_end returns. *)
Terminates == <>(pc = "end")
=============================================================================
