----------------------------- MODULE ReadUntil -----------------------------
(***************************************************************************)
(* BufRead::read_until: append what a buffered reader holds to a vector,   *)
(* up to and including a delimiter.  The reader is called twice for each   *)
(* portion: fill_buf lends what it holds, consume takes back what was used *)
(* of it.  A caller may call again, for the rest of a line after an error  *)
(* and for the next one after Ok.                                          *)
(***************************************************************************)
EXTENDS IoErrors, Slices

CONSTANTS
  Byte,
  Delim,     (* the byte to stop after                                     *)
  Initial,   (* the contents of the vector before the first call           *)
  Source,    (* what the reader has to give                                *)
  Fault      (* the errors the reader may answer with                      *)

ASSUME ReadUntilAssumption ==
  /\ {Initial, Source} \subseteq Seq(Byte)
  /\ Delim \in Byte
  /\ Fault \subseteq ErrorKind

VARIABLES
  vec,       (* the Vec<u8>                                                *)
  from,      (* how long it was when this call was made,                   *)
  mark,      (* and when the first call for this line was made             *)
  src,       (* what the reader has not been told is used                  *)
  used,      (* of the portion in hand                                     *)
  done,      (* the delimiter is in it                                     *)
  read,      (* the bytes counted by this call                             *)
  pc,        (* "fill", in fill_buf; "consume", in consume; "end"          *)
  rres       (* "run", then "ok", the kind of an Err, or "panic"           *)

untilVars == <<vec, from, mark, src, used, done, read, pc, rres>>

Places(s) == {i \in 1..Len(s) : s[i] = Delim}

(* The beginning of s that belongs to the line: the `match` on position(). *)
Line(s) ==
  IF Places(s) = {} THEN s
  ELSE Take(CHOOSE i \in Places(s) : \A j \in Places(s) : i <= j, s)

Init ==
  /\ vec = Initial /\ src = Source
  /\ from = Len(Initial) /\ mark = Len(Initial)
  /\ used = 0 /\ done = FALSE /\ read = 0 /\ pc = "fill" /\ rres = "run"

Return(r) == pc' = "end" /\ rres' = r

(* Mutation: n + 1 bytes are counted where there are n. *)
Available_OneMore(n) ==
  /\ pc = "fill" /\ n \in 0..Len(src)
  /\ LET available == Take(n, src)
     IN  /\ vec' = vec \o Line(available)
         /\ used' = Len(Line(available)) + 1
         /\ done' = (Places(available) # {})
  /\ pc' = "consume"
  /\ UNCHANGED <<from, mark, src, read, rres>>

(* Mutation: all of the portion is appended, past the delimiter. *)
Available_All(n) ==
  /\ pc = "fill" /\ n \in 0..Len(src)
  /\ LET available == Take(n, src)
     IN  /\ vec' = vec \o available
         /\ used' = Len(available)
         /\ done' = (Places(available) # {})
  /\ pc' = "consume"
  /\ UNCHANGED <<from, mark, src, read, rres>>

(* Ok(available), with n bytes: none at the end, or when the reader has    *)
(* none for now.  The line's share of them is appended.                    *)
Available(n) ==
  /\ pc = "fill" /\ n \in 0..Len(src)
  /\ LET available == Take(n, src)
     IN  /\ vec' = vec \o Line(available)
         /\ used' = Len(Line(available))
         /\ done' = (Places(available) # {})
  /\ pc' = "consume"
  /\ UNCHANGED <<from, mark, src, read, rres>>

(* Err(ref e) if e.is_interrupted() => continue *)
FillInterrupted ==
  /\ pc = "fill"
  /\ \E e \in Fault : IsInterrupted(e)
  /\ UNCHANGED untilVars

(* Err(e) => return Err(e) *)
FillFails(e) ==
  /\ pc = "fill" /\ e \in Fault /\ ~IsInterrupted(e)
  /\ Return(e)
  /\ UNCHANGED <<vec, from, mark, src, used, done, read>>

(* Mutation: the reader is told only at the end of the line. *)
Consume_Late ==
  /\ pc = "consume"
  /\ src' = IF done THEN Skip(used, src) ELSE src
  /\ read' = read + used
  /\ IF done \/ used = 0 THEN Return("ok") ELSE pc' = "fill" /\ UNCHANGED rres
  /\ UNCHANGED <<vec, from, mark, used, done>>

(* Mutation: the end of the stream does not end the loop. *)
Consume_NoEnd ==
  /\ pc = "consume"
  /\ src' = Skip(used, src)
  /\ read' = read + used
  /\ IF done THEN Return("ok") ELSE pc' = "fill" /\ UNCHANGED rres
  /\ UNCHANGED <<vec, from, mark, used, done>>

(* Mutation: the last portion is not counted. *)
Consume_CountsLess ==
  /\ pc = "consume"
  /\ src' = Skip(used, src)
  /\ read' = IF done THEN read ELSE read + used
  /\ IF done \/ used = 0 THEN Return("ok") ELSE pc' = "fill" /\ UNCHANGED rres
  /\ UNCHANGED <<vec, from, mark, used, done>>

(* The count is passed to the reader, and the loop ends or goes on. *)
Consume ==
  /\ pc = "consume"
  /\ src' = Skip(used, src)
  /\ read' = read + used
  /\ IF done \/ used = 0 THEN Return("ok") ELSE pc' = "fill" /\ UNCHANGED rres
  /\ UNCHANGED <<vec, from, mark, used, done>>

(* A consume that panics: what was appended stays, in both places. *)
ConsumePanics ==
  /\ pc = "consume"
  /\ Return("panic")
  /\ UNCHANGED <<vec, from, mark, src, used, done, read>>

(* The caller comes back with the same vector. *)
CallAgain ==
  /\ pc = "end" /\ rres # "panic"
  /\ pc' = "fill" /\ rres' = "run" /\ read' = 0
  /\ from' = Len(vec)
  /\ mark' = IF rres = "ok" THEN Len(vec) ELSE mark
  /\ UNCHANGED <<vec, src, used, done>>

Loop ==
  \/ \E n \in 0..Len(src) : Available(n)
  \/ FillInterrupted
  \/ \E e \in Fault : FillFails(e)
  \/ Consume \/ ConsumePanics

(* What a reader that works answers: something, until the end. *)
Answer ==
  \/ \E n \in 0..Len(src) : (n = 0 => src = <<>>) /\ Available(n)
  \/ Consume

-----------------------------------------------------------------------------
(* What is told to the reader as used is something it has (BufRead's       *)
(* contract for consume); the rest is the ranges of the variables.         *)
TypeOK ==
  /\ {vec, src} \subseteq Seq(Byte)
  /\ Len(Initial) <= mark /\ mark <= from /\ from <= Len(vec)
  /\ used \in Nat /\ read \in Nat /\ done \in BOOLEAN
  /\ pc \in {"fill", "consume", "end"}
  /\ pc = "consume" => used <= Len(src)
  /\ rres \in {"run", "ok", "panic"} \cup ErrorKind

(* What has been appended but is not yet known to the reader. *)
InHand == IF pc = "consume" \/ rres = "panic" THEN used ELSE 0

(* However the reader portions the stream, and over any number of calls,   *)
(* failed ones included, every byte is in the vector or still with the     *)
(* reader, once (impls_alloc.rs:135-147).                                  *)
NothingLost == Take(Len(vec) - InHand, vec) \o src = Initial \o Source

(* What the calls for a line have appended is the beginning of that line   *)
(* of the source; when one returns Ok with the delimiter it is all of it.  *)
OneLine ==
  LET line == Line(Skip(mark - Len(Initial), Source))
      got  == Skip(mark, vec)
  IN  /\ Len(got) <= Len(line) /\ got = Take(Len(got), line)
      /\ rres = "ok" /\ done => got = line

(* Ok(n): this call, of all the calls, has appended n bytes. *)
CountsThisCall == rres = "ok" => read = Len(vec) - from

(* Every call returns. *)
EachCallReturns == pc # "end" ~> pc = "end"
=============================================================================
