------------------------------ MODULE CopyLoop ------------------------------
(***************************************************************************)
(* not_io::copy, which is stack_copy: read at most BUF bytes, write_all    *)
(* them, count them, until the reader answers Ok(0).  The reader's and the *)
(* sink's answers are steps of their own.                                  *)
(***************************************************************************)
EXTENDS WriteAll

CONSTANTS
  Source,   (* what the reader has to give            *)
  BUF       (* DEFAULT_STACK_BUFFER_SIZE              *)

ASSUME CopyAssumption == Source \in Seq(Byte) /\ BUF \in Nat \ {0}

VARIABLES
  pc,       (* "read", in the reader; "write", in write_all; "end"       *)
  src,      (* what the reader has not given yet                         *)
  written,  (* the bytes the loop has counted                            *)
  result    (* "run", then "ok", the kind of an Err, or "panic"          *)

copyVars == <<pc, src, written, result>>
vars == <<copyVars, callVars, out>>

Init ==
  /\ pc = "read" /\ src = Source /\ written = 0 /\ result = "run"
  /\ buf = <<>> /\ rest = <<>> /\ wres = "ok" /\ out = <<>>

Return(r) == pc' = "end" /\ result' = r

(* Mutation: `&buffer[..]` instead of `&buffer[..len]`. *)
Read_WholeBuffer(n) ==
  /\ pc = "read" /\ n \in 1..Len(src) /\ n <= BUF
  /\ Enter([i \in 1..BUF |-> IF i <= n THEN src[i] ELSE 0])
  /\ src' = Skip(n, src)
  /\ pc' = "write"
  /\ UNCHANGED <<written, result, out>>

(* Ok(n): the loop passes &buffer[..n] on. *)
Read(n) ==
  /\ pc = "read" /\ n \in 1..Len(src) /\ n <= BUF
  /\ Enter(Take(n, src))
  /\ src' = Skip(n, src)
  /\ pc' = "write"
  /\ UNCHANGED <<written, result, out>>

(* Mutation: Ok(0) is data like any other. *)
ReadZero_GoesOn ==
  /\ pc = "read"
  /\ Enter(<<>>)
  /\ pc' = "write"
  /\ UNCHANGED <<src, written, result, out>>

(* Ok(0): the end - or what a reader with nothing to give for now says. *)
ReadZero ==
  /\ pc = "read"
  /\ Return("ok")
  /\ UNCHANGED <<src, written, callVars, out>>

(* Err(ref e) if e.is_interrupted() => continue *)
ReadInterrupted ==
  /\ pc = "read"
  /\ \E e \in Fault : IsInterrupted(e)
  /\ UNCHANGED vars

(* Mutation: the arm that looks for an interruption comes last. *)
ReadFail_First(e) ==
  /\ pc = "read" /\ e \in Fault
  /\ Return(e)
  /\ UNCHANGED <<src, written, callVars, out>>

(* other => other? *)
ReadFail(e) ==
  /\ pc = "read" /\ e \in Fault /\ ~IsInterrupted(e)
  /\ Return(e)
  /\ UNCHANGED <<src, written, callVars, out>>

(* Ok(n) with n > BUF, from a reader that miscounts: the slice panics, and *)
(* what had been read is lost with the buffer.                             *)
ReadMiscount(n) ==
  /\ pc = "read" /\ n \in 0..Len(src) /\ n <= BUF
  /\ src' = Skip(n, src)
  /\ Return("panic")
  /\ UNCHANGED <<written, callVars, out>>

(* One answer of the sink. *)
Write == pc = "write" /\ Step /\ UNCHANGED copyVars

(* Mutation: the size of the buffer is counted, not what was in it. *)
Count_Buffers ==
  /\ pc = "write" /\ wres = "ok"
  /\ written' = written + BUF
  /\ pc' = "read"
  /\ UNCHANGED <<src, result, callVars, out>>

(* write_all has returned Ok: count, and go on. *)
Count ==
  /\ pc = "write" /\ wres = "ok"
  /\ written' = written + Len(buf)
  /\ pc' = "read"
  /\ UNCHANGED <<src, result, callVars, out>>

(* ... or Err, or has panicked. *)
WriteFailed ==
  /\ pc = "write" /\ wres \notin {"run", "ok"}
  /\ Return(wres)
  /\ UNCHANGED <<src, written, callVars, out>>

(* The call has returned. *)
Returned == pc = "end" /\ UNCHANGED vars

Next ==
  \/ \E n \in 1..Len(src) : Read(n)
  \/ ReadZero \/ ReadInterrupted
  \/ \E e \in Fault : ReadFail(e)
  \/ \E n \in 0..Len(src) : ReadMiscount(n)
  \/ Write \/ Count \/ WriteFailed
  \/ Returned

(* Reader and sink answer sooner or later with something else than         *)
(* "interrupted"; that they fail, or stop early, is not assumed.           *)
Answer ==
  \/ \E n \in 1..Len(src) : Read(n)
  \/ src = <<>> /\ ReadZero
  \/ pc = "write" /\ Progress /\ UNCHANGED copyVars
  \/ Count \/ WriteFailed

Spec == Init /\ [][Next]_vars /\ WF_vars(Answer)

-----------------------------------------------------------------------------
Outcome == {"run", "ok", "panic"} \cup ErrorKind

TypeOK ==
  /\ pc \in {"read", "write", "end"}
  /\ {src, buf, rest, out} \subseteq Seq(Byte)
  /\ written \in Nat
  /\ {result, wres} \subseteq Outcome

(* Nothing is lost, repeated or reordered between reader and sink, however *)
(* the two cut the stream, and up to the moment of an error: what the sink *)
(* took, what write_all still has in hand and what the reader still has    *)
(* are the source, in order (lib.rs:266-276, impls_always.rs:145-154).     *)
(* Bytes stay in hand only if the sink failed: an error of the reader      *)
(* loses nothing.  A panic over a miscount may lose what was in hand, but  *)
(* what the sink has got by then is still a beginning of the source.       *)
Conservation ==
  /\ result # "panic" =>
       /\ out \o rest \o src = Source
       /\ pc = "end" /\ rest # <<>> => result = wres /\ wres # "ok"
  /\ \E n \in 0..Len(Source) : out = Take(n, Source)

(* The count returned is the number of bytes the sink took; inside the     *)
(* loop it is behind by what has been written of the buffer in hand.       *)
CountIsExact ==
  /\ pc = "read" \/ result = "ok" => written = Len(out)
  /\ written <= Len(out) /\ Len(out) <= written + BUF

(* An interruption is retried, never reported: "Often best handled by      *)
(* retrying" (lib.rs:144).                                                 *)
RetriesInterrupted == result # "Interrupted"

(* The copy ends. *)
Terminates == <>(pc = "end")
=============================================================================
