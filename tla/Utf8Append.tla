----------------------------- MODULE Utf8Append -----------------------------
(***************************************************************************)
(* append_to_string: run a reader over the bytes of a String, and look at  *)
(* what it appended only afterwards.  Bytes are told apart by what they    *)
(* are in UTF-8: the lead of a character of two bytes, its continuation,   *)
(* or else a character of its own.                                         *)
(***************************************************************************)
EXTENDS Sequences, Integers

CONSTANTS
  Lead,   (* the bytes that begin a character of two bytes                 *)
  Cont    (* the bytes that end one                                        *)

VARIABLES
  vec,    (* the bytes of the String, lent to the reader as a Vec          *)
  rres,   (* how far the reader is: "run", "ok", the kind of an Err, or    *)
          (* "panic" - what `reader(r, guard.buf)` returns                 *)
  glen,   (* guard.len                                                     *)
  ret     (* the same for append_to_string itself                          *)

IsUtf8(s) ==
  \A i \in 1..Len(s) :
    /\ s[i] \in Lead <=> i < Len(s) /\ s[i + 1] \in Cont
    /\ s[i] \in Cont => i > 1

Appended == SubSeq(vec, glen + 1, Len(vec))

Enter == glen = Len(vec) /\ ret = "run"

(* Mutation: the bytes are judged before the answer of the reader. *)
Check_BytesFirst ==
  /\ ret = "run" /\ rres \notin {"run", "panic"}
  /\ IF IsUtf8(Appended)
     THEN glen' = Len(vec) /\ ret' = rres
     ELSE ret' = "InvalidData" /\ UNCHANGED glen
  /\ UNCHANGED <<vec, rres>>

(* The reader is back: text is accepted, and reported as the reader did;   *)
(* other bytes are an error of their own, unless there was one before.     *)
Check ==
  /\ ret = "run" /\ rres \notin {"run", "panic"}
  /\ IF IsUtf8(Appended)
     THEN glen' = Len(vec) /\ ret' = rres
     ELSE /\ ret' = IF rres = "ok" THEN "InvalidData" ELSE rres
          /\ UNCHANGED glen
  /\ UNCHANGED <<vec, rres>>

(* The reader unwinds; the guard has no Drop, so nothing else happens.     *)
Unwind ==
  /\ ret = "run" /\ rres = "panic"
  /\ ret' = "panic"
  /\ UNCHANGED <<vec, rres, glen>>

(* A String is valid UTF-8 whenever the program can look at it.            *)
StaysText == ret # "run" => IsUtf8(vec)

(* What is reported as appended is text; InvalidData is reported only if   *)
(* the reader has done its part and its bytes are none, or if the reader   *)
(* itself fails with that kind.                                            *)
ReportsText ==
  /\ ret = "ok" => rres = "ok" /\ IsUtf8(vec)
  /\ ret = "InvalidData" => rres = ret \/ (rres = "ok" /\ ~IsUtf8(vec))

(* An error of the reader is never hidden by one of the bytes.             *)
FirstErrorWins == ret \notin {"run", "ok", "InvalidData"} => ret = rres
=============================================================================
