------------------------------ MODULE ReadLine ------------------------------
(***************************************************************************)
(* BufRead::read_line: append_to_string around read_until.  An error of    *)
(* the reader leaves the line unfinished; the caller may come back with    *)
(* the same String for the rest of it, or for the next line.               *)
(***************************************************************************)
EXTENDS ReadUntil

CONSTANTS Lead, Cont   (* the bytes of Utf8Append's characters *)

VARIABLES glen, ret

A == INSTANCE Utf8Append

lineVars == <<untilVars, glen, ret>>

LineInit == Init /\ A!Enter

Checked == A!Check /\ UNCHANGED <<from, mark, src, used, done, read, pc>>
Unwound == A!Unwind /\ UNCHANGED <<from, mark, src, used, done, read, pc>>

(* read_line is called again with the same String. *)
ReadLineAgain ==
  /\ ret \notin {"run", "panic"} /\ CallAgain
  /\ glen' = Len(vec) /\ ret' = "run"

Returned == ret # "run" /\ UNCHANGED lineVars

LineNext ==
  \/ Loop /\ UNCHANGED <<glen, ret>>
  \/ Checked \/ Unwound
  \/ ReadLineAgain
  \/ Returned

(* A reader that works answers in the end, however often it is interrupted *)
(* before (strong fairness, as the loop comes back to it).                 *)
LineSpec ==
  /\ LineInit /\ [][LineNext]_lineVars
  /\ SF_lineVars(Answer /\ UNCHANGED <<glen, ret>>)

(* Ok: this call has read its line, and appended text.  InvalidData: it    *)
(* has read its line but appended something else, unless the reader itself *)
(* reported that kind.  Any other error is the reader's.                   *)
ReportsLine ==
  LET appended == SubSeq(vec, from + 1, Len(vec))
  IN  /\ ret = "ok" => rres = "ok" /\ A!IsUtf8(appended)
      /\ ret = "InvalidData" =>
           rres = ret \/ (rres = "ok" /\ ~A!IsUtf8(appended))
      /\ A!FirstErrorWins
=============================================================================
