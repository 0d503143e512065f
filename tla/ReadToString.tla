---------------------------- MODULE ReadToString ----------------------------
(***************************************************************************)
(* Read::read_to_string: append_to_string around read_to_end.              *)
(***************************************************************************)
EXTENDS ReadToEnd

CONSTANTS Lead, Cont   (* the bytes of Utf8Append's characters *)

VARIABLES glen, ret

A == INSTANCE Utf8Append

(* The String is one before the call. *)
ASSUME ReadToStringAssumption == A!IsUtf8(Initial)

allVars == <<fillVars, glen, ret>>

StringInit == Init /\ A!Enter

Checked == A!Check /\ UNCHANGED <<cap, len, src, pc, count>>
Unwound == A!Unwind /\ UNCHANGED <<cap, len, src, pc, count>>

StringReturned == ret # "run" /\ UNCHANGED allVars

StringNext ==
  \/ Fill /\ UNCHANGED <<glen, ret>>
  \/ Checked \/ Unwound
  \/ StringReturned

(* The assumptions of ReadToEnd about the reader.                          *)
StringSpec ==
  /\ StringInit /\ [][StringNext]_allVars
  /\ WF_allVars(EnsureRoom /\ UNCHANGED <<glen, ret>>)
  /\ SF_allVars(Answer /\ UNCHANGED <<glen, ret>>)

(* A String is valid UTF-8 whenever the program can look at it, as the     *)
(* standard read_to_string guarantees (lib.rs:182: "Replicates the         *)
(* standard `Read` trait").                                                *)
StaysText == A!StaysText

(* Ok means text was appended, InvalidData that something else was read,   *)
(* and an error of the reader is passed on.                                *)
ReportsWhatWasRead == A!ReportsText /\ A!FirstErrorWins
=============================================================================
