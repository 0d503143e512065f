----------------------------- MODULE MCReadLine -----------------------------
(* Two lines with a character of two bytes in each, which a portion or an  *)
(* error may cut in half; the second line ends with the stream.  "n" is    *)
(* the newline, text like any other.  All bytes are different.             *)
EXTENDS ReadLine

MCByte    == {"z", "a", "L", "C", "n", "b", "M", "D"}
MCLead    == {"L", "M"}
MCCont    == {"C", "D"}
MCInitial == <<"z">>
MCSource  == <<"a", "L", "C", "n", "b", "M", "D">>
MCFault   == {"Interrupted", "WouldBlock", "InvalidData"}
=============================================================================
