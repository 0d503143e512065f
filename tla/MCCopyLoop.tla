----------------------------- MODULE MCCopyLoop -----------------------------
(* The bytes are told apart by their place in the source: a loss, a         *)
(* repetition or an exchange then shows in `out`.                           *)
EXTENDS CopyLoop

CONSTANT N   (* the length of the source *)

MCByte   == 1..N
MCSource == [i \in 1..N |-> i]
MCFault  == {"Interrupted", "WouldBlock"}
=============================================================================
