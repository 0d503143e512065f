--------------------------- MODULE MCReadToString ---------------------------
(* The bytes before the call and the ones of the source are all different. *)
(* The second and third byte of the source are one character, which the    *)
(* reader may cut in half.                                                 *)
EXTENDS ReadToString

CONSTANTS K, N   (* the lengths of the vector and of the source *)

MCByte    == 1..K + N
MCInitial == [i \in 1..K |-> i]
MCSource  == [i \in 1..N |-> K + i]
MCLead    == {K + 2}
MCCont    == {K + 3}
MCZero    == 0
MCJunk    == -1
MCFault   == {"Interrupted", "WouldBlock", "InvalidData"}
=============================================================================
