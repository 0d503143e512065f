--------------------------- MODULE MCSkipClients ---------------------------
(* Three strings: one longer than the buffer, an empty one, and one        *)
(* without an end.  The skips end within the stream, at its end, behind    *)
(* it, and at the limits of i64 and u64.                                   *)
EXTENDS SkipClients

MCByte   == 0..3
MCSource == <<1, 2, 3, 0, 0, 1>>
MCSkips  == {0, 2, 6, 9, 24, 25, 48, 49}
MCFault  == {"Interrupted", "WouldBlock"}
=============================================================================
