------------------------------ MODULE MCCursor ------------------------------
(* u64 has four bits, and usize three: some positions are no length.  The  *)
(* contents and what is written have different bytes.                      *)
EXTENDS Cursor

MCByte     == {0, 1, 2, 3}
MCContents == {<<>>, <<1, 1>>, <<1, 1, 1>>}
MCBuffers  == {<<>>, <<2>>, <<2, 3>>, <<3, 3, 2>>}

(* No action reads `ret`: states that differ in it only have the same      *)
(* successors.  Action properties are checked on every step all the same.  *)
Memory == <<inner, kind, pos>>
=============================================================================
