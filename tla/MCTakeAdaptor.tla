--------------------------- MODULE MCTakeAdaptor ---------------------------
(* Limits of nothing, less than the source, more, and more than a usize.   *)
EXTENDS TakeAdaptor

MCByte    == 1..3
MCSource  == <<1, 2, 3>>
MCLimits  == {0, 2, 4, 6}
MCLengths == {0, 1, 2, 4}
MCFault   == {"Interrupted", "WouldBlock"}
=============================================================================
