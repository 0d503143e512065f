---------------------------- MODULE MCFlexWriter ----------------------------
(* Model values for FlexWriter: two files, which move, change places and   *)
(* are boxed under two wrappers.                                           *)
EXTENDS FlexWriter, TLC

CONSTANTS f1, f2

MCValue  == {f1, f2}
MCType   == {"File"}
MCTypeOf == (f1 :> "File") @@ (f2 :> "File")
MCImpl   == "File" :> {"AsHandle"} \cap OptTable

ASSUME WriterAssumption == IsWriter

Interchangeable ==
  Permutations(Addr) \cup Permutations(Ident) \cup Permutations({f1, f2})
=============================================================================
