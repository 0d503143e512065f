---------------------------- MODULE MCFlexReader ----------------------------
(* Model values for FlexReader: two files and a cursor.  The program under *)
(* study announces one trait of a file and two of the cursor.              *)
EXTENDS FlexReader, TLC

CONSTANTS f1, f2, c1

MCValue  == {f1, f2, c1}
MCType   == {"File", "Cursor"}
MCTypeOf == (f1 :> "File") @@ (f2 :> "File") @@ (c1 :> "Cursor")
MCImpl   == ("File" :> {"FileExt"} \cap OptTable)
            @@ ("Cursor" :> {"BufRead", "Seek"})

Interchangeable ==
  Permutations(Addr) \cup Permutations(Ident) \cup Permutations({f1, f2})
=============================================================================
