------------------------------- MODULE Slices -------------------------------
(***************************************************************************)
(* Slices, and slices as readers and sinks: &[u8] and &mut [u8].  There    *)
(* the slice is the whole state; a call moves its beginning past what was  *)
(* read or written.                                                        *)
(***************************************************************************)
EXTENDS Sequences, Integers

Min2(a, b) == IF a <= b THEN a ELSE b
Max2(a, b) == IF a <= b THEN b ELSE a

(* s[..n] and s[n..] *)
Take(n, s) == SubSeq(s, 1, n)
Skip(n, s) == SubSeq(s, n + 1, Len(s))

(* What read puts into a buffer of n bytes; Skip(Len(..), s) is left.      *)
ReadSlice(s, n) == Take(Min2(Len(s), n), s)

(* read_exact, the loop of the trait: the first call gives all there is,   *)
(* a second one would give nothing.                                        *)
ReadsExactly(s, n) == Len(ReadSlice(s, n)) = n

(* write: as much as there is room for - but head.copy_from_slice(buf)     *)
(* panics unless that is all of buf.                                       *)
WriteCount(s, b) == Min2(Len(s), Len(b))
WritePanics(s, b) == WriteCount(s, b) # Len(b)
WriteSlice(s, b) == b \o Skip(Len(b), s)
=============================================================================
