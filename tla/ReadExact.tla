----------------------------- MODULE ReadExact -----------------------------
(***************************************************************************)
(* Read::read_exact: fill a buffer from a reader that gives as much as it  *)
(* likes, call after call.  One step is one answer of Read::read; whose    *)
(* answer it is, is up to the module that extends this one.                *)
(***************************************************************************)
EXTENDS IoErrors, Sequences, Integers

CONSTANTS
  Junk    (* stands for a byte of the buffer that was never written        *)

VARIABLES
  part,   (* what has been filled of the buffer                            *)
  left,   (* how much has not: the length of `buf`                         *)
  xres    (* "idle", or "run", then "ok", the kind of an Err, or "panic"   *)

exactVars == <<part, left, xres>>

(* The call: read_exact with a buffer of n bytes. *)
Enter(n) == part' = <<>> /\ left' = n /\ xres' = "run"

Reading == xres = "run" /\ left > 0

Return(r) == xres' = r /\ UNCHANGED <<part, left>>

Unwritten(n) == [i \in 1..n |-> Junk]

(* Mutation: Ok(0) is asked again. *)
Reply_Retries(n, bytes) ==
  \/ n = 0 /\ UNCHANGED exactVars
  \/ /\ n \in 1..left
     /\ part' = part \o bytes \o Unwritten(n - Len(bytes))
     /\ left' = left - n
     /\ UNCHANGED xres
  \/ n > left /\ Return("panic")

(* Mutation: `buf = &mut buf[n..]` is missing. *)
Reply_SamePlace(n, bytes) ==
  \/ n = 0 /\ Return("UnexpectedEof")
  \/ /\ n \in 1..left
     /\ part' = bytes \o Unwritten(n - Len(bytes))
     /\ left' = left - n
     /\ UNCHANGED xres
  \/ n > left /\ Return("panic")

(* Ok(n), after the reader has written `bytes` into the buffer: the end of *)
(* the stream, some bytes, or a number that is no place in the buffer.     *)
Reply(n, bytes) ==
  \/ n = 0 /\ Return("UnexpectedEof")
  \/ /\ n \in 1..left
     /\ part' = part \o bytes \o Unwritten(n - Len(bytes))
     /\ left' = left - n
     /\ UNCHANGED xres
  \/ n > left /\ Return("panic")

(* Err(e): asked again if interrupted. *)
ReplyErr(e) == IF IsInterrupted(e) THEN UNCHANGED exactVars ELSE Return(e)

(* The loop condition: buf.is_empty(). *)
Finish == xres = "run" /\ left = 0 /\ Return("ok")
=============================================================================
