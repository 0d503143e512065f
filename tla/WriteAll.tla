------------------------------ MODULE WriteAll ------------------------------
(***************************************************************************)
(* Write::write_all: hand a buffer to a sink that takes as much of it as   *)
(* it likes, call after call.  One step is one answer of Write::write.     *)
(***************************************************************************)
EXTENDS IoErrors, Slices

CONSTANTS
  Byte,
  Fault   (* the errors the sink may answer with *)

ASSUME FaultAssumption == Fault \subseteq ErrorKind

VARIABLES
  buf,    (* the argument                                            *)
  rest,   (* what the loop has not written yet: `buf = &buf[n..]`    *)
  wres,   (* "run", then "ok", the kind of an Err, or "panic"        *)
  out     (* what the sink took                                      *)

callVars == <<buf, rest, wres>>

(* The call: write_all(b). *)
Enter(b) == buf' = b /\ rest' = b /\ wres' = "run"

Writing == wres = "run" /\ rest # <<>>

(* Mutation: `buf = &buf[n..]` is missing. *)
Accept_Repeats(n) ==
  /\ Writing /\ n \in 1..Len(rest)
  /\ out' = out \o Take(n, rest)
  /\ UNCHANGED callVars

(* Ok(n), for n > 0: the first n bytes are gone. *)
Accept(n) ==
  /\ Writing /\ n \in 1..Len(rest)
  /\ out' = out \o Take(n, rest)
  /\ rest' = Skip(n, rest)
  /\ UNCHANGED <<buf, wres>>

(* Ok(0) *)
Refuse ==
  /\ Writing
  /\ wres' = "WriteZero"
  /\ UNCHANGED <<buf, rest, out>>

(* Err(e) if e.is_interrupted() => {} *)
Interrupted ==
  /\ Writing
  /\ \E e \in Fault : IsInterrupted(e)
  /\ UNCHANGED <<callVars, out>>

(* Err(e) => return Err(e) *)
Fail(e) ==
  /\ Writing /\ e \in Fault /\ ~IsInterrupted(e)
  /\ wres' = e
  /\ UNCHANGED <<buf, rest, out>>

(* Ok(n) with n > buf.len(), from a sink that miscounts: the slice index   *)
(* panics.  It cannot have taken more than it was given.                   *)
Miscount(n) ==
  /\ Writing /\ n \in 0..Len(rest)
  /\ out' = out \o Take(n, rest)
  /\ rest' = Skip(n, rest)
  /\ wres' = "panic"
  /\ UNCHANGED buf

(* The loop condition: buf.is_empty(). *)
Finish ==
  /\ wres = "run" /\ rest = <<>>
  /\ wres' = "ok"
  /\ UNCHANGED <<buf, rest, out>>

(* The answers a sink that works gives sooner or later. *)
Progress == Finish \/ \E n \in 1..Len(rest) : Accept(n)

Step ==
  \/ Progress
  \/ Refuse \/ Interrupted
  \/ \E e \in Fault : Fail(e)
  \/ \E n \in 0..Len(rest) : Miscount(n)
=============================================================================
