------------------------------ MODULE IoErrors ------------------------------
(***************************************************************************)
(* not_io::Error.  The crate is built for one of two worlds: with `std` an *)
(* Error wraps std::io::Error, without it it is a plain ErrorKind.  The    *)
(* loops of the crate only ever ask an error one question: was the call    *)
(* merely interrupted?                                                     *)
(***************************************************************************)
CONSTANT Std   (* the feature `std` is on *)

ASSUME StdAssumption == Std \in BOOLEAN

ErrorKind == {"WriteZero", "UnexpectedEof", "Interrupted", "WouldBlock",
              "InvalidData", "InvalidInput"}

(* The answer has an implementation for each world: std's error has the    *)
(* kind, or has not; without std it is `false`, whatever the error is.     *)
StdIsInterrupted(e)   == e = "Interrupted"
NoStdIsInterrupted(e) == FALSE

IsInterrupted(e) == IF Std THEN StdIsInterrupted(e) ELSE NoStdIsInterrupted(e)
=============================================================================
