---------------------------- MODULE SkipClients ----------------------------
(***************************************************************************)
(* What flexible-io is for: functions that take any reader and use what it *)
(* happens to provide.  skip_one_string passes a string and its nul, by    *)
(* the reader's own buffer, by reading too much and seeking back, or byte  *)
(* for byte.  read_with_skip passes a number of bytes, by seeking or by    *)
(* reading, and reads the rest.  Both are called again and again on one    *)
(* reader, after errors too, and it may come to provide more in between.   *)
(***************************************************************************)
EXTENDS Slices

CONSTANTS
  Byte, Nul,
  Source,     (* the stream                                                *)
  Half,       (* 2^63: i64 is -Half..Half - 1, u64 is 0..2 * Half - 1      *)
  BufSize,    (* the capacity of a BufReader, and of the buffer to throw   *)
              (* away bytes                                                *)
  Skips,      (* the numbers read_with_skip is called with                 *)
  Fault       (* the errors of the reader                                  *)

MaxU64 == 2 * Half - 1

(* A stream is far shorter than a u64 can count. *)
ASSUME SkipAssumption ==
  /\ Nul \in Byte /\ Source \in Seq(Byte)
  /\ Half \in Nat /\ 4 * Len(Source) < Half
  /\ BufSize \in Nat \ {0} /\ Skips \subseteq 0..MaxU64
  /\ Fault \subseteq STRING /\ Fault \cap {"ok", "UnexpectedEof"} = {}

VARIABLES
  pos,        (* the position of the reader                                *)
  provided,   (* the traits beyond Read that were set                      *)
  phase,      (* "string", "back", "skip": in a call, or "idle"            *)
  over,       (* what a BufReader has read and not consumed                *)
  todo,       (* the bytes still to be skipped                             *)
  rest,       (* what this call of read_with_skip has appended             *)
  call,       (* the last call: "string" or "skip", "none" before the first *)
  from,       (* where it began; a string that an error interrupted began  *)
              (* where the first attempt did                               *)
  want,       (* the number of bytes it was to skip                        *)
  astray,     (* its seek back has failed                                  *)
  res         (* its result                                                *)

callVars == <<call, from, want>>
vars     == <<pos, provided, phase, over, todo, rest, callVars, astray, res>>

(* The bytes from p on; none if p is behind the end. *)
After(p) == SubSeq(Source, p + 1, Len(Source))
Ahead == Len(After(pos))

(* The places, counted from p, at which there is a nul. *)
Nuls(p) == {i \in 1..Len(After(p)) : After(p)[i] = Nul}
FirstNul(p) == CHOOSE i \in Nuls(p) : \A j \in Nuls(p) : i <= j
NulWithin(n) == Nuls(pos) # {} /\ FirstNul(pos) <= n

AsI64(n) == IF n < Half THEN n ELSE n - 2 * Half

Init ==
  /\ pos = 0 /\ provided \in SUBSET {"BufRead", "Seek"}
  /\ phase = "idle" /\ over = 0 /\ todo = 0 /\ rest = <<>>
  /\ call = "none" /\ from = 0 /\ want = 0
  /\ astray = FALSE /\ res = "ok"

(* set_buf, set_seek *)
Set(t) ==
  /\ phase = "idle" /\ provided' = provided \cup {t}
  /\ UNCHANGED <<pos, phase, over, todo, rest, callVars, astray, res>>

Return(r) == phase' = "idle" /\ res' = r

InString ==
  phase = "string" /\ UNCHANGED <<provided, callVars, astray, todo, rest>>
InSkip == phase = "skip" /\ UNCHANGED <<provided, callVars, astray, over>>
InBack == phase = "back" /\ UNCHANGED <<provided, callVars, todo, rest>>

-----------------------------------------------------------------------------
(* skip_one_string *)

BeginString ==
  /\ phase = "idle" /\ phase' = "string"
  /\ call' = "string" /\ over' = 0 /\ astray' = FALSE
  /\ from' = IF call = "string" /\ res # "ok" /\ ~astray THEN from ELSE pos
  /\ UNCHANGED <<pos, provided, todo, rest, want, res>>

OwnBuffer == "BufRead" \in provided
OverReads == ~OwnBuffer /\ "Seek" \in provided
ByteForByte == provided = {}

(* Mutation: an empty buffer is no reason to stop. *)
NoNul_GoesOn ==
  /\ InString /\ ~ByteForByte /\ Ahead = 0
  /\ UNCHANGED <<pos, phase, over, res>>

(* skip_bufread: fill_buf gives nothing. *)
NoNul ==
  /\ InString /\ ~ByteForByte /\ Ahead = 0
  /\ Return("UnexpectedEof") /\ UNCHANGED <<pos, over>>

(* fill_buf fails: any error ends the call, an interruption too.  What the *)
(* calls before it gave has all been consumed.                             *)
FillFails(e) ==
  /\ InString /\ ~ByteForByte
  /\ Return(e) /\ UNCHANGED <<pos, over>>

(* The reader's own fill_buf gives n bytes; those up to the nul, or all,   *)
(* are consumed.                                                           *)
OwnFill(n) ==
  /\ InString /\ OwnBuffer /\ n \in 1..Ahead
  /\ IF NulWithin(n)
     THEN pos' = pos + FirstNul(pos) /\ Return("ok")
     ELSE pos' = pos + n /\ UNCHANGED <<phase, res>>
  /\ UNCHANGED over

(* A BufReader around it reads n bytes, and keeps those behind the nul. *)
OverFill(n) ==
  /\ InString /\ OverReads /\ n \in 1..Min2(Ahead, BufSize)
  /\ pos' = pos + n
  /\ IF NulWithin(n)
     THEN over' = n - FirstNul(pos) /\ phase' = "back"
     ELSE UNCHANGED <<over, phase>>
  /\ UNCHANGED res

(* Mutation: what was read too much is not given back. *)
SeekBack_Not ==
  InBack /\ over' = 0 /\ Return("ok") /\ UNCHANGED <<pos, astray>>

(* seek_relative(-back) *)
SeekBack ==
  InBack /\ pos' = pos - over /\ over' = 0 /\ Return("ok") /\ UNCHANGED astray

(* It fails, perhaps also when there is nothing to go back. *)
SeekBackFails(e) ==
  InBack /\ astray' = TRUE /\ Return(e) /\ UNCHANGED <<pos, over>>

(* read_exact of one byte, which asks again after an interruption. *)
OneByte ==
  /\ InString /\ ByteForByte /\ UNCHANGED over
  /\ IF Ahead = 0
     THEN UNCHANGED pos /\ Return("UnexpectedEof")
     ELSE /\ pos' = pos + 1
          /\ IF NulWithin(1) THEN Return("ok") ELSE UNCHANGED <<phase, res>>

ByteFails(e) ==
  /\ InString /\ ByteForByte /\ UNCHANGED <<pos, over>>
  /\ IF e = "Interrupted" THEN UNCHANGED <<phase, res>> ELSE Return(e)

-----------------------------------------------------------------------------
(* read_with_skip *)

BeginSkip(n) ==
  /\ phase = "idle" /\ phase' = "skip"
  /\ call' = "skip" /\ from' = pos /\ want' = n
  /\ todo' = n /\ rest' = <<>> /\ over' = 0 /\ astray' = FALSE
  /\ UNCHANGED <<pos, provided, res>>

Seeking  == todo > 0 /\ "Seek" \in provided
Throwing == todo > 0 /\ "Seek" \notin provided

(* Mutation: from the start. *)
SeekAhead_Absolute ==
  /\ InSkip /\ Seeking
  /\ pos' = AsI64(todo) /\ pos' >= 0
  /\ todo' = todo - Min2(todo, Half - 1)
  /\ UNCHANGED <<phase, rest, res>>

(* seek(Current(skip as i64)): a skip that is no i64 goes backwards, or    *)
(* before the start.                                                       *)
SeekAhead ==
  /\ InSkip /\ Seeking
  /\ pos + AsI64(todo) \in 0..MaxU64
  /\ pos' = pos + AsI64(todo)
  /\ todo' = todo - Min2(todo, Half - 1)
  /\ UNCHANGED <<phase, rest, res>>

SeekOutside ==
  /\ InSkip /\ Seeking
  /\ pos + AsI64(todo) \notin 0..MaxU64
  /\ Return("InvalidInput") /\ UNCHANGED <<pos, todo, rest>>

(* The seek, a read to throw away, or - unless it was interrupted, when    *)
(* read_to_end asks again - the read of the rest fails.                    *)
SkipFails(e) ==
  /\ InSkip /\ UNCHANGED <<pos, todo, rest>>
  /\ IF todo = 0 /\ e = "Interrupted"
     THEN UNCHANGED <<phase, res>>
     ELSE Return(e)

(* Mutation: the whole buffer is lent. *)
ThrowAway_WholeBuffer(n) ==
  /\ InSkip /\ Throwing /\ n \in 1..Min2(Ahead, BufSize)
  /\ pos' = pos + n /\ todo' = todo - n
  /\ UNCHANGED <<phase, rest, res>>

(* A read of at most what is to be skipped. *)
ThrowAway(n) ==
  /\ InSkip /\ Throwing /\ n \in 1..Min2(Ahead, Min2(todo, BufSize))
  /\ pos' = pos + n /\ todo' = todo - n
  /\ UNCHANGED <<phase, rest, res>>

(* Mutation: fewer bytes than asked for are taken for the end. *)
ThrowEnds_Short ==
  /\ InSkip /\ Throwing /\ Ahead < BufSize
  /\ Return("UnexpectedEof") /\ UNCHANGED <<pos, todo, rest>>

ThrowEnds ==
  /\ InSkip /\ Throwing /\ Ahead = 0
  /\ Return("UnexpectedEof") /\ UNCHANGED <<pos, todo, rest>>

(* read_to_end: a read gives n bytes, or the end. *)
ReadRest(n) ==
  /\ InSkip /\ todo = 0 /\ n \in 1..Ahead
  /\ pos' = pos + n /\ rest' = rest \o SubSeq(Source, pos + 1, pos + n)
  /\ UNCHANGED <<phase, todo, res>>

RestEnds ==
  /\ InSkip /\ todo = 0 /\ Ahead = 0
  /\ Return("ok") /\ UNCHANGED <<pos, todo, rest>>

-----------------------------------------------------------------------------
(* Nothing fails: this is all a call waits for. *)
Progress ==
  \/ NoNul \/ SeekBack \/ OneByte
  \/ SeekAhead \/ SeekOutside \/ ThrowEnds \/ RestEnds
  \/ \E n \in 1..Len(Source) :
       OwnFill(n) \/ OverFill(n) \/ ThrowAway(n) \/ ReadRest(n)

Failure ==
  \E e \in Fault :
    FillFails(e) \/ SeekBackFails(e) \/ ByteFails(e) \/ SkipFails(e)

Program ==
  \/ \E t \in {"BufRead", "Seek"} : Set(t)
  \/ BeginString
  \/ \E n \in Skips : BeginSkip(n)

Next == Program \/ Progress \/ Failure

Spec == Init /\ [][Next]_vars /\ WF_vars(Progress)

-----------------------------------------------------------------------------
TypeOK ==
  /\ {pos, from, want, todo} \subseteq 0..MaxU64
  /\ provided \in SUBSET {"BufRead", "Seek"}
  /\ phase \in {"idle", "string", "back", "skip"}
  /\ call \in {"none", "string", "skip"}
  /\ over \in 0..BufSize /\ astray \in BOOLEAN /\ rest \in Seq(Byte)
  /\ res \in {"ok", "UnexpectedEof", "InvalidInput"} \cup Fault

Done(c) == phase = "idle" /\ call = c

(* "make sure the reader is then positioned at the next byte behind it"    *)
(* (field_with_dyn.rs:48): whichever way it took, and after whatever       *)
(* errors, skip_one_string ends just behind the first nul.  An error in    *)
(* the middle of the string passes no nul, so that the call can be made    *)
(* again.  Only when the seek back fails the string is passed, and with it *)
(* what was read too much.                                                 *)
StringByString ==
  Done("string") =>
    IF res = "ok" \/ astray
    THEN Nuls(from) # {} /\ pos - over = from + FirstNul(from)
    ELSE \A i \in Nuls(from) : from + i > pos

(* read_with_skip appends what lies behind the bytes to be skipped, by a   *)
(* seek or by reads, also when both are longer than the stream; until then *)
(* it has appended a beginning of that.  (A skip that is no i64 is wrong   *)
(* from a position that is near 2^63 already, motivation.rs:78.)           *)
SkipsExactly ==
  call = "skip" /\ (from <= Len(Source) \/ want < Half) =>
    LET tail == After(from + want)
    IN  /\ Len(rest) <= Len(tail) /\ rest = SubSeq(tail, 1, Len(rest))
        /\ Done("skip") /\ res = "ok" => rest = tail

(* UnexpectedEof means what it says: there is no nul up to the end, or     *)
(* there are not as many bytes as were to be skipped.                      *)
EndIsTheEnd ==
  res = "UnexpectedEof" =>
    /\ Done("string") => Nuls(from) = {} /\ Ahead = 0
    /\ Done("skip") => from + want > Len(Source)

(* Every call returns. *)
CallsReturn == phase # "idle" ~> phase = "idle"
=============================================================================
