---------------------------- MODULE TakeAdaptor ----------------------------
(***************************************************************************)
(* not_io::Take: the first bytes of a reader, as a reader.  A client calls *)
(* read, read_exact, fill_buf and consume in any order.  The inner reader  *)
(* may answer anything, also a number larger than the buffer it was lent.  *)
(***************************************************************************)
EXTENDS ReadExact, Slices

CONSTANTS
  Byte,
  Source,     (* what the inner reader has to give                         *)
  Limits,     (* the numbers take() is called with                         *)
  Lengths,    (* the lengths of the client's buffers, and what it consumes *)
  MaxUsize,
  Fault       (* the errors the inner reader may answer with               *)

ASSUME TakeAssumption ==
  /\ Source \in Seq(Byte) /\ Junk \notin Byte
  /\ MaxUsize \in Nat /\ Limits \subseteq Nat
  /\ Lengths \subseteq 0..MaxUsize /\ Len(Source) <= MaxUsize
  /\ Fault \subseteq ErrorKind

VARIABLES
  src,        (* what the inner reader has not given yet                   *)
  held,       (* how much of it lies in its buffer                         *)
  limit,
  first,      (* what limit was at first                                   *)
  got,        (* what the client was given                                 *)
  from,       (* how much that was when read_exact was called              *)
  honest,     (* reader and client have kept to their contracts            *)
  answer      (* "ok", the kind of an Err, or "panic": the last call       *)

innerVars == <<src, held, got, honest>>
takeVars  == <<innerVars, limit, first, from, answer>>
vars      == <<takeVars, exactVars>>

(* usize::try_from(limit).unwrap_or(len).min(len) *)
CapMin(len) == Min2(IF limit <= MaxUsize THEN limit ELSE len, len)

(* Mutation: a plain subtraction. *)
SaturatingSub_Plain(a, b) == a - b

SaturatingSub(a, b) == IF a >= b THEN a - b ELSE 0

Init ==
  /\ src = Source /\ held = 0 /\ got = <<>> /\ honest = TRUE
  /\ limit \in Limits /\ first = limit /\ from = 0 /\ answer = "ok"
  /\ part = <<>> /\ left = 0 /\ xres = "idle"

-----------------------------------------------------------------------------
(* Take::read into a buffer of len bytes has three endings. *)

(* `if self.limit == 0 { return Ok(0) }` *)
AtLimit == limit = 0 /\ answer' = "ok" /\ UNCHANGED <<innerVars, limit>>

(* The inner reader is lent the first CapMin(len) bytes of the buffer,     *)
(* writes k of them, and says n, which may be more, within the buffer or   *)
(* past its end.  (What it writes and does not report is its own loss and  *)
(* no part of the stream.)  It is asked for its buffer anew before any of  *)
(* it is consumed.                                                         *)
Gives(len, k, n) ==
  /\ limit > 0
  /\ k \in 0..Min2(CapMin(len), Len(src))
  /\ n >= k
  /\ src' = Skip(k, src) /\ held' = 0
  /\ got' = got \o Take(k, src) \o Unwritten(Min2(n, len) - k)
  /\ honest' = (honest /\ n = k)
  /\ limit' = SaturatingSub(limit, n)
  /\ answer' = "ok"

InnerFails(e) ==
  /\ limit > 0 /\ e \in Fault
  /\ answer' = e /\ UNCHANGED <<innerVars, limit>>

-----------------------------------------------------------------------------
Idle == xres # "run"

(* One call of Take::read by the client. *)
Read(len) ==
  /\ Idle
  /\ \/ AtLimit
     \/ \E k \in 0..Len(src), n \in 0..MaxUsize : Gives(len, k, n)
     \/ \E e \in Fault : InnerFails(e)
  /\ UNCHANGED <<first, from, exactVars>>

CallReadExact(len) ==
  /\ Idle
  /\ Enter(len) /\ from' = Len(got)
  /\ UNCHANGED <<innerVars, limit, first, answer>>

(* The calls of Take::read that read_exact makes. *)
ExactAtLimit ==
  /\ Reading /\ AtLimit /\ Reply(0, <<>>)
  /\ UNCHANGED <<first, from>>

ExactGives(k, n) ==
  /\ Reading /\ Gives(left, k, n) /\ Reply(n, Take(k, src))
  /\ UNCHANGED <<first, from>>

ExactFails(e) ==
  /\ Reading /\ InnerFails(e) /\ ReplyErr(e)
  /\ UNCHANGED <<first, from>>

ExactDone == Finish /\ UNCHANGED takeVars

-----------------------------------------------------------------------------
(* Mutation: the inner reader is asked at the limit, too. *)
FillBuf_AlwaysAsks ==
  /\ Idle
  /\ \/ \E n \in 0..Len(src) :
          held' = n /\ answer' = "ok" /\ UNCHANGED <<src, got, honest>>
     \/ \E e \in Fault : answer' = e /\ UNCHANGED innerVars
  /\ UNCHANGED <<limit, first, from, exactVars>>

(* Ok(&buf[..cap_min(limit, n)]), where n bytes lie in the inner buffer.   *)
FillBuf ==
  /\ Idle
  /\ \/ AtLimit
     \/ /\ limit > 0
        /\ \E n \in 0..Len(src) :
             held' = n /\ answer' = "ok" /\ UNCHANGED <<src, got, honest, limit>>
     \/ \E e \in Fault : InnerFails(e)
  /\ UNCHANGED <<first, from, exactVars>>

(* The inner reader is told amt, but no more than the limit, and moves on  *)
(* by k bytes.                                                             *)
Passed(amt, k) ==
  /\ Idle
  /\ limit' = limit - CapMin(amt)
  /\ src' = Skip(k, src) /\ held' = SaturatingSub(held, k)
  /\ got' = got \o Take(k, src)
  /\ UNCHANGED <<first, from, exactVars>>

(* Mutation: the inner reader is not told. *)
Consume_Forgets(amt) ==
  /\ Idle /\ CapMin(amt) <= held
  /\ limit' = limit - CapMin(amt)
  /\ got' = got \o Take(CapMin(amt), src) /\ answer' = "ok"
  /\ UNCHANGED <<src, held, honest, first, from, exactVars>>

Consume(amt) ==
  /\ CapMin(amt) <= held /\ Passed(amt, CapMin(amt))
  /\ answer' = "ok" /\ UNCHANGED honest

(* The client consumes what it was not lent, and the limit does not stop   *)
(* it.  How far the inner reader goes then, whether past what it has lent, *)
(* and whether it panics, is its own affair.                               *)
ConsumeTooMuch(amt) ==
  /\ CapMin(amt) > held
  /\ \E k \in 0..Min2(CapMin(amt), Len(src)) : Passed(amt, k)
  /\ answer' \in {"ok", "panic"} /\ honest' = FALSE

(* Mutation: the inner reader is told before the limit goes down. *)
ConsumePanics_LimitLast(amt) ==
  /\ Idle /\ CapMin(amt) \in 1..held
  /\ \E k \in 0..CapMin(amt) :
       /\ src' = Skip(k, src) /\ held' = held - k
       /\ got' = got \o Take(k, src)
  /\ answer' = "panic" /\ honest' = FALSE
  /\ UNCHANGED <<limit, first, from, exactVars>>

(* The inner reader panics over bytes it has lent, having passed some of   *)
(* them: the limit has gone down before it is told.                        *)
ConsumePanics(amt) ==
  /\ CapMin(amt) \in 1..held
  /\ \E k \in 0..CapMin(amt) : Passed(amt, k)
  /\ answer' = "panic" /\ honest' = FALSE

Client ==
  \E len \in Lengths :
    \/ Read(len) \/ CallReadExact(len)
    \/ Consume(len) \/ ConsumeTooMuch(len) \/ ConsumePanics(len)

Loop ==
  \/ ExactAtLimit \/ ExactDone
  \/ \E k \in 0..Len(src), n \in 0..MaxUsize : ExactGives(k, n)
  \/ \E e \in Fault : ExactFails(e)

Next == Client \/ FillBuf \/ Loop

(* What read_exact can count on: the limit, and a reader that answers in   *)
(* the end, though perhaps with Ok(0).                                     *)
Progress ==
  \/ ExactAtLimit \/ ExactDone
  \/ \E k \in 0..Len(src) : ExactGives(k, k)

Spec == Init /\ [][Next]_vars /\ WF_vars(Progress)

-----------------------------------------------------------------------------
TypeOK ==
  /\ src \in Seq(Byte) /\ {got, part} \subseteq Seq(Byte \cup {Junk})
  /\ held \in 0..Len(src)
  /\ {limit, first, from, left} \subseteq Nat /\ honest \in BOOLEAN
  /\ answer \in {"ok", "panic"} \cup ErrorKind
  /\ xres \in {"idle", "run", "ok", "panic"} \cup ErrorKind

Taken == Len(Source) - Len(src)

(* No sequence of calls, miscounts of the inner reader, consumptions of    *)
(* too much, errors and panics gets more bytes out of it than take()       *)
(* allowed, because each is taken from the limit before or when it is      *)
(* passed; and as long as both sides are honest, none of them shortens the *)
(* allowance (impls_always.rs:171, 190-193: "Don't let callers reset the   *)
(* limit").                                                                *)
LimitHeld ==
  /\ Taken + limit <= first
  /\ honest => Taken + limit = first

(* Whatever way a byte goes - read, read_exact, fill_buf and consume - the *)
(* client gets each once and in order.                                     *)
InOrder == honest => got \o src = Source

(* read_exact fills its buffer or fails.  What it has filled, also when it *)
(* fails, are the bytes of the stream from where it was called.            *)
ExactOrError ==
  /\ xres = "ok" => left = 0
  /\ honest => part = SubSeq(got, from + 1, from + Len(part))

(* At the limit a Take is at its end and leaves the inner reader alone,    *)
(* which "may still block" (impls_always.rs:179): in no call does that     *)
(* fail, fill its buffer, be it without an error, or give a byte.          *)
QuietAtLimit ==
  [][limit = 0 =>
       src' = src /\ held' = held /\ answer' \in {answer, "ok"}]_vars

(* read_exact returns. *)
ExactReturns == xres = "run" ~> xres # "run"
=============================================================================
