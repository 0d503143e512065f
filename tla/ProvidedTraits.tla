--------------------------- MODULE ProvidedTraits ---------------------------
(***************************************************************************)
(* What flexible-io promises, without a word about memory: an IO object is *)
(* wrapped, optional traits are announced while its type is still known,   *)
(* and from then on every handle of the wrapper - the wrapper itself, a    *)
(* borrowed view, a box - provides exactly the announced traits, wherever  *)
(* the value has been moved.  FlexHandle implements this specification.    *)
(***************************************************************************)
CONSTANTS
  Ident,    (* the wrappers                                              *)
  Opt       (* the traits that can be provided dynamically               *)

VARIABLES
  stage,    (* how a wrapper can be used: see Stage                      *)
  provided  (* the traits its getters answer with Some                   *)

vars == <<stage, provided>>

(* "typed": its concrete type is known, setters can be called; "lent":     *)
(* only reachable through a type-erased borrow; "boxed": erased for good.  *)
Stage == {"none", "typed", "lent", "boxed"}

Become(w, from, to) ==
  /\ stage[w] \in from
  /\ stage' = [stage EXCEPT ![w] = to]

Init ==
  /\ stage = [w \in Ident |-> "none"]
  /\ provided = [w \in Ident |-> {}]

(* A new wrapper provides nothing but its mandatory trait. *)
Wrap(w) == Become(w, {"none"}, "typed") /\ UNCHANGED provided

(* The only way to provide a trait: with the type at hand, one at a time. *)
Announce(w, t) ==
  /\ stage[w] = "typed"
  /\ provided' = [provided EXCEPT ![w] = @ \cup {t}]
  /\ UNCHANGED stage

(* Erasing the type, for a while or for good, keeps every promise. *)
Lend(w)   == Become(w, {"typed"}, "lent") /\ UNCHANGED provided
Return(w) == Become(w, {"lent"}, "typed") /\ UNCHANGED provided
Box(w)    == Become(w, {"typed"}, "boxed") /\ UNCHANGED provided

(* into_inner or drop: what was announced ends with the wrapper. *)
End(w) ==
  /\ Become(w, {"typed", "boxed"}, "none")
  /\ provided' = [provided EXCEPT ![w] = {}]

Next ==
  \E w \in Ident :
    \/ Wrap(w) \/ Lend(w) \/ Return(w) \/ Box(w) \/ End(w)
    \/ \E t \in Opt : Announce(w, t)

Spec == Init /\ [][Next]_vars
=============================================================================
