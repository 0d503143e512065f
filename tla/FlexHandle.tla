----------------------------- MODULE FlexHandle -----------------------------
(***************************************************************************)
(* The memory behaviour of flexible-io's wrappers.  A wrapper keeps its IO *)
(* object `inner` together with fat pointers it took when the type was     *)
(* known.  Only the vtable half of these pointers is meaningful: a value   *)
(* moves freely afterwards, so every getter puts the current address back  *)
(* in (WithMetadataOf) before it dereferences.  The module follows the     *)
(* address and the vtable of every pointer through moves, type-erased      *)
(* views, unsizing, boxing and unwrapping.                                 *)
(*                                                                         *)
(* The module is written against Reader; Writer has the same text for      *)
(* another mandatory trait and another set of optional ones.               *)
(***************************************************************************)
CONSTANTS
  Addr,      (* places: stack slots and heap cells                         *)
  Value,     (* the IO objects                                             *)
  Type,      (* their concrete types                                       *)
  TypeOf,    (* the type of each value                                     *)
  Impl,      (* the optional traits each type implements                   *)
  Base,      (* the mandatory trait: Read or Write                         *)
  Opt,       (* the optional traits: the fields of OptTable                *)
  FieldPtr,  (* optional traits that the borrowed view looks up from the   *)
             (* address of its own field (see ViewAddr)                    *)
  Ident,     (* identities of wrappers, to tell one from another           *)
  None

(* A fat pointer: the address and the vtable of one type for one trait. *)
Ptr == [addr : Addr, type : Type, trait : Opt \cup {Base}]

ASSUME FlexAssumption ==
  /\ TypeOf \in [Value -> Type]
  /\ Impl \in [Type -> SUBSET Opt]
  /\ Base \notin Opt
  /\ FieldPtr \subseteq Opt
  /\ \A S \in {Addr, Value, Ident, Ptr} : None \notin S

(***************************************************************************)
(* mem[a] is what lives at place a:                                        *)
(*   "value"    a bare IO object                                           *)
(*   "wrapper"  a Reader<R> with R sized; its `inner` is at a              *)
(*   "unsized"  a &mut Reader<dyn Read>                                    *)
(*   "view"     a ReaderMut                                                *)
(*   "box"      a ReaderBox; its object is a "value" in a heap cell        *)
(* `holds` is the place a handle borrows or owns: what is held can be      *)
(* neither moved, changed nor dropped, by the rules of the language.       *)
(***************************************************************************)
VARIABLE mem

Kind == {"free", "value", "wrapper", "unsized", "view", "box"}

Cell == [kind  : Kind,
         obj   : Value \cup {None},           (* the IO object, if here    *)
         ptr   : Ptr \cup {None},             (* `read`, or the fat `inner` *)
         table : [Opt -> Ptr \cup {None}],    (* `vtable`                  *)
         holds : Addr \cup {None},
         id    : Ident \cup {None}]

NoTable == [t \in Opt |-> None]

Free == [kind |-> "free", obj |-> None, ptr |-> None, table |-> NoTable,
         holds |-> None, id |-> None]

Is(a, kinds) == mem[a].kind \in kinds
Held(a) == \E x \in Addr : mem[x].holds = a

(* A handle its owner may use now. *)
Usable(a, kinds) == Is(a, kinds) /\ ~Held(a)

-----------------------------------------------------------------------------
(* Pointers. *)

(* Mutation: a thin pointer, the cast to the trait object forgotten. *)
Erase_Thin(a, type, trait) == a

(* lifetime_erase_trait_vtable!: `&mut r` as a `dyn trait` raw pointer. *)
Erase(a, type, trait) == [addr |-> a, type |-> type, trait |-> trait]

(* Mutation: the address is the one of the time the vtable was taken. *)
WithMetadataOf_Stale(a, p) == p

(* with_metadata_of_on_stable: the first word of the fat pointer is        *)
(* overwritten, the vtable word stays.                                     *)
WithMetadataOf(a, p) == [p EXCEPT !.addr = a]

(* The place of the Reader a handle denotes: `&that.inner`, with the       *)
(* metadata of an unsized R dropped.                                       *)
Place(a) == IF mem[a].kind = "unsized" THEN mem[a].ptr.addr ELSE a

(* as_read_mut of the wrapper, of the view and of the box. *)
BasePtr(a) ==
  IF Is(a, {"wrapper", "unsized"})
  THEN WithMetadataOf(Place(a), mem[Place(a)].ptr)
  ELSE mem[a].ptr

TableOf(a) == mem[Place(a)].table

(* Mutation: every getter of the view starts from the view's own field. *)
ViewAddr_OwnField(a, t) == a

(* `that.inner as *const dyn Read` is the address of the object;           *)
(* `&that.inner as *const dyn Read` is the address of the view's own       *)
(* field, which is a &mut dyn Read and thus a Read as well.                *)
ViewAddr(a, t) == IF t \in FieldPtr THEN a ELSE mem[a].ptr.addr

GetterAddr(a, t) ==
  CASE Is(a, {"wrapper", "unsized"}) -> Place(a)
    [] Is(a, {"view"})               -> ViewAddr(a, t)
    [] Is(a, {"box"})                -> mem[a].ptr.addr

(* as_<t>, as_<t>_mut: None, or the object as a `dyn t`. *)
Getter(a, t) ==
  LET entry == TableOf(a)[t]
  IN  IF entry = None THEN None ELSE WithMetadataOf(GetterAddr(a, t), entry)

-----------------------------------------------------------------------------
(* Operations. *)

Init == mem = [a \in Addr |-> Free]

(* The program makes an IO object (external: File::open, Cursor::new, ...) *)
Create(v, a) ==
  /\ Is(a, {"free"})
  /\ \A x \in Addr : mem[x].obj # v
  /\ mem' = [mem EXCEPT ![a] = [Free EXCEPT !.kind = "value", !.obj = v]]

(* new(reader): the pointer is taken to the argument, before it is moved   *)
(* into the struct.                                                        *)
New(a, b, w) ==
  /\ Usable(a, {"value"}) /\ Is(b, {"free"})
  /\ \A x \in Addr : mem[x].id # w
  /\ mem' = [mem EXCEPT
       ![a] = Free,
       ![b] = [kind |-> "wrapper", obj |-> mem[a].obj,
               ptr |-> Erase(a, TypeOf[mem[a].obj], Base),
               table |-> NoTable, holds |-> None, id |-> w]]

(* set_<t>, under the static bound R: t. *)
Set(a, t) ==
  /\ Usable(a, {"wrapper"})
  /\ t \in Impl[TypeOf[mem[a].obj]]
  /\ mem' = [mem EXCEPT ![a].table[t] = Erase(a, TypeOf[mem[a].obj], t)]

(* Any value may be moved by its owner, handles included. *)
Move(a, b) ==
  /\ Usable(a, Kind \ {"free"}) /\ Is(b, {"free"})
  /\ mem' = [mem EXCEPT ![a] = Free, ![b] = mem[a]]

(* get_mut: the caller exchanges the object for another of the same type. *)
GetMut(a, b) ==
  /\ Usable(a, {"wrapper"}) /\ Usable(b, {"value", "wrapper"}) /\ a # b
  /\ TypeOf[mem[a].obj] = TypeOf[mem[b].obj]
  /\ mem' = [mem EXCEPT ![a].obj = mem[b].obj, ![b].obj = mem[a].obj]

(* The struct is built to be unsized: &mut Reader<R> as &mut Reader<dyn>.  *)
Unsize(a, b) ==
  /\ Usable(a, {"wrapper"}) /\ Is(b, {"free"})
  /\ mem' = [mem EXCEPT ![b] =
       [Free EXCEPT !.kind = "unsized", !.holds = a, !.id = mem[a].id,
                    !.ptr = Erase(a, TypeOf[mem[a].obj], Base)]]

(* Mutation: the table is not copied into the view. *)
AsMut_NoTable(a, b) ==
  /\ Usable(a, {"wrapper", "unsized", "box"}) /\ Is(b, {"free"})
  /\ mem' = [mem EXCEPT ![b] =
       [kind |-> "view", obj |-> None, ptr |-> BasePtr(a),
        table |-> NoTable, holds |-> a, id |-> mem[a].id]]

(* as_mut of Reader (also for R = dyn Read) and of ReaderBox: the table is *)
(* copied out, then the whole handle stays mutably borrowed by the view.   *)
AsMut(a, b) ==
  /\ Usable(a, {"wrapper", "unsized", "box"}) /\ Is(b, {"free"})
  /\ mem' = [mem EXCEPT ![b] =
       [kind |-> "view", obj |-> None, ptr |-> BasePtr(a),
        table |-> TableOf(a), holds |-> a, id |-> mem[a].id]]

(* Mutation: the object is copied to the heap, and still dropped here. *)
IntoBoxed_Copies(a, h, b) ==
  /\ Usable(a, {"wrapper"}) /\ Is(h, {"free"}) /\ Is(b, {"free"}) /\ h # b
  /\ mem' = [mem EXCEPT
       ![h] = [Free EXCEPT !.kind = "value", !.obj = mem[a].obj,
                           !.id = mem[a].id],
       ![b] = [kind |-> "box", obj |-> None,
               ptr |-> WithMetadataOf(h, mem[a].ptr),
               table |-> mem[a].table, holds |-> h, id |-> mem[a].id]]

(* Mutation: the box starts with an empty table. *)
IntoBoxed_NoTable(a, h, b) ==
  /\ Usable(a, {"wrapper"}) /\ Is(h, {"free"}) /\ Is(b, {"free"}) /\ h # b
  /\ mem' = [mem EXCEPT
       ![a] = Free,
       ![h] = [Free EXCEPT !.kind = "value", !.obj = mem[a].obj,
                           !.id = mem[a].id],
       ![b] = [kind |-> "box", obj |-> None,
               ptr |-> WithMetadataOf(h, mem[a].ptr),
               table |-> NoTable, holds |-> h, id |-> mem[a].id]]

(* into_boxed: the object moves to the heap cell h. *)
IntoBoxed(a, h, b) ==
  /\ Usable(a, {"wrapper"}) /\ Is(h, {"free"}) /\ Is(b, {"free"}) /\ h # b
  /\ mem' = [mem EXCEPT
       ![a] = Free,
       ![h] = [Free EXCEPT !.kind = "value", !.obj = mem[a].obj,
                           !.id = mem[a].id],
       ![b] = [kind |-> "box", obj |-> None,
               ptr |-> WithMetadataOf(h, mem[a].ptr),
               table |-> mem[a].table, holds |-> h, id |-> mem[a].id]]

(* Mutation: the object is read out of the wrapper, which stays alive. *)
IntoInner_Copies(a, b) ==
  /\ Usable(a, {"wrapper"}) /\ Is(b, {"free"})
  /\ mem' = [mem EXCEPT
       ![b] = [Free EXCEPT !.kind = "value", !.obj = mem[a].obj]]

(* into_inner: back to the bare object. *)
IntoInner(a, b) ==
  /\ Usable(a, {"wrapper"}) /\ Is(b, {"free"})
  /\ mem' = [mem EXCEPT
       ![a] = Free,
       ![b] = [Free EXCEPT !.kind = "value", !.obj = mem[a].obj]]

(* Drop; a box also drops and frees what its pointer leads to. *)
Drop(a) ==
  /\ Usable(a, Kind \ {"free"})
  /\ mem' = [x \in Addr |->
       IF x = a \/ (Is(a, {"box"}) /\ x = mem[a].ptr.addr)
       THEN Free ELSE mem[x]]

Next ==
  \/ \E a \in Addr, v \in Value : Create(v, a)
  \/ \E a, b \in Addr, w \in Ident : New(a, b, w)
  \/ \E a \in Addr, t \in Opt : Set(a, t)
  \/ \E a, b \in Addr : Move(a, b)
  \/ \E a, b \in Addr : GetMut(a, b)
  \/ \E a, b \in Addr : Unsize(a, b)
  \/ \E a, b \in Addr : AsMut(a, b)
  \/ \E a, h, b \in Addr : IntoBoxed(a, h, b)
  \/ \E a, b \in Addr : IntoInner(a, b)
  \/ \E a \in Addr : Drop(a)

Spec == Init /\ [][Next]_mem

-----------------------------------------------------------------------------
(* Properties. *)

(* Memory always holds well-formed cells. *)
TypeOK == mem \in [Addr -> Cell]

Handle == {"wrapper", "unsized", "view", "box"}

(* p may be dereferenced as a `dyn t` on behalf of the handle at a: there  *)
(* is a live object of the type of p's vtable, it is the object this       *)
(* handle stands for, and the vtable is the one of an impl of t.           *)
PointsWell(p, t, a) ==
  /\ p.trait = t
  /\ Is(p.addr, {"value", "wrapper"})
  /\ mem[p.addr].id = mem[a].id
  /\ p.type = TypeOf[mem[p.addr].obj]

(* The unsafe dereference in every getter is sound, after any sequence of  *)
(* moves, exchanges, borrows, boxing: "the value can be moved after such   *)
(* call arbitrarily" (reader.rs:273).                                      *)
GettersSound ==
  \A a \in Addr : Usable(a, Handle) =>
    /\ PointsWell(BasePtr(a), Base, a)
    /\ \A t \in Opt : Getter(a, t) # None =>
         /\ PointsWell(Getter(a, t), t, a)
         /\ t \in Impl[Getter(a, t).type]

(* No object is in two places, ... *)
ObjectsOnce ==
  \A a, b \in Addr : mem[a].obj = mem[b].obj /\ mem[a].obj # None => a = b

(* ... nothing is borrowed or owned by two handles, ... *)
HeldOnce ==
  \A a, b \in Addr : mem[a].holds = mem[b].holds /\ mem[a].holds # None
                       => a = b

(* ... and an object into_boxed put on the heap has a box to free it.      *)
BoxedOwned ==
  \A a \in Addr :
    Is(a, {"value"}) /\ mem[a].id # None =>
      \E b \in Addr : /\ Is(b, {"box"})
                      /\ mem[b].holds = a /\ mem[b].ptr.addr = a

(* An IO object has one place, and a boxed one exactly one owner: no       *)
(* double drop, no leak, no object reachable from two boxes.               *)
SingleOwner == ObjectsOnce /\ HeldOnce /\ BoxedOwned

(* What the wrapper w provides is what its usable handle answers. *)
Provided(w) ==
  {t \in Opt : \E a \in Addr : /\ Usable(a, Handle) /\ mem[a].id = w
                               /\ Getter(a, t) # None}

StageOf(w) ==
  LET cells == {a \in Addr : mem[a].id = w}
  IN  IF cells = {} THEN "none"
      ELSE IF \E a \in cells : Is(a, {"box"}) THEN "boxed"
      ELSE IF \E a \in cells : Usable(a, {"wrapper"}) THEN "typed"
      ELSE "lent"

Abstract == INSTANCE ProvidedTraits WITH
              stage    <- [w \in Ident |-> StageOf(w)],
              provided <- [w \in Ident |-> Provided(w)]

(* Getters answer Some exactly for the traits that were announced, on      *)
(* every handle, whatever happened to the value in between.                *)
ProvidesWhatWasSet == Abstract!Spec
=============================================================================
