------------------------- MODULE FlexHandle_proofs -------------------------
(***************************************************************************)
(* Proofs about FlexHandle, for any number of places, objects, types and   *)
(* traits.  An invariant of the getters alone is not inductive: whether a  *)
(* view's pointer is good depends on the handle it borrows from, and on    *)
(* that one not having been touched since.  Chains says what each handle   *)
(* relies on, and the step proofs use that what is held does not change.   *)
(* What follows for the writer is at the end.                              *)
(***************************************************************************)
EXTENDS FlexWriter, TLAPS

(* Every vtable stored at a is one of the type ty, each in its own slot.   *)
TableFits(a, ty) ==
  /\ mem[a].ptr # None /\ mem[a].ptr.type = ty /\ mem[a].ptr.trait = Base
  /\ \A t \in Opt : mem[a].table[t] # None =>
       /\ mem[a].table[t].type = ty /\ mem[a].table[t].trait = t
       /\ t \in Impl[ty]

ObjType(a) == TypeOf[mem[a].obj]

(* What the cell at a relies on. *)
WrapperFits(a) ==
  mem[a].kind = "wrapper" =>
    mem[a].obj # None /\ mem[a].holds = None /\ TableFits(a, ObjType(a))

ValueFits(a) ==
  mem[a].kind = "value" => mem[a].obj # None /\ mem[a].holds = None

UnsizedFits(a) ==
  mem[a].kind = "unsized" =>
    LET r == mem[a].holds
    IN  /\ r # None /\ mem[a].ptr # None /\ mem[a].ptr.addr = r
        /\ mem[r].kind = "wrapper" /\ mem[r].id = mem[a].id

BoxFits(a) ==
  mem[a].kind = "box" =>
    LET r == mem[a].holds
    IN  /\ r # None /\ mem[a].ptr # None /\ mem[a].ptr.addr = r
        /\ mem[r].kind = "value" /\ mem[r].id = mem[a].id
        /\ TableFits(a, ObjType(r))

(* The object of the handle h, one step further for unsized ones and boxes *)
Root(h) == IF mem[h].kind = "wrapper" THEN h ELSE mem[h].holds

ViewFits(a) ==
  mem[a].kind = "view" =>
    LET h == mem[a].holds
    IN  /\ h # None /\ mem[h].kind \in {"wrapper", "unsized", "box"}
        /\ mem[h].id = mem[a].id
        /\ mem[a].ptr # None /\ mem[a].ptr.addr = Root(h)
        /\ TableFits(a, ObjType(Root(h)))

FreeFits(a) == mem[a].kind = "free" => mem[a] = Free

Chain(a) ==
  /\ FreeFits(a) /\ ValueFits(a) /\ WrapperFits(a)
  /\ UnsizedFits(a) /\ BoxFits(a) /\ ViewFits(a)

Chains == \A a \in Addr : Chain(a)

IInv == TypeOK /\ Chains /\ SingleOwner

(* The places a step writes are among S. *)
WritesOnly(S) == \A x \in Addr : x \notin S => mem'[x] = mem[x]

-----------------------------------------------------------------------------
(* Facts about one state. *)

(* A pointer taken from a live object is a pointer of the model. *)
LEMMA EraseType ==
  ASSUME NEW a \in Addr, NEW ty \in Type, NEW t \in Opt \cup {Base}
  PROVE  /\ Erase(a, ty, t) \in Ptr
         /\ Erase(a, ty, t).addr = a
         /\ Erase(a, ty, t).type = ty
         /\ Erase(a, ty, t).trait = t
BY DEF Erase, Ptr

(* with_metadata_of_on_stable changes the address and keeps the vtable. *)
LEMMA WithMetadataOfType ==
  ASSUME NEW a \in Addr, NEW p \in Ptr
  PROVE  /\ WithMetadataOf(a, p) \in Ptr
         /\ WithMetadataOf(a, p).addr = a
         /\ WithMetadataOf(a, p).type = p.type
         /\ WithMetadataOf(a, p).trait = p.trait
BY DEF WithMetadataOf, Ptr

(* A free cell is a cell, and holds nothing. *)
LEMMA FreeType ==
  /\ Free \in Cell /\ Free.kind = "free" /\ Free.obj = None
  /\ Free.ptr = None /\ Free.holds = None /\ Free.id = None
  /\ NoTable \in [Opt -> Ptr \cup {None}]
BY DEF Free, Cell, Kind, NoTable

(* The fields of the cells of a well-formed memory. *)
LEMMA CellFields ==
  ASSUME TypeOK, NEW a \in Addr
  PROVE  /\ mem[a] \in Cell
         /\ mem[a].kind \in Kind
         /\ mem[a].obj # None => mem[a].obj \in Value /\ ObjType(a) \in Type
         /\ mem[a].ptr # None => mem[a].ptr \in Ptr
         /\ mem[a].holds # None => mem[a].holds \in Addr
         /\ \A t \in Opt : mem[a].table[t] # None => mem[a].table[t] \in Ptr
BY FlexAssumption DEF TypeOK, Cell, ObjType

(* Only borrows and boxes hold something, and what they hold is alive. *)
LEMMA HoldersHold ==
  ASSUME TypeOK, Chains, NEW a \in Addr, mem[a].holds # None
  PROVE  /\ mem[a].kind \in {"unsized", "view", "box"}
         /\ mem[a].holds \in Addr
         /\ mem[mem[a].holds].kind # "free"
<1>1. mem[a].kind \in Kind /\ mem[a].holds \in Addr
  BY CellFields
<1>2. Chain(a)
  BY DEF Chains
<1>3. mem[a].kind \in {"unsized", "view", "box"}
  BY <1>1, <1>2, FreeType DEF Chain, FreeFits, ValueFits, WrapperFits, Kind
<1> QED
  BY <1>1, <1>2, <1>3 DEF Chain, UnsizedFits, BoxFits, ViewFits

(* Nobody holds a free place. *)
LEMMA FreeNotHeld ==
  ASSUME TypeOK, Chains, NEW a \in Addr, Is(a, {"free"})
  PROVE  ~Held(a)
BY HoldersHold, FlexAssumption DEF Held, Is

(***************************************************************************)
(* What a step leaves alone keeps its chain.  S has all the places the     *)
(* step writes, and no place outside S holds one inside; a cell that held  *)
(* nothing of S before the step still fits after it, where it was or at    *)
(* the place y it has been moved to.                                       *)
(***************************************************************************)
LEMMA Carry ==
  ASSUME TypeOK, Chains,
         NEW S \in SUBSET Addr,
         WritesOnly(S),
         \A z \in Addr \ S : mem[z].holds \notin S,
         NEW x \in Addr, NEW y \in Addr,
         mem'[y] = mem[x], mem[x].holds \notin S
  PROVE  Chain(y)'
<1>1. Chain(x)
  BY DEF Chains
<1> DEFINE h == mem[x].holds
<1>2. h # None => h \in Addr /\ mem'[h] = mem[h] /\ h \in Addr \ S
  BY HoldersHold DEF WritesOnly
<1>3. h # None /\ mem[h].holds # None =>
        mem'[mem[h].holds] = mem[mem[h].holds]
  BY <1>2, HoldersHold DEF WritesOnly
<1>4. FreeFits(y)' /\ ValueFits(y)' /\ WrapperFits(y)'
  BY <1>1 DEF Chain, FreeFits, ValueFits, WrapperFits, TableFits, ObjType
<1>5. UnsizedFits(y)'
  BY <1>1, <1>2 DEF Chain, UnsizedFits
<1>6. BoxFits(y)'
  BY <1>1, <1>2 DEF Chain, BoxFits, TableFits, ObjType
<1>7. ViewFits(y)'
  <2> SUFFICES ASSUME mem[x].kind = "view" PROVE ViewFits(y)'
    BY <1>1 DEF ViewFits
  <2>1. PICK g \in Addr : /\ g = mem[x].holds
                          /\ mem[g].kind \in {"wrapper", "unsized", "box"}
    BY <1>1, <1>2 DEF Chain, ViewFits
  <2>2. Chain(g)
    BY DEF Chains
  <2>3. mem[g].kind # "wrapper" => mem[g].holds # None
    BY <2>1, <2>2 DEF Chain, UnsizedFits, BoxFits
  <2>4. PICK r : /\ r = Root(g) /\ r = Root(g)'
                 /\ mem'[r] = mem[r] /\ mem'[g] = mem[g]
    BY <1>2, <1>3, <2>1, <2>3, FlexAssumption DEF Root
  <2>5. /\ mem[g].id = mem[x].id
        /\ mem[x].ptr # None /\ mem[x].ptr.addr = r
        /\ TableFits(x, ObjType(r))
    BY <1>1, <2>1, <2>4 DEF Chain, ViewFits
  <2>6. TableFits(y, ObjType(r))'
    BY <2>4, <2>5 DEF TableFits, ObjType
  <2> QED
    BY <2>1, <2>4, <2>5, <2>6, FlexAssumption DEF ViewFits
<1> QED
  BY <1>4, <1>5, <1>6, <1>7 DEF Chain

LEMMA Frame ==
  ASSUME TypeOK, Chains,
         NEW S \in SUBSET Addr,
         WritesOnly(S),
         \A z \in Addr \ S : mem[z].holds \notin S
  PROVE  \A x \in Addr \ S : Chain(x)'
BY Carry DEF WritesOnly

(* A usable place, and a free one, is held by nobody. *)
LEMMA NotHeld ==
  ASSUME TypeOK, Chains, NEW a \in Addr,
         \/ Is(a, {"free"})
         \/ ~Held(a)
  PROVE  \A x \in Addr : mem[x].holds # a
BY FreeNotHeld DEF Held

(***************************************************************************)
(* A step that writes no box and leaves no boxed object behind in what it  *)
(* writes keeps every boxed object owned.                                  *)
(***************************************************************************)
LEMMA BoxedFrame ==
  ASSUME BoxedOwned,
         NEW S \in SUBSET Addr,
         WritesOnly(S),
         \A x \in S : /\ mem[x].kind # "box"
                      /\ mem'[x].kind = "value" => mem'[x].id = None
  PROVE  BoxedOwned'
<1> SUFFICES ASSUME NEW a \in Addr,
                    mem'[a].kind = "value", mem'[a].id # None
             PROVE  \E b \in Addr : /\ mem'[b].kind = "box"
                                    /\ mem'[b].holds = a
                                    /\ mem'[b].ptr.addr = a
  BY DEF BoxedOwned, Is
<1>1. a \notin S /\ mem'[a] = mem[a]
  BY DEF WritesOnly
<1>2. PICK b \in Addr : /\ mem[b].kind = "box"
                        /\ mem[b].holds = a
                        /\ mem[b].ptr.addr = a
  BY <1>1 DEF BoxedOwned, Is
<1>3. mem'[b] = mem[b]
  BY <1>2 DEF WritesOnly
<1> QED
  BY <1>2, <1>3

-----------------------------------------------------------------------------
(* One lemma per operation: it keeps the inductive invariant. *)

LEMMA CreateStep ==
  ASSUME IInv, NEW v \in Value, NEW a \in Addr, Create(v, a)
  PROVE  IInv'
<1> DEFINE c == [Free EXCEPT !.kind = "value", !.obj = v]
<1>1. /\ c \in Cell /\ c.kind = "value" /\ c.obj = v /\ v # None
      /\ c.holds = None /\ c.id = None
  BY FreeType, FlexAssumption DEF Cell, Kind
<1>2. /\ mem' = [mem EXCEPT ![a] = c]
      /\ TypeOK /\ Chains /\ Is(a, {"free"})
  BY DEF Create, IInv
<1> HIDE DEF c
<1>3. TypeOK' /\ mem'[a] = c /\ WritesOnly({a})
  BY <1>1, <1>2 DEF TypeOK, WritesOnly
<1>4. Chains'
  <2>1. \A x \in Addr \ {a} : Chain(x)'
    BY <1>2, <1>3, NotHeld, Frame
  <2>2. Chain(a)'
    BY <1>1, <1>3 DEF Chain, FreeFits, ValueFits, WrapperFits, UnsizedFits,
                      BoxFits, ViewFits
  <2> QED
    BY <2>1, <2>2 DEF Chains
<1>5. ObjectsOnce'
  BY <1>1, <1>3 DEF WritesOnly, IInv, SingleOwner, ObjectsOnce, Create
<1>6. HeldOnce'
  BY <1>1, <1>3 DEF WritesOnly, IInv, SingleOwner, HeldOnce
<1>7. BoxedOwned'
  <2>1. \A x \in {a} : /\ mem[x].kind # "box"
                       /\ mem'[x].kind = "value" => mem'[x].id = None
    BY <1>1, <1>2, <1>3 DEF Is
  <2> QED
    BY <1>3, <2>1, BoxedFrame DEF IInv, SingleOwner
<1> QED
  BY <1>3, <1>4, <1>5, <1>6, <1>7 DEF IInv, SingleOwner

LEMMA NewStep ==
  ASSUME IInv, NEW a \in Addr, NEW b \in Addr, NEW w \in Ident, New(a, b, w)
  PROVE  IInv'
<1> DEFINE ty == TypeOf[mem[a].obj]
           c == [kind |-> "wrapper", obj |-> mem[a].obj,
                 ptr |-> Erase(a, ty, Base),
                 table |-> NoTable, holds |-> None, id |-> w]
<1>1. /\ mem' = [mem EXCEPT ![a] = Free, ![b] = c]
      /\ TypeOK /\ Chains /\ SingleOwner
      /\ mem[a].kind = "value" /\ mem[b].kind = "free" /\ ~Held(a)
  BY DEF New, IInv, Usable, Is
<1>2. mem[a].obj # None /\ mem[a].obj \in Value /\ ty \in Type
  BY <1>1, CellFields DEF Chains, Chain, ValueFits, ObjType
<1>3. /\ Erase(a, ty, Base) \in Ptr
      /\ Erase(a, ty, Base).type = ty
      /\ Erase(a, ty, Base).trait = Base
  BY <1>2, EraseType
<1>4. /\ c \in Cell /\ c.kind = "wrapper" /\ c.obj = mem[a].obj
      /\ c.ptr = Erase(a, ty, Base) /\ c.table = NoTable
      /\ c.holds = None /\ c.id = w
  BY <1>2, <1>3, FreeType DEF Cell, Kind
<1> HIDE DEF c
<1>5. /\ mem'[a] = Free /\ mem'[b] = c /\ TypeOK'
      /\ WritesOnly({a, b})
  BY <1>1, <1>4, FreeType DEF TypeOK, WritesOnly
<1>6. \A x \in Addr : mem[x].holds \notin {a, b}
  BY <1>1, NotHeld DEF Is
<1>7. Chains'
  <2>1. \A x \in Addr \ {a, b} : Chain(x)'
    BY <1>1, <1>5, <1>6, Frame
  <2>2. Chain(a)'
    BY <1>5, FreeType DEF Chain, FreeFits, ValueFits, WrapperFits,
                          UnsizedFits, BoxFits, ViewFits
  <2>3. Erase(a, ty, Base) # None
    BY <1>3, FlexAssumption
  <2>4. Chain(b)'
    BY <1>2, <1>3, <1>4, <1>5, <2>3
       DEF Chain, FreeFits, ValueFits, WrapperFits, UnsizedFits, BoxFits,
           ViewFits, TableFits, ObjType, NoTable
  <2> QED
    BY <2>1, <2>2, <2>4 DEF Chains
<1>8. ObjectsOnce'
  BY <1>1, <1>4, <1>5, FreeType DEF SingleOwner, ObjectsOnce, WritesOnly
<1>9. HeldOnce'
  BY <1>1, <1>4, <1>5, FreeType DEF SingleOwner, HeldOnce, WritesOnly
<1>10. BoxedOwned'
  <2>1. \A x \in {a, b} : /\ mem[x].kind # "box"
                          /\ mem'[x].kind = "value" => mem'[x].id = None
    BY <1>1, <1>4, <1>5, FreeType
  <2> QED
    BY <1>1, <1>5, <2>1, BoxedFrame DEF SingleOwner
<1> QED
  BY <1>5, <1>7, <1>8, <1>9, <1>10 DEF IInv, SingleOwner

LEMMA SetStep ==
  ASSUME IInv, NEW a \in Addr, NEW t \in Opt, Set(a, t)
  PROVE  IInv'
<1> DEFINE ty == TypeOf[mem[a].obj]
           c == [mem[a] EXCEPT !.table[t] = Erase(a, ty, t)]
<1>1. /\ mem' = [mem EXCEPT ![a] = c] /\ t \in Impl[ty]
      /\ TypeOK /\ Chains /\ SingleOwner
      /\ mem[a].kind = "wrapper" /\ ~Held(a)
  BY DEF Set, IInv, Usable, Is
<1>2. /\ mem[a] \in Cell /\ mem[a].obj # None /\ ty \in Type
      /\ mem[a].holds = None /\ TableFits(a, ty)
  BY <1>1, CellFields DEF Chains, Chain, WrapperFits, ObjType
<1>3. /\ Erase(a, ty, t) \in Ptr
      /\ Erase(a, ty, t).type = ty
      /\ Erase(a, ty, t).trait = t
  BY <1>2, EraseType
<1>4. /\ c \in Cell /\ c.kind = "wrapper" /\ c.obj = mem[a].obj
      /\ c.ptr = mem[a].ptr /\ c.holds = None /\ c.id = mem[a].id
      /\ c.table = [mem[a].table EXCEPT ![t] = Erase(a, ty, t)]
      /\ mem[a].table \in [Opt -> Ptr \cup {None}]
  BY <1>1, <1>2, <1>3 DEF Cell
<1> HIDE DEF c
<1>5. /\ mem'[a] = c /\ TypeOK'
      /\ WritesOnly({a})
  BY <1>1, <1>4 DEF TypeOK, WritesOnly
<1>6. Chains'
  <2>1. \A x \in Addr \ {a} : Chain(x)'
    BY <1>1, <1>5, NotHeld, Frame
  <2>2. TableFits(a, ty)'
    BY <1>1, <1>2, <1>3, <1>4, <1>5 DEF TableFits
  <2>3. Chain(a)'
    BY <1>2, <1>4, <1>5, <2>2
       DEF Chain, FreeFits, ValueFits, WrapperFits, UnsizedFits, BoxFits,
           ViewFits, ObjType
  <2> QED
    BY <2>1, <2>3 DEF Chains
<1>7. ObjectsOnce' /\ HeldOnce'
  BY <1>1, <1>2, <1>4, <1>5 DEF SingleOwner, ObjectsOnce, WritesOnly, HeldOnce
<1>8. BoxedOwned'
  <2>1. \A x \in {a} : /\ mem[x].kind # "box"
                       /\ mem'[x].kind = "value" => mem'[x].id = None
    BY <1>1, <1>4, <1>5
  <2> QED
    BY <1>1, <1>5, <2>1, BoxedFrame DEF SingleOwner
<1> QED
  BY <1>5, <1>6, <1>7, <1>8 DEF IInv, SingleOwner

LEMMA MoveStep ==
  ASSUME IInv, NEW a \in Addr, NEW b \in Addr, Move(a, b)
  PROVE  IInv'
<1>1. /\ mem' = [mem EXCEPT ![a] = Free, ![b] = mem[a]]
      /\ TypeOK /\ Chains /\ SingleOwner
      /\ mem[a].kind # "free" /\ mem[b].kind = "free" /\ ~Held(a)
  BY DEF Move, IInv, Usable, Is
<1>2. /\ mem'[a] = Free /\ mem'[b] = mem[a] /\ TypeOK'
      /\ WritesOnly({a, b})
  BY <1>1, FreeType DEF TypeOK, WritesOnly
<1>3. \A x \in Addr : mem[x].holds \notin {a, b}
  BY <1>1, NotHeld DEF Is
<1>4. Chains'
  <2>1. \A x \in Addr \ {a, b} : Chain(x)'
    BY <1>1, <1>2, <1>3, Frame
  <2>2. Chain(a)'
    BY <1>2, FreeType DEF Chain, FreeFits, ValueFits, WrapperFits,
                          UnsizedFits, BoxFits, ViewFits
  <2>3. Chain(b)'
    BY <1>1, <1>2, <1>3, Carry
  <2> QED
    BY <2>1, <2>2, <2>3 DEF Chains
<1>5. ObjectsOnce'
  BY <1>1, <1>2, FreeType DEF SingleOwner, ObjectsOnce, WritesOnly
<1>6. HeldOnce'
  BY <1>1, <1>2, FreeType DEF SingleOwner, HeldOnce, WritesOnly
<1>7. BoxedOwned'
  <2> SUFFICES ASSUME NEW v \in Addr,
                      mem'[v].kind = "value", mem'[v].id # None
               PROVE  \E c \in Addr : /\ mem'[c].kind = "box"
                                      /\ mem'[c].holds = v
                                      /\ mem'[c].ptr.addr = v
    BY DEF BoxedOwned, Is
  <2>1. \A u \in Addr : mem[u].kind = "value" /\ mem[u].id # None =>
          \E c \in Addr : /\ mem[c].kind = "box"
                          /\ mem[c].holds = u
                          /\ mem[c].ptr.addr = u
    BY <1>1 DEF SingleOwner, BoxedOwned, Is
  <2>2. v # a /\ v # b /\ mem'[v] = mem[v]
    <3>1. v # a
      BY <1>2, FreeType
    <3>2. v # b
      BY <1>2, <1>3, <2>1
    <3> QED
      BY <1>2, <3>1, <3>2 DEF WritesOnly
  <2>3. PICK c \in Addr : /\ mem[c].kind = "box"
                          /\ mem[c].holds = v
                          /\ mem[c].ptr.addr = v
    BY <2>1, <2>2
  <2>4. CASE c = a
    BY <1>2, <2>3, <2>4
  <2>5. CASE c # a
    BY <1>1, <1>2, <2>3, <2>5 DEF WritesOnly
  <2> QED
    BY <2>4, <2>5
<1> QED
  BY <1>2, <1>4, <1>5, <1>6, <1>7 DEF IInv, SingleOwner

LEMMA GetMutStep ==
  ASSUME IInv, NEW a \in Addr, NEW b \in Addr, GetMut(a, b)
  PROVE  IInv'
<1> DEFINE ca == [mem[a] EXCEPT !.obj = mem[b].obj]
           cb == [mem[b] EXCEPT !.obj = mem[a].obj]
<1>1. /\ mem' = [mem EXCEPT ![a] = ca, ![b] = cb]
      /\ TypeOK /\ Chains /\ SingleOwner
      /\ mem[a].kind = "wrapper" /\ mem[b].kind \in {"value", "wrapper"}
      /\ ~Held(a) /\ ~Held(b) /\ a # b /\ ObjType(a) = ObjType(b)
  BY DEF GetMut, IInv, Usable, Is, ObjType
<1>2. Chain(a) /\ Chain(b)
  BY <1>1 DEF Chains
<1>3. /\ ca \in Cell /\ ca.kind = mem[a].kind /\ ca.obj = mem[b].obj
      /\ ca.ptr = mem[a].ptr /\ ca.table = mem[a].table
      /\ ca.holds = mem[a].holds /\ ca.id = mem[a].id
  BY <1>1, CellFields DEF Cell
<1>4. /\ cb \in Cell /\ cb.kind = mem[b].kind /\ cb.obj = mem[a].obj
      /\ cb.ptr = mem[b].ptr /\ cb.table = mem[b].table
      /\ cb.holds = mem[b].holds /\ cb.id = mem[b].id
  BY <1>1, CellFields DEF Cell
<1> HIDE DEF ca, cb
<1>5. /\ mem'[a] = ca /\ mem'[b] = cb /\ TypeOK'
      /\ WritesOnly({a, b})
  BY <1>1, <1>3, <1>4 DEF TypeOK, WritesOnly
<1>6. \A x \in Addr : mem[x].holds \notin {a, b}
  BY <1>1, NotHeld
<1>7. Chains'
  <2>1. \A x \in Addr \ {a, b} : Chain(x)'
    BY <1>1, <1>5, <1>6, Frame
  <2>2. ObjType(a)' = ObjType(a) /\ ObjType(b)' = ObjType(b)
    BY <1>1, <1>3, <1>4, <1>5 DEF ObjType
  <2>3. mem[a].obj # None /\ mem[b].obj # None
    BY <1>1, <1>2 DEF Chain, ValueFits, WrapperFits
  <2>4. TableFits(a, ObjType(a))'
    BY <1>1, <1>2, <1>3, <1>5, <2>2 DEF Chain, WrapperFits, TableFits
  <2>5. mem[b].kind = "wrapper" => TableFits(b, ObjType(b))'
    <3>1. ASSUME mem[b].kind = "wrapper" PROVE TableFits(b, ObjType(b))
      BY <1>2, <3>1 DEF Chain, WrapperFits
    <3> QED
      BY <1>4, <1>5, <2>2, <3>1 DEF TableFits
  <2>6. Chain(a)'
    BY <1>1, <1>2, <1>3, <1>5, <2>3, <2>4
       DEF Chain, FreeFits, ValueFits, WrapperFits, UnsizedFits, BoxFits,
           ViewFits
  <2>7. Chain(b)'
    BY <1>1, <1>2, <1>4, <1>5, <2>3, <2>5
       DEF Chain, FreeFits, ValueFits, WrapperFits, UnsizedFits, BoxFits,
           ViewFits
  <2> QED
    BY <2>1, <2>6, <2>7 DEF Chains
<1>8. ObjectsOnce'
  BY <1>1, <1>3, <1>4, <1>5 DEF SingleOwner, ObjectsOnce, WritesOnly
<1>9. HeldOnce'
  BY <1>1, <1>3, <1>4, <1>5 DEF SingleOwner, HeldOnce, WritesOnly
<1>10. BoxedOwned'
  <2>1. mem[b].kind = "value" => mem[b].id = None
    BY <1>1, <1>6 DEF SingleOwner, BoxedOwned, Is
  <2>2. \A x \in {a, b} : /\ mem[x].kind # "box"
                          /\ mem'[x].kind = "value" => mem'[x].id = None
    BY <1>1, <1>3, <1>4, <1>5, <2>1
  <2> QED
    BY <1>1, <1>5, <2>2, BoxedFrame DEF SingleOwner
<1> QED
  BY <1>5, <1>7, <1>8, <1>9, <1>10 DEF IInv, SingleOwner

(***************************************************************************)
(* What a handle stands for, and what as_read(_mut) and the table give:    *)
(* the object at Object(a), seen through vtables of its type.              *)
(***************************************************************************)
Object(a) == IF mem[a].kind = "view" THEN Root(mem[a].holds) ELSE Root(a)

EntriesFit(tab, ty) ==
  \A t \in Opt : tab[t] # None =>
    tab[t].type = ty /\ tab[t].trait = t /\ t \in Impl[ty]

LEMMA HandleFits ==
  ASSUME TypeOK, Chains, NEW a \in Addr, mem[a].kind \in Handle
  PROVE  /\ Object(a) \in Addr
         /\ mem[Object(a)].kind \in {"wrapper", "value"}
         /\ mem[Object(a)].id = mem[a].id
         /\ mem[Object(a)].obj # None
         /\ BasePtr(a) \in Ptr
         /\ BasePtr(a).addr = Object(a)
         /\ BasePtr(a).type = ObjType(Object(a))
         /\ BasePtr(a).trait = Base
         /\ TableOf(a) \in [Opt -> Ptr \cup {None}]
         /\ EntriesFit(TableOf(a), ObjType(Object(a)))
         /\ mem[a].kind \in {"wrapper", "unsized"} => Place(a) = Object(a)
         /\ mem[a].kind \in {"view", "box"} => mem[a].ptr.addr = Object(a)
<1>1. Chain(a)
  BY DEF Chains
<1>2. \A x \in Addr : /\ mem[x].table \in [Opt -> Ptr \cup {None}]
                      /\ mem[x].ptr # None => mem[x].ptr \in Ptr
                      /\ mem[x].holds # None => mem[x].holds \in Addr
  BY DEF TypeOK, Cell
<1>3. CASE mem[a].kind = "wrapper"
  <2>1. Object(a) = a /\ Place(a) = a
    BY <1>3 DEF Object, Root, Place
  <2>2. mem[a].obj # None /\ TableFits(a, ObjType(a))
    BY <1>1, <1>3 DEF Chain, WrapperFits
  <2>3. mem[a].ptr \in Ptr /\ BasePtr(a) = WithMetadataOf(a, mem[a].ptr)
    BY <1>2, <1>3, <2>1, <2>2 DEF BasePtr, Is, TableFits
  <2>4. /\ BasePtr(a) \in Ptr /\ BasePtr(a).addr = a
        /\ BasePtr(a).type = ObjType(a) /\ BasePtr(a).trait = Base
    BY <2>2, <2>3, WithMetadataOfType DEF TableFits
  <2>5. /\ TableOf(a) \in [Opt -> Ptr \cup {None}]
        /\ EntriesFit(TableOf(a), ObjType(a))
    BY <1>2, <2>1, <2>2 DEF TableFits, EntriesFit, TableOf
  <2> QED
    BY <1>3, <2>1, <2>2, <2>4, <2>5
<1>4. CASE mem[a].kind = "unsized"
  <2>1. PICK r \in Addr :
           /\ r = mem[a].holds /\ mem[a].ptr # None /\ mem[a].ptr.addr = r
           /\ mem[r].kind = "wrapper" /\ mem[r].id = mem[a].id
    BY <1>1, <1>2, <1>4 DEF Chain, UnsizedFits
  <2>2. Object(a) = r /\ Place(a) = r
    BY <1>4, <2>1 DEF Object, Root, Place
  <2>3. mem[r].obj # None /\ TableFits(r, ObjType(r))
    BY <2>1 DEF Chains, Chain, WrapperFits
  <2>4. mem[r].ptr \in Ptr /\ BasePtr(a) = WithMetadataOf(r, mem[r].ptr)
    BY <1>2, <1>4, <2>2, <2>3 DEF BasePtr, Is, TableFits
  <2>5. /\ BasePtr(a) \in Ptr /\ BasePtr(a).addr = r
        /\ BasePtr(a).type = ObjType(r) /\ BasePtr(a).trait = Base
    BY <2>3, <2>4, WithMetadataOfType DEF TableFits
  <2>6. /\ TableOf(a) \in [Opt -> Ptr \cup {None}]
        /\ EntriesFit(TableOf(a), ObjType(r))
    BY <1>2, <2>2, <2>3 DEF TableFits, EntriesFit, TableOf
  <2> QED
    BY <1>4, <2>1, <2>2, <2>3, <2>5, <2>6
<1>5. CASE mem[a].kind = "box"
  <2>1. PICK r \in Addr :
           /\ r = mem[a].holds /\ mem[a].ptr # None /\ mem[a].ptr.addr = r
           /\ mem[r].kind = "value" /\ mem[r].id = mem[a].id
           /\ TableFits(a, ObjType(r))
    BY <1>1, <1>2, <1>5 DEF Chain, BoxFits
  <2>2. Object(a) = r /\ Place(a) = a /\ BasePtr(a) = mem[a].ptr
    BY <1>5, <2>1 DEF Object, Root, Place, BasePtr, Is
  <2>3. mem[r].obj # None
    BY <2>1 DEF Chains, Chain, ValueFits
  <2> QED
    BY <1>2, <1>5, <2>1, <2>2, <2>3 DEF TableFits, EntriesFit, TableOf
<1>6. CASE mem[a].kind = "view"
  <2>1. PICK h \in Addr :
           /\ h = mem[a].holds /\ mem[h].kind \in {"wrapper", "unsized", "box"}
           /\ mem[h].id = mem[a].id
           /\ mem[a].ptr # None /\ mem[a].ptr.addr = Root(h)
           /\ TableFits(a, ObjType(Root(h)))
    BY <1>1, <1>2, <1>6 DEF Chain, ViewFits
  <2>2. Chain(h)
    BY DEF Chains
  <2>3. PICK r \in Addr : /\ r = Root(h)
                          /\ mem[r].kind \in {"wrapper", "value"}
                          /\ mem[r].id = mem[h].id
    BY <1>2, <2>1, <2>2 DEF Root, Chain, UnsizedFits, BoxFits
  <2>4. mem[r].obj # None
    BY <2>3 DEF Chains, Chain, ValueFits, WrapperFits
  <2>5. Object(a) = r /\ Place(a) = a /\ BasePtr(a) = mem[a].ptr
    BY <1>6, <2>1, <2>3 DEF Object, Place, BasePtr, Is
  <2> QED
    BY <1>2, <1>6, <2>1, <2>3, <2>4, <2>5 DEF TableFits, EntriesFit, TableOf
<1> QED
  BY <1>3, <1>4, <1>5, <1>6 DEF Handle

LEMMA UnsizeStep ==
  ASSUME IInv, NEW a \in Addr, NEW b \in Addr, Unsize(a, b)
  PROVE  IInv'
<1> DEFINE c == [Free EXCEPT !.kind = "unsized", !.holds = a,
                             !.id = mem[a].id,
                             !.ptr = Erase(a, ObjType(a), Base)]
<1>1. /\ mem' = [mem EXCEPT ![b] = c]
      /\ TypeOK /\ Chains /\ SingleOwner
      /\ mem[a].kind = "wrapper" /\ mem[b].kind = "free" /\ ~Held(a) /\ a # b
  BY DEF Unsize, IInv, Usable, Is, ObjType
<1>2. mem[a] \in Cell /\ ObjType(a) \in Type
  BY <1>1, CellFields DEF Chains, Chain, WrapperFits
<1>3. /\ Erase(a, ObjType(a), Base) \in Ptr
      /\ Erase(a, ObjType(a), Base).addr = a
      /\ Erase(a, ObjType(a), Base) # None
  BY <1>2, EraseType, FlexAssumption
<1>4. /\ c \in Cell /\ c.kind = "unsized" /\ c.holds = a /\ c.id = mem[a].id
      /\ c.obj = None /\ c.ptr = Erase(a, ObjType(a), Base)
  BY <1>2, <1>3, FreeType DEF Cell, Kind
<1> HIDE DEF c
<1>5. mem'[b] = c /\ TypeOK' /\ WritesOnly({b})
  BY <1>1, <1>4 DEF TypeOK, WritesOnly
<1>6. \A x \in Addr : mem[x].holds \notin {a, b}
  BY <1>1, NotHeld DEF Is
<1>7. Chains'
  <2>1. \A x \in Addr \ {b} : Chain(x)'
    BY <1>1, <1>5, <1>6, Frame
  <2>2. mem'[a] = mem[a] /\ a # None
    BY <1>1, <1>5, FlexAssumption DEF WritesOnly
  <2>3. Chain(b)'
    BY <1>1, <1>3, <1>4, <1>5, <2>2
       DEF Chain, FreeFits, ValueFits, WrapperFits, UnsizedFits, BoxFits,
           ViewFits
  <2> QED
    BY <2>1, <2>3 DEF Chains
<1>8. ObjectsOnce'
  BY <1>1, <1>4, <1>5 DEF SingleOwner, ObjectsOnce, WritesOnly
<1>9. HeldOnce'
  BY <1>1, <1>4, <1>5, <1>6 DEF SingleOwner, HeldOnce, WritesOnly
<1>10. BoxedOwned'
  <2>1. \A x \in {b} : /\ mem[x].kind # "box"
                       /\ mem'[x].kind = "value" => mem'[x].id = None
    BY <1>1, <1>4, <1>5
  <2> QED
    BY <1>1, <1>5, <2>1, BoxedFrame DEF SingleOwner
<1> QED
  BY <1>5, <1>7, <1>8, <1>9, <1>10 DEF IInv, SingleOwner

LEMMA AsMutStep ==
  ASSUME IInv, NEW a \in Addr, NEW b \in Addr, AsMut(a, b)
  PROVE  IInv'
<1> DEFINE c == [kind |-> "view", obj |-> None, ptr |-> BasePtr(a),
                 table |-> TableOf(a), holds |-> a, id |-> mem[a].id]
<1>1. /\ mem' = [mem EXCEPT ![b] = c]
      /\ TypeOK /\ Chains /\ SingleOwner
      /\ mem[a].kind \in {"wrapper", "unsized", "box"}
      /\ mem[b].kind = "free" /\ ~Held(a) /\ a # b
  BY DEF AsMut, IInv, Usable, Is
<1>2. PICK r \in Addr :
         /\ r = Root(a) /\ BasePtr(a) \in Ptr /\ BasePtr(a).addr = r
         /\ BasePtr(a).type = ObjType(r) /\ BasePtr(a).trait = Base
         /\ TableOf(a) \in [Opt -> Ptr \cup {None}]
         /\ EntriesFit(TableOf(a), ObjType(r))
         /\ mem[r].kind # "free"
  BY <1>1, HandleFits DEF Handle, Object
<1>3. mem[a] \in Cell
  BY <1>1 DEF TypeOK
<1>4. /\ c \in Cell /\ c.kind = "view" /\ c.holds = a /\ c.id = mem[a].id
      /\ c.obj = None /\ c.ptr = BasePtr(a) /\ c.table = TableOf(a)
  BY <1>2, <1>3 DEF Cell, Kind
<1> HIDE DEF c
<1>5. mem'[b] = c /\ TypeOK' /\ WritesOnly({b})
  BY <1>1, <1>4 DEF TypeOK, WritesOnly
<1>6. \A x \in Addr : mem[x].holds \notin {a, b}
  BY <1>1, NotHeld DEF Is
<1>7. Chains'
  <2>1. \A x \in Addr \ {b} : Chain(x)'
    BY <1>1, <1>5, <1>6, Frame
  <2>2. /\ mem'[a] = mem[a] /\ mem'[r] = mem[r]
        /\ a # None /\ BasePtr(a) # None
    BY <1>1, <1>2, <1>5, FlexAssumption DEF WritesOnly
  <2>3. Root(a)' = r /\ ObjType(r)' = ObjType(r)
    BY <1>2, <2>2 DEF Root, ObjType
  <2>4. TableFits(b, ObjType(r))'
    BY <1>2, <1>4, <1>5, <2>2, <2>3 DEF TableFits, EntriesFit
  <2>5. ViewFits(b)'
    BY <1>1, <1>2, <1>4, <1>5, <2>2, <2>3, <2>4 DEF ViewFits
  <2>6. Chain(b)'
    BY <1>4, <1>5, <2>5
       DEF Chain, FreeFits, ValueFits, WrapperFits, UnsizedFits, BoxFits
  <2> QED
    BY <2>1, <2>6 DEF Chains
<1>8. ObjectsOnce'
  BY <1>1, <1>4, <1>5 DEF SingleOwner, ObjectsOnce, WritesOnly
<1>9. HeldOnce'
  BY <1>1, <1>4, <1>5, <1>6 DEF SingleOwner, HeldOnce, WritesOnly
<1>10. BoxedOwned'
  <2>1. \A x \in {b} : /\ mem[x].kind # "box"
                       /\ mem'[x].kind = "value" => mem'[x].id = None
    BY <1>1, <1>4, <1>5
  <2> QED
    BY <1>1, <1>5, <2>1, BoxedFrame DEF SingleOwner
<1> QED
  BY <1>5, <1>7, <1>8, <1>9, <1>10 DEF IInv, SingleOwner

LEMMA IntoBoxedStep ==
  ASSUME IInv, NEW a \in Addr, NEW h \in Addr, NEW b \in Addr,
         IntoBoxed(a, h, b)
  PROVE  IInv'
<1> DEFINE v == [Free EXCEPT !.kind = "value", !.obj = mem[a].obj,
                             !.id = mem[a].id]
           c == [kind |-> "box", obj |-> None,
                 ptr |-> WithMetadataOf(h, mem[a].ptr),
                 table |-> mem[a].table, holds |-> h, id |-> mem[a].id]
<1>1. /\ mem' = [mem EXCEPT ![a] = Free, ![h] = v, ![b] = c]
      /\ TypeOK /\ Chains /\ SingleOwner
      /\ mem[a].kind = "wrapper" /\ mem[h].kind = "free"
      /\ mem[b].kind = "free" /\ ~Held(a) /\ a # b /\ a # h /\ h # b
  BY DEF IntoBoxed, IInv, Usable, Is
<1>2. /\ mem[a] \in Cell /\ mem[a].obj # None
      /\ TableFits(a, ObjType(a)) /\ mem[a].ptr \in Ptr
  BY <1>1, CellFields DEF Chains, Chain, WrapperFits, TableFits
<1>3. /\ WithMetadataOf(h, mem[a].ptr) \in Ptr
      /\ WithMetadataOf(h, mem[a].ptr) # None
      /\ WithMetadataOf(h, mem[a].ptr).addr = h
      /\ WithMetadataOf(h, mem[a].ptr).type = mem[a].ptr.type
      /\ WithMetadataOf(h, mem[a].ptr).trait = mem[a].ptr.trait
  BY <1>2, WithMetadataOfType, FlexAssumption
<1>4. /\ c \in Cell /\ c.kind = "box" /\ c.obj = None /\ c.holds = h
      /\ c.id = mem[a].id /\ c.ptr = WithMetadataOf(h, mem[a].ptr)
      /\ c.table = mem[a].table
  BY <1>2, <1>3 DEF Cell, Kind
<1>5. /\ v \in Cell /\ v.kind = "value" /\ v.obj = mem[a].obj
      /\ v.id = mem[a].id /\ v.holds = None
  BY <1>2, FreeType DEF Cell, Kind
<1> HIDE DEF v, c
<1>6. /\ mem'[a] = Free /\ mem'[h] = v /\ mem'[b] = c /\ TypeOK'
      /\ WritesOnly({a, h, b})
  BY <1>1, <1>4, <1>5, FreeType DEF TypeOK, WritesOnly
<1>7. \A x \in Addr : mem[x].holds \notin {a, h, b}
  BY <1>1, NotHeld DEF Is
<1>8. Chains'
  <2>1. \A x \in Addr \ {a, h, b} : Chain(x)'
    BY <1>1, <1>6, <1>7, Frame
  <2>2. Chain(a)'
    BY <1>6, FreeType DEF Chain, FreeFits, ValueFits, WrapperFits,
                          UnsizedFits, BoxFits, ViewFits
  <2>3. Chain(h)'
    BY <1>2, <1>5, <1>6 DEF Chain, FreeFits, ValueFits, WrapperFits,
                            UnsizedFits, BoxFits, ViewFits
  <2>4. ObjType(h)' = ObjType(a) /\ h # None
    BY <1>5, <1>6, FlexAssumption DEF ObjType
  <2>5. TableFits(b, ObjType(h))'
    BY <1>2, <1>3, <1>4, <1>6, <2>4 DEF TableFits
  <2>6. BoxFits(b)'
    BY <1>3, <1>4, <1>5, <1>6, <2>4, <2>5 DEF BoxFits
  <2>7. Chain(b)'
    BY <1>4, <1>6, <2>6 DEF Chain, FreeFits, ValueFits, WrapperFits,
                            UnsizedFits, ViewFits
  <2> QED
    BY <2>1, <2>2, <2>3, <2>7 DEF Chains
<1>9. ObjectsOnce'
  BY <1>1, <1>4, <1>5, <1>6, FreeType DEF SingleOwner, ObjectsOnce, WritesOnly
<1>10. HeldOnce'
  BY <1>1, <1>4, <1>5, <1>6, <1>7, FreeType
     DEF SingleOwner, HeldOnce, WritesOnly
<1>11. BoxedOwned'
  <2> SUFFICES ASSUME NEW u \in Addr,
                      mem'[u].kind = "value", mem'[u].id # None
               PROVE  \E d \in Addr : /\ mem'[d].kind = "box"
                                      /\ mem'[d].holds = u
                                      /\ mem'[d].ptr.addr = u
    BY DEF BoxedOwned, Is
  <2>1. CASE u = h
    BY <1>3, <1>4, <1>6, <2>1
  <2>2. CASE u # h
    <3>1. mem'[u] = mem[u]
      BY <1>4, <1>6, <2>2, FreeType DEF WritesOnly
    <3>2. PICK d \in Addr : /\ mem[d].kind = "box"
                            /\ mem[d].holds = u
                            /\ mem[d].ptr.addr = u
      BY <1>1, <3>1 DEF SingleOwner, BoxedOwned, Is
    <3>3. mem'[d] = mem[d]
      BY <1>1, <1>6, <3>2 DEF WritesOnly
    <3> QED
      BY <3>2, <3>3
  <2> QED
    BY <2>1, <2>2
<1> QED
  BY <1>6, <1>8, <1>9, <1>10, <1>11 DEF IInv, SingleOwner

LEMMA IntoInnerStep ==
  ASSUME IInv, NEW a \in Addr, NEW b \in Addr, IntoInner(a, b)
  PROVE  IInv'
<1> DEFINE v == [Free EXCEPT !.kind = "value", !.obj = mem[a].obj]
<1>1. /\ mem' = [mem EXCEPT ![a] = Free, ![b] = v]
      /\ TypeOK /\ Chains /\ SingleOwner
      /\ mem[a].kind = "wrapper" /\ mem[b].kind = "free" /\ ~Held(a) /\ a # b
  BY DEF IntoInner, IInv, Usable, Is
<1>2. mem[a] \in Cell /\ mem[a].obj # None
  BY <1>1, CellFields DEF Chains, Chain, WrapperFits
<1>3. /\ v \in Cell /\ v.kind = "value" /\ v.obj = mem[a].obj
      /\ v.id = None /\ v.holds = None
  BY <1>2, FreeType DEF Cell, Kind
<1> HIDE DEF v
<1>4. mem'[a] = Free /\ mem'[b] = v /\ TypeOK' /\ WritesOnly({a, b})
  BY <1>1, <1>3, FreeType DEF TypeOK, WritesOnly
<1>5. \A x \in Addr : mem[x].holds \notin {a, b}
  BY <1>1, NotHeld DEF Is
<1>6. Chains'
  <2>1. \A x \in Addr \ {a, b} : Chain(x)'
    BY <1>1, <1>4, <1>5, Frame
  <2>2. Chain(a)'
    BY <1>4, FreeType DEF Chain, FreeFits, ValueFits, WrapperFits,
                          UnsizedFits, BoxFits, ViewFits
  <2>3. Chain(b)'
    BY <1>2, <1>3, <1>4 DEF Chain, FreeFits, ValueFits, WrapperFits,
                            UnsizedFits, BoxFits, ViewFits
  <2> QED
    BY <2>1, <2>2, <2>3 DEF Chains
<1>7. ObjectsOnce'
  BY <1>1, <1>3, <1>4, FreeType DEF SingleOwner, ObjectsOnce, WritesOnly
<1>8. HeldOnce'
  BY <1>1, <1>3, <1>4, FreeType DEF SingleOwner, HeldOnce, WritesOnly
<1>9. BoxedOwned'
  <2>1. \A x \in {a, b} : /\ mem[x].kind # "box"
                          /\ mem'[x].kind = "value" => mem'[x].id = None
    BY <1>1, <1>3, <1>4, FreeType
  <2> QED
    BY <1>1, <1>4, <2>1, BoxedFrame DEF SingleOwner
<1> QED
  BY <1>4, <1>6, <1>7, <1>8, <1>9 DEF IInv, SingleOwner

(* The places a drop frees. *)
Dropped(a) == {x \in Addr : \/ x = a
                            \/ mem[a].kind = "box" /\ x = mem[a].ptr.addr}

LEMMA DropStep ==
  ASSUME IInv, NEW a \in Addr, Drop(a)
  PROVE  IInv'
<1>1. /\ mem' = [x \in Addr |-> IF x \in Dropped(a) THEN Free ELSE mem[x]]
      /\ TypeOK /\ Chains /\ SingleOwner
      /\ mem[a].kind # "free" /\ ~Held(a)
  BY DEF Drop, IInv, Usable, Is, Dropped
<1>2. PICK S \in SUBSET Addr : S = Dropped(a)
  BY DEF Dropped
<1>3. /\ \A x \in S : mem'[x] = Free
      /\ WritesOnly(S) /\ TypeOK'
  BY <1>1, <1>2, FreeType DEF TypeOK, WritesOnly
<1>4. \A x \in S : x = a \/ (mem[a].kind = "box" /\ mem[a].holds = x)
  BY <1>1, <1>2 DEF Dropped, Chains, Chain, BoxFits
<1>5. \A z \in Addr \ S : mem[z].holds \notin S
  <2> SUFFICES ASSUME NEW z \in Addr \ S, mem[z].holds \in S PROVE FALSE
    OBVIOUS
  <2>1. mem[z].holds # a
    BY <1>1, NotHeld
  <2>2. mem[z].holds = mem[a].holds /\ mem[z].holds # None
    BY <1>4, <2>1, FlexAssumption
  <2>3. z = a
    BY <1>1, <2>2 DEF SingleOwner, HeldOnce
  <2> QED
    BY <1>2, <2>3 DEF Dropped
<1>6. Chains'
  <2>1. \A x \in Addr \ S : Chain(x)'
    BY <1>1, <1>3, <1>5, Frame
  <2>2. \A x \in S : Chain(x)'
    BY <1>3, FreeType DEF Chain, FreeFits, ValueFits, WrapperFits,
                          UnsizedFits, BoxFits, ViewFits
  <2> QED
    BY <2>1, <2>2 DEF Chains
<1>7. ObjectsOnce'
  BY <1>1, <1>3, FreeType DEF SingleOwner, ObjectsOnce, WritesOnly
<1>8. HeldOnce'
  BY <1>1, <1>3, FreeType DEF SingleOwner, HeldOnce, WritesOnly
<1>9. BoxedOwned'
  <2> SUFFICES ASSUME NEW u \in Addr,
                      mem'[u].kind = "value", mem'[u].id # None
               PROVE  \E d \in Addr : /\ mem'[d].kind = "box"
                                      /\ mem'[d].holds = u
                                      /\ mem'[d].ptr.addr = u
    BY DEF BoxedOwned, Is
  <2>1. u \notin S /\ mem'[u] = mem[u]
    BY <1>3, FreeType DEF WritesOnly
  <2>2. PICK d \in Addr : /\ mem[d].kind = "box"
                          /\ mem[d].holds = u
                          /\ mem[d].ptr.addr = u
    BY <1>1, <2>1 DEF SingleOwner, BoxedOwned, Is
  <2>3. d # a
    BY <1>2, <2>1, <2>2 DEF Dropped
  <2>4. d \notin S
    <3> SUFFICES ASSUME d \in S PROVE FALSE
      OBVIOUS
    <3>1. mem[a].kind = "box" /\ mem[a].holds = d
      BY <1>4, <2>3
    <3>2. mem[d].kind = "value"
      BY <1>1, <3>1 DEF Chains, Chain, BoxFits
    <3> QED
      BY <2>2, <3>2
  <2> QED
    BY <1>3, <2>2, <2>4 DEF WritesOnly
<1> QED
  BY <1>3, <1>6, <1>7, <1>8, <1>9 DEF IInv, SingleOwner

-----------------------------------------------------------------------------
(* The theorems. *)

LEMMA InitIInv == Init => IInv
<1> SUFFICES ASSUME Init PROVE IInv
  OBVIOUS
<1>1. \A x \in Addr : mem[x] = Free
  BY DEF Init
<1>2. TypeOK
  BY FreeType DEF Init, TypeOK
<1>3. Chains
  BY <1>1, FreeType DEF Chains, Chain, FreeFits, ValueFits, WrapperFits,
                        UnsizedFits, BoxFits, ViewFits
<1>4. SingleOwner
  BY <1>1, FreeType DEF SingleOwner, ObjectsOnce, HeldOnce, BoxedOwned, Is
<1> QED
  BY <1>2, <1>3, <1>4 DEF IInv

LEMMA NextIInv == IInv /\ [Next]_mem => IInv'
<1> SUFFICES ASSUME IInv, [Next]_mem PROVE IInv'
  OBVIOUS
<1>1. CASE UNCHANGED mem
  <2>1. TypeOK' /\ SingleOwner'
    BY <1>1 DEF IInv, TypeOK, SingleOwner, ObjectsOnce, HeldOnce, BoxedOwned,
                Is
  <2>2. WritesOnly({})
    BY <1>1 DEF WritesOnly
  <2>3. \A x \in Addr \ {} : Chain(x)'
    BY <2>2, Frame DEF IInv
  <2> QED
    BY <2>1, <2>3 DEF IInv, Chains
<1>2. ASSUME NEW a \in Addr, NEW v \in Value, Create(v, a) PROVE IInv'
  BY <1>2, CreateStep
<1>3. ASSUME NEW a \in Addr, NEW b \in Addr, NEW w \in Ident, New(a, b, w)
      PROVE  IInv'
  BY <1>3, NewStep
<1>4. ASSUME NEW a \in Addr, NEW t \in Opt, Set(a, t) PROVE IInv'
  BY <1>4, SetStep
<1>5. ASSUME NEW a \in Addr, NEW b \in Addr, Move(a, b) PROVE IInv'
  BY <1>5, MoveStep
<1>6. ASSUME NEW a \in Addr, NEW b \in Addr, GetMut(a, b) PROVE IInv'
  BY <1>6, GetMutStep
<1>7. ASSUME NEW a \in Addr, NEW b \in Addr, Unsize(a, b) PROVE IInv'
  BY <1>7, UnsizeStep
<1>8. ASSUME NEW a \in Addr, NEW b \in Addr, AsMut(a, b) PROVE IInv'
  BY <1>8, AsMutStep
<1>9. ASSUME NEW a \in Addr, NEW h \in Addr, NEW b \in Addr,
             IntoBoxed(a, h, b)
      PROVE  IInv'
  BY <1>9, IntoBoxedStep
<1>10. ASSUME NEW a \in Addr, NEW b \in Addr, IntoInner(a, b) PROVE IInv'
  BY <1>10, IntoInnerStep
<1>11. ASSUME NEW a \in Addr, Drop(a) PROVE IInv'
  BY <1>11, DropStep
<1> QED
  BY <1>1, <1>2, <1>3, <1>4, <1>5, <1>6, <1>7, <1>8, <1>9, <1>10, <1>11
     DEF Next

(* Whatever the program does with its wrappers, every handle keeps relying *)
(* on a live object of the type its vtables were made for.                 *)
THEOREM Inductive == Spec => []IInv
BY InitIInv, NextIInv, PTL DEF Spec

(* Memory holds well-formed cells only (the structs of reader.rs:56-93).   *)
THEOREM Typed == Spec => []TypeOK
<1>1. IInv => TypeOK
  BY DEF IInv
<1> QED
  BY <1>1, Inductive, PTL

(* No double drop, no leak, no second owner: into_boxed, into_inner and    *)
(* the borrows of as_mut (reader.rs:119-159, 257-262) move ownership only. *)
THEOREM Owned == Spec => []SingleOwner
<1>1. IInv => SingleOwner
  BY DEF IInv
<1> QED
  BY <1>1, Inductive, PTL

(* The getter of t starts from the address of the view's own field. *)
FromOwnField(a, t) == Is(a, {"view"}) /\ t \in FieldPtr

(* Which dereferences are sound: the mandatory trait's, and those of every *)
(* getter that does not start from a view's own field; the others never.   *)
SoundButOwnField ==
  \A a \in Addr : Usable(a, Handle) =>
    /\ PointsWell(BasePtr(a), Base, a)
    /\ \A t \in Opt : Getter(a, t) # None =>
         /\ t \in Impl[Getter(a, t).type]
         /\ PointsWell(Getter(a, t), t, a) <=> ~FromOwnField(a, t)

LEMMA SoundGetters == IInv => SoundButOwnField
<1> SUFFICES ASSUME IInv, NEW a \in Addr, mem[a].kind \in Handle
             PROVE  /\ PointsWell(BasePtr(a), Base, a)
                    /\ \A t \in Opt : Getter(a, t) # None =>
                         /\ t \in Impl[Getter(a, t).type]
                         /\ PointsWell(Getter(a, t), t, a)
                              <=> ~FromOwnField(a, t)
  BY DEF SoundButOwnField, Usable, Is
<1>1. PICK r \in Addr :
         /\ mem[r].kind \in {"wrapper", "value"} /\ mem[r].id = mem[a].id
         /\ BasePtr(a).addr = r /\ BasePtr(a).type = ObjType(r)
         /\ BasePtr(a).trait = Base
         /\ TableOf(a) \in [Opt -> Ptr \cup {None}]
         /\ EntriesFit(TableOf(a), ObjType(r))
         /\ mem[a].kind \in {"wrapper", "unsized"} => Place(a) = r
         /\ mem[a].kind \in {"view", "box"} => mem[a].ptr.addr = r
  BY HandleFits DEF IInv
<1>2. PointsWell(BasePtr(a), Base, a)
  BY <1>1 DEF PointsWell, Is, ObjType
<1>3. ASSUME NEW t \in Opt, Getter(a, t) # None
      PROVE  /\ t \in Impl[Getter(a, t).type]
             /\ PointsWell(Getter(a, t), t, a) <=> ~FromOwnField(a, t)
  <2>1. GetterAddr(a, t) = IF FromOwnField(a, t) THEN a ELSE r
    BY <1>1 DEF GetterAddr, Handle, Is, ViewAddr, FromOwnField
  <2>2. /\ TableOf(a)[t] # None
        /\ Getter(a, t) = WithMetadataOf(GetterAddr(a, t), TableOf(a)[t])
    BY <1>3 DEF Getter
  <2>3. /\ TableOf(a)[t] \in Ptr /\ TableOf(a)[t].type = ObjType(r)
        /\ TableOf(a)[t].trait = t /\ t \in Impl[ObjType(r)]
    BY <1>1, <2>2 DEF EntriesFit
  <2>4. /\ Getter(a, t).addr = GetterAddr(a, t)
        /\ Getter(a, t).type = ObjType(r) /\ Getter(a, t).trait = t
    BY <2>1, <2>2, <2>3, WithMetadataOfType
  <2>5. CASE FromOwnField(a, t)
    BY <2>1, <2>3, <2>4, <2>5 DEF PointsWell, Is, FromOwnField
  <2>6. CASE ~FromOwnField(a, t)
    BY <1>1, <2>1, <2>3, <2>4, <2>6 DEF PointsWell, Is, ObjType
  <2> QED
    BY <2>5, <2>6
<1> QED
  BY <1>2, <1>3

(* The `unsafe` dereference of dyn_getter! (lib.rs:88-100) on any handle,  *)
(* for any number of places, objects, types and traits: a getter that was  *)
(* given `that.inner` is sound after any sequence of operations, one that  *)
(* was given `&that.inner` of a view (reader.rs:441) is never.  So much is *)
(* true of the reader on every platform.                                   *)
THEOREM Located == Spec => []SoundButOwnField
BY SoundGetters, Inductive, PTL

(* Without getters of the second kind, all are sound. *)
THEOREM Sound ==
  ASSUME FieldPtr = {}
  PROVE  Spec => []GettersSound
<1>1. SoundButOwnField => GettersSound
  BY DEF SoundButOwnField, GettersSound, FromOwnField
<1> QED
  BY <1>1, Located, PTL
-----------------------------------------------------------------------------
(***************************************************************************)
(* The refinement of ProvidedTraits.  All cells of a wrapper lead to its   *)
(* root, the wrapper itself or the box it became: its table is the one all *)
(* getters look at, and who holds it tells how the wrapper can be used.    *)
(***************************************************************************)
Rooted == {"wrapper", "box"}
IsRoot(r, w) == mem[r].kind \in Rooted /\ mem[r].id = w

Named == \A a \in Addr : mem[a].kind \in Handle => mem[a].id \in Ident

OneRoot ==
  \A a, b \in Addr :
    mem[a].kind \in Rooted /\ mem[b].kind \in Rooted /\ mem[a].id = mem[b].id
      => a = b

ViewTables ==
  \A a \in Addr : mem[a].kind = "view" => mem[a].table = TableOf(mem[a].holds)

RInv == IInv /\ Named /\ OneRoot /\ ViewTables

Announced(r) == {t \in Opt : mem[r].table[t] # None}

(* What the abstract specification sees of w, by its root. *)
SeenAs(w) ==
  /\ (\A r \in Addr : ~IsRoot(r, w)) => StageOf(w) = "none" /\ Provided(w) = {}
  /\ \A r \in Addr : IsRoot(r, w) =>
       /\ Provided(w) = Announced(r)
       /\ StageOf(w) = IF mem[r].kind = "box" THEN "boxed"
                       ELSE IF Held(r) THEN "lent" ELSE "typed"

(* Who holds what. *)
LEMMA HolderOf ==
  ASSUME TypeOK, Chains, NEW x \in Addr, NEW a \in Addr, mem[x].holds = a
  PROVE  /\ mem[x].id = mem[a].id
         /\ \/ mem[x].kind = "unsized" /\ mem[a].kind = "wrapper"
            \/ mem[x].kind = "box" /\ mem[a].kind = "value"
            \/ /\ mem[x].kind = "view"
               /\ mem[a].kind \in {"wrapper", "unsized", "box"}
<1>1. mem[x].kind \in {"unsized", "view", "box"}
  BY HoldersHold, FlexAssumption
<1>2. Chain(x)
  BY DEF Chains
<1> QED
  BY <1>1, <1>2 DEF Chain, UnsizedFits, BoxFits, ViewFits

LEMMA RootExists ==
  ASSUME IInv, NEW a \in Addr, mem[a].id \in Ident
  PROVE  \E r \in Addr : IsRoot(r, mem[a].id)
<1>1. TypeOK /\ Chains /\ BoxedOwned /\ mem[a].kind \in Kind /\ Chain(a)
  BY CellFields DEF IInv, SingleOwner, Chains
<1>2. CASE mem[a].kind = "free"
  BY <1>1, <1>2, FreeType, FlexAssumption DEF Chain, FreeFits
<1>3. CASE mem[a].kind = "value"
  <2>1. PICK b \in Addr : mem[b].kind = "box" /\ mem[b].holds = a
    BY <1>1, <1>3, FlexAssumption DEF BoxedOwned, Is
  <2>2. mem[b].id = mem[a].id
    BY <1>1, <2>1, HolderOf
  <2> QED
    BY <2>1, <2>2 DEF IsRoot, Rooted
<1>4. CASE mem[a].kind \in Rooted
  BY <1>4 DEF IsRoot
<1>5. ASSUME NEW u \in Addr, mem[u].kind = "unsized"
      PROVE  \E r \in Addr : IsRoot(r, mem[u].id)
  <2>1. mem[u].holds \in Addr /\ mem[mem[u].holds].kind = "wrapper"
        /\ mem[mem[u].holds].id = mem[u].id
    BY <1>1, <1>5, CellFields DEF Chains, Chain, UnsizedFits
  <2> QED
    BY <2>1 DEF IsRoot, Rooted
<1>6. CASE mem[a].kind = "view"
  <2>1. PICK h \in Addr : /\ mem[h].kind \in {"wrapper", "unsized", "box"}
                          /\ mem[h].id = mem[a].id
    BY <1>1, <1>6, CellFields DEF Chain, ViewFits
  <2> QED
    BY <1>5, <2>1 DEF IsRoot, Rooted
<1> QED
  BY <1>1, <1>2, <1>3, <1>4, <1>5, <1>6 DEF Kind, Rooted

(* Every handle looks at the table of its root. *)
LEMMA TableOfRoot ==
  ASSUME RInv, NEW a \in Addr, mem[a].kind \in Handle,
         NEW r \in Addr, IsRoot(r, mem[a].id)
  PROVE  TableOf(a) = mem[r].table
<1>1. TypeOK /\ Chains /\ OneRoot /\ ViewTables
  BY DEF RInv, IInv
<1>2. ASSUME NEW h \in Addr, mem[h].kind \in Rooted, mem[h].id = mem[a].id
      PROVE  TableOf(h) = mem[r].table
  <2>1. h = r
    BY <1>1, <1>2 DEF OneRoot, IsRoot
  <2> QED
    BY <1>2, <2>1 DEF TableOf, Place, Rooted
<1>3. ASSUME NEW h \in Addr, mem[h].kind = "unsized", mem[h].id = mem[a].id
      PROVE  TableOf(h) = mem[r].table
  <2>1. PICK g \in Addr : /\ mem[h].ptr.addr = g /\ mem[g].kind = "wrapper"
                          /\ mem[g].id = mem[h].id
    BY <1>1, <1>3, CellFields DEF Chains, Chain, UnsizedFits
  <2>2. g = r
    BY <1>1, <1>3, <2>1 DEF OneRoot, IsRoot, Rooted
  <2> QED
    BY <1>3, <2>1, <2>2 DEF TableOf, Place
<1>4. CASE mem[a].kind = "view"
  <2>1. PICK h \in Addr : /\ h = mem[a].holds
                          /\ mem[h].kind \in {"wrapper", "unsized", "box"}
                          /\ mem[h].id = mem[a].id
    BY <1>1, <1>4, CellFields DEF Chains, Chain, ViewFits
  <2>2. TableOf(a) = TableOf(h)
    BY <1>1, <1>4, <2>1 DEF ViewTables, TableOf, Place
  <2> QED
    BY <1>2, <1>3, <2>1, <2>2 DEF Rooted
<1> QED
  BY <1>2, <1>3, <1>4 DEF Handle, Rooted

(* A wrapper always has a handle its owner may use. *)
LEMMA TopExists ==
  ASSUME IInv, NEW w \in Ident, NEW r \in Addr, IsRoot(r, w)
  PROVE  \E a \in Addr : Usable(a, Handle) /\ mem[a].id = w
<1>1. TypeOK /\ Chains
  BY DEF IInv
<1>2. ASSUME NEW v \in Addr, mem[v].kind = "view", mem[v].id = w
      PROVE  Usable(v, Handle)
  BY <1>1, <1>2, HolderOf DEF Usable, Is, Handle, Held
<1>3. ASSUME \A v \in Addr : ~(mem[v].kind = "view" /\ mem[v].id = w),
             NEW u \in Addr, mem[u].kind = "unsized", mem[u].id = w
      PROVE  Usable(u, Handle)
  BY <1>1, <1>3, HolderOf DEF Usable, Is, Handle, Held
<1>4. ASSUME \A v \in Addr :
               ~(mem[v].kind \in {"view", "unsized"} /\ mem[v].id = w)
      PROVE  Usable(r, Handle)
  BY <1>1, <1>4, HolderOf DEF Usable, Is, Handle, Held, IsRoot, Rooted
<1> QED
  BY <1>2, <1>3, <1>4 DEF IsRoot

(* A getter answers Some if the table has an entry. *)
LEMMA GetterSome ==
  ASSUME TypeOK, Chains, NEW a \in Addr, mem[a].kind \in Handle, NEW t \in Opt
  PROVE  Getter(a, t) # None <=> TableOf(a)[t] # None
<1>1. /\ Object(a) \in Addr /\ TableOf(a) \in [Opt -> Ptr \cup {None}]
      /\ mem[a].kind \in {"wrapper", "unsized"} => Place(a) = Object(a)
      /\ mem[a].kind \in {"view", "box"} => mem[a].ptr.addr = Object(a)
  BY HandleFits
<1>2. GetterAddr(a, t) \in Addr
  BY <1>1 DEF GetterAddr, Handle, Is, ViewAddr
<1>3. ASSUME TableOf(a)[t] # None
      PROVE  WithMetadataOf(GetterAddr(a, t), TableOf(a)[t]) # None
  <2>1. TableOf(a)[t] \in Ptr
    BY <1>1, <1>3
  <2> QED
    BY <1>2, <2>1, WithMetadataOfType, FlexAssumption
<1> QED
  BY <1>3 DEF Getter

LEMMA Summary == RInv => \A w \in Ident : SeenAs(w)
<1> SUFFICES ASSUME RInv, NEW w \in Ident PROVE SeenAs(w)
  OBVIOUS
<1>1. IInv /\ TypeOK /\ Chains /\ OneRoot
  BY DEF RInv, IInv
<1>2. ASSUME \A r \in Addr : ~IsRoot(r, w)
      PROVE  StageOf(w) = "none" /\ Provided(w) = {}
  <2>1. \A a \in Addr : mem[a].id # w
    BY <1>1, <1>2, RootExists
  <2> QED
    BY <2>1 DEF StageOf, Provided
<1>3. ASSUME NEW r \in Addr, IsRoot(r, w)
      PROVE  Provided(w) = Announced(r)
  <2>1. PICK a \in Addr : Usable(a, Handle) /\ mem[a].id = w
    BY <1>1, <1>3, TopExists
  <2>2. ASSUME NEW b \in Addr, Usable(b, Handle), mem[b].id = w, NEW t \in Opt
        PROVE  Getter(b, t) # None <=> mem[r].table[t] # None
    <3>1. mem[b].kind \in Handle /\ IsRoot(r, mem[b].id)
      BY <1>3, <2>2 DEF Usable, Is
    <3>2. TableOf(b) = mem[r].table
      BY <3>1, TableOfRoot
    <3> QED
      BY <1>1, <3>1, <3>2, GetterSome
  <2> QED
    BY <2>1, <2>2 DEF Provided, Announced
<1>4. ASSUME NEW r \in Addr, IsRoot(r, w)
      PROVE  StageOf(w) = IF mem[r].kind = "box" THEN "boxed"
                          ELSE IF Held(r) THEN "lent" ELSE "typed"
  <2> DEFINE cells == {a \in Addr : mem[a].id = w}
  <2>1. r \in cells /\ \A a \in cells : mem[a].kind \in Rooted => a = r
    BY <1>1, <1>4 DEF OneRoot, IsRoot
  <2>2. (\E a \in cells : Is(a, {"box"})) <=> mem[r].kind = "box"
    BY <2>1 DEF Is, Rooted
  <2>3. mem[r].kind # "box" =>
          ((\E a \in cells : Usable(a, {"wrapper"})) <=> ~Held(r))
    BY <1>4, <2>1 DEF Is, Usable, Rooted, IsRoot
  <2>4. StageOf(w) = IF cells = {} THEN "none"
                     ELSE IF \E a \in cells : Is(a, {"box"}) THEN "boxed"
                     ELSE IF \E a \in cells : Usable(a, {"wrapper"})
                     THEN "typed"
                     ELSE "lent"
    BY DEF StageOf
  <2> HIDE DEF cells
  <2> QED
    BY <2>1, <2>2, <2>3, <2>4
<1> QED
  BY <1>2, <1>3, <1>4 DEF SeenAs

LEMMA SummaryNext == RInv' => (\A w \in Ident : SeenAs(w))'
BY Summary, PTL

(* A step changes nothing of what is seen of w. *)
Same(w) == StageOf(w)' = StageOf(w) /\ Provided(w)' = Provided(w)

(* The root of w keeps its table and its holder, wherever it goes. *)
LEMMA Stays ==
  ASSUME RInv, RInv', NEW w \in Ident,
         NEW r \in Addr, IsRoot(r, w), NEW q \in Addr, IsRoot(q, w)',
         mem'[q].kind = mem[r].kind, mem'[q].table = mem[r].table,
         mem[r].kind = "wrapper" => (Held(q)' <=> Held(r))
  PROVE  Same(w)
<1>1. SeenAs(w) /\ SeenAs(w)'
  BY Summary, SummaryNext
<1>2. Announced(q)' = Announced(r)
  BY DEF Announced
<1>3. Provided(w) = Announced(r) /\ Provided(w)' = Announced(q)'
  BY <1>1 DEF SeenAs
<1>4. /\ StageOf(w) = IF mem[r].kind = "box" THEN "boxed"
                      ELSE IF Held(r) THEN "lent" ELSE "typed"
      /\ StageOf(w)' = IF mem'[q].kind = "box" THEN "boxed"
                       ELSE IF Held(q)' THEN "lent" ELSE "typed"
  BY <1>1 DEF SeenAs
<1> QED
  BY <1>2, <1>3, <1>4 DEF Same, IsRoot, Rooted

(* No root of w is touched, or held by another one than before. *)
LEMMA Unmoved ==
  ASSUME RInv, RInv', NEW w \in Ident,
         \A r \in Addr : IsRoot(r, w)' <=> IsRoot(r, w),
         \A r \in Addr : IsRoot(r, w) =>
           /\ mem'[r].kind = mem[r].kind /\ mem'[r].table = mem[r].table
           /\ mem[r].kind = "wrapper" => (Held(r)' <=> Held(r))
  PROVE  Same(w)
<1>1. CASE \E r \in Addr : IsRoot(r, w)
  BY <1>1, Stays
<1>2. CASE \A r \in Addr : ~IsRoot(r, w)
  <2>1. SeenAs(w) /\ SeenAs(w)'
    BY Summary, SummaryNext
  <2>2. StageOf(w) = "none" /\ Provided(w) = {}
    BY <1>2, <2>1 DEF SeenAs
  <2>3. StageOf(w)' = "none" /\ Provided(w)' = {}
    BY <1>2, <2>1 DEF SeenAs
  <2> QED
    BY <2>2, <2>3 DEF Same
<1> QED
  BY <1>1, <1>2

(* The same, for a step that writes S only. *)
LEMMA Elsewhere ==
  ASSUME RInv, RInv', NEW w \in Ident, NEW S \in SUBSET Addr, WritesOnly(S),
         \A y \in S : ~IsRoot(y, w) /\ ~IsRoot(y, w)',
         \A r \in Addr \ S : IsRoot(r, w) /\ mem[r].kind = "wrapper" =>
           (Held(r)' <=> Held(r))
  PROVE  Same(w)
<1>1. \A r \in Addr : IsRoot(r, w)' <=> IsRoot(r, w)
  BY DEF WritesOnly, IsRoot
<1>2. \A r \in Addr : IsRoot(r, w) =>
        /\ mem'[r].kind = mem[r].kind /\ mem'[r].table = mem[r].table
        /\ mem[r].kind = "wrapper" => (Held(r)' <=> Held(r))
  BY DEF WritesOnly, IsRoot
<1> QED
  BY <1>1, <1>2, Unmoved

(* Who holds r is not among what a step writes. *)
LEMMA HeldKept ==
  ASSUME NEW S \in SUBSET Addr, WritesOnly(S), NEW r \in Addr,
         \A y \in S : mem[y].holds # r /\ mem'[y].holds # r
  PROVE  Held(r)' <=> Held(r)
BY DEF Held, WritesOnly

(* A view's table is that of what it holds, as long as that one is left    *)
(* alone.                                                                  *)
LEMMA TableKept ==
  ASSUME TypeOK, Chains, NEW S \in SUBSET Addr, WritesOnly(S),
         \A z \in Addr \ S : mem[z].holds \notin S,
         NEW h \in Addr, h \notin S
  PROVE  TableOf(h)' = TableOf(h)
<1>1. mem'[h] = mem[h]
  BY DEF WritesOnly
<1>2. CASE mem[h].kind = "unsized"
  <2>1. PICK g \in Addr : mem[h].ptr.addr = g /\ mem[h].holds = g
    BY <1>2, CellFields DEF Chains, Chain, UnsizedFits
  <2>2. mem'[g] = mem[g]
    BY <2>1 DEF WritesOnly
  <2> QED
    BY <1>1, <1>2, <2>1, <2>2 DEF TableOf, Place
<1>3. CASE mem[h].kind # "unsized"
  BY <1>1, <1>3 DEF TableOf, Place
<1> QED
  BY <1>2, <1>3

(* Views outside S keep the table they have in common with what they hold. *)
LEMMA ViewsKept ==
  ASSUME TypeOK, Chains, ViewTables, NEW S \in SUBSET Addr, WritesOnly(S),
         \A z \in Addr \ S : mem[z].holds \notin S,
         NEW v \in Addr, mem[v].kind = "view", mem[v].holds \notin S,
         NEW y \in Addr, mem'[y] = mem[v]
  PROVE  \E h \in Addr : h = mem'[y].holds /\ mem'[y].table = TableOf(h)'
<1>1. PICK h \in Addr : h = mem[v].holds
  BY CellFields DEF Chains, Chain, ViewFits
<1>2. TableOf(h)' = TableOf(h)
  BY <1>1, TableKept
<1>3. mem[v].table = TableOf(h)
  BY <1>1 DEF ViewTables
<1> QED
  BY <1>1, <1>2, <1>3

LEMMA ViewTablesNext ==
  ASSUME \A y \in Addr : mem'[y].kind = "view" =>
           \E h \in Addr : h = mem'[y].holds /\ mem'[y].table = TableOf(h)'
  PROVE  ViewTables'
<1> SUFFICES ASSUME NEW y \in Addr, mem'[y].kind = "view"
             PROVE  mem'[y].table = TableOf(mem[y].holds)'
  BY DEF ViewTables
<1>1. PICK h \in Addr : h = mem'[y].holds /\ mem'[y].table = TableOf(h)'
  OBVIOUS
<1> QED
  BY <1>1 DEF TableOf, Place

(* The steps of the abstract specification. *)
LEMMA AbstractStutter ==
  ASSUME \A w \in Ident : Same(w)
  PROVE  UNCHANGED Abstract!vars
BY DEF Same, Abstract!vars

LEMMA AbstractBecomes ==
  ASSUME NEW w \in Ident, \A x \in Ident \ {w} : Same(x),
         NEW s, StageOf(w)' = s, Provided(w)' = Provided(w),
         NEW early, StageOf(w) \in early
  PROVE  /\ Abstract!Become(w, early, s)
         /\ UNCHANGED [x \in Ident |-> Provided(x)]
<1>1. \A x \in Ident : StageOf(x)' = IF x = w THEN s ELSE StageOf(x)
  BY DEF Same
<1>2. \A x \in Ident : Provided(x)' = Provided(x)
  BY DEF Same
<1> QED
  BY <1>1, <1>2 DEF Abstract!Become

LEMMA AbstractEnds ==
  ASSUME NEW w \in Ident, \A x \in Ident \ {w} : Same(x),
         StageOf(w)' = "none", Provided(w)' = {},
         StageOf(w) \in {"typed", "boxed"}
  PROVE  Abstract!End(w)
<1>1. \A x \in Ident : StageOf(x)' = IF x = w THEN "none" ELSE StageOf(x)
  BY DEF Same
<1>2. \A x \in Ident : Provided(x)' = IF x = w THEN {} ELSE Provided(x)
  BY DEF Same
<1> QED
  BY <1>1, <1>2 DEF Abstract!End, Abstract!Become

LEMMA AbstractAnnounces ==
  ASSUME NEW w \in Ident, \A x \in Ident \ {w} : Same(x), NEW t \in Opt,
         StageOf(w) = "typed", StageOf(w)' = "typed",
         Provided(w)' = Provided(w) \cup {t}
  PROVE  Abstract!Announce(w, t)
<1>1. \A x \in Ident : StageOf(x)' = StageOf(x)
  BY DEF Same
<1>2. \A x \in Ident :
        Provided(x)' = IF x = w THEN Provided(x) \cup {t} ELSE Provided(x)
  BY DEF Same
<1> QED
  BY <1>1, <1>2 DEF Abstract!Announce

(* One lemma per operation: what it does to wrappers, seen from above. *)

LEMMA CreateRefines ==
  ASSUME RInv, NEW v \in Value, NEW a \in Addr, Create(v, a)
  PROVE  RInv' /\ \A w \in Ident : Same(w)
<1>1. /\ IInv /\ IInv' /\ TypeOK /\ Chains /\ Named /\ OneRoot /\ ViewTables
  BY CreateStep DEF RInv, IInv
<1>2. /\ mem[a] = Free /\ mem[a].kind = "free" /\ mem[a].holds = None
      /\ \A x \in Addr : mem[x].holds # a
  BY <1>1, NotHeld, FreeType DEF Create, Is, Chains, Chain, FreeFits
<1>3. /\ mem'[a].kind = "value" /\ mem'[a].id = None /\ mem'[a].holds = None
      /\ WritesOnly({a})
  <2> DEFINE c == [Free EXCEPT !.kind = "value", !.obj = v]
  <2>1. c.kind = "value" /\ c.id = None /\ c.holds = None
    BY FreeType DEF Free
  <2>2. mem' = [mem EXCEPT ![a] = c] /\ mem \in [Addr -> Cell]
    BY <1>1 DEF Create, TypeOK
  <2> HIDE DEF c
  <2> QED
    BY <2>1, <2>2 DEF WritesOnly
<1>4. Named' /\ OneRoot'
  BY <1>1, <1>3 DEF Named, OneRoot, WritesOnly, Handle, Rooted
<1>5. ViewTables'
  <2>1. ASSUME NEW y \in Addr, mem'[y].kind = "view"
        PROVE  \E h \in Addr : h = mem'[y].holds /\ mem'[y].table = TableOf(h)'
    <3>1. y # a /\ mem'[y] = mem[y]
      BY <1>3, <2>1 DEF WritesOnly
    <3> QED
      BY <1>1, <1>2, <1>3, <2>1, <3>1, ViewsKept
  <2> QED
    BY <2>1, ViewTablesNext
<1>6. RInv'
  BY <1>1, <1>4, <1>5 DEF RInv
<1>7. ASSUME NEW w \in Ident PROVE Same(w)
  <2>1. ~IsRoot(a, w) /\ ~IsRoot(a, w)'
    BY <1>2, <1>3 DEF IsRoot, Rooted
  <2>2. \A r \in Addr : Held(r)' <=> Held(r)
    BY <1>2, <1>3, HeldKept, FlexAssumption
  <2> QED
    BY <1>3, <1>6, <2>1, <2>2, Elsewhere
<1> QED
  BY <1>6, <1>7

LEMMA NewRefines ==
  ASSUME RInv, NEW a \in Addr, NEW b \in Addr, NEW w \in Ident, New(a, b, w)
  PROVE  RInv' /\ Abstract!Wrap(w)
<1>1. /\ IInv /\ IInv' /\ TypeOK /\ Chains /\ Named /\ OneRoot /\ ViewTables
      /\ SingleOwner
  BY NewStep DEF RInv, IInv
<1>2. /\ mem[a].kind = "value" /\ mem[b].kind = "free" /\ ~Held(a) /\ a # b
      /\ \A x \in Addr : mem[x].id # w
  BY DEF New, Usable, Is
<1>3. /\ \A x \in Addr : mem[x].holds \notin {a, b}
      /\ mem[a].holds = None /\ mem[b].holds = None
  BY <1>1, <1>2, NotHeld, FreeType DEF Is, Chains, Chain, FreeFits, ValueFits
<1>4. /\ mem'[a].kind = "free" /\ mem'[a].holds = None
      /\ mem'[b].kind = "wrapper" /\ mem'[b].id = w /\ mem'[b].holds = None
      /\ mem'[b].table = NoTable
      /\ WritesOnly({a, b})
  BY <1>1, <1>2, FreeType DEF New, TypeOK, WritesOnly
<1>5. Named' /\ OneRoot'
  BY <1>1, <1>2, <1>4 DEF Named, OneRoot, WritesOnly, Handle, Rooted
<1>6. ViewTables'
  <2>1. ASSUME NEW y \in Addr, mem'[y].kind = "view"
        PROVE  \E h \in Addr : h = mem'[y].holds /\ mem'[y].table = TableOf(h)'
    <3>1. y \notin {a, b} /\ mem'[y] = mem[y]
      BY <1>4, <2>1 DEF WritesOnly
    <3> QED
      BY <1>1, <1>3, <1>4, <2>1, <3>1, ViewsKept
  <2> QED
    BY <2>1, ViewTablesNext
<1>7. RInv'
  BY <1>1, <1>5, <1>6 DEF RInv
<1>8. ASSUME NEW x \in Ident \ {w} PROVE Same(x)
  <2>1. \A y \in {a, b} : ~IsRoot(y, x) /\ ~IsRoot(y, x)'
    BY <1>2, <1>4 DEF IsRoot, Rooted
  <2>2. \A r \in Addr : Held(r)' <=> Held(r)
    BY <1>3, <1>4, HeldKept, FlexAssumption
  <2> QED
    BY <1>4, <1>7, <2>1, <2>2, Elsewhere
<1>9. StageOf(w) = "none" /\ Provided(w) = {}
  BY <1>2, Summary DEF SeenAs, IsRoot
<1>10. StageOf(w)' = "typed" /\ Provided(w)' = {}
  <2>1. IsRoot(b, w)' /\ ~Held(b)'
    BY <1>3, <1>4, FlexAssumption DEF IsRoot, Rooted, Held, WritesOnly
  <2>2. SeenAs(w)'
    BY <1>7, SummaryNext
  <2>3. Announced(b)' = {}
    BY <1>4 DEF Announced, NoTable
  <2> QED
    BY <1>4, <2>1, <2>2, <2>3 DEF SeenAs
<1>11. /\ Abstract!Become(w, {"none"}, "typed")
       /\ UNCHANGED [x \in Ident |-> Provided(x)]
  BY <1>8, <1>9, <1>10, AbstractBecomes
<1> QED
  BY <1>7, <1>11 DEF Abstract!Wrap

LEMMA SetRefines ==
  ASSUME RInv, NEW a \in Addr, NEW t \in Opt, Set(a, t)
  PROVE  RInv' /\ \E w \in Ident : Abstract!Announce(w, t)
<1>1. /\ IInv /\ IInv' /\ TypeOK /\ Chains /\ Named /\ OneRoot /\ ViewTables
  BY SetStep DEF RInv, IInv
<1> PICK w \in Ident : w = mem[a].id
  BY <1>1 DEF Set, Usable, Is, Named, Handle
<1>2. /\ mem[a].kind = "wrapper" /\ ~Held(a)
      /\ mem[a].holds = None /\ mem[a].obj # None
      /\ \A x \in Addr : mem[x].holds # a
  BY <1>1, NotHeld DEF Set, Usable, Is, Chains, Chain, WrapperFits
<1>3. /\ mem'[a].kind = "wrapper" /\ mem'[a].id = w /\ mem'[a].holds = None
      /\ mem'[a].table = [mem[a].table EXCEPT ![t] = Erase(a, ObjType(a), t)]
      /\ mem[a].table \in [Opt -> Ptr \cup {None}]
      /\ WritesOnly({a})
  BY <1>1, <1>2 DEF Set, TypeOK, Cell, WritesOnly, ObjType
<1>4. Erase(a, ObjType(a), t) # None
  BY <1>1, <1>2, CellFields, EraseType, FlexAssumption
<1>5. Named' /\ OneRoot'
  BY <1>1, <1>2, <1>3 DEF Named, OneRoot, WritesOnly
<1>6. ViewTables'
  <2>1. ASSUME NEW y \in Addr, mem'[y].kind = "view"
        PROVE  \E h \in Addr : h = mem'[y].holds /\ mem'[y].table = TableOf(h)'
    <3>1. y \notin {a} /\ mem'[y] = mem[y]
      BY <1>3, <2>1 DEF WritesOnly
    <3> QED
      BY <1>1, <1>2, <1>3, <2>1, <3>1, ViewsKept
  <2> QED
    BY <2>1, ViewTablesNext
<1>7. RInv'
  BY <1>1, <1>5, <1>6 DEF RInv
<1>8. ASSUME NEW x \in Ident \ {w} PROVE Same(x)
  <2>1. \A y \in {a} : ~IsRoot(y, x) /\ ~IsRoot(y, x)'
    BY <1>3 DEF IsRoot
  <2>2. \A r \in Addr : Held(r)' <=> Held(r)
    BY <1>2, <1>3, HeldKept, FlexAssumption
  <2> QED
    BY <1>3, <1>7, <2>1, <2>2, Elsewhere
<1>9. /\ StageOf(w) = "typed" /\ Provided(w) = Announced(a)
  <2>1. IsRoot(a, w)
    BY <1>2 DEF IsRoot, Rooted
  <2> QED
    BY <1>2, <2>1, Summary DEF SeenAs
<1>10. StageOf(w)' = "typed" /\ Provided(w)' = Announced(a) \cup {t}
  <2>1. IsRoot(a, w)' /\ ~Held(a)'
    <3>1. IsRoot(a, w)'
      BY <1>3 DEF IsRoot, Rooted
    <3>2. \A x \in Addr : mem'[x].holds # a
      BY <1>2, <1>3, FlexAssumption DEF WritesOnly
    <3> QED
      BY <3>1, <3>2 DEF Held
  <2>2. SeenAs(w)'
    BY <1>2, <1>7, SummaryNext
  <2>3. Announced(a)' = Announced(a) \cup {t}
    BY <1>3, <1>4 DEF Announced
  <2> QED
    BY <1>3, <2>1, <2>2, <2>3 DEF SeenAs
<1>11. Abstract!Announce(w, t)
  BY <1>2, <1>8, <1>9, <1>10, AbstractAnnounces
<1> QED
  BY <1>7, <1>11

LEMMA MoveRefines ==
  ASSUME RInv, NEW a \in Addr, NEW b \in Addr, Move(a, b)
  PROVE  RInv' /\ \A w \in Ident : Same(w)
<1>1. /\ IInv /\ IInv' /\ TypeOK /\ Chains /\ Named /\ OneRoot /\ ViewTables
  BY MoveStep DEF RInv, IInv
<1>2. /\ mem[a].kind # "free" /\ mem[b].kind = "free" /\ ~Held(a) /\ a # b
  BY DEF Move, Usable, Is
<1>3. \A x \in Addr : mem[x].holds \notin {a, b}
  BY <1>1, <1>2, NotHeld DEF Is
<1>4. /\ mem'[b] = mem[a] /\ WritesOnly({a, b})
      /\ mem'[a].kind = "free" /\ mem'[a].holds = None
      /\ mem[b].holds = None
  BY <1>1, <1>2, FreeType DEF Move, TypeOK, WritesOnly, Chains, Chain, FreeFits
<1>5. Named' /\ OneRoot'
  BY <1>1, <1>4 DEF Named, OneRoot, WritesOnly, Handle, Rooted
<1>6. ViewTables'
  <2>1. ASSUME NEW y \in Addr, mem'[y].kind = "view"
        PROVE  \E h \in Addr : h = mem'[y].holds /\ mem'[y].table = TableOf(h)'
    <3>1. PICK v \in Addr : mem'[y] = mem[v]
      BY <1>4, <2>1 DEF WritesOnly
    <3> QED
      BY <1>1, <1>3, <1>4, <2>1, <3>1, ViewsKept
  <2> QED
    BY <2>1, ViewTablesNext
<1>7. RInv'
  BY <1>1, <1>5, <1>6 DEF RInv
<1>8. ASSUME NEW w \in Ident PROVE Same(w)
  <2>1. CASE IsRoot(a, w)
    <3>1. IsRoot(b, w)'
      BY <1>4, <2>1 DEF IsRoot
    <3>2. \A x \in Addr : mem'[x].holds # b
      BY <1>3, <1>4, FlexAssumption DEF WritesOnly
    <3>3. ~Held(a) /\ ~Held(b)'
      BY <1>2, <3>2 DEF Held
    <3> QED
      BY <1>4, <1>7, <2>1, <3>1, <3>3, Stays
  <2>2. CASE ~IsRoot(a, w)
    <3>1. \A y \in {a, b} : ~IsRoot(y, w) /\ ~IsRoot(y, w)'
      BY <1>2, <1>4, <2>2 DEF IsRoot, Rooted
    <3>2. \A r \in Addr : Held(r)' <=> Held(r)
      BY <1>4, FlexAssumption DEF Held, WritesOnly
    <3> QED
      BY <1>4, <1>7, <3>1, <3>2, Elsewhere
  <2> QED
    BY <2>1, <2>2
<1> QED
  BY <1>7, <1>8

LEMMA GetMutRefines ==
  ASSUME RInv, NEW a \in Addr, NEW b \in Addr, GetMut(a, b)
  PROVE  RInv' /\ \A w \in Ident : Same(w)
<1>1. /\ IInv /\ IInv' /\ TypeOK /\ Chains /\ Named /\ OneRoot /\ ViewTables
  BY GetMutStep DEF RInv, IInv
<1>2. \A x \in Addr : mem[x].holds \notin {a, b}
  BY <1>1, NotHeld DEF GetMut, Usable
<1>3. \A x \in {a, b} : mem[x].kind \in {"value", "wrapper"}
  BY DEF GetMut, Usable, Is
<1>4. /\ \A x \in Addr : /\ mem'[x].kind = mem[x].kind
                         /\ mem'[x].table = mem[x].table
                         /\ mem'[x].holds = mem[x].holds
                         /\ mem'[x].id = mem[x].id
      /\ WritesOnly({a, b})
  <2>1. /\ mem \in [Addr -> Cell] /\ a # b
        /\ mem' = [mem EXCEPT ![a] = [mem[a] EXCEPT !.obj = mem[b].obj],
                              ![b] = [mem[b] EXCEPT !.obj = mem[a].obj]]
    BY <1>1 DEF TypeOK, GetMut
  <2> QED
    BY <2>1 DEF Cell, WritesOnly
<1>5. Named' /\ OneRoot'
  BY <1>1, <1>4 DEF Named, OneRoot
<1>6. ViewTables'
  <2>1. ASSUME NEW y \in Addr, mem'[y].kind = "view"
        PROVE  \E h \in Addr : h = mem'[y].holds /\ mem'[y].table = TableOf(h)'
    <3>1. y \notin {a, b} /\ mem'[y] = mem[y]
      BY <1>3, <1>4, <2>1 DEF WritesOnly
    <3> QED
      BY <1>1, <1>2, <1>4, <2>1, <3>1, ViewsKept
  <2> QED
    BY <2>1, ViewTablesNext
<1>7. RInv'
  BY <1>1, <1>5, <1>6 DEF RInv
<1>8. ASSUME NEW w \in Ident PROVE Same(w)
  <2>1. \A r \in Addr : IsRoot(r, w)' <=> IsRoot(r, w)
    BY <1>4 DEF IsRoot
  <2>2. \A r \in Addr : Held(r)' <=> Held(r)
    BY <1>4 DEF Held
  <2> QED
    BY <1>4, <1>7, <2>1, <2>2, Unmoved
<1> QED
  BY <1>7, <1>8

LEMMA UnsizeRefines ==
  ASSUME RInv, NEW a \in Addr, NEW b \in Addr, Unsize(a, b)
  PROVE  RInv' /\ \E w \in Ident : Abstract!Lend(w)
<1>1. /\ IInv /\ IInv' /\ TypeOK /\ Chains /\ Named /\ OneRoot /\ ViewTables
  BY UnsizeStep DEF RInv, IInv
<1>2. mem[a].kind = "wrapper" /\ mem[b].kind = "free" /\ ~Held(a) /\ a # b
  BY DEF Unsize, Usable, Is
<1> PICK w \in Ident : w = mem[a].id
  BY <1>1, <1>2 DEF Named, Handle
<1>3. /\ \A x \in Addr : mem[x].holds \notin {a, b}
      /\ mem[b].holds = None
  BY <1>1, <1>2, NotHeld, FreeType DEF Is, Chains, Chain, FreeFits
<1>4. /\ mem'[b].kind = "unsized" /\ mem'[b].id = w /\ mem'[b].holds = a
      /\ WritesOnly({b}) /\ mem'[a] = mem[a]
  <2> DEFINE c == [Free EXCEPT !.kind = "unsized", !.holds = a,
                               !.id = mem[a].id,
                               !.ptr = Erase(a, TypeOf[mem[a].obj], Base)]
  <2>1. c.kind = "unsized" /\ c.id = w /\ c.holds = a
    BY DEF Free
  <2>2. mem' = [mem EXCEPT ![b] = c] /\ mem \in [Addr -> Cell]
    BY <1>1 DEF Unsize, TypeOK
  <2> HIDE DEF c
  <2> QED
    BY <1>2, <2>1, <2>2 DEF WritesOnly
<1>5. Named' /\ OneRoot'
  BY <1>1, <1>4 DEF Named, OneRoot, WritesOnly, Rooted
<1>6. ViewTables'
  <2>1. ASSUME NEW y \in Addr, mem'[y].kind = "view"
        PROVE  \E h \in Addr : h = mem'[y].holds /\ mem'[y].table = TableOf(h)'
    <3>1. y # b /\ mem'[y] = mem[y]
      BY <1>4, <2>1 DEF WritesOnly
    <3> QED
      BY <1>1, <1>3, <1>4, <2>1, <3>1, ViewsKept
  <2> QED
    BY <2>1, ViewTablesNext
<1>7. RInv'
  BY <1>1, <1>5, <1>6 DEF RInv
<1>8. IsRoot(a, w) /\ IsRoot(a, w)' /\ Held(a)'
  <2>1. \E x \in Addr : mem'[x].holds = a
    BY <1>4
  <2> QED
    BY <1>2, <1>4, <2>1 DEF IsRoot, Rooted, Held
<1>9. ASSUME NEW x \in Ident \ {w} PROVE Same(x)
  <2>1. \A y \in {b} : ~IsRoot(y, x) /\ ~IsRoot(y, x)'
    BY <1>2, <1>4 DEF IsRoot, Rooted
  <2>2. \A r \in Addr : IsRoot(r, x) => (Held(r)' <=> Held(r))
    <3>1. \A r \in Addr : IsRoot(r, x) => r # a
      BY <1>8 DEF IsRoot
    <3> QED
      BY <1>3, <1>4, <3>1, HeldKept, FlexAssumption
  <2> QED
    BY <1>4, <1>7, <2>1, <2>2, Elsewhere
<1>10. StageOf(w) = "typed" /\ Provided(w) = Announced(a)
  BY <1>2, <1>8, Summary DEF SeenAs
<1>11. StageOf(w)' = "lent" /\ Provided(w)' = Announced(a)'
  <2>1. SeenAs(w)'
    BY <1>7, SummaryNext
  <2> QED
    BY <1>2, <1>4, <1>8, <2>1 DEF SeenAs
<1>12. Announced(a)' = Announced(a)
  BY <1>4 DEF Announced
<1>13. /\ Abstract!Become(w, {"typed"}, "lent")
       /\ UNCHANGED [x \in Ident |-> Provided(x)]
  BY <1>9, <1>10, <1>11, <1>12, AbstractBecomes
<1> QED
  BY <1>7, <1>13 DEF Abstract!Lend

LEMMA AsMutRefines ==
  ASSUME RInv, NEW a \in Addr, NEW b \in Addr, AsMut(a, b)
  PROVE  /\ RInv'
         /\ (\A w \in Ident : Same(w)) \/ (\E w \in Ident : Abstract!Lend(w))
<1>1. /\ IInv /\ IInv' /\ TypeOK /\ Chains /\ Named /\ OneRoot /\ ViewTables
  BY AsMutStep DEF RInv, IInv
<1>2. /\ mem[a].kind \in {"wrapper", "unsized", "box"} /\ mem[b].kind = "free"
      /\ ~Held(a) /\ a # b
  BY DEF AsMut, Usable, Is
<1> PICK w \in Ident : w = mem[a].id
  BY <1>1, <1>2 DEF Named, Handle
<1>3. /\ \A x \in Addr : mem[x].holds \notin {a, b}
      /\ mem[b].holds = None
  BY <1>1, <1>2, NotHeld, FreeType DEF Is, Chains, Chain, FreeFits
<1>4. /\ mem'[b].kind = "view" /\ mem'[b].id = w /\ mem'[b].holds = a
      /\ mem'[b].table = TableOf(a)
      /\ WritesOnly({b}) /\ mem'[a] = mem[a]
  BY <1>1, <1>2 DEF AsMut, TypeOK, WritesOnly
<1>5. Named' /\ OneRoot'
  BY <1>1, <1>4 DEF Named, OneRoot, WritesOnly, Rooted
<1>6. ViewTables'
  <2>1. ASSUME NEW y \in Addr, mem'[y].kind = "view"
        PROVE  \E h \in Addr : h = mem'[y].holds /\ mem'[y].table = TableOf(h)'
    <3>1. CASE y = b
      <4>1. TableOf(a)' = TableOf(a)
        BY <1>1, <1>2, <1>3, <1>4, TableKept
      <4> QED
        BY <1>4, <3>1, <4>1
    <3>2. CASE y # b
      <4>1. mem'[y] = mem[y]
        BY <1>4, <3>2 DEF WritesOnly
      <4> QED
        BY <1>1, <1>3, <1>4, <2>1, <3>2, <4>1, ViewsKept
    <3> QED
      BY <3>1, <3>2
  <2> QED
    BY <2>1, ViewTablesNext
<1>7. RInv'
  BY <1>1, <1>5, <1>6 DEF RInv
<1>8. ASSUME NEW x \in Ident, x # w \/ mem[a].kind # "wrapper"
      PROVE  Same(x)
  <2>1. \A y \in {b} : ~IsRoot(y, x) /\ ~IsRoot(y, x)'
    BY <1>2, <1>4 DEF IsRoot, Rooted
  <2>2. \A r \in Addr : IsRoot(r, x) /\ mem[r].kind = "wrapper" => r # a
    BY <1>8 DEF IsRoot
  <2>3. \A r \in Addr : IsRoot(r, x) /\ mem[r].kind = "wrapper" =>
          (Held(r)' <=> Held(r))
    BY <1>3, <1>4, <2>2, HeldKept, FlexAssumption
  <2> QED
    BY <1>4, <1>7, <2>1, <2>3, Elsewhere
<1>9. CASE mem[a].kind = "wrapper"
  <2>1. IsRoot(a, w) /\ IsRoot(a, w)' /\ Held(a)'
    <3>1. \E x \in Addr : mem'[x].holds = a
      BY <1>4
    <3> QED
      BY <1>4, <1>9, <3>1 DEF IsRoot, Rooted, Held
  <2>2. StageOf(w) = "typed" /\ Provided(w) = Announced(a)
    BY <1>2, <1>9, <2>1, Summary DEF SeenAs
  <2>3. StageOf(w)' = "lent" /\ Provided(w)' = Announced(a)'
    <3>1. SeenAs(w)'
      BY <1>7, SummaryNext
    <3> QED
      BY <1>4, <1>9, <2>1, <3>1 DEF SeenAs
  <2>4. Announced(a)' = Announced(a)
    BY <1>4 DEF Announced
  <2>5. /\ Abstract!Become(w, {"typed"}, "lent")
        /\ UNCHANGED [x \in Ident |-> Provided(x)]
    BY <1>8, <2>2, <2>3, <2>4, AbstractBecomes
  <2> QED
    BY <1>7, <2>5 DEF Abstract!Lend
<1>10. CASE mem[a].kind # "wrapper"
  BY <1>7, <1>8, <1>10
<1> QED
  BY <1>9, <1>10

LEMMA IntoBoxedRefines ==
  ASSUME RInv, NEW a \in Addr, NEW h \in Addr, NEW b \in Addr,
         IntoBoxed(a, h, b)
  PROVE  RInv' /\ \E w \in Ident : Abstract!Box(w)
<1>1. /\ IInv /\ IInv' /\ TypeOK /\ Chains /\ Named /\ OneRoot /\ ViewTables
  BY IntoBoxedStep DEF RInv, IInv
<1>2. /\ mem[a].kind = "wrapper" /\ mem[h].kind = "free"
      /\ mem[b].kind = "free" /\ ~Held(a) /\ a # b /\ a # h /\ h # b
  BY DEF IntoBoxed, Usable, Is
<1> PICK w \in Ident : w = mem[a].id
  BY <1>1, <1>2 DEF Named, Handle
<1>3. /\ \A x \in Addr : mem[x].holds \notin {a, h, b}
      /\ mem[a].holds = None /\ mem[h].holds = None /\ mem[b].holds = None
  BY <1>1, <1>2, NotHeld, FreeType
     DEF Is, Chains, Chain, FreeFits, WrapperFits
<1>4. /\ mem'[a].kind = "free" /\ mem'[a].holds = None
      /\ mem'[h].kind = "value" /\ mem'[h].holds = None
      /\ mem'[b].kind = "box" /\ mem'[b].id = w /\ mem'[b].holds = h
      /\ mem'[b].table = mem[a].table
      /\ WritesOnly({a, h, b})
  <2> DEFINE v == [Free EXCEPT !.kind = "value", !.obj = mem[a].obj,
                               !.id = mem[a].id]
  <2>1. v.kind = "value" /\ v.holds = None
    BY DEF Free
  <2>2. /\ mem \in [Addr -> Cell]
        /\ mem' = [mem EXCEPT ![a] = Free, ![h] = v, ![b] =
                     [kind |-> "box", obj |-> None,
                      ptr |-> WithMetadataOf(h, mem[a].ptr),
                      table |-> mem[a].table, holds |-> h, id |-> mem[a].id]]
    BY <1>1 DEF IntoBoxed, TypeOK
  <2> HIDE DEF v
  <2> QED
    BY <1>2, <2>1, <2>2, FreeType DEF WritesOnly
<1>5. Named' /\ OneRoot'
  BY <1>1, <1>2, <1>4 DEF Named, OneRoot, WritesOnly, Handle, Rooted
<1>6. ViewTables'
  <2>1. ASSUME NEW y \in Addr, mem'[y].kind = "view"
        PROVE  \E g \in Addr : g = mem'[y].holds /\ mem'[y].table = TableOf(g)'
    <3>1. y \notin {a, h, b} /\ mem'[y] = mem[y]
      BY <1>4, <2>1 DEF WritesOnly
    <3> QED
      BY <1>1, <1>3, <1>4, <2>1, <3>1, ViewsKept
  <2> QED
    BY <2>1, ViewTablesNext
<1>7. RInv'
  BY <1>1, <1>5, <1>6 DEF RInv
<1>8. ASSUME NEW x \in Ident \ {w} PROVE Same(x)
  <2>1. \A y \in {a, h, b} : ~IsRoot(y, x) /\ ~IsRoot(y, x)'
    BY <1>2, <1>4 DEF IsRoot, Rooted
  <2>2. \A r \in Addr \ {a, h, b} : Held(r)' <=> Held(r)
    BY <1>3, <1>4, HeldKept, FlexAssumption
  <2> QED
    BY <1>4, <1>7, <2>1, <2>2, Elsewhere
<1>9. IsRoot(a, w) /\ IsRoot(b, w)'
  BY <1>2, <1>4 DEF IsRoot, Rooted
<1>10. StageOf(w) = "typed" /\ Provided(w) = Announced(a)
  BY <1>2, <1>9, Summary DEF SeenAs
<1>11. StageOf(w)' = "boxed" /\ Provided(w)' = Announced(b)'
  <2>1. SeenAs(w)'
    BY <1>7, SummaryNext
  <2> QED
    BY <1>4, <1>9, <2>1 DEF SeenAs
<1>12. Announced(b)' = Announced(a)
  BY <1>4 DEF Announced
<1>13. /\ Abstract!Become(w, {"typed"}, "boxed")
       /\ UNCHANGED [x \in Ident |-> Provided(x)]
  BY <1>8, <1>10, <1>11, <1>12, AbstractBecomes
<1> QED
  BY <1>7, <1>13 DEF Abstract!Box

LEMMA IntoInnerRefines ==
  ASSUME RInv, NEW a \in Addr, NEW b \in Addr, IntoInner(a, b)
  PROVE  RInv' /\ \E w \in Ident : Abstract!End(w)
<1>1. /\ IInv /\ IInv' /\ TypeOK /\ Chains /\ Named /\ OneRoot /\ ViewTables
  BY IntoInnerStep DEF RInv, IInv
<1>2. /\ mem[a].kind = "wrapper" /\ mem[b].kind = "free" /\ ~Held(a) /\ a # b
  BY DEF IntoInner, Usable, Is
<1> PICK w \in Ident : w = mem[a].id
  BY <1>1, <1>2 DEF Named, Handle
<1>3. /\ \A x \in Addr : mem[x].holds \notin {a, b}
      /\ mem[a].holds = None /\ mem[b].holds = None
  BY <1>1, <1>2, NotHeld, FreeType
     DEF Is, Chains, Chain, FreeFits, WrapperFits
<1>4. /\ mem'[a].kind = "free" /\ mem'[a].holds = None
      /\ mem'[b].kind = "value" /\ mem'[b].holds = None
      /\ WritesOnly({a, b})
  <2> DEFINE v == [Free EXCEPT !.kind = "value", !.obj = mem[a].obj]
  <2>1. v.kind = "value" /\ v.holds = None
    BY DEF Free
  <2>2. /\ mem \in [Addr -> Cell]
        /\ mem' = [mem EXCEPT ![a] = Free, ![b] = v]
    BY <1>1 DEF IntoInner, TypeOK
  <2> HIDE DEF v
  <2> QED
    BY <1>2, <2>1, <2>2, FreeType DEF WritesOnly
<1>5. Named' /\ OneRoot'
  BY <1>1, <1>4 DEF Named, OneRoot, WritesOnly, Handle, Rooted
<1>6. ViewTables'
  <2>1. ASSUME NEW y \in Addr, mem'[y].kind = "view"
        PROVE  \E g \in Addr : g = mem'[y].holds /\ mem'[y].table = TableOf(g)'
    <3>1. y \notin {a, b} /\ mem'[y] = mem[y]
      BY <1>4, <2>1 DEF WritesOnly
    <3> QED
      BY <1>1, <1>3, <1>4, <2>1, <3>1, ViewsKept
  <2> QED
    BY <2>1, ViewTablesNext
<1>7. RInv'
  BY <1>1, <1>5, <1>6 DEF RInv
<1>8. ASSUME NEW x \in Ident \ {w} PROVE Same(x)
  <2>1. \A y \in {a, b} : ~IsRoot(y, x) /\ ~IsRoot(y, x)'
    BY <1>2, <1>4 DEF IsRoot, Rooted
  <2>2. \A r \in Addr \ {a, b} : Held(r)' <=> Held(r)
    BY <1>3, <1>4, HeldKept, FlexAssumption
  <2> QED
    BY <1>4, <1>7, <2>1, <2>2, Elsewhere
<1>9. IsRoot(a, w) /\ \A r \in Addr : ~IsRoot(r, w)'
  BY <1>1, <1>2, <1>4 DEF IsRoot, Rooted, OneRoot, WritesOnly
<1>10. StageOf(w) = "typed"
  BY <1>2, <1>9, Summary DEF SeenAs
<1>11. StageOf(w)' = "none" /\ Provided(w)' = {}
  <2>1. SeenAs(w)'
    BY <1>7, SummaryNext
  <2> QED
    BY <1>9, <2>1 DEF SeenAs
<1> QED
  BY <1>7, <1>8, <1>10, <1>11, AbstractEnds

LEMMA DropRefines ==
  ASSUME RInv, NEW a \in Addr, Drop(a)
  PROVE  /\ RInv'
         /\ \/ \A w \in Ident : Same(w)
            \/ \E w \in Ident : Abstract!End(w) \/ Abstract!Return(w)
<1>1. /\ IInv /\ IInv' /\ TypeOK /\ Chains /\ Named /\ OneRoot /\ ViewTables
      /\ HeldOnce
  BY DropStep DEF RInv, IInv, SingleOwner
<1>2. mem[a].kind # "free" /\ mem[a].kind \in Kind /\ ~Held(a) /\ Chain(a)
  BY <1>1, CellFields DEF Drop, Usable, Is, Chains
<1>3. PICK S \in SUBSET Addr : S = Dropped(a)
  BY DEF Dropped
<1>4. /\ \A x \in S : mem'[x].kind = "free" /\ mem'[x].holds = None
      /\ WritesOnly(S)
  BY <1>3, FreeType DEF Drop, Dropped, Is, WritesOnly
<1>5. /\ a \in S
      /\ \A x \in S \ {a} : /\ mem[a].kind = "box" /\ mem[a].holds = x
                            /\ mem[x].kind = "value" /\ mem[x].holds = None
  BY <1>1, <1>2, <1>3 DEF Dropped, Chain, BoxFits, Chains, ValueFits
<1>6. \A z \in Addr \ S : mem[z].holds \notin S
  <2> SUFFICES ASSUME NEW z \in Addr \ S, mem[z].holds \in S PROVE FALSE
    OBVIOUS
  <2>1. mem[z].holds # a
    BY <1>1, <1>2, NotHeld
  <2>2. mem[z].holds = mem[a].holds /\ mem[z].holds # None
    BY <1>5, <2>1, FlexAssumption
  <2> QED
    BY <1>1, <1>5, <2>2 DEF HeldOnce
<1>7. Named' /\ OneRoot'
  BY <1>1, <1>4 DEF Named, OneRoot, WritesOnly, Handle, Rooted
<1>8. ViewTables'
  <2>1. ASSUME NEW y \in Addr, mem'[y].kind = "view"
        PROVE  \E g \in Addr : g = mem'[y].holds /\ mem'[y].table = TableOf(g)'
    <3>1. y \in Addr \ S /\ mem'[y] = mem[y]
      BY <1>4, <2>1 DEF WritesOnly
    <3> QED
      BY <1>1, <1>4, <1>6, <2>1, <3>1, ViewsKept
  <2> QED
    BY <2>1, ViewTablesNext
<1>9. RInv'
  BY <1>1, <1>7, <1>8 DEF RInv
<1>10. \A x \in Ident : \A y \in S : IsRoot(y, x) => y = a
  BY <1>5 DEF IsRoot, Rooted
<1>11. \A x \in Ident : \A y \in S : ~IsRoot(y, x)'
  BY <1>4 DEF IsRoot, Rooted
<1>12. \A r \in Addr : r # mem[a].holds => (Held(r)' <=> Held(r))
  BY <1>4, <1>5, HeldKept, FlexAssumption
<1>13. ASSUME NEW x \in Ident, ~IsRoot(a, x),
              \A r \in Addr : IsRoot(r, x) /\ mem[r].kind = "wrapper" =>
                r # mem[a].holds
       PROVE  Same(x)
  BY <1>4, <1>9, <1>10, <1>11, <1>12, <1>13, Elsewhere
<1>14. CASE mem[a].kind \in Rooted
  <2> PICK w \in Ident : w = mem[a].id
    BY <1>1, <1>14 DEF Named, Handle, Rooted
  <2>1. mem[a].holds \in Addr => mem[mem[a].holds].kind # "wrapper"
    BY <1>1, <1>2, <1>14, HolderOf DEF Rooted, Chain, WrapperFits
  <2>2. \A x \in Ident \ {w} : Same(x)
    BY <1>13, <2>1 DEF IsRoot
  <2>3. IsRoot(a, w) /\ \A r \in Addr : ~IsRoot(r, w)'
    BY <1>1, <1>4, <1>5, <1>11, <1>14 DEF IsRoot, OneRoot, WritesOnly
  <2>4. StageOf(w) \in {"typed", "boxed"}
    BY <1>2, <2>3, Summary DEF SeenAs
  <2>5. StageOf(w)' = "none" /\ Provided(w)' = {}
    <3>1. SeenAs(w)'
      BY <1>9, SummaryNext
    <3> QED
      BY <2>3, <3>1 DEF SeenAs
  <2> QED
    BY <1>9, <2>2, <2>4, <2>5, AbstractEnds
<1>15. ASSUME mem[a].kind \notin Rooted,
              NEW g \in Addr, mem[a].holds = g, mem[g].kind = "wrapper"
       PROVE  \E w \in Ident : Abstract!Return(w)
  <2> PICK w \in Ident : w = mem[g].id
    BY <1>1, <1>15 DEF Named, Handle
  <2>1. IsRoot(g, w) /\ Held(g) /\ g \notin S
    BY <1>5, <1>15 DEF IsRoot, Rooted, Held
  <2>2. mem'[g] = mem[g] /\ IsRoot(g, w)'
    BY <1>4, <2>1 DEF WritesOnly, IsRoot
  <2>3. ~Held(g)'
    <3>1. \A x \in Addr : mem[x].holds = g => x = a
      BY <1>1, <1>15, FlexAssumption DEF HeldOnce
    <3>2. \A x \in Addr : mem'[x].holds # g
      BY <1>4, <1>5, <3>1, FlexAssumption DEF WritesOnly
    <3> QED
      BY <3>2 DEF Held
  <2>4. \A x \in Ident \ {w} : Same(x)
    <3>1. \A x \in Ident : ~IsRoot(a, x)
      BY <1>15 DEF IsRoot
    <3>2. \A x \in Ident \ {w} : ~IsRoot(g, x)
      BY DEF IsRoot
    <3> QED
      BY <1>13, <1>15, <3>1, <3>2
  <2>5. StageOf(w) = "lent" /\ Provided(w) = Announced(g)
    BY <1>15, <2>1, Summary DEF SeenAs
  <2>6. StageOf(w)' = "typed" /\ Provided(w)' = Announced(g)'
    <3>1. SeenAs(w)'
      BY <1>9, SummaryNext
    <3> QED
      BY <1>15, <2>2, <2>3, <3>1 DEF SeenAs
  <2>7. Announced(g)' = Announced(g)
    BY <2>2 DEF Announced
  <2>8. /\ Abstract!Become(w, {"lent"}, "typed")
        /\ UNCHANGED [x \in Ident |-> Provided(x)]
    BY <2>4, <2>5, <2>6, <2>7, AbstractBecomes
  <2> QED
    BY <2>8 DEF Abstract!Return
<1>16. CASE /\ mem[a].kind \notin Rooted
            /\ \A g \in Addr : mem[a].holds = g => mem[g].kind # "wrapper"
  <2>1. \A x \in Ident : ~IsRoot(a, x)
    BY <1>16 DEF IsRoot
  <2>2. \A x \in Ident : Same(x)
    BY <1>13, <1>16, <2>1
  <2> QED
    BY <1>9, <2>2
<1> QED
  BY <1>9, <1>14, <1>15, <1>16

LEMMA InitRefines == Init => RInv /\ Abstract!Init
<1> SUFFICES ASSUME Init PROVE RInv /\ Abstract!Init
  OBVIOUS
<1>1. \A a \in Addr : mem[a].kind = "free"
  BY FreeType DEF Init
<1>2. RInv
  BY <1>1, InitIInv DEF RInv, Named, OneRoot, ViewTables, Handle, Rooted
<1>3. \A w \in Ident : StageOf(w) = "none" /\ Provided(w) = {}
  BY <1>1, <1>2, Summary DEF SeenAs, IsRoot, Rooted
<1> QED
  BY <1>2, <1>3 DEF Abstract!Init

LEMMA NextRefines ==
  RInv /\ [Next]_mem => RInv' /\ [Abstract!Next]_(Abstract!vars)
<1> SUFFICES ASSUME RInv, [Next]_mem
             PROVE  RInv' /\ [Abstract!Next]_(Abstract!vars)
  OBVIOUS
<1>1. CASE UNCHANGED mem
  <2>1. RInv'
    <3>1. IInv'
      BY <1>1, NextIInv DEF RInv
    <3> QED
      BY <1>1, <3>1 DEF RInv, Named, OneRoot, ViewTables, TableOf, Place
  <2>2. \A w \in Ident : Same(w)
    BY <1>1, <2>1, Unmoved DEF IsRoot, Held
  <2> QED
    BY <2>1, <2>2, AbstractStutter
<1>2. ASSUME NEW a \in Addr, NEW v \in Value, Create(v, a)
      PROVE  RInv' /\ UNCHANGED Abstract!vars
  BY <1>2, CreateRefines, AbstractStutter
<1>3. ASSUME NEW a \in Addr, NEW b \in Addr, NEW w \in Ident, New(a, b, w)
      PROVE  RInv' /\ Abstract!Next
  BY <1>3, NewRefines DEF Abstract!Next
<1>4. ASSUME NEW a \in Addr, NEW t \in Opt, Set(a, t)
      PROVE  RInv' /\ Abstract!Next
  BY <1>4, SetRefines DEF Abstract!Next
<1>5. ASSUME NEW a \in Addr, NEW b \in Addr, Move(a, b) \/ GetMut(a, b)
      PROVE  RInv' /\ UNCHANGED Abstract!vars
  BY <1>5, MoveRefines, GetMutRefines, AbstractStutter
<1>6. ASSUME NEW a \in Addr, NEW b \in Addr, Unsize(a, b)
      PROVE  RInv' /\ Abstract!Next
  BY <1>6, UnsizeRefines DEF Abstract!Next
<1>7. ASSUME NEW a \in Addr, NEW b \in Addr, AsMut(a, b)
      PROVE  RInv' /\ (Abstract!Next \/ UNCHANGED Abstract!vars)
  BY <1>7, AsMutRefines, AbstractStutter DEF Abstract!Next
<1>8. ASSUME NEW a \in Addr, NEW h \in Addr, NEW b \in Addr,
             IntoBoxed(a, h, b)
      PROVE  RInv' /\ Abstract!Next
  BY <1>8, IntoBoxedRefines DEF Abstract!Next
<1>9. ASSUME NEW a \in Addr, NEW b \in Addr, IntoInner(a, b)
      PROVE  RInv' /\ Abstract!Next
  BY <1>9, IntoInnerRefines DEF Abstract!Next
<1>10. ASSUME NEW a \in Addr, Drop(a)
       PROVE  RInv' /\ (Abstract!Next \/ UNCHANGED Abstract!vars)
  BY <1>10, DropRefines, AbstractStutter DEF Abstract!Next
<1> QED
  BY <1>1, <1>2, <1>3, <1>4, <1>5, <1>6, <1>7, <1>8, <1>9, <1>10 DEF Next

(* A getter answers Some exactly for what set_* announced while the type   *)
(* was known (reader.rs:265-300): every step of a wrapper's memory is a    *)
(* step of ProvidedTraits, or invisible to it.                             *)
THEOREM Implements == Spec => ProvidesWhatWasSet
BY InitRefines, NextRefines, PTL
   DEF Spec, ProvidesWhatWasSet, Abstract!Spec
-----------------------------------------------------------------------------
(***************************************************************************)
(* The writer.  Its operations are those of FlexHandle, its table has only *)
(* the traits of its platform, and it has no getter that starts from the   *)
(* field of a view.                                                        *)
(***************************************************************************)
LEMMA WriterIsHandle ==
  ASSUME IsWriter
  PROVE  WriterSpec => Spec
<1>1. WriterNext => Next
  BY DEF IsWriter, WriterNext, Next, Language, WriterNew, WriterSet,
         WriterGetMut, WriterAsMut, WriterIntoBoxed, WriterIntoInner
<1> QED
  BY <1>1, PTL DEF WriterSpec, Spec

(* No double drop, no leak, no second owner, for writers too.              *)
THEOREM WriterOwned ==
  ASSUME IsWriter
  PROVE  WriterSpec => []WriterSingleOwner
BY WriterIsHandle, Owned, PTL DEF WriterSingleOwner

(* Every getter of a writer dereferences soundly, on every platform: none  *)
(* of its blocks takes the address of the view's own field                 *)
(* (writer.rs, lib.rs:88-100).                                             *)
THEOREM WriterSound ==
  ASSUME IsWriter
  PROVE  WriterSpec => []WriterGettersSound
<1>1. FieldPtr = {}
  BY DEF IsWriter, ViewFieldGetters
<1> QED
  BY <1>1, WriterIsHandle, Sound, PTL DEF WriterGettersSound

(* What set_* announced is what the getters of a Writer, a WriterMut and a *)
(* WriterBox answer.                                                       *)
THEOREM WriterImplements ==
  ASSUME IsWriter
  PROVE  WriterSpec => WriterProvidesWhatWasSet
BY WriterIsHandle, Implements, PTL DEF WriterProvidesWhatWasSet
=============================================================================
