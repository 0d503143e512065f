----------------------------- MODULE FlexWriter -----------------------------
(***************************************************************************)
(* flexible_io::writer: the same construction for the mandatory trait      *)
(* Write.  writer.rs repeats the text of reader.rs, so each operation here *)
(* is the one of FlexHandle, under the line of writer.rs that defines it.  *)
(* Unlike the reader, every getter block of WriterMut starts from          *)
(* `that.inner`, on Windows too.                                           *)
(***************************************************************************)
EXTENDS FlexHandle

CONSTANT Platform   (* the build target: "unix", "windows" or another one  *)

UnixTraits == {"FileExt", "AsFd", "AsRawFd"}
WindowsTraits ==
  {"FileExt", "AsHandle", "AsRawHandle", "AsSocket", "AsRawSocket"}

OptTable ==
  {"Seek", "Any"} \cup CASE Platform = "unix"    -> UnixTraits
                         [] Platform = "windows" -> WindowsTraits
                         [] OTHER                -> {}

(* No getter block of WriterMut starts from the address of a field. *)
ViewFieldGetters == {}

(* The values this module is meant for. *)
IsWriter == Base = "Write" /\ Opt = OptTable /\ FieldPtr = ViewFieldGetters

WriterNew(a, b, w)       == New(a, b, w)
WriterSet(a, t)          == Set(a, t)
WriterGetMut(a, b)       == GetMut(a, b)
WriterAsMut(a, b)        == AsMut(a, b)
WriterIntoBoxed(a, h, b) == IntoBoxed(a, h, b)
WriterIntoInner(a, b)    == IntoInner(a, b)

(* What any Rust program may do with its values. *)
Language ==
  \/ \E a \in Addr, v \in Value : Create(v, a)
  \/ \E a, b \in Addr : Move(a, b) \/ Unsize(a, b)
  \/ \E a \in Addr : Drop(a)

WriterNext ==
  \/ Language
  \/ \E a, b \in Addr, w \in Ident : WriterNew(a, b, w)
  \/ \E a \in Addr, t \in OptTable : WriterSet(a, t)
  \/ \E a, b \in Addr :
       WriterGetMut(a, b) \/ WriterAsMut(a, b) \/ WriterIntoInner(a, b)
  \/ \E a, h, b \in Addr : WriterIntoBoxed(a, h, b)

WriterSpec == Init /\ [][WriterNext]_mem

(* Every dereference a writer's getter makes is sound, on every platform   *)
(* (lib.rs:72-76).                                                         *)
WriterGettersSound == GettersSound

(* Objects and boxes have a single owner. *)
WriterSingleOwner == SingleOwner

(* WriterMut and WriterBox provide what was set on the Writer. *)
WriterProvidesWhatWasSet == ProvidesWhatWasSet
=============================================================================
