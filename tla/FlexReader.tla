----------------------------- MODULE FlexReader -----------------------------
(***************************************************************************)
(* flexible_io::reader: FlexHandle for the mandatory trait Read.  What is  *)
(* particular to the reader is which optional traits its table has on a    *)
(* platform, and how each of the three getter blocks finds the object.     *)
(***************************************************************************)
EXTENDS FlexHandle

CONSTANT Platform   (* the build target: "unix", "windows" or another one  *)

UnixTraits == {"FileExt", "AsFd", "AsRawFd"}
WindowsTraits ==
  {"FileExt", "AsHandle", "AsRawHandle", "AsSocket", "AsRawSocket"}

PlatformTraits ==
  CASE Platform = "unix"    -> UnixTraits
    [] Platform = "windows" -> WindowsTraits
    [] OTHER                -> {}

(* The fields of OptTable; each has a setter on Reader and a getter on     *)
(* Reader, ReaderMut and ReaderBox.                                        *)
OptTable == {"BufRead", "Seek", "Any"} \cup PlatformTraits

(* The getter block of ReaderMut for Windows takes `&that.inner` where the *)
(* other blocks of ReaderMut take `that.inner`.                            *)
ViewFieldGetters == IF Platform = "windows" THEN WindowsTraits ELSE {}

(* The values this module is meant for. *)
ASSUME ReaderAssumption ==
  Base = "Read" /\ Opt = OptTable /\ FieldPtr = ViewFieldGetters
=============================================================================
