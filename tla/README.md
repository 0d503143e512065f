# A verification of not-io and flexible-io

This directory holds TLA+ models of the two crates of the repository, the TLC
configurations that check them, and proofs for TLAPS. Paths below are relative
to `src/`.

* `not-io` replicates `std::io`'s traits without `std`: loops over `read` and
  `write` calls that may be short, interrupted or fail, buffers that are lent
  out half filled, cursors and adaptors.
* `flexible-io` wraps a reader or writer with fat pointers to the traits it
  happens to implement, so that a function can ask at run time for `Seek` or
  `BufRead`. Its core is unsafe code that puts a fresh address into an old fat
  pointer.

## 1. Inventory

Everything is single-threaded. What is hard is not interleaving of threads but
the other party of each call (a reader, a sink, the owner of a value), which may
answer, move, fail or panic at any moment, and state that must be right for
every sequence of such answers.

| component | state | operations | hard | correct when |
|---|---|---|---|---|
| pointer recombination (`flexible-io/src/lib.rs` macros, `stable_with_metadata_of.rs`) | fat pointers: address and vtable | erase, set, recombine | addresses go stale at every move | each dereference meets a live object of the vtable's type |
| `Reader`, `ReaderMut`, `ReaderBox` (`reader.rs`) | object, `read`, `OptTable` | `new`, `set_*`, `as_*`, `as_mut`, `into_boxed`, `get_mut`, `into_inner`, drop | moves, exchanges, borrows of borrows, unsizing, heap | getters are sound and provide what was set; an object has one owner |
| `Writer` family (`writer.rs`) | same | same | same text with other traits | same |
| `Error`, `ErrorKind` (`not-io/src/lib.rs`, `impls_std.rs`, `impls_nostd.rs`) | a kind | `is_interrupted` | two builds | interruptions are recognised |
| `write_all`, `copy` (`lib.rs:266`, `impls_always.rs:135`) | slice left, count | one loop each | short writes, retry, error after a part | no byte lost, repeated, reordered; exact count; ends |
| `read_to_end` (`impls_alloc.rs:49`) | vector, capacity, guard | grow, read, unwind | filling in the vector, capacity, miscounting reader | only real bytes, all of them; never an empty slice |
| `read_to_string` (`:88`), `append_to_string` (`:95`) | String as bytes | run a reader, check | error and check compete; unwinding | String is UTF-8; verdict matches |
| `read_until` (`:121`), `read_line` (`:155`) | vector, reader's buffer | `fill_buf`, `consume` | portions, errors in the middle, repeated calls | line by line, each byte once |
| `read_exact` (`lib.rs:191`) | slice left | loop | as `write_all` | all or an error |
| `Cursor` (`cursor.rs`, `impls_always.rs:4-76`, `impls_alloc.rs:159`) | bytes, `u64` position | read, write, seek, `vec_write` | widths, positions past the end, padding | behaves as a file |
| `Take` (`impls_always.rs:157`) | inner, limit | read, `fill_buf`, `consume` | miscounts on both sides | never more than the limit, each byte once, silent at the limit |
| slices, `Vec` as reader and sink (`impls_alloc.rs:5-47`, `impls_nostd_noalloc.rs`) | slice | read, write | a sink shorter than the buffer | partial write |
| `Empty`, `Sink`, `Repeat` | none | constant answers | - | - |
| `AllowStd`, `NotIo` | wrapped value | delegation | coherence, a question of types | - |
| clients in `flexible-io/tests` | position, what was read too much | skip by seek, buffer or bytes | strategies must agree, errors half-way | same position after each |

How they interact: the loops of `not-io` call a `Read`, `BufRead` or `Write`
of the caller and ask `Error` what its failures mean; `read_to_string` and
`read_line` are `append_to_string` around `read_to_end` and `read_until`; in
`flexible-io`, views and boxes are made from a wrapper and share its table, and
clients see only the view.

## 2. Modules

    ProvidedTraits            abstract: what a wrapper provides
        ^ implemented by
    FlexHandle                memory of flexible-io
        ^ extended by FlexReader and FlexWriter
    IoErrors -> WriteAll -> CopyLoop
    IoErrors -> ReadToEnd -> ReadToString  } both with Utf8Append
    IoErrors -> ReadUntil -> ReadLine      }
    ByteFile                  abstract: a file in memory
        ^ implemented by
    Slices -> Cursor
    Slices, IoErrors -> ReadExact -> TakeAdaptor
    Slices -> SkipClients
    *_proofs                  theorems about the module of that name (those
                              about FlexWriter are in FlexHandle_proofs)
    MC*                       values for TLC

**FlexHandle.** `mem` maps each place (a stack slot or heap cell) to what lives
there: a bare object, a `Reader`, a `&mut Reader<dyn Read>`, a view or a box. A
pointer is a record of address, type and trait; the last two stand for the
vtable. Each public operation is one action: `New`, `Set`, `GetMut`, `Unsize`,
`AsMut`, `IntoBoxed`, `IntoInner`; `Create`, `Move` and `Drop` are what the
language lets any program do. `holds` records borrows and ownership, and
`Usable` is the borrow checker: what is borrowed can be neither moved, changed
nor dropped until the borrower is gone. `Getter` and `BasePtr` are the pointers
the getters dereference. `id` is a history variable: it names the wrapper an
object is in, to say that a pointer leads to *this* handle's object.

**FlexReader, FlexWriter.** The traits of the table on each platform, and the
address each getter block starts from. Both are `FlexHandle` with those values.
`FlexWriter` has an operation for each one of `writer.rs`, and says in `IsWriter`
which values of the constants are the writer's.

**WriteAll, CopyLoop.** A step is one answer of the reader or the sink: some
bytes, none, an interruption, another error, or a count greater than the buffer
(which the safe trait permits, and on which the slice expression panics). Two
things are left out. A reader that says a number within the buffer and has
written less hands on what lay in the buffer before; `copy` cannot know, and no
property could hold it to account. A sink that takes bytes and then answers `Err`
breaks the contract of `write`, by which an error means that nothing was taken.

**ReadToEnd.** The vector with its length, capacity and guard. New room is
filled with `Zero`; a reader may leave `Junk` in room it does not report. Every
way out is `Leave`, which is the drop of the guard. As in `CopyLoop`, a count
within the slice is a true one.

**ReadUntil.** `fill_buf` and `consume` are separate steps, with the append
between them. The same vector may be passed again after an error or after Ok.

**Utf8Append** wraps either reader. Bytes are of three sorts, which suffice for
what the check distinguishes: whole characters, lead and continuation bytes.

**Slices.** The calls on `&[u8]` and `&mut [u8]`, as operators on sequences: a
slice has no state but itself.

**Cursor.** Bytes, a `u64` position, and the last call with its answer; one
action for each call, and for each way it can end. The conversions between
`u64`, `i64` and `usize` do what they do in the code, for widths given by
`Half` and `MaxUsize`. The allocator gives at most `MaxCap` bytes, so that
`vec_write` may fail to pad, or to grow after it has padded and overwritten.
`consume` adds without a check: the sum wraps or panics, as the build has it.
The program may reach the container itself and put any other in its place
(`GetMut`).

**ByteFile** has no widths, no padding and no slices: a write is a function of
the bytes before, a seek is possible when the integer sum is a position.

**ReadExact** is the loop of the trait, with the reader left open;
**TakeAdaptor** runs it over a `Take`, whose inner reader answers anything: also
a count that is too large, within the buffer it was lent or past its end. Its
client may also `consume` what it was not lent; the inner reader then goes on by
any amount up to what it is told, past what it has lent, too (a slice or a
cursor does), or panics, and it may panic over an honest `consume`, before it has
moved on, after, or halfway (`ConsumePanics`). A reader that is told to consume
nothing is taken to do nothing. `honest` is a history variable: both have kept to
their contracts so far. `got` is what the client was given, through whichever
call.

**SkipClients.** The two functions of `flexible-io/tests` for which the crate
exists. The traits that were set select the strategy, and more may be set
between two calls. A string that an error has interrupted is one string for the
calls that repeat it (`from`).

Operators named `X_Y` under a comment "Mutation" are wrong variants of `X`.
No specification uses them; putting one in the place of `X` shows that a
property notices.

## 3. Runs

| run | shows |
|---|---|
| `reader` | on Unix, getters of two readers stay sound and objects singly owned through every sequence of operations; the getters implement `ProvidedTraits` |
| `reader_windows` | *violated*: the getter blocks of `ReaderMut` for Windows (`reader.rs:441`) |
| `writer` | getters, owners and refinement for the writer, on Windows: sound there |
| `copy` | conservation (after a panic: the sink has a beginning of the source), exact count, retry, termination |
| `copy_no_std` | *violated*: without `std`, an interruption ends the copy (`impls_nostd.rs:10`) |
| `read_to_string` | `read_to_end` under `read_to_string`: only real bytes, truncation on every exit, room for every read, count, termination; the verdict matches what was read, and the reader's error comes first |
| `read_to_string_utf8` | *violated*: a String keeps bytes that are not UTF-8 after an error (`impls_alloc.rs:100`) |
| `read_line` | over repeated calls: each byte once, line after line, count and verdict of the right call; each call returns |
| `cursor` | `Cursor` implements `ByteFile`; a call that fails can be repeated |
| `cursor_slice` | *violated*: a write of more than a slice has room for panics (`impls_alloc.rs:29`) |
| `take` | limit, through panics of the inner reader too; order, `read_exact` all or an error, silence at the limit; `read_exact` returns |
| `skip` | each strategy passes exactly one string, or reads what lies behind the skip; the end of the stream is reported when it is met; each call returns |

**Bounds.** Four places hold the longest chain the operations can build (an
object's wrapper, an unsized borrow, a view of it) with one place to move to, or
two wrappers with two places to exchange and box. Two files make exchanges
possible, a value of another type makes a foreign vtable visible. The program
under study announces at most two traits of a type: the table's entries are
independent of each other. Places, wrappers and the two files are
interchangeable, and the properties mention none by name, so TLC uses their
symmetry (no liveness is checked there).

Sources of seven or five different bytes with buffers of three (`Take`: of three
bytes, with buffers of up to four) make the reader's and the sink's portions fall
across each other; as the bytes differ, any loss, repetition or exchange shows.
The vector of `read_to_end` starts at
every capacity from exactly full to the maximum of eight, which two growths
exhaust; `Reserve` is 2 where the code has 32.

The cursor has `u64` of four bits, `i64` likewise, and a `usize` of three, so
that half of the positions are no length; every position, offset and amount is
tried. Three bytes of capacity are passed by a gap, by an overwrite, and by the
rest of a buffer. `VIEW Memory` leaves `ret` out of what distinguishes states:
no action reads it, so states that differ in it alone have the same successors,
and action properties are evaluated on each step before states are compared.

The limits of `Take` are nothing, less than the source, more, and more than a
`usize` of 4; buffers may be empty, or longer than the source. The strings of
`skip` are longer than the buffer of three, empty, and without an end; the
skips end within the stream, at its end, behind it, and at the limits of `i64`
and `u64` (24, 25, 48 and 49, with `Half` 25 instead of 2^63: more than four
times the stream, so that no position near the limits is one within the stream).
The skip of 48 is one that seeks backwards within the stream, and then past its
end. No counter needs another bound.

**Fairness.** Only what lets a call end is assumed, and only of the other party:
a reader or sink that is asked again after each interruption answers in the end
with something else (strong fairness on `Answer` where the loop goes through
another step before it asks again; weak where it asks at once, as in
`TakeAdaptor` and `SkipClients`). It may fail, or stop early. The loop's own
steps are taken because the program runs. The code gives no such guarantee for a
reader that is interrupted forever or never ends; the calls then do not return,
by design.

## 4. Proofs

All for arbitrary constants, under the named assumptions of each module. Every
safety and action property of the passing runs is a theorem.

**FlexHandle_proofs.** `IInv` is `TypeOK /\ Chains /\ SingleOwner`.
`GettersSound` is not inductive: it speaks of usable handles only, and a handle
that is borrowed now is used again later, when its pointers must still be right.
`Chains` says it for all handles: what each kind of handle holds, that vtables
are those of the type of the object at the end of the chain, that a box leads to
its own heap cell. One lemma for each operation shows that it is kept.
`Located` then says which dereferences are sound, on every platform: exactly
those that start from the handle's own pointer, and none that starts from the
field of a view. `Sound` is the case without the latter (`FieldPtr = {}`), which
is every platform but Windows; what happens there the run `reader_windows` shows.

`Implements` is the refinement of `ProvidedTraits`. What the abstract variables
are is a question about all handles of a wrapper; `Summary` reduces it to one
cell, the *root* - the wrapper itself, or the box it became: every handle looks
at the root's table (`TableOfRoot`), some handle is usable as long as there is a
root (`TopExists`), and the stage is told by the root's kind and whether it is
held. This needs `IInv` and three facts more (`RInv`): a wrapper has at most one
root, handles have a wrapper, and a view's copy of the table is the one of what
it borrows. For each operation a lemma says which abstract step it is. Note that
nothing here needs `FieldPtr = {}`: on Windows the wrong pointers are handed out
for the right traits.

The theorems about the writer follow, for every platform: under `IsWriter` its
operations are those of `FlexHandle` (`WriterIsHandle`), and `FieldPtr` is empty.

**CopyLoop_proofs.** The promise about the count holds only at the head of the
loop. `InHand` says what holds within (`written + Len(buf) = Len(out) +
Len(rest)`), `InOrder` that sink, rest and reader make up the source, except
after a panic. `Beginning` is what remains then, an invariant of its own: the
step into a panic gives the sink nothing (`NothingInPanic`), and before it
`Beginning` follows from `InOrder`.

**ReadToEnd_proofs.** `Shape` locates the vector's length between the real part
and the capacity at each point of the loop, which is why the slice is never
empty; `Halves` says that the real part and the reader's rest are the two halves
of the source. `Outer` adds what `read_to_string` knows before and after its
reader has run; `TextTail` is why the check of the appended bytes is one of the
whole String, given that it was text before.

**ReadLine_proofs.** `Shape` relates the positions (where the call and the line
began, how far the String is ahead of the reader while `consume` is pending),
`Halves` is as above, and `Delims` says that among the bytes of the line at hand
the delimiter can be the last one only, and is there exactly when the line is
`done`.

**Cursor_proofs.** Each action of `Cursor` is shown to be a step of `ByteFile`
in a lemma of its own; the writes are compared byte by byte. `NewPosExact` is
the arithmetic of `seek`: the wrapping negation and the checked sum and
difference give exactly the integer sum when it is in `u64`, and nothing
otherwise, the smallest `i64` included.

**TakeAdaptor_proofs.** `PassStep` treats every way `consume` can go: what
matters is that the inner reader moves on by no more than the limit has gone down
by. `LimitHeld` and `InOrder` are inductive; `ExactOrError`
needs `Filled`: while `read_exact` runs, what it has filled are the last bytes
the client was given.

**SkipClients_proofs.** `StringByString` and `EndIsTheEnd` speak of calls that
are over. `StringPlace` says what leads there: between two fills no nul after
`from` has been passed, and before the seek back the first one has, by what is
in `over`. A call repeated after an error starts from the former. `SkipPlace`
relates position, `todo` and what was read (`Plain`: `pos + todo = from + want +
Len(rest)`). That is not the whole of it: a skip that is no `i64` seeks
backwards first (`TurnedBack`), if it can, and its second seek takes it past the
end (`Beyond`), where the right answer is nothing; that no such detour ends
within the stream is what `4 * Len(Source) < Half` is needed for.

**Loops.** Each loop has a theorem `Bounded`: a number of steps left
(`StepsLeft`; for `read_exact` simply `left`) is a natural number and becomes
smaller with every step but an interruption. This is the part of termination
that TLAPS can treat. It is about safety alone: no fairness is assumed, and the
numbers bound a call (`4n + 1` steps for a copy of `n` bytes, `2n + 2` for
`read_to_end` and for a call of `read_line`). For the clients it assumes `Half >
1`; with `Half` 1 a seek by the largest `i64` would not move.

**Slices_proofs** has the facts about cutting and joining sequences that the
proofs about readers, cursors, adaptors and clients cite, and `Least`: a set of
naturals has a least one, because they are well-founded, so that there is a
first delimiter and a first nul.

Only model-checked: that calls return, given the fairness above. `Bounded` leaves
two things to it, which TLAPS does not treat: that the other party answers, and
that its interruptions come to an end.

## 5. What the checks found

* `reader.rs:441`: `&that.inner` where the five other places have `that.inner`.
* `impls_nostd.rs:10`: interruptions are not recognised without `std`.
* `impls_alloc.rs:100`: `Utf8Guard` remembers a length and never truncates to it.
* `impls_alloc.rs:29`, `impls_nostd_noalloc.rs:42`: `copy_from_slice` with a
  shorter `head` panics where a partial write is meant.

A remark without a run: `motivation.rs:78` seeks by `skip as i64` where it has
just computed `offset`. A skip of 2^63 or more goes backwards, and the seek then
fails, with two exceptions. From a position near 2^63 it succeeds and lands at
the wrong place: `SkipsExactly` has the hypothesis for that. And when the skip is
no further from 2^64 than the reader is into the stream, the first seek goes back
within the stream, and the second one past its end or nowhere; the result, no
bytes or an error, is right, as the proof of `SkipsExactly` had to find out.

## 6. What is left

The loops over the adaptors: `copy` and `read_to_end` with a `Take` or a
`Cursor` for a reader. Both are readers whose answers the models of the loops
already allow.

Not modelled: delegating impls (`impl Read for Reader`, `AllowStd`, `NotIo`) and
`Empty`, `Sink`, `Repeat`, which keep no state and whose answers the loops'
readers and sinks already give; a vector as a sink (`impls_alloc.rs:38-47`), one
`extend_from_slice`; `Debug`, the conversions of errors from and to
`std::io::Error`, and the numbers in `IoReport`; aliasing rules below the level
of addresses (Stacked Borrows), provenance, and the layout of fat pointers,
which are the compiler's; lifetimes of borrowed data inside `R`; build files.
