# bedrock-protocol: TLA+ models, checks and proofs

bedrock-protocol is a compiler and a runtime. The compiler, `bpc`, reads
Minecraft Bedrock packet schemas written as Python modules and writes C++
headers in which every type that changes over the protocol's history has one
definition per shape and a selector that picks the definition for a protocol
version. The runtime is a small header-only library the generated code reads
and writes the wire with. This directory holds TLA+ models of the parts whose
correctness is hard to see from a test, the TLC configurations that check them,
and TLAPS proofs of what the checks show.

- [The system](#the-system)
- [What is modelled, and how](#what-is-modelled-and-how)
- [The runs](#the-runs)
- [Fairness](#fairness)
- [What is proved](#what-is-proved)
- [Where the code and its documentation disagree](#where-the-code-and-its-documentation-disagree)
- [What is only model-checked, and what is not modelled](#what-is-only-model-checked-and-what-is-not-modelled)
- [Plan](#plan)

## The system

Paths are relative to the repository root.

### The compiler (`src/bedrock_protocol/`)

| component | state | operations | what makes it correct |
|---|---|---|---|
| CLI driver: `cli.py` | none of its own | parse options, load the schema, ask the pool for each output, hand it to a backend | every output is built and rendered once |
| Importer: `compiler/importer.py` | `griffe_modules` (what is loaded, in order), a worklist, two name tables, `aliases_by_name` | `load_all`: open the sources, their owning packages, everything imports lead to; register types; parse aliases; parse declarations | what is loaded does not depend on the order a set iterates; an alias is usable wherever the language lets it be written |
| Parser: `compiler/parser.py` | the enum scope of the module being parsed | expressions to type trees, classes to `Struct`/`Enum`, redeclaration of a type over adjacent version ranges, classes nested in one | **a type means at every version what the class statement for that version says**: its members, numbers, fields and what they are encoded by |
| Descriptors: `descriptor.py` | immutable | change points, references, `present_at`, `fresh_snapshots`, `snapshots_of` | queries agree with the plan the pool wrote |
| Descriptor pool: `compiler/descriptor_pool.py` | `_built`, the memo of resolved files; per build: the set of versioned types, snapshot points and the plan `concrete[type][snapshot]` | `build_file` (recursive over imports), `find_file_by_name`, `_versioned_types`, `_snapshot_points`, `_plan_snapshots` | **every protocol version gets exactly one definition of a type, the one declared for it, built from the definitions its referenced types give the same version** |
| C++ backend: `compiler/cpp/` | a printer | `file.py` lays out namespaces, selectors, `packet_of` and aliases; `message.py`, `field.py`, `enum.py` write definitions and the `Serializer` bodies | selectors without gaps or overlaps; readers and writers mirror each other |
| Output: `code_generator.py`, `registry.py`, `cmake/BedrockProtocol.cmake` | files | write one header per schema file; one `bpc` process per file | - |

### The runtime (`include/bedrock/protocol/`)

| component | state | operations | what makes it correct |
|---|---|---|---|
| Binary stream: `stream.hpp` | a buffer; a read position | fixed-width integers, varints (zigzag for signed types), strings, raw bytes | what is written is read back and nothing after it is touched; what is cut short is an error |
| Bitset: `detail/bitset.hpp` | none | a base-128 dump of a `std::bitset<N>` | as above, for any N; no bit beyond N is accepted |
| NBT: `nbt.hpp` | a tag tree | calls that build and change it through references, and their codec | a list keeps to one type; a tree is read back; bytes that are accepted make a tree that can be written |
| Data store: `data_store.hpp` | none | a hand-written codec of a recursive value | a value is read back; whatever is accepted is written and read back |
| Enum and reflection, serializer and packet templates: `enum.hpp`, `detail/reflect.hpp`, `serializer.hpp`, `packet.hpp`, `uuid.hpp` | none | compile-time name tables, primary templates | - |

### The schema (`protocol/*.py`)

44 declarative modules, the compiler's input. Its import graph has no cycle
today and every type is written `since=`/`until=` by hand. What makes it correct
is said in two places far apart more than once: a field and what it names must be
in force at the same versions, a packet and its enumerator must have one id and
one range.

### How they interact

`cli.main` calls `Importer.load_all`, which returns a `FileSet`; it makes one
`DescriptorPool` over that and asks `build_file` for every output in turn. A
build asks the pool for its imports first (recursion, cut at a file already
being built), and while planning reads what the pool holds for them. A
backend then reads the `ResolvedFile` and, through it, the resolved imports.
Everything runs on one thread; the hard part is not concurrency between
threads but *order*: which file is asked for first, in which order a set of
imports iterates, which snapshot a type was last defined at, which enum a field
found when it was re-bound. The runtime has no threads either: its hard part is
that items follow one another on the wire without lengths, so that a reader
that takes one byte too many or too few goes wrong far away from its mistake.

The hazards list of `PROJECT.json` names, line by line, what can go wrong and
which property would show it.

## What is modelled, and how

| module | models | kind |
|---|---|---|
| `Schema` | `descriptor.py`: files, declarations, lifetimes, change points, references; and what a schema *means* at a version, independently of any build | operators |
| `Selectors` | `compiler/cpp/file.py`: which definition a selector, `packet_of` or a type alias answers with, given a resolved file | operators |
| `PoolContract` | what the pool promises the backends | abstract specification |
| `DescriptorPool` | `compiler/descriptor_pool.py`, every step of `build_file` | state machine |
| `PoolRefinement` | how the one implements the other: for which schemas, and what the planning loops keep true on the way; the type aliases of `compiler/cpp/file.py` against their types' selectors | refinement |
| `Importer` | `compiler/importer.py`, `Importer.load_all` | state machine |
| `Declarations` | the class statements of a schema, as the importer hands them to the parser | constructors |
| `Parser` | `compiler/parser.py`: names, ranges and numbers; and what `_snapshot_view` makes of a parsed type at a version | state machine |
| `ProtocolActors`, `ProtocolItems`, `ProtocolWorld`, `ProtocolGame`, `ProtocolSession` | `protocol/*.py`, all 44 modules | data |
| `Stream` | `stream.hpp`'s varints and the two halves of `detail/bitset.hpp` | state machine |
| `FieldCodec` | `compiler/cpp/field.py`: what the generated reader and writer of each kind of field do; `render_predicate`; the name-coded enum of `compiler/cpp/enum.py` | operators |
| `Primitives` | `stream.hpp`'s fixed-width integers and its bounds check, for the three codecs | operators |
| `DataStore` | `data_store.hpp`: `Serializer<DynamicValue>` | operators |
| `NbtTree` | `nbt.hpp`: tags, references to them and the calls on both | state machine |
| `Nbt` | `nbt.hpp`: `Serializer<CompoundTag>`, writing and reading such a tree | state machine over `NbtTree` |
| `Message` | `compiler/cpp/message.py`: the generated `serialize` and `deserialize` of a struct, guard blocks included | state machine over any field codec |
| `MC...` | the instances TLC checks and the documented claims that fail | |
| `Induction` | induction over sets of numbers, in a form the provers can use | lemmas |
| `..._proofs` | the theorems | |

A definition named `X_Something` beside a definition `X` is `X` with a
plausible mistake in it, kept to show that the properties notice.

### Schema, Selectors

A schema is `[imports, decl]`. A declaration has a home file, a kind, a version
range and *parts*: enum members or field versions, each with its own range. A
part's `shape` stands for an enumerator's number or a field's type tree, `refs`
for the types the tree names, `follows` for the enums whose numbering decides
how the field is encoded. Versions are `0 .. Open-1`; a missing `since=` is 0,
a missing `until=` is `Open`. An explicit `since=0` is therefore the same as
none, and `Open` is one past the last version that exists.

`Moving(sch)` is the *meaning* of "this type changes": the least set holding
every type with a change point and every struct that references a member.
`DeclaredShape(sch, t, v)` is the shape the other end of the wire uses at `v`.
Neither mentions the pool. `Selected`, `Defined`, `SpelledAt`, `PacketResolves`
and the alias operators translate what the backend derives from a
`ResolvedFile`; `present_at`'s range `[lo, next snapshot)` is `ViewAt`.

### DescriptorPool

| code | model |
|---|---|
| `_built` | `built` |
| the Python call stack of `build_file`/`_build`, with `deeper` and the rest of the import loop | `stack` of `[file, deeper, left]` |
| `main`'s loop over the outputs | `OutputFromMemo`, `OutputBuild` |
| `if imp not in deeper: self.build_file(imp)` | `SkipImport`, `EnterImport` |
| `_versioned_types` | `Classify` (seed), `Spread` (one addition), and the guard of `LayOut` (closed) |
| `_snapshot_points` | `LayOut` |
| `_topo_order` and the outer loop of `_plan_snapshots` | `PlanType` |
| the inner loop: absent, fresh, reused | `SkipAbsent`, `Define`, `Share` |
| `dep_concrete`, `present_at`, `snapshots_of` | `DepConcrete`, `ImportedConcrete`, `Covering`, `BuiltVisible` |
| `_module_underlyings`, `_module_members`, `_rebind`, `_snapshot_view`'s key | `KnownEnums`, `Followed`, `Key` |
| the memo write and the return | `Seal` |

Abstractions. Nested declarations and `auto()` renumbering are folded into the
parts of a module-scope declaration; `Parser` has them in full. The order in which a fixpoint loop scans
and the ties of a topological sort are left open, so the result holds for any.
A type with one definition only ("unversioned") carries no plan, as in the
code. The two flavours of version gate the backend writes differ in spelling
and not in behaviour, and are not told apart.

`PoolContract` has one action: a file goes from unresolved to resolved, once,
after its imports, to a record that is *faithful*: it splits exactly the types
that move; each selector answers each declared version with exactly one
definition and no other version; the definition answered is the declared shape
for that version; a reference inside it is spelled with the definition the
referenced type's own selector gives the same version; no definition is
redundant; `packet_of` answers exactly the declared versions.

### Importer

`loaded` is the insertion-ordered key list of `griffe_modules`, `pending` the
worklist of `_follow_imports` (popped from its end), `deps` what is left of the
set `_imports_of` returned, taken in any order. Registering types is part of
the step that begins the alias pass, since nothing reads that table before it
is full. An alias is its name, its line and the aliases its right-hand side
mentions. Parsing text, `__version__` and the griffe visitors are left out.

### Declarations, Parser, the schema

| code | model |
|---|---|
| the modules of a `FileSet` with `declarations_of` each, and the `SymbolTable` | `schema`: `modules`, and the `table` that `Loaded` makes of them |
| the loops of `load_all` and `parse_file` | `place`, `NextGroup`, `NextModule`, `Finish` |
| `enum(decls)`, `struct(decls)` | `Begin`; `NextRange`, `RangesTile` (`_check_redeclaration`); `ParseBody`, one body each |
| `values`, `fields` | `parsed` |
| a `CompilerError` | `Reject`, one disjunct for each place it comes from |
| `_nested`: repeats collapse, or take their owner's ranges | `Written`, `Bodies`, `Inherited`, `Spans` |
| `_enum_number`, `_derived_number`; `_renumber` | `NumbersOf`; `Renumbered` |
| `lookup`, `_check_flavour`, `_enum_member` | `Lookup`, `FlavourParses`, `Constant` |
| `_snapshot_view`, `_rebind`, `underlying_at`, `_present_at` | `EnumView`, `StructView`, `FieldView`, `BaseAt`, `PresentAt` |

A body keeps its range, its packet id, its second base and its items; an item its
gate and what it names. Neighbouring members that no one names are one item with
a count, and plain ungated fields, which nothing here is about, are left out of
the schema's data. Which primitive, list, map or union a field is, and what an
expression does with the fields it reads, is not kept: `FieldCodec` has that.
A group is parsed when it is met, where the importer parses the enums of all
modules first and `_nested` a class's own before the class; that nothing
depends on the difference is why the numbers a width needs are `AllParts` of the
enum and not of what was parsed so far.

What a schema *means* is `BodiesFor`: the class statements that say, with every
class they are nested in, that they are for the version, each numbered as if it
stood alone. No range is tightened, collapsed or renumbered there.

### Stream

A word is the set of positions of its one bits, and a byte on the wire is
`[bits : SUBSET (0..6), more : BOOLEAN]`: seven payload bits and the top bit.
So a byte is a byte and the groups are groups of seven, at every width. One
item is written, behind whatever the buffer already held, one loop round an
action (`WriteGroup`; `SkipZero`, `BeginDump`, `DumpGroup` for the bitset);
then it arrives whole with something behind it, or cut anywhere (`Arrive`,
`Cut`: the transport, not part of the repository); then it is read, again one
loop round an action. A run may also start from bytes of any other origin. `acc`
is the reader's `value`/`out`, `pos` the read position, `status` the returned
error code. The settable read pointer, fixed-width and string items are left
out.

### FieldCodec, DataStore, Message

`Message` is the code `message.py` generates for one struct. A frame of it is
written field by field (`WriteField`, `Written`), arrives whole or cut
(`Arrive`, `Cut`), or is foreign from the start, and is read field by field
(`SkipField`, `ReadField`, `ReadFails`, `ReadEnds`).

| code | model |
|---|---|
| `value`, `out`, the stream | `value`, `out`, `wire`, `frame` and `pos` |
| which fields there are in the view at hand | `Fields`, of the struct `msg` |
| `_groups`, and the one `if` round a group | `GoesOn`, `Enters`, and `open`: whether the group's `if` was taken |
| `T out{}` | `Fresh` |
| `if (!v) return std::unexpected(v.error())` | `ReadFails`, with the code in `status` |

What a field does is left to constant operators (`Put`, `Take`, `Lets`,
`Initial`, `Carries`, and `Canonical`: whether a value has one spelling only), so that the struct level can be proved about for any
field language; `FieldCodec` is the language of `field.py`, and the `.cfg` files
put the two together. A writer is an operator from a value to bytes, a reader
one from `[status, pos, value]` to the same: the status it returned, the
position, and what its *target* holds, since where a reader leaves its target
alone, and where it reads over one that holds something, is where generated code
goes wrong.

Abstractions. A byte has `Base` values, and integers the width of so many bytes,
signed or not, in either order; a varint is one more width, since its bytes are
`Stream`'s subject. A string is a list of bytes. A name is one byte, the empty
name 0, and an enum the table of spellings `enum_cast` takes, those that differ
in case included; an enum coded as a number is a number. A predicate's
arithmetic wraps where an operand is unsigned and at least as wide as `int`.
Types whose generated code does not compile (an optional in a list, array or
map in an optional: see `optionals` below) are not types here.

`Fits` says what the wire can carry of a type: a number its wire width holds, a
list its prefix can count or the count expression names, an array of its size, a
variant whose index the tag holds, and, of a field its guard leaves out, what a
reader's fresh struct has. *The code checks none of this*: a writer takes any
value and reports nothing. In particular the writer of a `count=` list writes the
elements it holds and never evaluates the expression, though
`protocol/__init__.py` (152) and `descriptor.py` say that both sides do. And a
field under `when=`, which `protocol/__init__.py` (124) says "compiles to an
optional", is a bare member, so a struct does not say whether it was there.

`DataStore` is the one hand-written codec a field may have among these: null, a
scalar (all scalar types as one, of a byte), an array and an object, each with
its type byte. The names of an object are a byte each.

### Nbt

| code | model |
|---|---|
| a `CompoundTag` and all the tags in it | `root` |
| a `Tag &` the client holds | the way to it from the root: the names and indices in order, each with the tag it leads to (`References`) |
| what a call leaves in the tag it is made on, seen from the root | `With` |
| `Tag::emplace_back`, `ListTag::emplace_back`, `push_back` | `EmplaceBack` |
| `Tag::emplace`, `CompoundTag::emplace`, `try_emplace`, `insert`; `operator[](key)`; `insert_or_assign` | `Emplace`; `Subscript`; `InsertOrAssign` |
| `*it = t`, `at(k) = t`, `get<T>() = t` | `Assign` |
| `clear`, `erase`, `merge` | `Clear`, `EraseElement`, `EraseEntry`, `Merge` |
| `writeTag`, `writeNamedTag`, `readTag`, `readNamedTag`, `Serializer` | operators of the same names, `Serialize`, `Deserialize` |

A call that throws is a call here: it leaves the tree, except that an End tag
has by then become the empty container that was asked for. `merge` goes through the
source in the order of its names while it inserts: where a compound is merged into
one of its own descendants, the entry that holds the descendant is copied with the
entries that were merged before it (`Met`). `retyped` remembers
that an element of a list was assigned a tag of another type, which nothing in
the class prevents. Three things about the class come out of the model, and are
hypotheses of its properties. Reading `c["x"]` inserts an End tag under `x`, and
the writer writes that as the bare byte that ends the compound: what follows in
it is lost, and what was to be read next is read from its remains (`Closed`). A
list "whose type every later element must match" is mixed after an assignment
through a reference, and its elements are then read as another type
(`retyped`). And `clear` forgets the type of a list, which the next element
sets anew, while `erase` of all elements keeps it. Left out: `swap`, the elements
of an array one by one, and `operator[](index)` on an End tag, which makes an
empty list and indexes it.

Neither module uses a recursive operator, so that both can be proved about. A
tree's bytes are a function over the references into it, from the leaves up
(`Payloads`): what `writeTag` puts down for a tag is made of what it puts down for
the tag's parts. The readers of one frame are a function too (`Readers`): what
becomes of reading `n` payloads of a type from a position on, which is `n` calls
of `readTag` one after the other and stops where one fails. A compound is an entry
and, behind it, the rest of the compound, in which a name that has come before is
passed over: the loop of `readTag` with `emplace`, read from its end. A function over
references needs an end, so trees are at most `MaxDepth` deep (`Shallow`): calls that
would go further are not in the model, and of a deeper tree that was read
`AcceptedIsStable` says the first half only. `MaxDepth` is any number. In `Nbt` a step on the tree is
`Build`, which is `Calls` of `NbtTree` and nothing else, and the other steps leave
the tree: `Building` is what its `Spec` says of `tree`.

## The runs

All are exhaustive over the stated instance; no state constraint is used.

| run | instance | shows |
|---|---|---|
| `any_graph` | three files, four types, four versions; *every* import graph of the three files under which the references are visible, cycles included; three orders of outputs | the recursion is bounded and loses no import, a descriptor never changes, nothing is split in vain, every output is built |
| `acyclic` | the acyclic graphs, under every combination of: an enum that never moves, gains a member, is renumbered, or loses a member and takes it back; a struct encoded by it, with or without a lifetime and a change of its own; two structs over that one, in other files | plans share what they should and no more (`PlansKept`); the pool implements `PoolContract`; aliases agree with the selectors of their types |
| `astray` | one schema with an import cycle, an enumerator that is spelled another way and a field typed by an imported alias | each hands a version the definition of another (below) |
| `schema` | the repository's own 44 modules at every version they mention, before the first and after the last; and 585 small schemas: a name declared two and three times over any ranges, with gates inside; an owner of nested classes redeclared, its classes repeated or not, with ranges of their own or none; an enum's members, numbers and underlying type moving under another module's widths, constants and fields; a nested enum and a module's of one name; every kind of name that is not there | at most one body is in force and none is missing; what the pool makes of a type is what the schema means, at every version; whatever the schema names is in force where it is named; its packet ids are `MinecraftPacketIds`' |
| `views` | one schema of four declarations | what `ViewsMeant` leaves out does go wrong (below) |
| `importer` | a package, two modules in it, a module outside and a name not on disk; 192 import graphs, cycles included, by three lists of sources | the load ends, and loads the same modules in whatever order imports come |
| `owner_imports`, `alias_order` | the same; two small trees | two documented claims that do not hold |
| `codec` | seven structs: a dynamic value of up to two levels before a number; two blocks and a field guarded by a field of a block; two computed lengths, one in an optional and one that wraps below zero; a signed length prefix, an enum with two spellings of a name; a map of optionals; a variant with an empty case, and with a struct with a guard of its own, before a literal; numbers narrower in memory than on the wire and the other way, and an array of big-endian ones. Every value the wire can carry at four values a byte and lists up to two, and every enumerator without a name, whole with two endings and cut at every place; and all frames of up to five bytes | reader and writer in step at every field; every field's codec does what the proofs assume of it (`FieldsKeepTheirWord`); round trip; refusal of every cut; that what is accepted of any bytes fits and is stable, and is canonical where a type has one spelling; that an unnamed enumerator is refused where it stands |
| `optionals` | a struct of an optional of an optional and a map of optionals, one value | both are written and not read back |
| `nbt` | two names, five tags to give a call, lists of up to two, every sequence of four calls through any reference; the tree whole, and cut at every place; and every frame of a compound's head with up to five bytes, six values a byte | lists keep to one type, the tree comes back, a cut tree is refused, accepted bytes are stable |
| `stream` | an 8-bit varint, signed and unsigned, with all 256 values; a bitset of nine with all 512; anything already in the buffer or behind the item; and all runs of up to three bytes of seven forms read as either | round trip, refusal of a cut item, shortest form, and what a reader answers to any bytes |

Why the bounds are enough. The schema is checked as it is, so for it there is no
bound. Of the small schemas the ranges have every order of four points, the
gates every position towards them. A snapshot plan goes wrong between neighbours, at a
shape that returns, or across one file boundary too many: four versions give a
shape three changes and a return, three files give a change two imports away
and every cycle shape, and four types give a chain of three references and a
second reader of the same change. An 8-bit varint already has a last byte with
room for six bits too many and a bitset of nine one for five; three bytes are
one more than either may take. A struct of the codec has at most five fields,
which is a field before a block, two in it, one in the next and one behind; a
frame of five bytes holds each of them but its fullest values, and a list or map
whose count says more than there is. Four calls on a tree make a list, give it a
first and a second element and change one, or two compounds with a name in
common and merge them; six byte values are the five kinds of tag, one that is
none, and the negative counts. A tree is up to eight tags deep
(`MaxDepth`), as deep as four calls get, each but the first merging the root into
its own innermost compound. Widths and sizes that are multiples of seven
and real ones (32, 64, 65) are covered by the proofs, which hold for all.

Deadlock is checked in every run; a finished run stutters in `Done`.

## Fairness

`DescriptorPool` and `Importer` assume `WF_vars(Next)`: `bpc` is one thread that
runs until it returns, so it never stops while a step is left. Nothing stronger
is assumed: which type is planned first, and in which order imports come, stays
open, and the two liveness properties (`EveryOutputBuilt`, `LoadEnds`) hold for
every such choice. `Stream` states no liveness: that its loops end within
`MaxBytes` rounds is part of `ReadContract`. `Message` and `Nbt` state none: the one
takes one step for each field, in a fixed list, the other's steps are calls.

## What is proved

Every theorem holds for all values of the constants, under the assumptions
named in the modules that declare them: that schemas and source trees are well
formed (`SchemasAssumption`, `TreesAssumption`, `SourcesAssumption`: a name has a
class statement, a `since=` is a number), that there is at least one
version, that sizes are positive and that buffers hold bytes.

**Descriptor pool** (`DescriptorPool_proofs`). `TypeCorrect` by one lemma per
kind of step. `RecursionInv` is the invariant of the recursion: `deeper` is the
set of files on the stack down to the frame, all linked by imports
(`DeeperIsChain`); no import of a frame is lost, for it is ahead in the loop,
built, or being built (`ImportsAccounted`); and a built file lacks an import
only while that import is still on the stack (`LacksOnlyActive`). The last
conjunct is what makes it inductive: a file that returns leaves the stack, and
only because everything that lacked it is further in, and is sealed before it,
does the claim survive. From it: the recursion never re-enters a file
(`RecursionBounded`), and whenever the pool is idle every import of a built file
is built, cycles included (`LookupsFind`). `MemoIsFinal` is an action property
of the same invariant. If imports are acyclic, every import is built before its
importer is planned (`ImportsFirstWhenAcyclic`). `SplitsOnlyMoving` holds on any
graph: what is split moves. The converse, `SplitsEveryMoving`, assumes acyclic
imports and that references lie within what imports lead to; its invariant
(`ClassificationInv`, a theorem of its own: `ClassifiedFileByFile`) says a
file's set is closed under its own references and holds its imports' sets, and the proof shows that the union over all files is
then closed, so that `Moving`, the least such set, is inside it.
`SharingIsSound`: comparing a snapshot with its *neighbour* only is enough for
it to agree with the definition it shares, however many snapshots back that is.
The invariant `PlanInv` adds that a type is planned after the types it
references, so that what it was compared against does not change under it.

**Refinement** (`PoolRefinement_proofs`). `PoolKeepsContract`: for every set of
schemas whose imports are acyclic and whose names are imported where they are
used (`WellScoped`), `Spec => KeepsContract`; `astray` has a schema outside
each hypothesis, and what goes wrong there. Every step but `Seal` leaves
`built` alone and is a stutter of the contract. `Seal` resolves a file, and
that its record is *faithful* is the argument. It rests on `PlansComplete`, which
says where the definitions of a plan are, and `SharingIsSound`, which says what
they hold. `PlansKept` is the strengthening that makes the first inductive: a
snapshot is given the last definition made up to it (`LatestDefined`), a plan
has a snapshot at every version at which its type or anything its file
imports changes (`BuiltPlansKept`, by induction along the imports), and a
definition is made only where its key or a dependency's namespace differs from the
snapshot before (`NewShape`). A version `v` is then answered through the last
snapshot up to it: nothing changes between the two, so the definition is the
declared shape at `v`, and since the snapshots of an imported file are among the
importer's, the namespace a reference is spelled with at the snapshot is
the one the referenced type's own selector gives `v`. No definition is redundant
because `NewShape` compares with the neighbour and a neighbour shares the
definition before. `AliasesFollow` is about what the alias plan does with such
plans: an alias shares the first snapshot with the same spellings, adjacent or
not, and this is safe because the definitions a type answers with never decrease
from one snapshot to the next (`SpellingsDoNotReturn`).

**Importer** (`Importer_proofs`). `WorklistInv` accounts for every source,
package and import at each point of the three loops: already loaded, or still
ahead. With `Loaded \subseteq Expected` it gives `LoadIsDetermined`: the loaded
set is the least one closed under the imports of everything but mere owners,
which does not mention an order.

**Parser** (`Parser_proofs`). `TypeCorrect` and `OneBody`, whatever the schema: if
class statements end after they begin, what the parser accepts has no gap
between two bodies, the members or fields in force at a version stand in one
body, and they are all that this body has in force there, in its order: nothing
is dropped or counted twice. Three invariants carry it. `PassInv` says of each
parsed item that its range lies in its body's (`PartsLie`, from `Tighten`).
`TilingInv` says of the first `at` ranges that each ends before the later ones
begin and that none of the versions between the first and the last is left out;
`_check_redeclaration` only ever compares neighbours, so this grows by one range a
step (`TiledNext`), and the hypothesis that a range is not backwards is used
there and needed, as `views` shows. `SeenInv` is what is left to say of the
versions no body has been parsed for: nothing is seen there yet. A body that is
added is seen at its own versions only (`PartsShow`), and those are no other
body's (`TiledApart`).

`EnumsMeant` is the part of `ViewsMeant` that can be proved: for every version, the
members the pool sees of an enum, renumbered, have the numbers that the class
statement for that version gives when it is read alone, up to the first member
written against a sibling; behind one they may come apart, as `views` shows. So
the two places that count `auto()`, `_enum_number` over a whole body and `_renumber`
over the members of one version, agree (`NumberedAlone`). Each is a recursive
function, `_enum_number`'s over all members above; that there are such functions
(`NumbersUnfold`, `RenumberedUnfolds`) is where it is needed that members are
written against earlier ones (`MembersParse`, kept by `PartsInv`). Its two premises
are that class statements end after they begin, and that what is in force of one
at the version parses by itself: a sibling that is gated out leaves no meaning to
compare with.

**Stream** (`Stream_proofs`). Words of any width are sets of naturals, so that
`Low(From(w, n))` and `Shift(From(w, n)) = From(w, n + 1)` need only linear
arithmetic, and zigzag is undone by case on the sign bit (`ZigZagUndone`).
`StreamInv` says that the bytes so far are the first of the dump and another
follows just when a bit is left (`WriterInv`); that what arrives is the dump or
a beginning of it (`ArrivalInv`); and that the reader has put together the bits
of the bytes it passed, all of which said that another follows (`ReaderInv`).
`ReadContract` follows at the returns. `RoundTripHolds`, `CutIsRefused` and
`ShortestHolds` are then about two facts only: which byte of a dump is the last
(`DumpLength`), and that a dump denotes the word (`EmittedDenoted`).

**Message** (`Message_proofs`). Here the field language is a constant, and what is
proved is the struct level: *if* guards look back only (`GuardsLookBack`, which
`protocol/__init__.py` demands and the parser's predicates are written under)
and each field's reader mirrors its writer (`CodecsMirror`: of all of a field's
bytes it makes the value and goes to their end, of part of them it makes
`message_size`), then so does the struct's: `ReaderInStep`, `StructsRoundTrip` and
`CutItemsAreRefused`, for any number of fields, any guards and any blocks.
`TypeCorrect` needs neither hypothesis. The argument: `WireInv` says where in the
bytes each field lies (`Laid`) and what of them arrived; a reader that agrees
with the writer on the fields before (`InStep`) decides the next field's guard,
or that the open block goes on, as the writer did (`ReaderDecides`), so it
stands before that field's bytes when `CodecsMirror` is applied. A field the
guard leaves out is why `Carried` asks for the initial value there: nothing else
could be read back. That struct types satisfy `CodecsMirror` themselves, which
closes the induction over nesting, is `StructsRoundTrip` and `CutItemsAreRefused`
again; that the other fields do is what `codec` checks of every field every
reader reaches (`FieldsKeepTheirWord`), and what `optionals` refutes for two.

Of a frame of any origin, `AcceptedStructsAreCarried` says that what a reader
accepts is a struct the wire can carry, and `AcceptedBytesAreWritten` that, where
the fields have one spelling each, the bytes it passed are those a writer of that
struct puts down. The hypotheses are `GuardsLookBack`, the same of a computed
length (`CarriesLookBack`), and that each field's reader makes of any bytes only
a value that can be carried, in its one spelling if it has one (`CodecsAnswer`).
`WriterAndReaderKept` puts all of it together, under all four hypotheses.
The invariant is `ReadSoFar`: the fields read so far are carried and spell the
bytes passed so far, and the others are as in a fresh struct. Reading a field
changes what the struct holds under an earlier guard's eyes only if that guard
looks ahead, which is where the first two hypotheses are used. A spelling is a
`FlattenSeq`, which the community module defines by choosing a recursive
function; that it is the concatenation it is meant to be (`FlattenUnfolds`)
follows from `UnfoldingsExist` in `Induction`.

**NBT** (`Nbt_proofs`). All three properties, for any width of a byte that has room
for the types (`TypesAssumption`), any names, any number of calls and any depth, if
what calls are given is itself a tree of even lists (`ArgumentsAssumption`) and no
list is longer than its signed count can say (`SizeAssumption`).

`ListsStayUniform`. Of the lists in a tree nothing can be proved by induction over
the tree, which is data; the invariant (`TreeInv`) says instead that the tree is a
member of some *family*, a set of tags that holds the parts of its members, and
that as long as no element was retyped there is a family of even tags. A reference
then stays in the family, because each of its steps does (`ReferencesWithin`). A call
replaces one tag and so every tag around it, and these are put into the family
one by one from the inside (`WithStays`): replacing a part of an even tag keeps it
even if the part was in a compound, or kept its type (`PartReplaced`). Every call
but an assignment keeps the type of what it finds, unless it finds End, and in a
list it never does (`ElementIsNoEnd`): this is where `CanHold` refusing End is
needed beside its refusing a second type. What else a call leaves is one lemma
for each (`PushedFits`, `ErasedFits`, `EmptiedFits`, `Emplaced`, `EntriesFit`, and
`MetFits`: what `merge` goes through is of a family too, even if it changes on the way).

`WrittenIsReadBack` and `AcceptedIsReadBack` rest on `TreeInv` and on `FrameInv`, which
says what arrived is all of what is written of the tree, or a beginning of it, or
some frame, and what the reader made is `Deserialize` of it. So they come down to
three facts about `Serialize` and `Deserialize`, and each is an induction over
numbers, not over trees:

- *Whatever is accepted is a tree* (`DeserializeGood`). A payload that is read is of
  its type, its lists even, its entries closed, and it ends in the frame. By
  induction on what is left of the frame and then on how many tags are to be read
  of it (`ByRemaining`): every call of a reader by another is further on, or where it
  was with one tag fewer, for a type and a name have been read or a tag of the count. By the
  same induction there is such a function as `Readers` in the first place
  (`ReadersExist`, which glues together what is so far defined), and that it is the
  one of the definition is what everything else uses (`ReadersRead`).
- *A frame and its beginning are read alike* (`DeserializeCut`, from `ReadersAlike`): what
  the whole frame makes, reading stops in the beginning with the stream's error, or
  makes the same and ends before the cut. An item that ends with its frame is therefore
  refused wherever it is cut: `nbt.hpp` asks for every byte it needs, and asks for
  nothing behind.
- *What is written is read back* (`FrameBack`, from `TreeBack`). From the leaves
  (`FromTheLeaves`: a reference at `MaxDepth` has no parts, and one at `n` is reached
  when those at `n + 1` have been): if the parts of a tag are read back from wherever
  their bytes lie, so is the tag (`TagBack`, one lemma for each type). A list is read back
  element by element, from its last (`SequenceRead`); a compound from its greatest
  name down (`CompoundBack`), since `std::map` wrote the names in order, and there each name is
  new. A count is one because a list is short enough, and this is where
  `SizeAssumption` is needed; a name's tag is not taken for the end of the compound
  because it is closed.

`ReadBack` has `Closed` and `Uniform` as premises, and `AcceptedIsStable` needs neither:
whatever the reader makes has both (`WholeThroughout`).

The lemmas are about a compound wherever in a frame it stands, and so there is more to
say than the runs ask: `CompoundFieldsMirror` and `CompoundFieldsAnswer` are, for a
field of type `CompoundTag`, what the struct-level theorems suppose of every field
(`Mirrors`, and `Answers` but for the spelling, of which a tree has several). They
are stated of any tree, by itself, and not of `Spec`. `NumbersComeBack` is about
`Primitives`, which all codecs here use: that the digits a writer puts down add up to
the number again, modulo the width's capacity, for any number of bytes (`SumsAre`, by
induction on the digits, from `NextDigit`), in either order (`OrderedTwice`), and that
the cast of what the width has is the same (`CastKeeps`).

`Induction` gives what these proofs need of the natural numbers. The library
states induction for any *predicate*, which no prover at hand can instantiate;
stated for any *set of numbers* it is first-order, and follows from the
library's least-element principle (`LeastNumber`, `SetInduction`, `GreatestUpTo`).
So does definition by recursion, with the step given as a function
(`UnfoldingsExist`, and `SequencesGrow` where a value depends on all before it).
Where a function is recursive over something else than numbers, as `Readers` over
tasks and `Payloads` over references, that it exists is proved where it is used.

Liveness under fairness, `ENABLED` and what `RECURSIVE` operators compute are out
of the provers' reach and stay with TLC.

## Where the code and its documentation disagree

1. `astray`, its cycle. `find_file_by_name` documents that "a file's imports are
   always built before it". Inside an import cycle the inner file is classified
   and planned without the file that is being built around it, and the result
   depends on which output is asked for first. The schema has no cycle today;
   nothing rejects one.
2. `astray`, its enumerator. The identity key of an enum snapshot is its members'
   names and numbers. A member that only changes its wire spelling at a version
   keeps its old spelling after it.
3. `astray`, its alias. A field typed by a type alias follows enums the file's
   direct imports declare. If the alias's module imports the enum from a third
   one, the field keeps the encoding that was parsed when the enum moves.
4. `owner_imports`. `load_all` documents "every source file plus its transitive
   imports". A package opened because it owns a source is never put on the
   worklist, so what it imports is not loaded, even if the source imports from
   the package.
5. `alias_order`. "Declaration order is the resolution order" of aliases. The
   pass takes attributes before `type` statements, and modules in load order,
   which follows a set's iteration; an alias over one not met yet is dropped.
6. `optionals`. `depth` "disambiguates the loop / temporary names of nested
   combinators", but the optional's `staged` does not carry it. Where the payload
   is an optional too (only an alias can say so), the inner `staged` is moved
   into itself and the outer optional holds an empty payload.
7. `optionals`, its map. A `dict` is "a length prefix followed by that many key/value
   pairs", but a value that is an absent optional never evaluates the
   `target[key]` it is to be read into, and the entry is gone.
8. `views`, its ranges. "Redeclarations must tile one range [...] Anything else
   silently drops or double-counts a shape at some snapshot." `since` is never
   compared with the `until` of one declaration, so `[0, 776)`, `[776, 766)`,
   `[766, ...)` is accepted and the first and the third are both in force at 770.
9. `views`, its sentinel. `_module_members` gives "every module-scope enum's member
   values at `snapshot`". Of a member written against a count (`LATEST = COUNT - 1`)
   it gives what it was over all members, while `auto()` is counted again at every
   snapshot: a width or a constant by such a member freezes. The generated
   enumerator does not, for `enum.py` writes the arithmetic out again.
10. `views`, its nested struct. "This snapshot's numbering it has to follow" does
    not reach a struct in a struct whose width names an enum of the owner: the
    inner one is narrowed with the module's maps only.
11. `views`, its constant. "The constant and the member it stands in for encode
    alike", until the enum's underlying type moves: `_rebind` renews the value of a
    `Literal[Enum.MEMBER]` and leaves its wire.

The schema as it stands meets the ninth only, in `MolangVersion` and
`CurrentCmdVersion`, where no width or constant names the derived member; that it
meets none of the others is `ViewsMeant`.

## What is only model-checked, and what is not modelled

Checked and not proved: the two liveness properties; that a struct read from foreign bytes is
read back when it is written again (`AcceptedIsStable`), and what becomes of unnamed enumerators; the field codecs under them and
`DataStore`, which are recursive operators over types of any nesting; of `ViewsMeant` what `EnumsMeant` leaves
out, structs and classes nested in classes, for which every name a field mentions
would have to be followed to its declaration; `NamesInForce` and
`PacketIdsRegistered`, which are about one schema; and that the claims above fail.

Not modelled:

- The syntax of annotations and expressions, keyword checks, naming, includes and
  text layout: pure functions from and to text. Nested declarations end in the
  parser and the pool's views; the C++ anchors they are written behind are text.
- Unions, maps and wire overrides as the parser reads them; `FieldCodec` starts
  behind them.
- In the codecs: floating point, and the strings' bytes.
- Output files, the registry, CMake: file system effects.
- `enum.hpp`, `reflect.hpp`, `serializer.hpp`, `packet.hpp`, `uuid.hpp`:
  compile-time tables and templates without state.

## Plan

In this order:

1. *Done*: the pool and its contract; the importer; the base-128 forms of the
   stream; their invariants and the proofs above.
2. *Done*: the codec: `FieldCodec`, `Message` and the struct-level proofs.
3. *Done*: NBT and the data store.
4. *Done*: the parser, the pool's view of a nested declaration, and the schema.
5. The importer composed with the pool: a `FileSet` built by one is what the
   other starts from, so that a dropped alias or an unloaded import shows in a
   resolved file.
6. Proofs. *Done*: the refinement of `PoolContract` and the alias plan; `ViewsMeant`
   for the numbers of an enum; what a generated reader and NBT's accept of foreign
   bytes; the NBT codec; fixed-width numbers. Left: `CodecsMirror` for the other
   fields, with `FieldCodec`'s recursion over types as a function over the types of
   a schema, the way `Nbt` has its readers, and `DataStore` in the same way.
