# A TLA+ model of pahole and libdwarves

pahole and its sister tools (pfunct, codiff, pglobal, ...) read the debugging
information of ELF files - DWARF, BTF or CTF - into a common representation
(`struct cus`, a list of `struct cu`, each a compilation unit or CU) and print,
compare, reorganise or re-encode the types they find.  This directory holds a
model of that code in TLA+, instances of it for the TLC model checker, and
theorems about it checked by TLAPS.  Line numbers refer to the sources in
`src/`.

## Inventory

| Component | State | Operations | Hard about it | Module |
|---|---|---|---|---|
| DWARF worker pool (`dwarf_loader.c` 4962-5319) | `cus_processing_queue` (jobs, `next_cu_id`, abort flag, mutex, condition), `struct dwarf_cus` (offset, error, verdict), `cus->cus` | fill the queue, create and join workers, dequeue, decode a CU, steal a CU | threads; order of steals; lost wake-ups; errors published without a lock | `DwarfWorkers` |
| Loading of files (`dwarves.c` 2185-2257, 2851-2982; `dwarf_loader.c` 4769-4960, 5321-5718) | argv, format list, list of CUs, heap, Dwfl handles, global hash sizes | try each format, load each module, type units, merging, delete | ownership of CUs over several error paths and verdicts | `LoadFiles` |
| DWARF decoding (`dwarf_loader.c` 80-4760) | hash tables of DIE offsets, small ids, unresolved references, imported units | read DIEs, hash them, recode references to ids | references across units and files | `DwarfCu`, `ParamLocations`, `ClassLayout` |
| dwz alternate files (`dwarf_loader.c` 260-460, 5372-5440) | sorted table of partial units, hit marks | find, mark, prune | what may be pruned | `DwarfCu` |
| Type tables (`dwarves.c` 560-700) | `ptr_table`: ids and entries | add, add with id, find | ids handed out by different loaders | `DwarfCu`, `BtfTypes` |
| Class layout (`dwarves.c` 870-2060) | members with byte and bit offsets, holes, paddings, alignment | find holes, infer alignment, clone | arithmetic on bytes and bits | `ClassLayout` |
| BTF loader (`btf_loader.c`) | type table | decode kinds, fix up bitfields | offsets of bitfields that BTF does not have | `BtfTypes`, `ClassLayout`, `LoadFiles` |
| BTF encoder (`btf_encoder.c`) | encoder list, saved functions, ELF functions, variables | encode a CU, merge and filter functions, data sections | ids predicted ahead; functions seen in several CUs, some inconsistent | `BtfFunctions`, `BtfTypes`, `ParamLocations` |
| pahole (`pahole.c`) | option globals, tree of structures, class name list, prototypes, header | stealer, main loop with retries, pretty printing | decisions taken per CU about names that span CUs; pointers into CUs that are given back | `Pahole`, `PrettyPrint` |
| Struct reorganizer (`dwarves_reorganize.c`, `ctracer.c` 252-330) | a cloned class | move members into holes; remove members | offsets after many moves | `Reorganize` |
| Code emitter (`dwarves_emit.c`) | flags of types, lists of what was emitted | emit definitions and forward declarations | order and repetition | `Emit` |
| Printing (`dwarves_fprintf.c`) | none | print a type | what is printed must compile back | `ClassLayout`, `Emit`, in part |
| CTF loader, CTF encoder (`ctf_loader.c`, `libctf.c`, `ctf_encoder.c`, `gobuffer.c`) | type table, growing buffers | decode, append | format no longer produced | the load only (`LoadFiles`) |
| codiff (`codiff.c`) | two loaded files | match and diff | matching by name and CU | - |
| pfunct, prefcnt, pglobal, dtagnames, pdwtags, syscse, scncopy, ctracer | loaded CUs | print | mostly one pass | the load (`LoadFiles`), ctracer's copies (`Reorganize`) |
| list, rbtree, dutil, elf_symtab | | | vendored or thin | - |

Interaction: a tool fills a `struct conf_load` with a callback `steal` and calls
`cus__load_files()`; the loaders create CUs, decode them and call
`conf->steal(cu)`, whose verdict (`LSK__KEEPIT`, `LSK__DELETE`,
`LSK__STOP_LOADING`, `LSK__ABORT`) decides who owns the CU next and whether the
load goes on.  Only the DWARF loader has threads; the stealers rely on it to
call them one at a time and in file order.  The modules meet at that callback:
`DwarfWorkers` establishes the order of the steals, `LoadFiles` and `Pahole`
take it for granted, and `BtfFunctions` and `BtfTypes` are the encoder that
pahole's stealer calls with each CU.

Properties that make it correct: the stealer sees the CUs of a file once, in
order, one at a time and whatever the number of threads; a load ends; an abort
is reported and final; a CU is freed once and not followed afterwards; the error
that is printed names the file that failed.  A reference between entries of the
debugging information leads to the same entity when it has become an id, across
units, files and formats; a member is where the compiler put it; a definition
that is printed compiles to the layout it was read from; BTF says of a type,
variable or function what DWARF said, and says nothing of functions whose
signature is in doubt.

`PROJECT.json` lists the components, the hazards the properties are aimed at,
and for every definition the lines it models.

## Modules

| Module | Models | Checked by |
|---|---|---|
| `DwarfWorkers` | the worker pool | runs complete, faults, lostwakeup |
| `SerialSteal` | what the pool promises: the steals of a serial load | refined by `DwarfWorkers` (property `ImplementsSerial`) |
| `DwarfWorkersProofs` | safety, the refinement and how a load ends, for every number of workers and CUs | TLAPS |
| `LoadFiles` | files, formats, modules, and the ownership of CUs | with `MCLoadFiles`: runs dwarf, fallback |
| `LoadFilesProofs` | proofs for every number of files, modules and CUs | TLAPS |
| `DwarfCu` | DIEs to tags, imports, alternate file, pruning, recoding | with `MCDwarfCu`: run decode |
| `DwarfCuProofs` | a DIE is imported once, for any units and imports | TLAPS |
| `ParamLocations` | where parameters are, and whether the signature holds | with `MCParamLocations`: run params |
| `ParamLocationsProofs` | what is told of a location, and which changes are found, for every list of parameters and machine | TLAPS |
| `ClassLayout` | offsets of members, holes, inferred attributes, the printed struct | run layout |
| `Reorganize` | `ClassLayout` and the moves of members, ctracer's copies | with `MCReorganize`: run layout |
| `BtfFunctions` | which functions the BTF encoder adds | with `MCBtfFunctions`: run functions |
| `BtfFunctionsProofs` | proofs for every set of functions and symbols | TLAPS |
| `BtfTypes` | everything else the encoder adds, and the BTF loader | with `MCBtfTypes`: run types |
| `FoldLemmas` | lemmas about `FoldLeft` and `FlattenSeq`, instantiated by the proofs that need them | TLAPS |
| `BtfTypesProofs` | proofs for any number of CUs, types, functions and variables | TLAPS |
| `PrettyPrint` | records read from a file or a pipe | part of `Pahole` |
| `Pahole` | `main()`, the stealer, structures seen, prototypes | with `MCPahole`: run pahole |
| `PaholeProofs` | proofs for any files, CUs and command lines | TLAPS |
| `Emit` | `--compile` | with `MCEmit`: run emit |

### DwarfWorkers

The variables are the fields of `cus_processing_queue` and `struct dwarf_cus`
under their own names, the locals of each worker (`pc`, `job`, `cu`, `err`, and
`seen`, the abort flag as it was last read), and the main thread (`mpc`, `i`).
`stolen` and `failed` are history.  A CU is its id; a job is a record of its
type and CU.

What is done under one lock is one action, with these gaps kept because another
thread can enter them: a worker reads `abort` (`enqdeq_lock`, `wakeup`) and
then scans and waits (`dequeue`, `cond_wait`) with the mutex held, but
`out_early` sets the flag and `out_early_signal` signals without it;
`pthread_create()` starts the thread (`thread_create`) before its result is
stored in `dcus->error` (`thread_created`), a variable the workers write too
(`out_error`, `create_cu_error`).  `pthread_cond_signal()` wakes any one
waiter; spurious wake-ups are a fault.  A dereference of a null CU is a state of
its own (`crash`) in which nothing goes on.

Abstracted: what a CU contains, its decoding (it succeeds or fails), and
`cus_queue__destroy()`, which runs after every thread was joined.

`Serial` is the instance of `SerialSteal` that the pool implements: its state is
the list of CUs stolen so far and whether stealing stopped.  `ImplementsSerial`
is checked by **faults** and proved.  That CUs are stolen in order and none
after a stop is part of it.

Fairness: weak for the main thread; strong for each worker, because a worker
that waits for the mutex is enabled only while nobody holds it, and a POSIX
mutex is not withheld forever from one of its waiters.  No fairness makes a
spurious wake-up happen.

### LoadFiles

One sequential program: `pc` walks through `cus__load_files()` (`next_file`,
`no_more_files`), `cus__load_file()` (`unknown_format`, `format_end`),
`cus__load_running_kernel()` (`cus__load_running_kernel`, `kernel_btf_end`), the
BTF and CTF loaders, and the DWARF loader: `dwarf__load_file`,
`cus__process_file`, one `cus__process_dwflmod` for each module, then for a
module `load_debug_types`, `steal_type_cu`, and either the ordinary CUs
(`process_cus_*`) or the merged one (`merge_*`), and `load_module_end`.
`heap` and `list` say which CUs are allocated and which are in `cus->cus`,
`dwfls` and `priv` which handles are open and which one will be closed;
`stolen`, `deleted` and `aborted` are history.  CUs are numbered in the order
they are allocated.  Of the worker pool only what `DwarfWorkers` establishes is
kept: CUs are created in order, at any distance ahead of the steals, and stolen
in order until a verdict or an error ends it.

What a file contains is chosen on the way: how many modules, whether a module
has DWARF or type units, how many CUs, whether they need merging, and which
step fails.  `FormatPaths` holds the values of `conf->format_path`, split at
the commas; `<<>>` stands for none.

Fairness: weak for the program as a whole; a loader that can take a step takes
it.

### DwarfCu

A module whose CUs are merged into one (`cus__merge_and_process_cu()`), the case
in which references cross units and files.  `stack` holds the units being
walked, because `DW_TAG_imported_unit` starts the walk of a partial unit in the
middle of another; `imported` and `processing_alt` are what keeps a partial unit
from being walked twice.  `process_die` makes a tag of the next DIE, gives it an
id in one of the three tables by its kind and hashes it under its offset and
its space (main file, alternate file, type units); `import_unit` marks and
enters a partial unit; `prune_unreferenced_alt_pus` takes away the alternate
units nobody hit; `recode_entry` turns the references of one entry into ids, and
`resolve_function` copies the return type of an abstract origin.  DIEs of a unit
are listed children first, the order in which they reach the tables.

`ReferencesHold`: a recoded id leads to the tag of the DIE that was referred to
(`RefsResolved`), out of line and inlined functions have the type of their
origin wherever it is (`OriginsShared`), and annotations are chained in the
order of the source (`AnnotsChained`).  `ImportedOnce`: no import, direct or
transitive, makes a partial unit be walked again as an import.

### ParamLocations

A function is compiled (`Compile`, external: gcc or clang for x86_64, AArch64 or
s390x, with parameters left unused, dropped, reduced to a member or listed
last; its value whole, derived by several operations, loaded from memory or in
pieces), then loaded (`Load`: `parameter__new()` decodes every location list
into a register, a member and flags), judged (`Analyze`: registers are counted from
parameter to parameter as the calling convention does) and, as the encoder
does, left out or added with the declared or the true signature (`Save`).  A
register is its position in the order of the convention.

`SignatureHolds`: a function that is added can be called by the signature that
BTF has for it.  `ChangesFound`: a function that was not changed is not left out
(`NoFalseAlarm`), and the true signature is the one compiled
(`TrueSignatureFound`).  `LocationDescribed`: what is told at a call site is
what the first expression of the location means, one of the pieces if it has
several, or nothing; and a struct is taken for one member only if there is a
piece of that member and of no other.  An expression that calculates the value
in several operations (`Computed`) is generated and left out of the property.

### ClassLayout and Reorganize

`Declare` and `CompileClass` build a struct and lay it out as a compiler does
(external); `LoadClass` computes offsets as the loaders do from the encodings of
DWARF 2 (two endiannesses), DWARF 4 and BTF.  A bitfield that crosses an aligned
unit of its type may be described in DWARF 2 by the unit it starts in, the one
it ends in, or gcc's, which begins at the byte below the one that would let it
end with the field: `LoadClass` takes each (`StorageUnit`;
`class_member__cache_byte_size()`, `class__fixup_btf_bitfields()`), finds the
holes and infers `__packed__` and `__aligned__`; `PrintClass` makes the
definition that `__class__fprintf()` prints, with the unnamed bitfields for
forced gaps.  Its properties compare with the compiler: members are loaded
where they are (`LoadedWhereItIs`), the holes are the gaps (`HolesAreTheGaps`)
and the definition printed compiles to the same layout (`Recompiles`), both in
`PrintedAsLaidOut`.  Widths are kept where the code keeps them: `hole` is signed,
`bit_hole` is one byte, `padding` is two.

`Reorganize` adds `class__reorganize()`: one action for each move, after which the
search starts again (`Restart`), and for ctracer the removal of every member
that is not of a base type and the repair of alignment.  `Reorganized`: members
never overlap (`NoOverlap`), stay aligned (`StaysAligned`), none is lost or
doubled (`MembersKept`), and every move makes progress (`Terminates`).

### BtfFunctions

The CUs arrive in `btf_encoder__encode_cu()` one at a time and in order - what
`DwarfWorkers` establishes - so this is a sequential program.  The first CU of
an ELF file makes the table of its function symbols
(`btf_encoder__elf_functions`, which is `elf_functions__collect()`), each
function that the table knows becomes a state (`btf_encoder__save_func`), and
after the last CU the states are sorted (`sort_saved_funcs`), the instances of a
function combined (`saved_functions_combine`, one action for each comparison),
and each group is added with a true signature, added as its canonical instance,
or skipped.  `func_states`, `i` and `j` are the array and the locals of
`btf_encoder__add_saved_funcs()`; `saved` is history.  `qsort()` leaves the order
of equal elements open, and the model takes every order.

Abstracted: a name is a number, which keeps the order of `strcmp()`, with its
suffix apart; a prototype is the sequence of its type ids, in three forms
according to the parameters that are left out; flags are sets.  `types__match`
is an operator constant assumed to be an equivalence; the code's is one
(`MatchIgnoresConst` in `BtfTypes`).  A function that
`btf_encoder__encode_cu()` skips for other reasons (a declaration, an unnamed
argument) is one that `Fns` does not hold.

No liveness is claimed, and the specification has no fairness.

### BtfTypes

The path of everything else: from the type tables of several CUs to BTF and back
to a CU.  `encode_cu` predicts the BTF id of every type of the CU
(`btf_encoder__precompute_btf_ids()`), `encode_type` adds them one at a time,
`save_functions` and `add_inline_expansions` keep translated prototypes and
locations, `btf_encoder__encode_cu_variables` collects variables by section;
after the last CU `add_saved_func`, `add_sections` and the tags of kfuncs
follow, and the result is written to a file of its own, into the ELF file, or
with a distilled base.  `btf__load_types`, `process_decl_tags` and
`btf__mark_inline_functions` read it back.  `types__match` is a recursive function
over the finished BTF.

`IdsForetold`: the ids given out ahead are those the types get (`NoDrift`), and
the type of array indices is an int (`IndexTypeIsInt`).  `LoadedAsEncoded`: types
(`RoundTrip`), functions (`FuncsKept`), variables at their addresses
(`VarsPlaced`) and inline sites with the places of their parameters
(`InlineSitesKept`) come back as they were, and
types that compare equal are equal but for `const` (`MatchIgnoresConst`).
`SuccessMeansWritten`: no success is reported while a section is missing.

Abstracted: values of enumerators and of 32-bit words are scaled (`U32` stands
for 2^32);
`btf__dedup()` is left out.  Memory does not run out.

### Pahole and PrettyPrint

`Invocations` are command lines: options, files of CUs, names.  `Names` is what
`main()` does before the load; one action for each kind of question steals a CU
(`StealFiltered`, `StealEnumerator`, `pahole_stealer__btf_encode`, `StealClasses`,
`StealMethods`, `StealNames`) and gives the verdict that decides whether the CU
is freed; `FileLoaded` and `FileFailed` go on with the next file, `TrySoleArg` is
the retry of a sole argument as a class name, `print_ordered_classes` and `Finish`
are the end of `main()`.  The tree of structures is the sequence of its entries in
order.  What is used after it was freed is recorded in `dangling`.
`PrettyPrint` reads records prototype by prototype: header, ranges, seeks on a
file or reads on a pipe, sizes, filters, types that depend on a member.

`PrintedAsAsked`: every structure is counted (`Counted`) and printed once
(`EachPrintedOnce`), and every name asked for is answered or reported
(`NamesAnswered`).  `UsesWhatIsThere`: no CU that was given back is followed
(`UsesLiveCus`), and records are read only when their types were found
(`SolvedBeforePretty`).  `EncodedOnSuccess`: if pahole -J ends well the BTF was
written.  `RecordsExact`: the records printed are those of the range, each once.

### Emit

`class_formatter()` with `--compile`.  `print_class` treats one struct or union of
a CU: what it needs is emitted by the mutually recursive
`tag__emit_definitions()`, `typedef__emit_definitions()` and
`type__emit_definitions()`, operators on the state of an emission (the flags of
the CU's types, `emissions`, `out`).  A statement of the output is what it
defines or declares and what it uses of other definitions.  `Compilable` is what
a compiler asks: what is used was defined or, where a pointer is enough,
declared; nothing is defined twice; a name has one kind.  `AllDefined`: at the
end of a CU every struct and union of it is in the header, as the CU has it.

## Runs

A run's property is in most modules the conjunction of the named parts given
above; the parts are what the text and the comments speak of.

* **complete** - two workers, five CUs, no fault.  With `NrJobs` = 2 there are
  four tickets, so five CUs make the workers run out of tickets and wait.
  Every CU is stolen (`AllStolen`), one at a time (`StealOneAtATime`), the queue
  keeps steals before decodes (`StealsBeforeDecodes`), no more CUs are held than
  there are tickets (`DecodedCusLimit`), and all threads end (`Termination`).
* **faults** - two workers, four CUs, every fault, every verdict: `TypeOK`,
  `CusInFileOrder`, `AbortReported`, `ImplementsSerial`.
* **dwarf** - one or two files of up to two modules, with type units, all
  verdicts and faults, no merging: `TypeOK`, `TypeCuAlive`, `ListLive`,
  `DeletedNotListed`, `AllFreed`, `ErrNamesFile`, `AbortIsFinal`.
* **fallback** - no file or one, modules that need merging or not, all format
  lists, all faults: `Termination`, with nothing allocated and no handle open.
* **decode** - an alternate file of two partial units, a main file of a partial
  unit and two CUs whose offsets overlap those of the alternate file; types,
  functions, variables and annotations that refer to each other across all of
  them; imports in both directions; the alternate file missing, a CU left out
  by a filter: `ReferencesHold`, `ImportedOnce`.
* **params** - functions of up to two parameters of five types after none, four,
  five or seven longs, for three machines and two compilers, in every way the
  compiler may change them, with values in one register, two, in memory, in
  pieces, constant or calculated: `SignatureHolds`, `ChangesFound`,
  `LocationDescribed`.
* **layout** - structs of up to four members of eight declarations (plain,
  bitfields, forced alignment, packed inner structs), packed and aligned or not,
  in four formats, with every storage unit, then reorganized or copied by
  ctracer: `LoadedWhereItIs`, `PrintedAsLaidOut`, `Reorganized`.
* **functions** - one ELF file whose table spells the function f in one of four
  ways (twice at one address, as a clone only, with a cold part, with a clone
  elsewhere) before the last name g; up to three instances, out of line, inlined
  or at no symbol, with every flag; true signatures and consistent prototypes on
  and off; memory running out.  A function is added once (`AddedOnce`), not when
  any instance is flagged (`EncodedTrusted`), not with inconsistent instances
  (`EncodedConsistent`), not when its name has several addresses and from an
  instance at a symbol if there is one (`EncodedAddress`), and always when
  nothing speaks against it (`GoodEncoded`).
* **types** - two CUs with types of every kind, functions, variables, inline
  expansions, tags, sections, symbols and options, in families that vary one of
  them: `IdsForetold`, `LoadedAsEncoded`, `SuccessMeansWritten`.
* **pahole** - families of command lines over up to three CUs in up to two files:
  sorted or not, counting, names with and without `--skip_missing`, prototypes,
  encoding, records of files and pipes: `PrintedAsAsked`, `UsesWhatIsThere`,
  `EncodedOnSuccess`, `RecordsExact`.
* **emit** - two CUs that hold the same six types in opposite orders: two structs
  (or a struct and a union of one name, or a declaration), two typedefs or a
  typedef and an enumeration, an `_Atomic` base type and a struct without a name,
  which refer to each other by value, through pointers, arrays and functions in
  every way that C allows but for the exceptions below: `Compilable`,
  `AllDefined`.
* **lostwakeup** (violated by the code, a finding in `PROJECT.json`) -
  `Termination`: the abort signal is sent without the mutex and can fall between a
  waiter's test and its wait.

Bounds: `NrJobs`, `NrCUs`, `ArgvLengths`, `MaxModules`, `MaxUnits`, `MaxFns`,
`MaxDepth`, `MaxMembers`, `Tails`, `MaxParams`, `Leads`, and what the MC modules
enumerate.  Two workers and more CUs than tickets reach every interleaving of
two threads in the queue and the case in which everyone waits; two files, two
modules and two CUs let an effect of one be seen by the next; three instances
make a group with a first, a middle and a last one, or two groups.  Three levels
of imports let a chain of units end by itself and a cycle be cut.  Four members give a hole, a member
to fill it, one that must follow and one that moves again, and three bitfields a
unit that is shared, left and started again.  With seven longs in front, a
parameter is the last one in registers of each convention, is split over its
end, or is beyond it.  An input of up to 13 bytes holds a header with two ranges and some records.
What is proved holds for every value.

Deadlock is not checked where the model ends (`CHECK_DEADLOCK FALSE`): every
module but `Pahole` and `BtfTypes`, which stutter at the end.  That the loaders
end is `Termination`.

Every property of a passing run has a mutant: a variant of a mapped definition
with a plausible slip (named after the definition, and placed before it), under
which TLC finds the property violated.

### What the code does not keep

Each of these is a disagreement between the code and what it, its comments or
its manual say that was met while modelling.  The passing runs leave them out in
the way said here.  Where there is a configuration TLC shows it
(`tlc -config X.cfg M`, with the property as violated).

| Configuration, module | Property | What happens |
|---|---|---|
| `DwarfWorkers_losterror.cfg`, `DwarfWorkers` | `DecodeErrorReported` | the main thread overwrites the error of a worker while it is still creating workers |
| `LoadFiles_mergeabort.cfg`, `MCLoadFiles` | `ListLive` | the merged CU is freed while it is in the list |
| `LoadFiles_hash.cfg`, `MCLoadFiles` | `LookupInTable` | the hash size changes after the type CU's tables were allocated |
| `BtfFunctions_lastname.cfg`, `MCBtfFunctions` | `UnambiguousEncoded` | the last name of the sorted symbol table is never examined for several addresses |
| `BtfFunctions_twoelfs.cfg`, `MCBtfFunctions` | `AddedOnce` | the sort mixes the instances of two ELF files, which then do not form one group each |
| `BtfTypes_attrs.cfg`, `MCBtfTypes` | `TypeAttrsKept` | a type tag loses its value when it is loaded |
| `ParamLocations_computed.cfg`, `MCParamLocations` | `ComputedDescribed` | a calculated value is told as memory at a register, for the trailing `DW_OP_stack_value` is cut (`dwarf_loader.c` 2041) before it is looked for (1948), or as the constant the calculation starts with (1929); the comment at 2030 says that with it the expression is no dereference |
| `Pahole_encode.cfg`, `MCPahole` | `NoDebugInfoOnly` | an encoding error ends in success, as a file without debugging information does (`pahole.c` 3788) |
| `Pahole_pipe.cfg`, `MCPahole` | `SeeksWhereAsked` | on a pipe, a seek goes on from where the stream is |
| `Emit_qualified.cfg`, `MCEmit` | `Compilable` | a typedef of a const or of a pointer to a const uses a typedef that is not out yet (`dwarves_emit.c` 164) |
| `Emit_embedded.cfg`, `MCEmit` | `Compilable` | `struct B { T *p; }` with `typedef struct A T` and B in A: A is printed before B, which it embeds |
| `Emit_kinds.cfg`, `MCEmit` | `Compilable` | a union that shares its name with a struct is declared under that name before it gets its suffix |

Loading:
* A worker that asks for the next CU after `pthread_create()` failed gets the
  positive errno, which is neither an error nor "no more CUs" for it, and
  dereferences a null CU (`dwarf_loader.c` 5129, 5172): the state `crash`.
* The Dwfl handle of an earlier file is lost when the next one overwrites
  `cus->priv`, one slot (5661): **fallback** has one file at most.
* The verdict for the type CU is compared with `LSK__DELETE` only (5518), and an
  abort counts as a failure of the format, so that the next one is tried
  (`dwarves.c` 2238): `AbortIsFinal` counts what a CU of the module answered.
* The BTF and CTF loaders forget a CU the stealer wanted deleted
  (`btf_loader.c` 938): `AllFreed` is checked in **dwarf**, and **fallback** keeps
  every CU.
* Without a file `cus__load_files()` returns the error of
  `cus__load_running_kernel()`, which is no position in argv (`dwarves.c` 2946):
  `ErrNamesFile` is about loads with files named.
* `cus__delete()` follows and frees a merged CU that was freed after an abort and
  left in the list (`LoadFiles_mergeabort.cfg`); in the model, also in
  **fallback**, what is not allocated is not freed again.

Decoding:
* The id of a type in a type unit indexes the table of the type CU, not of the
  CU that refers to it; the first entry of the table of tags is cleared when
  tags that are in no table are pruned; a table that was never allocated is
  followed.  A partial unit of the main file is walked as a unit and again when
  it is imported, so that its DIEs become tags twice.  Without the alternate
  file a reference to it can end the load.
* Parameters: a struct that goes unexpected hides later disagreements
  (`dwarf_loader.c` 4468); clang on AArch64 passes large aggregates by
  reference, which skips no register (4093); gcc's stack parameters are counted
  on x86_64; a clone of gcc with a split aggregate, an unmarked clang function
  on s390x and a parameter dropped next to the last register are not noticed; an
  `__int128` dropped on AArch64 shifts the parity; a floating point parameter is
  counted as a general one; constants of gcc consume a register.  For a piece
  the size of the whole type is told and not which bytes it has (1807), and a
  piece in memory counts as one of the fields in registers.  The operators
  before the properties of `ParamLocations` name the cases that are left out.  It
  is assumed that clones of gcc have no unused parameters, that gcc reorders in
  clones only, and that `DW_CC_nocall` comes from clang.

Layout:
* A packed struct in which a bitfield straddles its unit is not inferred packed;
  a bit hole or padding of 8 bits or more hides a byte, so that a struct with a
  packed one in it is called packed; trailing unnamed bitfields are right for a
  base type at the end, DWARF, and no forced alignment.  The option
  `fixup_silly_bitfields` (`dwarf_loader.c` 4710) is left out.  BTF infers an alignment
  of 32 from a size of 24; a forced alignment may be raised to that of a
  cacheline.
* `StaysAligned` leaves out bitfields and attributes; ctracer's copy of a packed
  struct or of bitfields can overlap, and an offset can pass below 0;
  `class__infer_alignment()` shifts 1 by 32 when the distance is negative.
  A reorganized class can be larger than the original.

BTF:
* `const void` does not match `void`; the sign of an enumeration is lost if no
  value is negative; parameters that are void cannot be told from `...`
  (`btf_loader.c` 88); tags of parameters are attached to a prototype that other
  functions may share (572); `err` is returned uninitialised if a DECL_TAG comes
  first (666).
* A true signature is taken from the first instance with a suffixed symbol and
  no flag of its own; flags are shared with the first instance of the group
  only (`btf_encoder.c` 1697): `EncodedTrusted`, `EncodedConsistent` and
  `UnambiguousEncoded` are about functions added without one.
* An error while decl tags are added leaves err at 0 (3622); the comparison of
  variables subtracts unsigned offsets into an int (324), and their number is 16
  bits wide (1021); the flags of a kfunc in two sets are those of the last one
  (2495).

pahole:
* Structures of CUs that were given back are printed or followed with `-m
  --sort`, with -i or -f and `--sort` (3355, 3805), by prototypes if there are
  several (3446); `-J --sort` never encodes (3805); `-a --sort` prints no
  anonymous struct; -i and -f see the referrers of the first CU only and share a
  tree between names.
* `--skip_missing` with prettify follows a null class (3484); the second sort
  (585) compares neither sizes nor numbers of members; `-C a,a` prints twice and
  `-C b,a` stops at the first that is missing; a range of size 0 prints one
  record; -R of a union prints nothing; the message after the retry names the
  wrong argument; a failed format goes on to encode; `LSK__STOP_LOADING` stops
  the current file only.

Emitter:
* Besides the configurations above: a typedef of a pointer to a pointer or to an
  array, and of an `atomic_` base type, is not followed; a typedef of a struct
  that is only declared prints it as defined, and its definition in a later CU is
  left out; two typedefs of one enumeration without a name leave an unfinished
  `typedef`; a third kind of a name gets the same suffix; a struct and a union of
  one name and one member are one structure for `print_classes()`; two structs of
  one name with other members are one definition.  `-a --compile` and a typedef
  given to -C print definitions twice, as pfunct --compile does.

## Proofs

**DwarfWorkersProofs**, for every `NrJobs`, `NrCUs` \in Nat, every set of
verdicts and faults: `TypeCorrect`, `StealsAreInOrder`, `StealsExclude`,
`DecodesComeLast`, `ListInFileOrder`, `StopIsFinal`, and
`WorkersImplementSerial`, the refinement of `SerialSteal`.  The order of steals
is not inductive: it needs to know that ids waiting to be stolen are distinct
and not behind `Len(stolen)` (`PendInv`), that `next_cu_id` lags by one exactly
while a steal is not counted yet or was the last (`TurnInv`), that ids in use
were given out (`CountInv`), that a pending CU is in the list (`ListInv`), and a
few facts about locals (`LocalInv`).  `IInv` is their conjunction.

**LoadFilesProofs**, for every number of files, modules and CUs, every set of
verdicts and faults: `LoadTypeCorrect`, `TypeCuOutlives`, `DeletedUnlisted`, and,
assuming that no module is merged, `ListHoldsLive`; `LoadFiles_mergeabort.cfg`
shows that the assumption is needed.  The invariant adds where a file of argv
is being loaded (`PlaceInv`), where the type CU exists and that a deferred
deletion took it off the list (`TypeCuInv`), and that CUs waiting to be stolen
are distinct, undeleted and not the type CU (`PendInv`): without the last,
freeing a stolen CU could free the type CU.

**BtfFunctionsProofs**, for every set of functions, symbols and types, any number
of instances and every order `qsort()` may choose: `FunctionsTypeCorrect`, and,
assuming one ELF file (`OneElfFile`; `BtfFunctions_twoelfs.cfg` shows that it is
needed), `TrustedOnly`, `ConsistentOnly` and `NoneTwice`.  What is said of the
functions added rests on what is known of the array while the loop is in it: no
instance was lost and none forgot a flag (`KeepInv`), the array is sorted
(`SortInv`), the group i..(j - 1) has one name, smaller names are before it, and
its first instance has the shared flags of all (`GroupInv`), and unless a flag
excludes the function already, the instances compared match the first one
(`MatchInv`).  The names added are in order and smaller than the current one
(`NamesInv`), which makes them distinct.  With one ELF file a group that ends
has met a larger name, so it holds every instance of its function
(`GroupComplete`).

Two more of its theorems say what is added.  `GoodIsEncoded` holds for any number
of ELF files: every state comes from a saved one, and where all instances of a
function are good none gets a flag from another (`FromInv`); a group is of one
function of one ELF file (`SameInv`); so whichever instance is canonical has no
reason to be skipped (`GoodNotSkipped`), and a good function was added or its turn
is still to come (`CoveredInv`).  A name that several files have may be added
twice, but it is not lost.  `AddressIsKnown`, with one ELF file, follows the address
from the symbol table: in a sorted table two different addresses of a name make two
neighbours differ (`NeighboursDiffer`), so the name is known to be ambiguous
(`DifferInv`).  That needs what the two loops of `elf_functions__collect()` take
for granted (`SeenToDiffer`): a name with several addresses is not the last of
its table, which `BtfFunctions_lastname.cfg` shows, and has none that is 0, which
the code takes for no address.

**BtfTypesProofs**, for any number of CUs, types, functions, sections and symbols:
`TypesForetold` and `SectionsWritten`.  The first, `IdsForetold`, assumes that a
base type called "int" is an integer of a size that BTF has (`IntsArePlain`), as
every C compiler writes it: the encoder takes the type called "int" for the index
of arrays before it is encoded, and a floating point type of that name would be
one.  The invariant `TypesInv` says of the middle of a CU what the code never
writes down (`Predicted`): the BTF has as many types as the loop of
`btf_encoder__precompute_btf_ids()` had counted when it was where
`btf_encoder__encode_cu()` is now, the map it made is the one in use, and the
index of arrays is there, still ahead in the table, or will be added behind the
last type.  Around it, every array added so far is indexed by an id that is that
int or is going to be (`ArraysIndexed`, `IndexKnown`).  `SectionsWritten` needs no
hypothesis: at the end the file is new, and so is the base if it is distilled
(`Written`).

**PaholeProofs**, for any number of files and CUs, whatever is in them, and any
command line of the types that the code parses options to
(`InvocationsAssumption`): `WhatIsUsedIsThere`, `SuccessIsEncoded`, `CusMetOnce`.
That no freed CU is followed rests on which CUs are there: those that were met and
not given back (`Live`).  A CU is met once, because the load is past every CU that
the stealer was called with (`Passed`), also when the running kernel is loaded
after an argument that is no file; otherwise a later `LSK__DELETE` for the same CU
could free what was kept.  Then the structures that will be printed in order
(`SortedInv`), the header (`HeaderInv`) and the class of the only name asked for
(`ProtosInv`) are in live CUs; with more names they need not be, which is the
exception of `UsesLiveCus`.  `SolvedInv` carries what pretty printing was started
with through its steps.

**FoldLemmas** makes `FoldLeft` provable, which the community modules define by a
recursive function over sets of indexes.  `FoldLeftLoop`: a fold over s is the last
state of a loop over s.  `FoldLeftKeeps`: what holds of the base and is kept by
each element holds of the result, stated with a set of states (`Universe`) in the
place of a predicate, so that no theorem has an operator parameter.  The module
has the step of the fold as the constant `op`; a proof instantiates it for each
fold of its model (`Printing == INSTANCE FoldLemmas WITH op <- print_class`).
`NatSetInduction` and `LeastIn` do for a set what the library's induction theorems
do for a predicate.

The second half of **DwarfWorkersProofs** adds to `IInv` what is needed to say how a load ends:
`AbortIsReported` (a worker that was told to abort carries the verdict until it is
joined, `VerdictInv` and `JoinInv`), `NextCuIsSeen` (no lost wake-up: the CU that
is next is not queued while every worker waits, `AwakeInv`), `DecodedCusBounded`
(a worker that holds a CU holds a ticket, and there are no more tickets than jobs
at the start, `TicketInv`), and, assuming that no unit fails to be read or
decoded, `AllAreStolen`: a CU that was created and not stolen is held or queued
(`FullInv`).  The faults left out of the last are those after which the code
itself drops a unit; spurious wake-ups and threads that cannot be created are in.

**LoadFilesProofs** has three more, each with its own invariant above `IInv`:
`ErrIsOfFile`, when files are named (`0` is not in `ArgvLengths`: without a file the
error is that of the running kernel, see above); `EveryCuFreed`, when the stealer
keeps the CUs of BTF and CTF sections or those formats are not tried
(`SectionsKept`: their loaders forget the CU otherwise, see above); and the action
property `NoStealAfterAbort`, with DWARF as the only format, as `pahole -J` sets it
(with more formats an abort counts as a failure of the format, see above).

**DwarfCuProofs**, for any module: any number of units, in the main file or the
alternate one, of any DIEs, that import each other in any way, cycles included:
`ImportsAreOnce`.  That no offset is the one of two DIEs of a file is the named
assumption `OffsetsAssumption`.  The state does not say how a unit came to be
walked; the invariant says that there is a record of it, `W`, and a tag points to
its walk.  Two walks of one unit differ in whether they are imported: a walk that
is not was started by the loop over the file and is behind its next unit, and
one that is has its offset in `imported`, to which no other walk adds it
(`WalkInv`).  In a walk a DIE makes one tag, for the walk is past the DIEs it made
tags of (`TagInv`); the stack may hold a unit twice, so this is said of the walk
and not of the unit.  The tags of annotations are made by the pointers that refer
to them and are left out; that no other tag has their offset is `AnnotInv`.  Once the
units were walked, recoding moves no tag: `RecodeKeeps`, over all functions that
recode, with `FoldLemmas` for their loops.

**ParamLocationsProofs**, for every list of parameters on every machine:
`LocationsAreDescribed`.  Between the step that writes the DIEs and the one that
loads them the invariant says that a location is one of the forms a compiler
writes (`Located`): its registers come from the calling convention, whose loop
gives each argument as many registers as its type takes (`PlacesAreInPlace`).
Each form is then decoded as the code does.  A value in pieces goes through the
steps of the loop of `parameter__multi_exprs()`, one for each operation
(`PiecesLoop`), after which what is kept of them (`OnePieceOf`) is judged by
`parameter__finish_piece_decode()` (`FinishedSays`): the member that it finds is
the one whose piece there is.  Only an expression of several operations that
calculates the value is excepted, as `ParamLocations_computed.cfg` shows is needed.

Its second theorem, `ChangesAreFound`, has an invariant of its own (`ChangesInv`)
and compares two loops, that of the calling convention, which gives each argument
its registers, and that of `function__analyze_parameter_locations()`, which counts
them again from the locations.  For a function called as it was declared
(`NoFalseAlarm`) the two counts agree until the loader finds the registers used up
(`InStep`), so no register is unexpected (`JudgesPlaced`, and `MatchesPlaced` for
the other loop, of clang).  With a struct among the parameters they need not
agree; then `cu__resolve_func_ret_types_optimized()` takes the struct for the
reason, which rests on the decoding of locations leaving the type of a parameter
alone (`NewTyped`, `TypeKept`).  For a function that is known to be changed
(`TrueSignatureFound`) what is still passed is packed into consecutive registers,
none of them later than the one it was declared for (`StillPacked`); so the count
of the loader is exact: a parameter that is gone takes none, and the next one is
where it would be without it (`DroppingFound`).  The property names the changes it
is about: parameters that are dropped or known to be constant, declared in registers,
none of them an `__int128` where that type must start at an even register.

Assumptions on the constants are the named ASSUMEs of the modules; TLC
evaluates them in every run.

Model-checked only:
* Liveness under fairness (`Termination`), which is out of the prover's reach.
* `Compilable` and `AllDefined`: `Emit` is built from RECURSIVE operators, with
  which the provers cannot work; and `LoadedAsEncoded`, which is an induction over
  the types that a type refers to.
* Not proved yet: `ReferencesHold`; `SignatureHolds`;
  `LoadedWhereItIs`, `PrintedAsLaidOut`, `Reorganized`; `PrintedAsAsked`,
  `RecordsExact`.

## Plan

Theorems worth proving next, in this order:

1. `DwarfCu`: of `ReferencesHold`, that a recoded reference stays what it was.
2. `ParamLocations`: `SignatureHolds`, where half of a struct may be passed; the
   comparison of the two loops in `ParamLocationsProofs` is where it starts.
3. `Reorganize`: `MembersKept`; `ClassLayout`: the bounds of its integers.
4. `PrettyPrint`: the steps of `RecordsExact` (its reference is a recursive function
   over offsets).

## Not modelled

* codiff, which compares two finished lists of CUs by name and size in one pass:
  what it decides per pair is what it prints.
* The CTF encoder and the decoding of CTF records; libctf, libbpf (with
  `btf__dedup()`), libdw and libelf, whose results are inputs.
* pfunct, prefcnt, pglobal, dtagnames, pdwtags, syscse and scncopy beyond their
  use of `cus__load_files()`; ctracer beyond the structs it copies.
* Text: spacing, comments, cacheline statistics, expansion of types; the word
  size fixup (`-w`, `pahole.c` 755-937); the packed form of uncertain parameter
  locations (`btf_encoder.c` 3125); C++ inheritance, namespaces and templates.
* Memory that runs out, but for the loaders, the worker pool and the saved
  functions, where the code's handling of it is part of the model.
* list, rbtree and hash, taken as the sequences, sorted sequences and functions
  they implement; the shell tests, scripts and packaging, which are not part of
  the programs.
