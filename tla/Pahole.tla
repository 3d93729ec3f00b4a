------------------------------- MODULE Pahole -------------------------------
(***************************************************************************)
(* pahole: main(), the stealer that is called with every compilation unit  *)
(* (CU), the set of structures already seen, and pretty printing at the    *)
(* end (PrettyPrint).                                                      *)
(*                                                                         *)
(* The verdict of the stealer decides who may still use a CU: what is      *)
(* answered LSK__DELETE is freed, and the classes, prototypes and the      *)
(* header found in it must not be followed to it any more.  Names and type *)
(* names are small numbers in the order of strcmp(), 0 standing for NULL.  *)
(***************************************************************************)
EXTENDS PrettyPrint, FiniteSetsExt

CONSTANT Invocations    \* families of command lines: records of a set of options,
                        \* of lists of files and of lists of names

(* What is in a CU, the files, and the names of -C as they are added to
   class_names: nothing is found for them yet.  An option is as in PrettyPrint. *)
MemberType == [name : Nat, offset : Nat, bitfield_size : Nat, type : Nat, kind : {"base", "embed", "ptr"}, to : Nat]
ClassType == [name : Nat, size : Nat, members : Seq(MemberType), union : BOOLEAN, decl : BOOLEAN,
              top_level : BOOLEAN, typedef : Nat, holes : Nat, packable : BOOLEAN,
              fields : SUBSET {"size", "type"}]
CuType == [filtered : BOOLEAN, types : Seq(ClassType), fns : Seq(Seq(Nat)), enums : SUBSET SUBSET Nat]
NameType == [name : Nat, bad : BOOLEAN, nr_args : BOOLEAN, size : BOOLEAN, type : BOOLEAN,
             type_enum : Seq(SUBSET Nat), filter : Nat, range : Nat, class : {<<>>}, cu : {<<0, 0>>},
             cutypes : {<<>>}, enums : {{}}, resolved : {FALSE}]
FileType == [fmt : {"dwarf", "btf", "none"}, cus : Seq(CuType), readable : BOOLEAN,
             names : Seq(NameType)]
OptionType == {<<>>} \cup ({"num", "$header"} \X Nat)
OptionsType ==
    [argv : Seq(FileType), kernel : FileType, class_name : Seq(NameType),
     mode : {"print", "reorganize", "containers", "pointers", "defined_in", "prettify"},
     formatter : {"class", "sizes", "none"}, stats : {"none", "definitions", "methods"},
     sort : BOOLEAN, just : {"any", "unions", "structs"}, private : BOOLEAN, anon : BOOLEAN,
     nested_anon : BOOLEAN, exclude : SUBSET Nat, nr_holes : Nat, packable : BOOLEAN,
     enumerator : Nat, skip_missing : BOOLEAN, first_obj_only : BOOLEAN, encode : BOOLEAN,
     faults : SUBSET {"encode", "write"}, header_type : Nat, header_proto : NameType, ranges : Nat,
     input : Seq(Nat), seekable : BOOLEAN, range : Nat, seek_bytes : OptionType,
     size_bytes : OptionType, skip : Nat, count : Nat]

ASSUME InvocationsAssumption ==
    \A i \in Invocations :
        i.options \subseteq OptionsType /\ i.files \subseteq Seq(FileType)
        /\ i.names \subseteq Seq(NameType)

VARIABLES
    pc,         \* "names", "load", "pretty", "loaded" or "exit"
    argv,       \* the files left on the command line; the running kernel if none
    class_name, \* what -C, -i or -f asks for, <<>> for NULL
    at,         \* file and CU the load has come to
    freed,      \* CUs that were deleted
    stolen,     \* history: the CUs the stealer was called with
    tree,       \* structures__tree, in its order
    list,       \* structures__list: the same, as they were found
    need_resort,
    encoder,    \* btf_encoder: "none", "open", "broken" or "written"
    out,        \* what was printed
    err,        \* what cus__load_files() returned
    not_found,  \* main() printed that a type was not found
    dangling,   \* history: something followed a pointer to a freed CU
    rc          \* exit status of main(), or "none"

vars == <<inv, protos, streamVars, pc, argv, class_name, at, freed, stolen, tree, list,
          need_resort, encoder, out, err, not_found, dangling, rc>>

structureVars == <<tree, list, need_resort>>

NoName == 0
NoClass == <<>>

Init ==
    /\ \E i \in Invocations : \E options \in i.options, files \in i.files, names \in i.names :
         inv = [options EXCEPT !.argv = files, !.class_name = names]
    /\ PrettyInit
    /\ protos = <<>>
    /\ pc = "names" /\ argv = inv.argv /\ class_name = inv.class_name /\ at = <<1, 1>>
    /\ freed = {} /\ stolen = <<>> /\ tree = <<>> /\ list = <<>> /\ need_resort = FALSE
    /\ encoder = "none" /\ out = <<>> /\ err = 0 /\ not_found = FALSE
    /\ dangling = FALSE /\ rc = "none"

CanSort == inv.sort /\ inv.formatter = "class"

-----------------------------------------------------------------------------
(* Comparing classes                                                       *)

Sign(n) == IF n > 0 THEN 1 ELSE IF n < 0 THEN -1 ELSE 0

\* Of differences in the order they are looked at, the first that is not 0.
FirstOf(diffs, otherwise) ==
    LET seen == SelectSeq(diffs, LAMBDA d : d # 0)
    IN IF seen = <<>> THEN otherwise ELSE Sign(seen[1])

NameDiff(ma, mb) ==
    IF ma.name # NoName /\ mb.name # NoName THEN ma.name - mb.name ELSE 0

\* The members of a against those of b in the same places; the caller sees to
\* it that there are as many.
type__compare_members(a, b) ==
    FirstOf([k \in DOMAIN a.members |->
               FirstOf(<<NameDiff(a.members[k], b.members[k]),
                         a.members[k].offset - b.members[k].offset,
                         a.members[k].bitfield_size - b.members[k].bitfield_size>>, 0)],
            IF inv.sort /\ a.members # <<>> THEN 1 ELSE 0)

\* With --sort classes that look the same are all kept: their types may differ.
type__compare(a, b) ==
    IF a.name # b.name THEN Sign(a.name - b.name)
    ELSE IF a.size # b.size THEN Sign(a.size - b.size)
    ELSE IF Len(a.members) # Len(b.members) THEN Sign(Len(a.members) - Len(b.members))
    ELSE type__compare_members(a, b)

SameMember(ma, mb) ==
    NameDiff(ma, mb) = 0 /\ ma.offset = mb.offset /\ ma.bitfield_size = mb.bitfield_size

\* Past the last member of b the comparison reads what is no member: ub, which is
\* 0 where it passes for a member without name and type, and they are called equal.
type__compare_members_types(a, b, ub) ==
    IF a.name # b.name THEN Sign(a.name - b.name)
    ELSE FirstOf([k \in DOMAIN a.members |->
            IF k > Len(b.members) THEN ub
            ELSE FirstOf(<<NameDiff(a.members[k], b.members[k]),
                           a.members[k].offset - b.members[k].offset,
                           a.members[k].bitfield_size - b.members[k].bitfield_size,
                           a.members[k].type - b.members[k].type>>, 0)], 0)

-----------------------------------------------------------------------------
(* The set of structures seen                                              *)

structure__new(class, cu, n) ==
    [class |-> class, cu |-> cu, nr_files |-> 1, nr_methods |-> n]

\* The place of an entry equal to class, or 0.
EntryOf(t, class) ==
    LET same == {k \in DOMAIN t : type__compare(t[k].class, class) = 0}
    IN IF same = {} THEN 0 ELSE CHOOSE k \in same : TRUE

\* Where a class goes: after what compares less.
PlaceOf(t, class) == Cardinality({k \in DOMAIN t : type__compare(t[k].class, class) < 0}) + 1

\* Two classes of the same size, members and place, kept apart by --sort.
Indistinct(t, class) ==
    \E k \in DOMAIN t : /\ t[k].class.name = class.name /\ t[k].class.size = class.size
                        /\ Len(t[k].class.members) = Len(class.members)
                        /\ class.members # <<>> /\ inv.sort
                        /\ \A m \in DOMAIN class.members :
                               SameMember(t[k].class.members[m], class.members[m])

\* S is what the stealer works on, see Work below.  A structure that is not there
\* is added, with n methods.
structures__add(S, class, cu, n) ==
    IF EntryOf(S.tree, class) # 0 THEN S
    ELSE [S EXCEPT !.tree = InsertAt(@, PlaceOf(@, class), structure__new(class, cu, n)),
                   !.list = Append(@, structure__new(class, cu, n)),
                   !.resort = @ \/ Indistinct(S.tree, class)]

\* Sorted again by members and their types; what compares equal is dropped.
resort_add(ub, resorted, str) ==
    IF \E k \in DOMAIN resorted : type__compare_members_types(resorted[k].class, str.class, ub) = 0
    THEN resorted
    ELSE InsertAt(resorted, Cardinality({k \in DOMAIN resorted :
             type__compare_members_types(resorted[k].class, str.class, ub) < 0}) + 1, str)

resort_classes(ub) ==
    FoldLeft(LAMBDA resorted, str : resort_add(ub, resorted, str), <<>>, list)

-----------------------------------------------------------------------------
(* Which classes are shown                                                 *)

IsAnonymous(class) == class.name = NoName

class__filter(class) ==
    /\ inv.just = "unions" => class.union
    /\ inv.just = "structs" => ~class.union
    /\ ~class.top_level => inv.private
    /\ ~class.decl
    /\ IsAnonymous(class) => inv.anon
    /\ ~(class.name \in inv.exclude \/ (IsAnonymous(class) /\ class.typedef \in inv.exclude))
    /\ class.union => inv.just # "structs" /\ inv.nr_holes = 0 /\ ~inv.packable
    /\ class.holes >= inv.nr_holes
    /\ inv.packable => class.packable

\* cu__filter(): the language and the prefix of the name of the CU.
cu__filter(cu) == ~cu.filtered

Shown(what, class, cu) == [what |-> what, class |-> class, cu |-> cu]

\* class_formatter() leaves out an anonymous class that no typedef names.
Formatted(class) ==
    \/ inv.formatter # "class"
    \/ ~IsAnonymous(class) \/ class.typedef # NoName \/ inv.nested_anon

\* What the stealer changes while it goes over a CU: the tree and the list, what
\* is printed, the prototypes, and whether it is to return and with what.
Work == [tree |-> tree, list |-> list, resort |-> need_resort, out |-> out,
         protos |-> protos, verdict |-> "none", dump |-> FALSE]

Emit(S, what, class, cu) == [S EXCEPT !.out = Append(@, Shown(what, class, cu))]

\* One class of print_classes(): counted if it was seen before, printed now or
\* left for print_ordered_classes().
PrintClass(S, class, cu) ==
    IF (IsAnonymous(class) /\ ~inv.anon /\ ~inv.nested_anon) \/ ~class__filter(class) THEN S
    ELSE IF ~IsAnonymous(class) /\ EntryOf(S.tree, class) # 0
         THEN [S EXCEPT !.tree[EntryOf(S.tree, class)].nr_files = @ + 1]
    ELSE LET T == IF IsAnonymous(class) THEN S ELSE structures__add(S, class, cu, 0) IN
         IF inv.packable THEN Emit(T, "packable", class, cu)
         ELSE IF CanSort \/ inv.formatter = "none" \/ ~Formatted(class) THEN T
         ELSE Emit(T, "class", class, cu)

print_classes(c, cu) ==
    FoldLeft(LAMBDA S, class : PrintClass(S, class, cu), Work, c.types)

\* Mutant: the function that adds the class is not counted.
AccountParameter_first(S, class, cu) ==
    IF IsAnonymous(class) \/ class.union \/ ~class__filter(class) THEN S
    ELSE IF EntryOf(S.tree, class) = 0 THEN structures__add(S, class, cu, 0)
    ELSE [S EXCEPT !.tree[EntryOf(S.tree, class)].nr_methods = @ + 1]

\* Every parameter that points to a struct with a name counts as a method of it.
AccountParameter(S, class, cu) ==
    IF IsAnonymous(class) \/ class.union \/ ~class__filter(class) THEN S
    ELSE IF EntryOf(S.tree, class) = 0 THEN structures__add(S, class, cu, 1)
    ELSE [S EXCEPT !.tree[EntryOf(S.tree, class)].nr_methods = @ + 1]

cu__account_nr_methods(c, cu) ==
    FoldLeft(LAMBDA S, k : AccountParameter(S, c.types[k], cu), Work, FlattenSeq(c.fns))

-----------------------------------------------------------------------------
(* -i and -f: who contains a class, who points to it                       *)

\* A class that refers to the one looked for, unless an equal one was seen in
\* another CU; refs are the members that do.
PrintReferrer(S, class, cu, what, refs) ==
    IF IsAnonymous(class) \/ ~class__filter(class) \/ refs = {}
       \/ EntryOf(S.tree, class) # 0 THEN S
    ELSE Emit(structures__add(S, class, cu, 0), what, class, cu)

MembersWith(class, kind, id) ==
    {k \in DOMAIN class.members : class.members[k].kind = kind /\ class.members[k].to = id}

print_containers(S, c, cu, id) ==
    FoldLeft(LAMBDA T, class : PrintReferrer(T, class, cu, "container", MembersWith(class, "embed", id)),
             S, c.types)

print_structs_with_pointer_to(S, c, cu, id) ==
    FoldLeft(LAMBDA T, class : PrintReferrer(T, class, cu, "pointer", MembersWith(class, "ptr", id)),
             S, c.types)

-----------------------------------------------------------------------------
(* -C: the prototypes                                                      *)

\* The first type of the CU with that name, 0 if there is none.
cu__find_type_by_name(c, name, include_decls) ==
    LET named == {k \in DOMAIN c.types : c.types[k].name = name
                                          /\ (c.types[k].decl => include_decls)}
    IN IF named = {} THEN 0 ELSE Min(named)

\* The enumerations of type_enum=a+b found in the CU, up to the first that is
\* missing: those are added, and if there are any it counts as resolved.
EnumsFound(p, c) ==
    LET missing == {k \in DOMAIN p.type_enum : p.type_enum[k] \notin c.enums}
    IN IF missing = {} THEN ToSet(p.type_enum)
       ELSE {p.type_enum[k] : k \in 1 .. Min(missing) - 1}
type__find_type_enum(p, c) == EnumsFound(p, c) # {}

NeedsEnum(p) == p.type_enum # <<>> /\ ~p.resolved

ResolveEnum(p, c) ==
    [p EXCEPT !.resolved = type__find_type_enum(p, c), !.enums = @ \cup EnumsFound(p, c)]

\* What is asked of the type of a prototype cannot be had.
BadPrototype(p, class) ==
    \/ p.nr_args /\ class.union
    \/ p.size /\ "size" \notin class.fields
    \/ p.type /\ "type" \notin class.fields
BadFilter(p, class) == p.filter # 0 /\ "type" \notin class.fields

\* Print p, found as type id of c, as the options ask.
PrintPrototype(S, p, c, cu, id) ==
    IF inv.mode = "defined_in" THEN [Emit(S, "cu", p.name, cu) EXCEPT !.dump = TRUE]
    ELSE IF inv.mode = "containers" THEN print_containers(S, c, cu, id)
    ELSE IF inv.mode = "pointers" THEN print_structs_with_pointer_to(S, c, cu, id)
    ELSE IF inv.mode = "reorganize" /\ c.types[id].union THEN S
    ELSE Emit(S, "class", c.types[id], cu)

Keep(S, p) == [S EXCEPT !.protos = Append(@, p)]
Return(S, verdict) == [S EXCEPT !.verdict = verdict]

\* One prototype of the loop of pahole_stealer(); "ret" is what it returns when it
\* gives up.  What stays in the list is appended to S.protos.
StealPrototype(S, p, c, cu, ret) ==
    LET id == cu__find_type_by_name(c, p.name, inv.mode = "pointers" \/ inv.stats = "methods")
        class == c.types[id]
        q == IF NeedsEnum(p) THEN ResolveEnum(p, c) ELSE p
    IN
    IF S.verdict # "none" \/ S.dump THEN Keep(S, p)
    ELSE IF p.class # NoClass THEN Keep(S, q)
    ELSE IF id = 0 THEN IF inv.skip_missing THEN Keep(S, p) ELSE Return(Keep(S, p), ret)
    ELSE IF BadPrototype(p, class) THEN Return(Keep(S, p), "ABORT")
    ELSE IF NeedsEnum(q) THEN Return(Keep(S, q), ret)
    ELSE IF BadFilter(p, class) THEN Return(Keep(S, q), "ABORT")
    ELSE IF inv.mode = "prettify"
         THEN Keep(S, [q EXCEPT !.class = <<class>>, !.cu = cu, !.cutypes = c.types])
    ELSE PrintPrototype(S, q, c, cu, id)

StealPrototypes(c, cu, ret) ==
    FoldLeft(LAMBDA S, p : StealPrototype(S, p, c, cu, ret), [Work EXCEPT !.protos = <<>>], protos)

-----------------------------------------------------------------------------
(* The load, as far as the stealer sees it: file after file, CU after CU    *)

Kernel == argv = <<>>
File == IF Kernel THEN inv.kernel ELSE argv[at[1]]
CuId == IF Kernel THEN <<0, at[2]>> ELSE at
Cu == File.cus[at[2]]
Stealing == pc = "load" /\ File.fmt # "none" /\ at[2] <= Len(File.cus)

AfterFile == IF Kernel \/ at[1] = Len(argv) THEN "loaded" ELSE "load"

\* The verdict on the CU.  The BTF loader has one CU for a file, deletes nothing
\* and takes LSK__ABORT for a success.
Answer(verdict) ==
    /\ stolen' = Append(stolen, CuId)
    /\ freed' = IF verdict = "DELETE" /\ File.fmt = "dwarf" THEN freed \cup {CuId} ELSE freed
    /\ err' = IF verdict = "ABORT" /\ File.fmt = "dwarf" THEN at[1] ELSE err
    /\ at' = IF verdict \in {"DELETE", "KEEPIT"} THEN <<at[1], at[2] + 1>> ELSE <<at[1] + 1, 1>>
    /\ pc' = IF verdict \in {"DELETE", "KEEPIT"} THEN "load"
             ELSE IF err' # 0 THEN "loaded" ELSE AfterFile

\* --first_obj_only
Dumped(verdict) == IF inv.first_obj_only THEN "STOP_LOADING" ELSE verdict

\* What the work on a CU changed.
Commit(S) ==
    /\ tree' = S.tree /\ list' = S.list /\ need_resort' = S.resort
    /\ out' = S.out /\ protos' = S.protos

FileLoaded ==
    /\ pc = "load" /\ File.fmt # "none" /\ at[2] > Len(File.cus)
    /\ at' = <<at[1] + 1, 1>> /\ pc' = AfterFile
    /\ UNCHANGED <<inv, protos, streamVars, argv, class_name, freed, stolen, structureVars,
                   encoder, out, err, not_found, dangling, rc>>

FileFailed ==
    /\ pc = "load" /\ File.fmt = "none"
    /\ pc' = "loaded" /\ err' = at[1]
    /\ UNCHANGED <<inv, protos, streamVars, argv, class_name, at, freed, stolen, structureVars,
                   encoder, out, not_found, dangling, rc>>

-----------------------------------------------------------------------------
(* pahole_stealer()                                                        *)

StealFiltered ==
    /\ Stealing /\ ~cu__filter(Cu)
    /\ Answer("DELETE")
    /\ UNCHANGED <<inv, protos, streamVars, argv, class_name, structureVars, encoder, out,
                   not_found, dangling, rc>>

HasEnumerator == inv.enumerator # 0 /\ inv.enumerator \in UNION Cu.enums

StealEnumerator ==
    /\ Stealing /\ cu__filter(Cu) /\ HasEnumerator
    /\ out' = Append(out, Shown("enumeration", inv.enumerator, CuId))
    /\ Answer("DELETE")
    /\ UNCHANGED <<inv, protos, streamVars, argv, class_name, structureVars, encoder,
                   not_found, dangling, rc>>

Showing == Stealing /\ cu__filter(Cu) /\ ~HasEnumerator

\* The encoder is made for the first CU and stays broken once a CU failed.
pahole_stealer__btf_encode ==
    /\ Showing /\ inv.encode
    /\ \/ /\ encoder' = IF encoder = "broken" THEN "broken" ELSE "open"
          /\ Answer("DELETE")
       \/ /\ "encode" \in inv.faults
          /\ encoder' \in IF encoder = "none" THEN {"none", "broken"} ELSE {"broken"}
          /\ Answer("ABORT")
    /\ UNCHANGED <<inv, protos, streamVars, argv, class_name, structureVars, out,
                   not_found, dangling, rc>>

StealClasses ==
    /\ Showing /\ ~inv.encode /\ class_name = <<>> /\ inv.stats # "methods"
    /\ Commit(print_classes(Cu, CuId))
    /\ Answer(Dumped(IF CanSort THEN "KEEPIT" ELSE "DELETE"))
    /\ UNCHANGED <<inv, streamVars, argv, class_name, encoder, not_found, dangling, rc>>

StealMethods ==
    /\ Showing /\ ~inv.encode /\ class_name = <<>> /\ inv.stats = "methods"
    /\ Commit(cu__account_nr_methods(Cu, CuId))
    /\ Answer(Dumped("DELETE"))
    /\ UNCHANGED <<inv, streamVars, argv, class_name, encoder, not_found, dangling, rc>>

\* --header is looked for in every CU until it is found; the CU is kept then.
FindHeader ==
    IF ~header.found /\ inv.header_type # 0 /\ cu__find_type_by_name(Cu, inv.header_type, FALSE) # 0
    THEN [header EXCEPT !.found = TRUE, !.cu = CuId] ELSE header

\* Mutant: the CU of the header is given back.
HeaderVerdict_delete == "DELETE"
HeaderVerdict == IF FindHeader # header THEN "KEEPIT" ELSE "DELETE"

\* Something that pretty printing needs may still be in a CU to come.
Unsolved(S) ==
    \/ inv.header_type # 0 /\ ~FindHeader.found
    \/ \E k \in DOMAIN S.protos : NeedsEnum(S.protos[k])

NamesVerdict(S) ==
    IF S.verdict # "none" THEN S.verdict
    ELSE IF S.dump THEN Dumped(HeaderVerdict)
    ELSE IF inv.mode = "prettify" THEN "KEEPIT"
    ELSE IF S.protos = <<>> THEN "STOP_LOADING" ELSE Dumped(HeaderVerdict)

\* The classes named with -C, -i or -f.  With everything solved pretty printing
\* starts; it ends with LSK__STOP_LOADING.
StealNames ==
    LET S == StealPrototypes(Cu, CuId, HeaderVerdict) IN
    /\ Showing /\ ~inv.encode /\ class_name # <<>>
    /\ header' = FindHeader
    /\ Commit(S)
    /\ IF inv.mode = "prettify" /\ S.verdict = "none" /\ ~Unsolved(S)
       THEN pc' = "pretty" /\ pretty' = "open" /\ UNCHANGED <<at, freed, stolen, err>>
       ELSE Answer(NamesVerdict(S)) /\ UNCHANGED pretty
    /\ UNCHANGED <<inv, pos, read, records, argv, class_name, encoder, not_found, dangling, rc>>

\* The steps of PrettyPrint, which follow a prototype and the header to their CUs.
Solved == protos # <<>> /\ Head(protos).class # NoClass
Pretty ==
    /\ pc = "pretty" /\ Solved
    /\ PrettyOpen \/ PrettyRecord \/ PrettyEnd \/ PrettyNext
    /\ dangling' = (dangling \/ Head(protos).cu \in freed \/ (header.found /\ header.cu \in freed))
    /\ UNCHANGED <<pc, argv, class_name, at, freed, stolen, structureVars, encoder, out, err,
                   not_found, rc>>

PrettyDone ==
    /\ pc = "pretty" /\ (pretty \in {"done", "failed"} \/ protos = <<>>)
    /\ protos' = IF pretty = "failed" THEN Tail(protos) ELSE protos
    /\ pretty' = "off"
    /\ Answer("STOP_LOADING")
    /\ UNCHANGED <<inv, header, pos, read, records, argv, class_name, structureVars, encoder, out,
                   not_found, dangling, rc>>

\* A prototype whose type was not found has no type to print with.
PrettyCrash ==
    /\ pc = "pretty" /\ pretty = "open" /\ protos # <<>> /\ ~Solved
    /\ pc' = "crash"
    /\ UNCHANGED <<inv, protos, streamVars, argv, class_name, at, freed, stolen, structureVars,
                   encoder, out, err, not_found, dangling, rc>>

-----------------------------------------------------------------------------
(* main()                                                                  *)

Exit(status) == pc' = "exit" /\ rc' = status

\* populate_class_names().  'pahole --header type < file' is the short form of
\* 'pahole -C type --count 1 < file'.
Names ==
    LET short == class_name = <<>> /\ inv.header_type # 0 /\ inv.mode = "prettify"
        asked == IF short THEN <<inv.header_proto>> ELSE class_name
    IN
    /\ pc = "names"
    /\ inv' = IF short THEN [inv EXCEPT !.count = 1, !.header_type = 0] ELSE inv
    /\ class_name' = asked
    /\ \/ /\ \E k \in DOMAIN asked : asked[k].bad
          /\ Exit("FAILURE") /\ UNCHANGED <<protos, at>>
       \/ /\ \A k \in DOMAIN asked : ~asked[k].bad
          /\ protos' = protos \o asked /\ at' = <<1, 1>>
          /\ pc' = "load" /\ UNCHANGED rc
    /\ UNCHANGED <<streamVars, argv, freed, stolen, structureVars, encoder, out, err, not_found,
                   dangling>>

Loaded == pc = "loaded"

\* try_sole_arg_as_class_names: what is no file may be the name of a class of the
\* running kernel.
TrySoleArg ==
    /\ Loaded /\ err # 0 /\ class_name = <<>> /\ ~inv.encode
    /\ IF argv = <<>> \/ argv[1].readable
       THEN Exit("FAILURE") /\ UNCHANGED <<class_name, argv>>
       ELSE class_name' = argv[1].names /\ argv' = <<>> /\ pc' = "names" /\ UNCHANGED rc
    /\ err' = IF pc' = "names" THEN 0 ELSE err
    /\ UNCHANGED <<inv, protos, streamVars, at, freed, stolen, structureVars, encoder, out,
                   not_found, dangling>>

LoadError ==
    /\ Loaded /\ err # 0 /\ (class_name # <<>> \/ inv.encode)
    /\ Exit(IF inv.encode THEN "SUCCESS" ELSE "FAILURE")
    /\ UNCHANGED <<inv, protos, streamVars, argv, class_name, at, freed, stolen, structureVars,
                   encoder, out, err, not_found, dangling>>

\* Nothing after this is done with --sort, neither the report of a type that was
\* not found nor the encoding.
print_ordered_classes ==
    /\ Loaded /\ err = 0 /\ CanSort
    /\ \E ub \in {-1, 0, 1} :
         LET sorted == IF need_resort THEN resort_classes(ub) ELSE tree IN
         /\ tree' = IF need_resort THEN sorted ELSE tree
         /\ out' = out \o [k \in DOMAIN sorted |-> Shown("class", sorted[k].class, sorted[k].cu)]
         /\ dangling' = (dangling \/ \E k \in DOMAIN sorted : sorted[k].cu \in freed)
    /\ Exit("SUCCESS")
    /\ UNCHANGED <<inv, protos, streamVars, argv, class_name, at, freed, stolen, list, need_resort,
                   encoder, err, not_found>>

\* Mutant: the result of btf_encoder__encode() is not looked at.
Finish_unchecked ==
    /\ Loaded /\ err = 0 /\ ~CanSort
    /\ not_found' = \E k \in DOMAIN protos : protos[k].class = NoClass
    /\ encoder' \in IF inv.encode /\ encoder # "none" THEN {"written", "broken"} ELSE {encoder}
    /\ Exit("SUCCESS")
    /\ UNCHANGED <<inv, protos, streamVars, argv, class_name, at, freed, stolen, structureVars,
                   out, err, dangling>>

Finish ==
    /\ Loaded /\ err = 0 /\ ~CanSort
    /\ not_found' = \E k \in DOMAIN protos : protos[k].class = NoClass
    /\ IF inv.encode /\ encoder # "none"
       THEN \/ encoder' = "written" /\ Exit("SUCCESS")
            \/ "write" \in inv.faults /\ encoder' = "broken" /\ Exit("FAILURE")
       ELSE Exit("SUCCESS") /\ UNCHANGED encoder
    /\ UNCHANGED <<inv, protos, streamVars, argv, class_name, at, freed, stolen, structureVars,
                   out, err, dangling>>

Done == pc \in {"exit", "crash"} /\ UNCHANGED vars

Next ==
    \/ Names \/ FileLoaded \/ FileFailed
    \/ StealFiltered \/ StealEnumerator \/ pahole_stealer__btf_encode
    \/ StealClasses \/ StealMethods \/ StealNames
    \/ Pretty \/ PrettyDone \/ PrettyCrash
    \/ TrySoleArg \/ LoadError \/ print_ordered_classes \/ Finish
    \/ Done

Spec == Init /\ [][Next]_vars

-----------------------------------------------------------------------------
(* Properties                                                              *)

CuOf(id) == IF id[1] = 0 THEN inv.kernel.cus[id[2]] ELSE inv.argv[id[1]].cus[id[2]]

\* The definitions the stealer was shown, as <<CU, type>>, that have a name and
\* are to be shown.
Definitions ==
    UNION {{<<id, k>> : k \in {k \in DOMAIN CuOf(id).types :
                                ~IsAnonymous(CuOf(id).types[k]) /\ class__filter(CuOf(id).types[k])}}
           : id \in {id \in ToSet(stolen) : cu__filter(CuOf(id))}}
ClassOf(d) == CuOf(d[1]).types[d[2]]

\* What two definitions have in common to be the same to a reader: their layout,
\* and the types of their members too when the output is sorted.
Layout(class) == <<class.name, class.size,
                   [k \in DOMAIN class.members |-> <<class.members[k].name, class.members[k].offset,
                                                      class.members[k].bitfield_size>>]>>
Typed(class) == <<Layout(class), [k \in DOMAIN class.members |-> class.members[k].type]>>

\* The pointers to a class among the parameters of the functions that were seen.
MethodsOf(layout) ==
    {m \in UNION {{id} \X (1 .. 3) \X (1 .. 3) : id \in ToSet(stolen)} :
        LET c == CuOf(m[1])
            class == c.types[c.fns[m[2]][m[3]]]
        IN cu__filter(c) /\ m[2] \in DOMAIN c.fns /\ m[3] \in DOMAIN c.fns[m[2]]
           /\ Layout(class) = layout /\ ~class.union /\ class__filter(class)}

Listing == class_name = <<>> /\ ~inv.encode /\ inv.enumerator = 0
Exited == rc = "SUCCESS" /\ err = 0

(* structures__tree stays in its order and has the entries of structures__list,
   until it is sorted again.                                                 *)
TypeOK ==
    /\ pc \in {"names", "load", "pretty", "loaded", "exit", "crash"}
    /\ pretty \in {"off", "open", "records", "next", "done", "failed"}
    /\ pos \in 0 .. Len(inv.input)
    /\ rc \in {"none", "SUCCESS", "FAILURE"} /\ (rc # "none" <=> pc = "exit")
    /\ freed \subseteq ToSet(stolen)
    /\ pc # "exit" =>
         /\ {<<tree[k].class, tree[k].cu>> : k \in DOMAIN tree}
              = {<<list[k].class, list[k].cu>> : k \in DOMAIN list}
         /\ \A i, j \in DOMAIN tree : i < j =>
              type__compare(tree[i].class, tree[j].class) < 0
              \/ (inv.sort /\ Layout(tree[i].class) = Layout(tree[j].class))

(* -T counts for every structure the definitions of it there are in all CUs, -m
   the parameters of all functions that point to it, in whatever order CUs come
   and however often names are used for different structures.  Not with --sort:
   equal structures are then kept apart.                                     *)
Counted ==
    Exited /\ Listing /\ ~inv.sort =>
        IF inv.stats = "methods"
        THEN /\ \A k \in DOMAIN list : \E j \in DOMAIN tree :
                  /\ Layout(tree[j].class) = Layout(list[k].class)
                  /\ tree[j].nr_methods = Cardinality(MethodsOf(Layout(list[k].class)))
             /\ \A d \in Definitions : MethodsOf(Layout(ClassOf(d))) # {} =>
                  \E k \in DOMAIN tree : Layout(tree[k].class) = Layout(ClassOf(d))
        ELSE \A d \in Definitions : \E k \in DOMAIN tree :
                /\ Layout(tree[k].class) = Layout(ClassOf(d))
                /\ tree[k].nr_files = Cardinality({e \in Definitions :
                                            Layout(ClassOf(e)) = Layout(ClassOf(d))})

\* Sorting a second time looks neither at sizes nor at the number of members.
ResortExact ==
    \A d, e \in Definitions : ClassOf(d).name = ClassOf(e).name =>
        /\ Len(ClassOf(d).members) = Len(ClassOf(e).members)
        /\ Typed(ClassOf(d))[2] = Typed(ClassOf(e))[2]
           /\ Layout(ClassOf(d))[3] = Layout(ClassOf(e))[3] => ClassOf(d).size = ClassOf(e).size

NamedOut == SelectSeq(out, LAMBDA o : o.what = "class" /\ ~IsAnonymous(o.class))

(* Without names every structure of the CUs is printed, and none twice: by its
   layout, or with --sort by its layout and the types of its members, and then
   in the order of the names, whatever the order of the CUs.                 *)
EachPrintedOnce ==
    Exited /\ Listing /\ inv.formatter = "class" /\ inv.stats = "none" /\ ~inv.packable
    /\ (need_resort => ResortExact) =>
        LET Key(class) == IF inv.sort THEN Typed(class) ELSE <<Layout(class)>> IN
        /\ {Key(NamedOut[k].class) : k \in DOMAIN NamedOut} = {Key(ClassOf(d)) : d \in Definitions}
        /\ \A i, j \in DOMAIN NamedOut : i < j =>
             /\ Key(NamedOut[i].class) # Key(NamedOut[j].class)
             /\ inv.sort => NamedOut[i].class.name <= NamedOut[j].class.name

\* All CUs that are not filtered of what was loaded, whether the stealer saw them.
LoadedFiles == IF Kernel THEN {<<0, inv.kernel>>} ELSE {<<f, argv[f]>> : f \in DOMAIN argv}
AllCus ==
    UNION {{<<f[1], k>> : k \in {k \in DOMAIN f[2].cus : cu__filter(f[2].cus[k])}} : f \in LoadedFiles}
DefinedIn(name) == {id \in AllCus : cu__find_type_by_name(CuOf(id), name, FALSE) # 0}
Times(seq, Test(_)) == Cardinality({k \in DOMAIN seq : Test(seq[k])})

(* -C a,b: every class is printed once, from one CU, if there is one with it in
   any file, and otherwise it is reported as not found; loading stops early only
   when nothing is left to find.  With several names this takes --skip_missing.  *)
NamesAnswered ==
    Exited /\ inv.mode = "print" /\ class_name # <<>> /\ ~inv.encode
    /\ inv.enumerator = 0 /\ ~inv.first_obj_only /\ ~CanSort
    /\ (inv.skip_missing \/ Len(class_name) = 1) /\ (\A k \in DOMAIN class_name : ~class_name[k].nr_args) =>
        /\ \A k \in DOMAIN class_name :
             Times(NamedOut, LAMBDA o : o.class.name = class_name[k].name)
               = IF DefinedIn(class_name[k].name) = {} THEN 0
                 ELSE Times(class_name, LAMBDA p : p.name = class_name[k].name)
        /\ not_found <=> \E k \in DOMAIN class_name : DefinedIn(class_name[k].name) = {}

(* What is printed after a CU was given back is not followed into that CU: main()
   prints sorted structures, and the last CU has all prototypes printed.  It is
   when -m, -i or -f are used with --sort, and when one of several prototypes is
   missing from the CU of another.                                           *)
UsesLiveCus ==
    dangling => \/ CanSort /\ (inv.stats = "methods" \/ class_name # <<>>)
                \/ inv.mode = "prettify" /\ Len(class_name) > 1

(* Pretty printing starts when the header, all types and all enumerations were
   found; with --skip_missing a type may be missing.                         *)
SolvedBeforePretty ==
    /\ pc = "pretty" /\ pretty = "open" =>
         /\ inv.header_type # 0 => header.found
         /\ \A k \in DOMAIN protos : ~NeedsEnum(protos[k])
    /\ pc = "crash" => inv.skip_missing

(* pahole -J that exits with success has written what it encoded, unless the load
   failed or --sort made main() forget about it.                             *)
EncodedOnSuccess ==
    rc = "SUCCESS" /\ inv.encode /\ err = 0 /\ ~CanSort => encoder \in {"none", "written"}

(* "If encoding is asked for and there is no DEBUG info to encode from, there are
   no errors, continue": success without output means there was nothing to
   encode from.                                                              *)
NoDebugInfoOnly == rc = "SUCCESS" /\ inv.encode /\ ~CanSort => encoder # "broken"

(* What is printed answers the options: every structure, or every one asked for by
   name, from whatever CU has it, once, with its counts over all CUs.        *)
PrintedAsAsked == Counted /\ EachPrintedOnce /\ NamesAnswered

(* What main() and the last CU work on is there: CUs that were not given back, and
   the header, types and enumerations that pretty printing needs.            *)
UsesWhatIsThere == UsesLiveCus /\ SolvedBeforePretty
=============================================================================
