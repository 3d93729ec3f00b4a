------------------------------ MODULE DwarfCu ------------------------------
(***************************************************************************)
(* Decoding the DIEs of a module whose CUs are merged into one             *)
(* (cus__merge_and_process_cu()): every DIE becomes a tag that is put in a *)
(* table, which gives it a small id, and in a hash table under its offset; *)
(* partial units are imported, partial units of a dwz alternate file that  *)
(* nothing needs are pruned, and then the offsets that tags refer to are   *)
(* recoded to small ids.                                                   *)
(*                                                                         *)
(* The DIEs of a unit are listed children first, the order in which they   *)
(* reach the tables; "in" is the offset of the parent.  Offsets are        *)
(* numbers that the three offset spaces share.  Memory does not run out.   *)
(***************************************************************************)
EXTENDS Integers, Sequences, FiniteSets, FiniteSetsExt, SequencesExt

CONSTANTS
    Files,          \* the modules that may be loaded, see FileType
    MaxDepth        \* MAX_IMPORTED_UNIT_DEPTH

(* A reference has a form: "same" file, "alt" file or "sig8" type unit.  A
   pointer has the chain of its DW_AT_GNU_annotation attributes.            *)
Form == {"same", "alt", "sig8"}
RefType == [form : Form, off : Nat]
NoRef == [form |-> "same", off |-> 0]
DieType == [off : Nat, tag : STRING, in : Nat, type : RefType, origin : RefType,
            spec : RefType, named : BOOLEAN, annots : Seq(RefType)]
UnitType == [start : Nat, end : Nat, partial : BOOLEAN, filtered : BOOLEAN,
             dies : Seq(DieType)]
FileType == [hasalt : BOOLEAN, alt : Seq(UnitType), main : Seq(UnitType),
             types : Seq(Nat), cxx : BOOLEAN, ignore : SUBSET STRING]

UnitsIn(f, space) == IF space = "alt" THEN f.alt ELSE f.main
IsImport(d) == d.tag = "import" /\ d.in = 0

(* The file an annotation reference of a pointer is looked up in: the
   alternate one from the first reference that leads there.                 *)
AnnotSpace(space, d, k) ==
    IF space = "alt" \/ \E j \in 1 .. k : d.annots[j].form = "alt" THEN "alt" ELSE "main"

ASSUME FilesAssumption == Files \subseteq FileType

(* An offset is the one of a single DIE of its file. *)
ASSUME OffsetsAssumption ==
    \A f \in Files, s \in {"alt", "main"} :
        \A u, v \in DOMAIN UnitsIn(f, s) :
            \A j \in DOMAIN UnitsIn(f, s)[u].dies, k \in DOMAIN UnitsIn(f, s)[v].dies :
                LET d == UnitsIn(f, s)[u].dies[j]
                    e == UnitsIn(f, s)[v].dies[k]
                IN d.off = e.off /\ ~IsImport(d) /\ ~IsImport(e) => u = v /\ j = k

VARIABLES
    file,           \* the module
    pc,             \* "start", "alt", "main", "prune", "types", "tags", "functions",
                    \* "resolve", "done", "abort", "crash"
    stack,          \* units being walked: [space, unit, die, depth]
    next,           \* the next unit of the file being walked
    walks,          \* walks of units that were started
    alt_pus,        \* dcu->alt_pus
    imported,       \* dcu->imported_units
    processing_alt, \* dcu->processing_alt
    tags,           \* the tags in the order they were made, see NewTag
    types_table,    \* cu->types_table, tags_table and functions_table: the
    tags_table,     \*   number of a tag, or 0, for ids 0, 1, ...
    functions_table,
    i               \* entry that is recoded next

vars == <<file, pc, stack, next, walks, alt_pus, imported, processing_alt, tags,
          types_table, tags_table, functions_table, i>>

----------------------------------------------------------------------------
(* Offset spaces *)

(* dwarf_cu__find_alt_pu(): the index of the partial unit that holds an
   offset, or 0.                                                            *)
dwarf_cu__find_alt_pu(pus, off) ==
    LET S == {k \in DOMAIN pus : pus[k].start <= off /\ off < pus[k].end}
    IN IF S = {} THEN 0 ELSE CHOOSE k \in S : TRUE

dwarf_cu__mark_alt_pu_hit(pus, off) ==
    LET k == dwarf_cu__find_alt_pu(pus, off)
    IN IF k = 0 THEN pus ELSE [pus EXCEPT ![k].hit = TRUE]

(* from_types_section and from_alt: the space a reference is looked up in. *)
RefSpace(r) ==
    IF r.form = "sig8" THEN "types"
    ELSE IF r.form = "alt" \/ processing_alt THEN "alt" ELSE "main"

(* attr_type() and dwarf_tag__set_attr_type(): without the alternate file a
   reference into it is none.                                               *)
set_attr_type(r) ==
    IF r.form = "alt" /\ ~file.hasalt
    THEN [off |-> 0, space |-> IF processing_alt THEN "alt" ELSE "main"]
    ELSE [off |-> r.off, space |-> RefSpace(r)]

(* The hits of the references of a DIE: only the explicit ones count. *)
MarkHits(pus, rs) ==
    FoldLeft(LAMBDA acc, r : IF r.form = "alt" THEN dwarf_cu__mark_alt_pu_hit(acc, r.off)
                             ELSE acc, pus, rs)

tag__is_tag_type(tag) ==
    tag \in {"struct", "union", "typedef", "enum", "base", "const", "pointer",
             "array", "subroutine", "unspec", "annot"}

(* cu__hash(): which tables, of which space. *)
cu__hash(tag) == IF tag__is_tag_type(tag) THEN "types" ELSE "tags"

(* hashtags__find(): the tag that was hashed last under the offset, or 0. *)
hashtags__find(T, hash, space, off) ==
    LET S == {h \in DOMAIN T : T[h].hash = hash /\ T[h].space = space
                               /\ T[h].die = off /\ T[h].live}
    IN IF off = 0 \/ S = {} THEN 0 ELSE Max(S)

dwarf_cu__find_tag_by_ref(T, r) ==
    IF r.space = "types" THEN 0 ELSE hashtags__find(T, "tags", r.space, r.off)

(* __dwarf_cu__find_type_by_ref(): the small id, or -1.  The id of a type in
   the type unit is one of the type unit's own table.  last_type_lookup is
   left out: it is what the table holds under that offset.                  *)
dwarf_cu__find_type_by_ref(T, r) ==
    IF r.space = "types"
    THEN LET S == {k \in DOMAIN file.types : file.types[k] = r.off}
         IN IF S = {} THEN -1 ELSE Max(S)
    ELSE LET h == hashtags__find(T, "types", r.space, r.off)
         IN IF h = 0 THEN -1 ELSE T[h].id

----------------------------------------------------------------------------
(* What becomes of a DIE, by the handler of its parent: "skip" with all its
   children, "walk" through the children only, "hash", or "table": in a table
   and hashed.                                                              *)

__die__process_tag(tag) ==
    CASE tag \in {"import", "procedure", "annot", "unknown"} -> "skip"
      [] tag = "label" /\ "label" \in file.ignore -> "skip"
      [] OTHER -> "table"

die__process_class(tag) ==
    CASE tag \in {"member", "inheritance"} ->
             IF file.cxx /\ ~processing_alt THEN "table" ELSE "hash"
      [] tag \in {"subrange", "variant", "template", "annot"} -> "skip"
      [] OTHER -> __die__process_tag(tag)

die__create_new_enumeration(tag) ==
    CASE tag = "enumerator" -> "hash" [] tag = "func" -> "table" [] OTHER -> "skip"

die__create_new_subroutine_type(tag) ==
    CASE tag = "param" -> "table"
      [] tag \in {"subrange", "ellipsis"} -> "skip"
      [] OTHER -> __die__process_tag(tag)

die__process_inline_expansion(tag) ==
    CASE tag = "call_site" -> "skip"
      [] tag = "lexblock" -> "walk"
      [] tag \in {"param", "inline"} -> "table"
      [] OTHER -> __die__process_tag(tag)

die__process_function(tag) ==
    CASE tag \in {"call_site", "procedure", "template", "ellipsis", "annot"} -> "skip"
      [] tag = "inline" /\ "inline" \in file.ignore -> "skip"
      [] tag = "lexblock" -> "walk"
      [] tag \in {"param", "variable", "inline"} -> "table"
      [] OTHER -> __die__process_tag(tag)

(* The children of an array are its dimensions, those of a pointer the LLVM
   style annotations, which die__create_new_pointer_tag() adds.             *)
Handle(parent, tag) ==
    CASE parent = "unit" -> IF tag = "unspec" THEN "hash" ELSE __die__process_tag(tag)
      [] parent \in {"struct", "union"} -> die__process_class(tag)
      [] parent = "enum" -> die__create_new_enumeration(tag)
      [] parent = "subroutine" -> die__create_new_subroutine_type(tag)
      [] parent \in {"func", "lexblock"} -> die__process_function(tag)
      [] parent = "inline" -> die__process_inline_expansion(tag)
      [] parent = "namespace" -> __die__process_tag(tag)
      [] parent = "pointer" -> IF tag = "annot" /\ "type_tag" \notin file.ignore
                               THEN "table" ELSE "skip"
      [] OTHER -> "skip"

(* What becomes of each DIE of a unit: a child of a skipped one is skipped. *)
Fates(dies) ==
    LET n == Len(dies)
        up(k) == CHOOSE p \in k + 1 .. n : dies[p].off = dies[k].in
        fate[k \in 1 .. n] ==
            IF dies[k].in = 0 THEN Handle("unit", dies[k].tag)
            ELSE IF fate[up(k)] = "skip" THEN "skip"
            ELSE Handle(dies[up(k)].tag, dies[k].tag)
    IN fate

(* The parent whose list a child is put on: in a lexical block, and in an
   inline expansion unless it is a parameter, that of the function around it. *)
ListOf(dies) ==
    LET n == Len(dies)
        up(k) == CHOOSE p \in k + 1 .. n : dies[p].off = dies[k].in
        list[k \in 1 .. n] ==
            IF dies[k].in = 0 THEN 0
            ELSE IF \/ dies[up(k)].tag = "lexblock"
                    \/ dies[up(k)].tag = "inline" /\ dies[k].tag \in {"inline", "lexblock", "label"}
            THEN list[up(k)]
            ELSE dies[k].in
    IN list

(* tag__init(), with the constructors that call it. An inlined subroutine
   has its abstract origin in the place of its type.  walk tells the tags of
   a unit that is walked twice apart.                                       *)
NewTag(d, list, table, id) ==
    [die |-> d.off, tag |-> d.tag, list |-> list, walk |-> stack[1].walk,
     space |-> IF processing_alt THEN "alt" ELSE "main",
     hash |-> cu__hash(d.tag), table |-> table, id |-> id, live |-> TRUE,
     ref |-> [type |-> set_attr_type(IF d.tag = "inline" THEN d.origin ELSE d.type),
              origin |-> set_attr_type(d.origin),
              spec |-> set_attr_type(d.spec)],
     has_origin |-> d.origin # NoRef,
     type |-> 0, name |-> IF d.named THEN d.off ELSE 0, annots |-> <<>>]

----------------------------------------------------------------------------
Init ==
    /\ file \in Files
    /\ pc = "start"
    /\ stack = <<>>
    /\ next = 1
    /\ walks = 0
    /\ alt_pus = <<>>
    /\ imported = {}
    /\ processing_alt = FALSE
    /\ tags = <<>>
    /\ types_table = <<0>>
    /\ tags_table = <<>>
    /\ functions_table = <<>>
    /\ i = 0

tables == <<types_table, tags_table, functions_table>>

(* The first pass over the alternate file registers its partial units. *)
add_alt_pus ==
    /\ pc = "start"
    /\ alt_pus' = [k \in DOMAIN file.alt |->
                      [start |-> file.alt[k].start, end |-> file.alt[k].end, hit |-> FALSE]]
    /\ processing_alt' = file.hasalt
    /\ pc' = IF file.hasalt THEN "alt" ELSE "main"
    /\ UNCHANGED <<file, stack, next, walks, imported, tags, tables, i>>

Push(space, unit, depth) ==
    /\ stack' = <<[space |-> space, unit |-> unit, die |-> 1, depth |-> depth,
                   walk |-> walks + 1]>> \o stack
    /\ walks' = walks + 1

UnitsOf(space) == UnitsIn(file, space)

(* The second pass, and the CUs of the main file, its partial units too. *)
next_unit ==
    /\ pc \in {"alt", "main"}
    /\ stack = <<>>
    /\ next <= Len(UnitsOf(pc))
    /\ next' = next + 1
    /\ IF UnitsOf(pc)[next].filtered   \* conf->early_cu_filter()
       THEN UNCHANGED <<stack, walks>>
       ELSE Push(pc, next, 0)
    /\ UNCHANGED <<file, pc, alt_pus, imported, processing_alt, tags, tables, i>>

units_end ==
    /\ pc \in {"alt", "main"}
    /\ stack = <<>>
    /\ next > Len(UnitsOf(pc))
    /\ next' = 1
    /\ processing_alt' = FALSE
    /\ pc' = IF pc = "alt" THEN "main" ELSE "prune"
    /\ UNCHANGED <<file, stack, walks, alt_pus, imported, tags, tables, i>>

Unit == UnitsOf(stack[1].space)[stack[1].unit]
Die == Unit.dies[stack[1].die]
Advanced == [stack EXCEPT ![1].die = @ + 1]

unit_walked ==
    /\ stack # <<>>
    /\ stack[1].die > Len(Unit.dies)
    /\ stack' = Tail(stack)
    /\ UNCHANGED <<file, pc, next, walks, alt_pus, imported, processing_alt, tags, tables, i>>

(* Mutant: partial units of the alternate file that import each other are
   not marked.                                                              *)
die__process_imported_unit_main ==
    LET r == Die.type
        S == {k \in DOMAIN file.main : file.main[k].start = r.off /\ file.main[k].partial}
    IN IF r.form = "alt"
       THEN /\ alt_pus' = dwarf_cu__mark_alt_pu_hit(alt_pus, r.off)
            /\ stack' = Advanced
            /\ UNCHANGED <<imported, walks>>
       ELSE IF processing_alt \/ S = {} \/ r.off \in imported
       THEN stack' = Advanced /\ UNCHANGED <<alt_pus, imported, walks>>
       ELSE /\ imported' = imported \cup {r.off}
            /\ stack' = <<[space |-> "main", unit |-> CHOOSE k \in S : TRUE, die |-> 1,
                           depth |-> stack[1].depth + 1, walk |-> walks + 1]>> \o Advanced
            /\ walks' = walks + 1
            /\ UNCHANGED alt_pus

(* Mutant: what was imported before is imported again. *)
die__process_imported_unit_again ==
    LET r == Die.type
        alt == r.form = "alt" \/ processing_alt
        S == {k \in DOMAIN file.main : file.main[k].start = r.off /\ file.main[k].partial}
    IN IF alt \/ S = {} \/ stack[1].depth >= MaxDepth
       THEN stack' = Advanced /\ UNCHANGED <<alt_pus, imported, walks>>
       ELSE /\ stack' = <<[space |-> "main", unit |-> CHOOSE k \in S : TRUE, die |-> 1,
                           depth |-> stack[1].depth + 1, walk |-> walks + 1]>> \o Advanced
            /\ walks' = walks + 1
            /\ UNCHANGED <<alt_pus, imported>>

(* die__process_imported_unit(), of the unit at the offset in "type". *)
die__process_imported_unit ==
    LET r == Die.type
        alt == r.form = "alt" \/ processing_alt
        units == IF alt THEN file.alt ELSE file.main
        S == {k \in DOMAIN units : units[k].start = r.off /\ units[k].partial}
    IN IF S = {} \/ stack[1].depth >= MaxDepth \/ (~alt /\ r.off \in imported)
       THEN stack' = Advanced /\ UNCHANGED <<alt_pus, imported, walks>>
       ELSE IF alt
       THEN /\ alt_pus' = dwarf_cu__mark_alt_pu_hit(alt_pus, r.off)
            /\ stack' = Advanced
            /\ UNCHANGED <<imported, walks>>
       ELSE /\ imported' = imported \cup {r.off}
            /\ stack' = <<[space |-> "main", unit |-> CHOOSE k \in S : TRUE, die |-> 1,
                           depth |-> stack[1].depth + 1, walk |-> walks + 1]>> \o Advanced
            /\ walks' = walks + 1
            /\ UNCHANGED alt_pus

import_unit ==
    /\ stack # <<>>
    /\ stack[1].die <= Len(Unit.dies)
    /\ IsImport(Die)
    /\ die__process_imported_unit
    /\ UNCHANGED <<file, pc, next, processing_alt, tags, tables, i>>

IsAnnotation(space, off) ==
    \E u \in ToSet(UnitsOf(space)) : \E d \in ToSet(u.dies) : d.off = off /\ d.tag = "annot"

(* die__create_new_pointer_tag(): the tags of the GCC style annotations, each
   in the space its reference is to, the alternate one from the first one
   that is there; LLVM style ones came before, and are put in front.        *)
PointerAnnots(d, id) ==
    LET space == IF processing_alt THEN "alt" ELSE "main"
        \* the chain ends at the alternate file without one, or at no annotation
        cut == {k \in DOMAIN d.annots :
                   \/ d.annots[k].form = "alt" /\ ~file.hasalt
                   \/ ~IsAnnotation(AnnotSpace(space, d, k), d.annots[k].off)}
        n == IF cut = {} THEN Len(d.annots) ELSE Min(cut) - 1
        tag(k) == [NewTag([d EXCEPT !.off = d.annots[k].off, !.tag = "annot",
                                    !.type = NoRef, !.origin = NoRef],
                          d.off, "table", id + k - 1)
                       EXCEPT !.space = AnnotSpace(space, d, k)]
    IN [k \in 1 .. n |-> tag(k)]

LlvmAnnots(d) ==
    SetToSortSeq({h \in DOMAIN tags : tags[h].tag = "annot" /\ tags[h].list = d.off
                                      /\ tags[h].walk = stack[1].walk}, >)

(* cu__table_add_tag(): the tables after a tag with number h was added. *)
cu__table_add_tag(tag, h) ==
    CASE tag__is_tag_type(tag) ->
             types_table' = Append(types_table, h) /\ UNCHANGED <<tags_table, functions_table>>
      [] tag = "func" ->
             functions_table' = Append(functions_table, h) /\ UNCHANGED <<types_table, tags_table>>
      [] OTHER ->
             tags_table' = Append(tags_table, h) /\ UNCHANGED <<types_table, functions_table>>

TableOf(tag) == CASE tag__is_tag_type(tag) -> types_table
                  [] tag = "func" -> functions_table
                  [] OTHER -> tags_table

(* One DIE: it becomes a tag, and marks what it refers to in the alternate
   file.                                                                    *)
process_die ==
    /\ stack # <<>>
    /\ stack[1].die <= Len(Unit.dies)
    /\ ~IsImport(Die)
    /\ LET k == stack[1].die
           fate == Fates(Unit.dies)[k]
           id == Len(TableOf(Die.tag))
           list == ListOf(Unit.dies)[k]
           gcc == IF Die.tag = "pointer" /\ LlvmAnnots(Die) = <<>>
                     /\ "type_tag" \notin file.ignore
                  THEN PointerAnnots(Die, id) ELSE <<>>
           llvm == IF Die.tag = "pointer" THEN LlvmAnnots(Die) ELSE <<>>
           hits == MarkHits(MarkHits(alt_pus, <<Die.type, Die.origin, Die.spec>>),
                            [a \in DOMAIN gcc |->
                                [form |-> IF gcc[a].space = "alt" THEN "alt" ELSE "same",
                                 off |-> gcc[a].die]])
       IN CASE fate \in {"skip", "walk"} ->
                 /\ alt_pus' = IF fate = "walk" THEN hits ELSE alt_pus
                 /\ UNCHANGED <<tags, tables>>
            [] fate = "hash" ->
                 /\ tags' = Append(tags, NewTag(Die, list, "none", 0))
                 /\ alt_pus' = hits
                 /\ UNCHANGED tables
            [] fate = "table" /\ Die.tag # "pointer" ->
                 /\ tags' = Append(tags, NewTag(Die, list, "table", id))
                 /\ cu__table_add_tag(Die.tag, Len(tags) + 1)
                 /\ alt_pus' = hits
            [] OTHER ->     \* "table", a pointer
                 LET n == Len(tags)
                     own == [a \in DOMAIN gcc |-> n + a]
                 IN /\ tags' = tags \o gcc
                               \o <<[NewTag(Die, list, "table", id + Len(gcc))
                                        EXCEPT !.annots = llvm \o own]>>
                    /\ types_table' = types_table \o own \o <<n + Len(gcc) + 1>>
                    /\ UNCHANGED <<tags_table, functions_table>>
                    /\ alt_pus' = hits
    /\ stack' = Advanced
    /\ UNCHANGED <<file, pc, next, walks, imported, processing_alt, i>>

----------------------------------------------------------------------------
(* dwarf_cu__prune_unreferenced_alt_pus(): everything hashed from a partial
   unit without a hit leaves the hash tables, the lists and the tables, where
   it clears the entry of its small id, which is 0 for what is not in one.  *)

Pruned(h) ==
    /\ tags[h].space = "alt"
    /\ LET k == dwarf_cu__find_alt_pu(alt_pus, tags[h].die)
       IN k = 0 \/ ~alt_pus[k].hit

Cleared(table, which) ==
    LET ids == {tags[h].id : h \in {g \in DOMAIN tags : Pruned(g) /\ tags[g].hash = which[1]
                                        /\ (tags[g].tag = "func") = which[2]}}
    IN [k \in DOMAIN table |-> IF k - 1 \in ids THEN 0 ELSE table[k]]

NoTagsTable ==
    /\ tags_table = <<>>
    /\ \E h \in DOMAIN tags : Pruned(h) /\ tags[h].hash = "tags" /\ tags[h].tag # "func"

prune_unreferenced_alt_pus ==
    /\ pc = "prune"
    /\ pc' = IF file.hasalt /\ NoTagsTable THEN "crash" ELSE "types"
    /\ i' = 1
    /\ IF ~file.hasalt THEN UNCHANGED <<tags, tables>>
       ELSE /\ tags' = [h \in DOMAIN tags |->
                           [tags[h] EXCEPT !.live = @ /\ ~Pruned(h)]]
            /\ types_table' = Cleared(types_table, <<"types", FALSE>>)
            /\ functions_table' = Cleared(functions_table, <<"tags", TRUE>>)
            /\ tags_table' = Cleared(tags_table, <<"tags", FALSE>>)
    /\ UNCHANGED <<file, stack, next, walks, alt_pus, imported, processing_alt>>

----------------------------------------------------------------------------
(* Recoding.  The operators take and give all the tags. *)

SetType(T, h, id) == IF id = -1 THEN T ELSE [T EXCEPT ![h].type = id]

(* The tags on the list of a tag, in the order they were added. *)
ChildrenOf(T, h, kinds) ==
    LET C == {c \in DOMAIN T : T[c].list = T[h].die /\ T[c].walk = T[h].walk
                        /\ T[c].space = T[h].space /\ T[c].tag \in kinds /\ T[c].live}
    IN [n \in 1 .. Cardinality(C) |-> CHOOSE c \in C : Cardinality({b \in C : b < c}) = n - 1]

(* parameter__recode_dwarf_type(); lexblock__recode_dwarf_types() does the
   same with a variable that has no type.                                   *)
parameter__recode_dwarf_type(T, c) ==
    LET r == T[c].ref
        o == dwarf_cu__find_tag_by_ref(T, r.origin)
    IN IF r.type.off # 0 THEN SetType(T, c, dwarf_cu__find_type_by_ref(T, r.type))
       ELSE IF o = 0 THEN T
       ELSE [T EXCEPT ![c].type = T[o].type, ![c].name = T[o].name]

ftype__recode_dwarf_types(T, h) ==
    FoldLeft(parameter__recode_dwarf_type, T, ChildrenOf(T, h, {"param"}))

function__recode_dwarf_name(T, h) ==
    LET o == dwarf_cu__find_tag_by_ref(T, T[h].ref.origin)
        s == dwarf_cu__find_tag_by_ref(T, T[h].ref.spec)
        from == IF o # 0 THEN o ELSE s
    IN IF T[h].name # 0 \/ from = 0 THEN T ELSE [T EXCEPT ![h].name = T[from].name]

inline_expansion__recode_dwarf_types(T, h) ==
    LET o == dwarf_cu__find_tag_by_ref(T, T[h].ref.type)
        T1 == function__recode_dwarf_name(T, o)
        T2 == FoldLeft(parameter__recode_dwarf_type, ftype__recode_dwarf_types(T1, o),
                       ChildrenOf(T, h, {"param"}))
    IN IF o = 0 THEN [T EXCEPT ![h].name = 0]
       ELSE [T2 EXCEPT ![h].type = T[o].id, ![h].name = T2[o].name]

lexblock__recode_tag(T, c) ==
    IF T[c].tag = "inline" THEN inline_expansion__recode_dwarf_types(T, c)
    ELSE parameter__recode_dwarf_type(T, c)

lexblock__recode_dwarf_types(T, h) ==
    FoldLeft(lexblock__recode_tag, T, ChildrenOf(T, h, {"inline", "variable"}))

namespace__recode_tag(T, c) ==
    LET T1 == IF T[c].tag \in {"func", "subroutine"} THEN ftype__recode_dwarf_types(T, c) ELSE T
    IN IF T1[c].ref.type.off = 0 THEN T1
       ELSE SetType(T1, c, dwarf_cu__find_type_by_ref(T1, T1[c].ref.type))

namespace__recode_dwarf_types(T, h) ==
    FoldLeft(namespace__recode_tag, T,
             ChildrenOf(T, h, {"member", "inheritance", "enumerator", "func", "typedef"}))

(* dwarf_cu__recode_btf_type_tag_ptr(): the pointer points to its first
   annotation, each annotation to the next, the last to the pointee.        *)
dwarf_cu__recode_btf_type_tag_ptr(T, h, pointee) ==
    LET chain == <<h>> \o T[h].annots
        place(g) == CHOOSE k \in DOMAIN chain : chain[k] = g
        link(g) == IF place(g) = Len(chain) THEN pointee ELSE T[chain[place(g) + 1]].id
    IN [g \in DOMAIN T |-> IF g \in Range(chain) THEN [T[g] EXCEPT !.type = link(g)] ELSE T[g]]

(* The end of tag__recode_dwarf_type(): the tag's own type. *)
RecodeOwnType(T, h) ==
    LET id == IF T[h].ref.type.off = 0 THEN 0
              ELSE dwarf_cu__find_type_by_ref(T, T[h].ref.type)
    IN IF id = -1 THEN T
       ELSE IF T[h].tag = "pointer" /\ T[h].annots # <<>>
       THEN dwarf_cu__recode_btf_type_tag_ptr(T, h, id)
       ELSE SetType(T, h, id)

tag__recode_dwarf_type(T, h) ==
    CASE T[h].tag \in {"struct", "union", "enum", "namespace"} -> namespace__recode_dwarf_types(T, h)
      [] T[h].tag = "func" ->
             IF T[h].name = 0 /\ T[h].ref.origin.off = 0 /\ T[h].ref.spec.off = 0 THEN T
             ELSE RecodeOwnType(
                    ftype__recode_dwarf_types(
                      lexblock__recode_dwarf_types(function__recode_dwarf_name(T, h), h), h), h)
      [] T[h].tag = "subroutine" -> RecodeOwnType(ftype__recode_dwarf_types(T, h), h)
      [] T[h].tag = "inline" -> inline_expansion__recode_dwarf_types(T, h)
      [] OTHER -> RecodeOwnType(T, h)

(* cu__recode_dwarf_types(): the types but void, the tags, the functions. *)
Table == CASE pc = "types" -> types_table [] pc = "tags" -> tags_table
           [] OTHER -> functions_table

recode_entry ==
    /\ pc \in {"types", "tags", "functions"}
    /\ i < Len(Table)
    /\ tags' = IF Table[i + 1] = 0 THEN tags ELSE tag__recode_dwarf_type(tags, Table[i + 1])
    /\ i' = i + 1
    /\ UNCHANGED <<file, pc, stack, next, walks, alt_pus, imported, processing_alt, tables>>

table_recoded ==
    /\ pc \in {"types", "tags", "functions"}
    /\ i >= Len(Table)
    /\ i' = 0
    /\ pc' = CASE pc = "types" -> "tags" [] pc = "tags" -> "functions"
               [] pc = "functions" -> "resolve"
    /\ UNCHANGED <<file, stack, next, walks, alt_pus, imported, processing_alt, tags, tables>>

(* cu__resolve_func_ret_types_optimized() for one function: a function
   without a type has the one of its abstract origin.                       *)
resolve_func_ret_type ==
    LET h == functions_table[i + 1]
        wanted == h # 0 /\ tags[h].type = 0 /\ tags[h].has_origin
        o == dwarf_cu__find_tag_by_ref(tags, tags[h].ref.origin)
    IN IF wanted /\ o = 0
       THEN pc' = "abort" /\ UNCHANGED <<tags, i>>
       ELSE /\ tags' = IF wanted THEN SetType(tags, h, tags[o].type) ELSE tags
            /\ i' = i + 1
            /\ pc' = pc

resolve_function ==
    /\ pc = "resolve"
    /\ i < Len(functions_table)
    /\ resolve_func_ret_type
    /\ UNCHANGED <<file, stack, next, walks, alt_pus, imported, processing_alt, tables>>

functions_resolved ==
    /\ pc = "resolve"
    /\ i >= Len(functions_table)
    /\ pc' = "done"
    /\ UNCHANGED <<file, stack, next, walks, alt_pus, imported, processing_alt, tags,
                   tables, i>>

Next == add_alt_pus \/ next_unit \/ units_end \/ unit_walked \/ import_unit
        \/ process_die \/ prune_unreferenced_alt_pus \/ recode_entry \/ table_recoded
        \/ resolve_function \/ functions_resolved

Spec == Init /\ [][Next]_vars

----------------------------------------------------------------------------
TypeOK ==
    /\ pc \in {"start", "alt", "main", "prune", "types", "tags", "functions",
               "resolve", "done", "abort", "crash"}
    /\ \A t \in {types_table, tags_table, functions_table} :
          \A k \in DOMAIN t : t[k] \in 0 .. Len(tags)
    /\ \A h \in DOMAIN tags : tags[h].table = "table" =>
          tags[h].id \in 0 .. Len(TableOf(tags[h].tag)) - 1
    /\ Len(stack) <= MaxDepth + 1

(* The DIE at an offset of the main or the alternate file, and whether it is
   one that becomes a tag.                                                  *)
Known(r) ==
    \E u \in ToSet(UnitsOf(r.space)) :
        /\ ~u.filtered
        /\ \E k \in DOMAIN u.dies : u.dies[k].off = r.off /\ u.dies[k].tag # "import"

(* The tag is the one of the DIE that is referred to. *)
IsOf(h, r) == h # 0 /\ tags[h].die = r.off /\ tags[h].space = r.space

TypeEntry(id) == IF id < Len(types_table) THEN types_table[id + 1] ELSE 0

(* The type at the end of a chain of annotations. *)
Pointee(h) == IF tags[h].annots = <<>> THEN tags[h].type
              ELSE tags[tags[h].annots[Len(tags[h].annots)]].type

(* The first entry of the tags table is cleared by any pruned tag that is in
   no table, and then is not recoded unless it belongs to a function.       *)
LostEntry(h) == tags[h].table = "table" /\ tags[h].hash = "tags" /\ tags[h].tag # "func"
                /\ tags_table[tags[h].id + 1] = 0

(* Every reference to a type that is in the main or the alternate file ends up
   as the id of that very type: offsets of the two files are not confused,
   and no type that is needed was pruned.                                   *)
RefsResolved ==
    pc = "done" =>
        \A h \in DOMAIN tags :
            LET r == tags[h].ref.type IN
            /\ tags[h].live /\ tags[h].tag \notin {"inline", "annot", "enumerator"}
            /\ r.off # 0 /\ r.space # "types" /\ Known(r)
            /\ tags[h].tag = "variable" => ~LostEntry(h)
            => \/ IsOf(TypeEntry(Pointee(h)), r)
               \/ Pointee(h) = 0 /\ \E g \in DOMAIN tags : IsOf(g, r) /\ tags[g].tag = "unspec"

(* What a tag has from its abstract origin - the name and the type of a
   parameter, the type of a function - is what the origin has, whichever of
   them comes first.  The origin is one that has no origin itself.          *)
OriginsShared ==
    pc = "done" =>
        \A h \in DOMAIN tags :
            LET r == tags[h].ref.origin
                o == dwarf_cu__find_tag_by_ref(tags, r)
            IN /\ tags[h].live /\ tags[h].tag \in {"param", "func"} /\ r.off # 0
               /\ tags[h].ref.type.off = 0 /\ ~LostEntry(h)
               /\ r.space # "types" /\ Known(r)
               => /\ IsOf(o, r)
                  /\ tags[o].ref.origin.off = 0 => tags[h].type = tags[o].type
                  /\ tags[o].ref.origin.off = 0 =>
                        tags[h].name \in {tags[o].name} \cup
                            (IF tags[h].tag = "func" THEN {tags[h].die} ELSE {})

(* The annotations of a pointer are chained from the one next to the star to
   the one next to the type: LLVM lists them the other way round, GCC chains
   them so.  Each link is the id of the next one.                           *)
AnnotsChained ==
    pc = "done" =>
        \A h \in DOMAIN tags : LET a == tags[h].annots IN
            tags[h].live /\ a # <<>> =>
                LET u == CHOOSE u \in ToSet(UnitsOf(tags[h].space)) :
                            \E d \in ToSet(u.dies) : d.off = tags[h].die
                    d == CHOOSE d \in ToSet(u.dies) : d.off = tags[h].die
                    llvm == SelectSeq(u.dies, LAMBDA c : c.in = d.off /\ c.tag = "annot")
                    offs(s) == [k \in DOMAIN s |-> s[k].off]
                IN /\ [k \in DOMAIN a |-> tags[a[k]].die] =
                         IF llvm # <<>> THEN Reverse(offs(llvm)) ELSE offs(d.annots)
                   /\ types_table[tags[h].type + 1] = a[1]
                   /\ \A k \in 1 .. Len(a) - 1 : types_table[tags[a[k]].type + 1] = a[k + 1]

(* A DIE is made a tag once for the walk of its unit and once, if the unit is
   partial, for all the places that import it.                              *)
ImportedOnce ==
    \A h \in DOMAIN tags : tags[h].tag # "annot" =>
        Cardinality({g \in DOMAIN tags : tags[g].die = tags[h].die
                        /\ tags[g].space = tags[h].space}) <= 2

(* Every reference of a DIE - to a type, to an abstract origin or to the next
   annotation - ends up at what it refers to, over merged, imported and pruned
   units.                                                                   *)
ReferencesHold == RefsResolved /\ OriginsShared /\ AnnotsChained
=============================================================================
