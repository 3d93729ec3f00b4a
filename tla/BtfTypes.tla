------------------------------ MODULE BtfTypes ------------------------------
(***************************************************************************)
(* BTF from the type tables of several CUs and back: the encoder predicts  *)
(* the BTF id of every type of a CU before it adds the first one           *)
(* (btf_encoder__precompute_btf_ids()), functions and inline expansions    *)
(* are saved with translated ids and added when all CUs are done, and      *)
(* btf_loader.c makes a CU of the result.                                  *)
(*                                                                         *)
(* Which of the saved instances of a function is added is the subject of   *)
(* BtfFunctions; here every function has one.  Memory does not run out,    *)
(* and btf__dedup() of libbpf, which keeps the meaning of every type, is   *)
(* left out.                                                               *)
(***************************************************************************)
EXTENDS Integers, Sequences, FiniteSets, FiniteSetsExt, SequencesExt

CONSTANTS
    Inputs,     \* what may be encoded, see InputType
    U32         \* 2^32, in the scale of the values of enumerators

(* A tag in a types table.  type and the types of kids are core ids; kids are
   members, parameters or enumerators (with a value); a size is in bits for a
   base type and an enumeration, in bytes for a struct.                     *)
Kid == [name : STRING, type : Nat, bits : Nat, off : Nat, value : Int]
Annot == [value : STRING, idx : Int]
TagType == [tag : STRING, type : Nat, name : STRING, size : Nat, enc : STRING,
            dims : Seq(Nat), kids : Seq(Kid), vararg : BOOLEAN, decl : BOOLEAN,
            annots : Seq(Annot)]

(* A function [name, proto : TagType], an inline expansion [name, proto,
   section, offset, locs : Seq(Loc)], a variable and an ELF section.        *)
Loc == [kind : {"none", "const", "reg", "regs", "stack"}, addr : BOOLEAN, value : Int,
        deref : BOOLEAN, signed : BOOLEAN, offset : Int, size : Nat]
VarType == [name : STRING, type : Nat, addr : Nat, declaration : BOOLEAN, spec : BOOLEAN,
            top_level : BOOLEAN, global : BOOLEAN, external : BOOLEAN, valid : BOOLEAN,
            filtered : BOOLEAN, annots : Seq(Annot)]
Section == [name : STRING, addr : Nat, sz : Nat, bits : BOOLEAN, exec : BOOLEAN,
            alloc : BOOLEAN]
IdSym == [kind : {"set8", "func"}, name : STRING, addr : Nat, sz : Nat, flags : SUBSET STRING,
          set : STRING]     \* the set that the source puts it in
InputType ==
    [cus : Seq([types : Seq(TagType), functions : Seq([name : STRING, proto : TagType]),
                inlines : Seq([name : STRING, proto : TagType, section : Nat,
                               offset : Nat, locs : Seq(Loc)]),
                variables : Seq(VarType)]),
     sections : Seq(Section), objects : SUBSET [name : STRING, shndx : Nat],
     btf_ids : Seq(IdSym), elf_functions : SUBSET STRING,
     conf : [gen_floats : BOOLEAN, skip_enum64 : BOOLEAN, inlines : BOOLEAN,
             skip_decl_tag : BOOLEAN, tag_kfuncs : BOOLEAN, attributes : BOOLEAN,
             vars : SUBSET {"percpu", "global"}, force : BOOLEAN, raw : BOOLEAN,
             distilled : BOOLEAN]]

ASSUME InputsAssumption == Inputs \subseteq InputType

VARIABLES
    input,      \* the CUs, the ELF file and the options
    pc,         \* what is done next
    c, i,       \* the CU, and the entry of a table, that is next
    btf,        \* encoder->btf: its types; the id is the index
    enc,        \* the rest of struct btf_encoder, see Init
    saved,      \* func_states: functions with translated ids
    loc_states, \* the same of inline expansions
    secinfo,    \* by section: variables in it, [type, offset, size]
    out,        \* the sections of the file: "old", "new", "torn" or "gone"
    cu,         \* what is loaded: [types, functions, variables, attrs, sites]
    ids         \* history: the btf_id_map of every CU

vars == <<input, pc, c, i, btf, enc, saved, loc_states, secinfo, out, cu, ids>>

conf == input.conf
Cu == input.cus[c]

(* A BTF type: items are members, parameters, enumerators, variables of a
   section, values and ids of locations.                                    *)
Btf(kind, name, type) ==
    [kind |-> kind, name |-> name, type |-> type, size |-> 0, enc |-> "", nelems |-> 0,
     index |-> 0, kflag |-> FALSE, items |-> <<>>, idx |-> -1, flags |-> {}]

----------------------------------------------------------------------------
(* Ids *)

(* Mutant: the innermost dimension of an array gets the id. *)
tag__nr_btf_ids_one(t) == IF t.tag = "unspec" THEN 0 ELSE 1

tag__nr_btf_ids(t) ==
    CASE t.tag = "unspec" -> 0
      [] t.tag = "array" -> IF t.dims = <<>> THEN 1 ELSE Len(t.dims)
      [] OTHER -> 1

nulls(types, n) == Cardinality({k \in 1 .. n : k \in DOMAIN types /\ types[k].tag = "null"})

(* btf_encoder__precompute_btf_ids(), with type_id_null_adj. *)
btf_encoder__precompute_btf_id(types, type_id_off, acc, k) ==
    LET n == tag__nr_btf_ids(types[k])
        base == type_id_off + k - nulls(types, k) - acc.skipped + acc.extra
    IN IF types[k].tag = "null" THEN [acc EXCEPT !.map = Append(@, 0)]
       ELSE IF n = 0 THEN [acc EXCEPT !.map = Append(@, 0), !.skipped = @ + 1]
       ELSE [acc EXCEPT !.map = Append(@, base + n - 1), !.extra = @ + n - 1]

btf_encoder__precompute_btf_ids(types, type_id_off) ==
    FoldLeft(LAMBDA acc, k : btf_encoder__precompute_btf_id(types, type_id_off, acc, k),
             [map |-> <<>>, extra |-> 0, skipped |-> 0], [k \in 1 .. Len(types) |-> k])

btf_encoder__tag_type(id) ==
    IF id = 0 THEN 0
    ELSE IF id <= Len(enc.map) THEN enc.map[id]
    ELSE enc.type_id_off + id

(* The type of array indexes: "int" of the CU, or one that is added behind
   all the types of the CU.                                                 *)
array_index_id(types, map, type_id_off, pre) ==
    LET ints == {k \in DOMAIN types : types[k].tag = "base" /\ types[k].name = "int"}
    IN IF ints # {} THEN [has |-> TRUE, id |-> map[Min(ints)]]
       ELSE [has |-> FALSE,
             id |-> type_id_off + Len(types) + 1 - nulls(types, Len(types))
                    - pre.skipped + pre.extra]

----------------------------------------------------------------------------
(* One BTF type or more for a tag; <<>> for an error.  id is the one that the
   first will have.                                                         *)

Bytes(bits) == (bits + 7) \div 8

btf_encoder__add_base_type(t) ==
    IF t.enc \in {"single", "double", "ldbl"} /\ conf.gen_floats
    THEN <<[Btf("FLOAT", t.name, 0) EXCEPT !.size = Bytes(t.size)]>>
    ELSE IF t.enc = "complex" /\ conf.gen_floats THEN <<>>
    ELSE LET odd == Bytes(t.size) \notin {1, 2, 4, 8, 16} IN
         <<[Btf("INT", IF odd THEN "__SANITIZED_FAKE_INT__" ELSE t.name, 0) EXCEPT
              !.size = IF odd THEN 4 ELSE Bytes(t.size),
              !.enc = IF t.enc \in {"signed", "bool"} THEN t.enc ELSE ""]>>

RefKind == [const |-> "CONST", pointer |-> "PTR", restrict |-> "RESTRICT",
            volatile |-> "VOLATILE", typedef |-> "TYPEDEF", annot |-> "TYPE_TAG"]

btf_encoder__add_ref_type(t) ==
    <<Btf(RefKind[t.tag], t.name, btf_encoder__tag_type(t.type))>>

btf_encoder__add_field(m) ==
    [name |-> m.name, type |-> btf_encoder__tag_type(m.type), bits |-> m.bits, off |-> m.off]

btf_encoder__add_struct_type(t) ==
    LET kind == IF t.tag = "union" THEN "UNION" ELSE "STRUCT" IN
    IF t.decl THEN <<[Btf("FWD", t.name, 0) EXCEPT !.kflag = t.tag = "union"]>>
    ELSE <<[Btf(kind, t.name, 0) EXCEPT
              !.size = t.size,
              !.items = [k \in DOMAIN t.kids |-> btf_encoder__add_field(t.kids[k])]]>>

(* btf__add_enum_value() of libbpf sets kind_flag for a negative value, and
   the loader reads an unsigned 32 bit value without it.                    *)
btf_encoder__add_enum_val(t) ==
    LET is32 == t.size <= 32 \/ conf.skip_enum64
        val(k) == IF conf.skip_enum64 THEN t.kids[k].value % U32 ELSE t.kids[k].value
    IN [kflag |-> IF is32 THEN \E k \in DOMAIN t.kids : val(k) < 0 ELSE t.enc = "signed",
        items |-> [k \in DOMAIN t.kids |-> [name |-> t.kids[k].name, value |-> val(k)]]]

btf_encoder__add_enum_type(t) ==
    LET is32 == t.size <= 32 \/ conf.skip_enum64
        vals == btf_encoder__add_enum_val(t)
    IN <<[Btf(IF is32 THEN "ENUM" ELSE "ENUM64", t.name, 0) EXCEPT
            !.size = Bytes(t.size), !.kflag = vals.kflag, !.items = vals.items]>>

(* One type per dimension, the innermost first. *)
btf_encoder__add_array(t, id) ==
    LET n == IF t.dims = <<>> THEN 1 ELSE Len(t.dims)
        array(k) == [Btf("ARRAY", "", IF k = 1 THEN btf_encoder__tag_type(t.type)
                                      ELSE id + k - 2)
                       EXCEPT !.nelems = IF t.dims = <<>> THEN 0 ELSE t.dims[n - k + 1],
                              !.index = enc.index_id]
    IN [k \in 1 .. n |-> array(k)]

(* The parameters, and an unnamed one without a type for "...". *)
Params(t) ==
    [k \in DOMAIN t.kids |-> [name |-> t.kids[k].name,
                              type |-> btf_encoder__tag_type(t.kids[k].type)]]
    \o (IF t.vararg THEN <<[name |-> "", type |-> 0]>> ELSE <<>>)

btf_encoder__emit_func_proto(type_id, params) ==
    <<[Btf("FUNC_PROTO", "", type_id) EXCEPT !.items = params]>>

btf_encoder__add_func_proto_for_ftype(t) ==
    btf_encoder__emit_func_proto(btf_encoder__tag_type(t.type), Params(t))

btf_encoder__add_func_proto_for_state(s) == btf_encoder__emit_func_proto(s.type, s.params)

btf_encoder__encode_tag(t, id) ==
    CASE t.tag = "base" -> btf_encoder__add_base_type(t)
      [] t.tag \in DOMAIN RefKind -> btf_encoder__add_ref_type(t)
      [] t.tag \in {"struct", "union"} -> btf_encoder__add_struct_type(t)
      [] t.tag = "array" -> btf_encoder__add_array(t, id)
      [] t.tag = "enum" -> btf_encoder__add_enum_type(t)
      [] t.tag = "subroutine" -> btf_encoder__add_func_proto_for_ftype(t)
      [] OTHER -> <<>>

----------------------------------------------------------------------------
NoCu == [types |-> <<>>, functions |-> <<>>, variables |-> <<>>, attrs |-> {}, sites |-> {}]

Init ==
    /\ input \in Inputs
    /\ pc = "new"
    /\ c = 1 /\ i = 1
    /\ btf = <<>>
    /\ enc = [has_index |-> FALSE, need_index |-> FALSE, index_id |-> 0, type_id_off |-> 0,
              map |-> <<>>, kfuncs |-> [f \in {} |-> {}], include |-> {}]
    /\ saved = <<>>
    /\ loc_states = <<>>
    /\ secinfo = <<>>
    /\ out = [file |-> "old", base |-> "old"]
    /\ cu = NoCu
    /\ ids = <<>>

(* btf_encoder__collect_kfuncs(): the functions that a symbol of .BTF_ids in
   the range of a set of kfuncs names, with the flags of the last one.      *)
kfunc_ranges == {k \in DOMAIN input.btf_ids :
                    input.btf_ids[k].kind = "set8" /\ "kfuncs" \in input.btf_ids[k].flags}
InRange(s) == \E k \in kfunc_ranges : LET r == input.btf_ids[k] IN
                  r.addr <= s.addr /\ s.addr < r.addr + r.sz
btf_encoder__collect_kfuncs ==
    LET S == {k \in DOMAIN input.btf_ids :
                 LET s == input.btf_ids[k] IN
                 s.kind = "func" /\ InRange(s) /\ s.name \in input.elf_functions}
    IN [f \in {input.btf_ids[k].name : k \in S} |->
           input.btf_ids[Max({k \in S : input.btf_ids[k].name = f})].flags]

btf_encoder__new ==
    /\ pc = "new"
    /\ enc' = [enc EXCEPT
                 !.include = {k \in DOMAIN input.sections :
                                 \/ "global" \in conf.vars
                                 \/ "percpu" \in conf.vars /\ input.sections[k].name = "percpu"},
                 !.kfuncs = IF conf.tag_kfuncs THEN btf_encoder__collect_kfuncs ELSE @]
    /\ secinfo' = [k \in DOMAIN input.sections |-> <<>>]
    /\ pc' = "cu"
    /\ UNCHANGED <<input, c, i, btf, saved, loc_states, out, cu, ids>>

(* btf_encoder__encode_cu() *)
encode_cu ==
    /\ pc = "cu"
    /\ c <= Len(input.cus)
    /\ LET off == Len(btf)
           pre == btf_encoder__precompute_btf_ids(Cu.types, off)
           index == array_index_id(Cu.types, pre.map, off, pre)
       IN enc' = [enc EXCEPT !.type_id_off = off, !.map = pre.map,
                    !.has_index = @ \/ index.has,
                    !.index_id = IF enc.has_index THEN @ ELSE index.id]
    /\ i' = 1
    /\ pc' = "types"
    /\ UNCHANGED <<input, c, btf, saved, loc_states, secinfo, out, cu, ids>>

(* A type; the ids must be the ones that were predicted. *)
encode_type ==
    /\ pc = "types"
    /\ i <= Len(Cu.types)
    /\ LET t == Cu.types[i]
           new == btf_encoder__encode_tag(t, Len(btf) + 1)
           id == Len(btf) + Len(new)
       IN IF t.tag \in {"null", "unspec"} THEN UNCHANGED <<pc, btf, enc>>
          ELSE /\ btf' = btf \o new
               /\ enc' = [enc EXCEPT !.need_index = @ \/ t.tag = "array"]
               /\ pc' = IF new = <<>> THEN "failed"
                        ELSE IF enc.map[i] # id THEN "drift" ELSE "types"
    /\ i' = i + 1
    /\ UNCHANGED <<input, c, saved, loc_states, secinfo, out, cu, ids>>

AnnotsOf(value_ids) ==
    FlattenSeq([k \in DOMAIN value_ids |->
        [a \in DOMAIN value_ids[k].annots |->
            [Btf("DECL_TAG", value_ids[k].annots[a].value, value_ids[k].id)
                EXCEPT !.idx = value_ids[k].annots[a].idx]]])

(* The type of array indexes, if one is needed; then the declaration tags of
   structs, unions and typedefs.                                            *)
types_end ==
    /\ pc = "types"
    /\ i > Len(Cu.types)
    /\ LET add == enc.need_index /\ ~enc.has_index
           int == <<[Btf("INT", "int", 0) EXCEPT !.size = 4, !.enc = "signed"]>>
           tagged == [k \in DOMAIN Cu.types |->
                         [annots |-> IF Cu.types[k].tag \in {"struct", "union", "typedef"}
                                     THEN Cu.types[k].annots ELSE <<>>,
                          id |-> enc.map[k]]]
       IN /\ btf' = btf \o (IF add THEN int ELSE <<>>) \o AnnotsOf(tagged)
          /\ enc' = [enc EXCEPT !.has_index = @ \/ add]
    /\ pc' = "save"
    /\ ids' = Append(ids, enc.map)
    /\ UNCHANGED <<input, c, i, saved, loc_states, secinfo, out, cu>>

(* Mutant: the translation is left for later, when the map is another one. *)
btf_encoder__save_func_later(f) ==
    [name |-> f.name, type |-> f.proto.type,
     params |-> [k \in DOMAIN f.proto.kids |->
                    [name |-> f.proto.kids[k].name, type |-> f.proto.kids[k].type]],
     annots |-> f.proto.annots]

(* btf_encoder__save_func(): ids are translated while the map is there. *)
btf_encoder__save_func(f) ==
    [name |-> f.name, type |-> btf_encoder__tag_type(f.proto.type),
     params |-> Params(f.proto), annots |-> f.proto.annots]

save_function(acc, f) ==
    IF /\ f.name \in input.elf_functions
       /\ ~f.proto.decl
       /\ \A k \in DOMAIN f.proto.kids : f.proto.kids[k].name # ""
    THEN Append(acc, btf_encoder__save_func(f)) ELSE acc

save_functions ==
    /\ pc = "save"
    /\ saved' = FoldLeft(save_function, saved, Cu.functions)
    /\ pc' = "inlines"
    /\ UNCHANGED <<input, c, i, btf, enc, loc_states, secinfo, out, cu, ids>>

(* btf_encoder__add_loc_param(): flags and 32-bit values, or size 0.  An address
   is relative to addr_base, the lowest one of the sections in memory.      *)
addr_base ==
    LET A == {input.sections[k].addr : k \in {k \in DOMAIN input.sections : input.sections[k].alloc}}
    IN IF A = {} THEN 0 ELSE Min(A)
btf_encoder__add_loc_param(l) ==
    LET value == IF l.addr /\ l.value >= addr_base THEN l.value - addr_base ELSE l.value
        size == IF l.size = 0 THEN 8 ELSE l.size
        flag(cond, names) == IF cond THEN names ELSE {}
    IN CASE l.kind = "const" /\ l.size \in 1 .. 8 ->
                [size |-> size,
                 flags |-> {"CONST"} \cup flag(l.addr, {"ADDR"}) \cup flag(l.signed, {"SIGNED"}),
                 values |-> IF size > 4 THEN <<value % U32, (value \div U32) % U32>>
                            ELSE <<value % U32>>]
         [] l.kind = "regs" -> [size |-> size, flags |-> {"REG"}, values |-> <<l.value, l.value + 1>>]
         [] l.kind \in {"reg", "stack"} ->
                [size |-> size,
                 flags |-> {"REG"} \cup flag(l.deref, {"DEREF"})
                                  \cup flag(l.offset # 0, {"OFFSET", "SIGNED"}),
                 values |-> <<IF l.kind = "stack" THEN U32 - 1 ELSE l.value>>
                            \o (IF l.offset # 0 THEN <<l.offset % U32>> ELSE <<>>)]
         [] OTHER -> [size |-> 0, flags |-> {}, values |-> <<>>]

(* btf_encoder__add_inline_expansion(), of those in an executable section. *)
btf_encoder__add_inline_expansion(acc, x) ==
    LET f == btf_encoder__save_func(x)
        none == [size |-> 0, flags |-> {}, values |-> <<>>]
    IN IF x.section = 0 \/ ~input.sections[x.section].exec THEN acc
       ELSE Append(acc, [name |-> f.name, type |-> f.type, params |-> f.params,
                         section |-> x.section, offset |-> x.offset,
                         locs |-> [k \in 1 .. Len(f.params) |->
                                      IF k \in DOMAIN x.locs
                                      THEN btf_encoder__add_loc_param(x.locs[k]) ELSE none]])

add_inline_expansions ==
    /\ pc = "inlines"
    /\ loc_states' = IF conf.inlines
                     THEN FoldLeft(btf_encoder__add_inline_expansion, loc_states, Cu.inlines)
                     ELSE loc_states
    /\ pc' = "vars"
    /\ UNCHANGED <<input, c, i, btf, enc, saved, secinfo, out, cu, ids>>

get_elf_section(addr) ==
    LET S == {k \in DOMAIN input.sections :
                 LET s == input.sections[k] IN
                 s.bits /\ s.addr <= addr /\ addr - s.addr < s.sz}
    IN IF S = {} THEN 0 ELSE Min(S)

var_offset(v) == v.addr - input.sections[get_elf_section(v.addr)].addr

(* tag__size() of what a variable may be; 0 is never encoded. *)
SizeOf(id) == LET t == Cu.types[id] IN
    CASE t.tag = "base" -> Bytes(t.size) [] t.tag = "struct" -> t.size
      [] t.tag = "pointer" -> 8 [] t.tag = "enum" -> Bytes(t.size) [] OTHER -> 0

(* btf_encoder__encode_cu_variables(): "skip", "error" or "add". *)
var_fate(v) ==
    LET s == get_elf_section(v.addr) IN
    CASE v.declaration /\ ~v.spec -> "skip"
      [] ~v.top_level \/ ~v.global -> "skip"
      [] s = 0 \/ s \notin enc.include -> "skip"
      [] v.filtered -> "skip"
      [] var_offset(v) = 0 /\ [name |-> v.name, shndx |-> s] \notin input.objects -> "skip"
      [] ~v.valid \/ v.type = 0 -> IF conf.force THEN "skip" ELSE "error"
      [] SizeOf(v.type) = 0 -> "skip"
      [] OTHER -> "add"

encode_variable(acc, v) ==
    LET fate == var_fate(v)
        id == Len(acc.btf) + 1
        new == <<[Btf("VAR", v.name, btf_encoder__tag_type(v.type))
                    EXCEPT !.enc = IF v.external THEN "global" ELSE "static"]>>
    IN IF acc.err \/ conf.vars = {} \/ fate = "skip" THEN acc
       ELSE IF fate = "error" THEN [acc EXCEPT !.err = TRUE]
       ELSE [acc EXCEPT
               !.btf = @ \o new \o AnnotsOf(<<[annots |-> v.annots, id |-> id]>>),
               !.secinfo[get_elf_section(v.addr)] =
                   Append(@, [type |-> id, offset |-> var_offset(v), size |-> SizeOf(v.type)])]

btf_encoder__encode_cu_variables ==
    /\ pc = "vars"
    /\ LET end == FoldLeft(encode_variable, [btf |-> btf, secinfo |-> secinfo, err |-> FALSE],
                           Cu.variables)
       IN /\ btf' = end.btf
          /\ secinfo' = end.secinfo
          /\ pc' = IF end.err THEN "failed" ELSE "cu"
    /\ enc' = [enc EXCEPT !.map = <<>>]     \* the maps are freed
    /\ c' = c + 1
    /\ UNCHANGED <<input, i, saved, loc_states, out, cu, ids>>

----------------------------------------------------------------------------
(* btf_encoder__encode() *)

encode ==
    /\ pc = "cu"
    /\ c > Len(input.cus)
    /\ pc' = "funcs"
    /\ i' = 1
    /\ UNCHANGED <<input, c, btf, enc, saved, loc_states, secinfo, out, cu, ids>>

(* btf__tag_bpf_arena_ptr(): a pointer to what id points to, with a type tag
   between them; <<>> when id is not a pointer.                             *)
btf__tag_bpf_arena_ptr(types, id) ==
    IF id = 0 \/ types[id].kind # "PTR" THEN <<>>
    ELSE <<[Btf("TYPE_TAG", "address_space(1)", types[id].type) EXCEPT !.kflag = TRUE],
           Btf("PTR", "", Len(types) + 1)>>

(* The return type and parameters of a kfunc that has the flag. *)
btf__add_bpf_arena_type_tags(s, flags) ==
    LET tag(acc, n) ==
            LET id == IF n = 0 THEN acc.state.type
                      ELSE IF n \in DOMAIN acc.state.params THEN acc.state.params[n].type ELSE 0
                new == btf__tag_bpf_arena_ptr(acc.btf, id)
            IN IF acc.err \/ <<"ARENA_RET", "ARENA_ARG1", "ARENA_ARG2">>[n + 1] \notin flags THEN acc
               ELSE IF new = <<>> THEN [acc EXCEPT !.err = TRUE]
               ELSE [acc EXCEPT !.btf = @ \o new,
                       !.state = IF n = 0 THEN [@ EXCEPT !.type = Len(acc.btf) + 2]
                                 ELSE [@ EXCEPT !.params[n].type = Len(acc.btf) + 2]]
    IN tag(tag(tag([btf |-> btf, state |-> s, err |-> FALSE], 0), 1), 2)

KfuncAnnots(flags) ==
    <<[value |-> "bpf_kfunc", idx |-> -1]>>
    \o (IF "FASTCALL" \in flags THEN <<[value |-> "bpf_fastcall", idx |-> -1]>> ELSE <<>>)

btf_encoder__add_func(types, s, annots) ==
    LET proto == types \o btf_encoder__add_func_proto_for_state(s)
        func == Append(proto, Btf("FUNC", s.name, Len(proto)))
    IN func \o AnnotsOf(<<[annots |-> annots, id |-> Len(func)]>>)

(* btf_encoder__add_saved_funcs(), of a function with one state;
   btf_encoder__add_bpf_kfunc() of a kfunc.                                 *)
add_saved_func ==
    /\ pc = "funcs"
    /\ i <= Len(saved)
    /\ LET kfunc == saved[i].name \in DOMAIN enc.kfuncs
           flags == IF kfunc THEN enc.kfuncs[saved[i].name] ELSE {}
           arena == btf__add_bpf_arena_type_tags(saved[i], IF conf.attributes THEN flags ELSE {})
           annots == saved[i].annots \o (IF kfunc /\ ~conf.skip_decl_tag
                                         THEN KfuncAnnots(flags) ELSE <<>>)
       IN IF arena.err THEN pc' = "failed" /\ UNCHANGED <<btf, i>>
          ELSE /\ btf' = btf_encoder__add_func(arena.btf, arena.state, annots)
               /\ i' = i + 1
               /\ UNCHANGED pc
    /\ UNCHANGED <<input, c, enc, saved, loc_states, secinfo, out, cu, ids>>

(* btf_encoder__add_locsec(): expansions in the order of their addresses; each
   has a function and a LOC_PROTO, which has 0 for an unknown location.     *)
add_loc_param(acc, l) ==
    IF l.size = 0 THEN [acc EXCEPT !.ids = Append(@, 0)]
    ELSE [btf |-> Append(acc.btf, [Btf("LOC_PARAM", "", 0) EXCEPT
                                     !.size = l.size, !.flags = l.flags, !.items = l.values]),
          ids |-> Append(acc.ids, Len(acc.btf) + 1)]

add_loc(acc, s) ==
    LET proto == acc.btf \o btf_encoder__add_func_proto_for_state(s)
        func == Append(proto, Btf("FUNC", s.name, Len(proto)))
        locs == FoldLeft(add_loc_param, [btf |-> func, ids |-> <<>>], s.locs)
    IN [btf |-> Append(locs.btf, [Btf("LOC_PROTO", "", 0) EXCEPT !.items = locs.ids]),
        entries |-> Append(acc.entries, [section |-> s.section, func |-> Len(func),
                                         loc_proto |-> Len(locs.btf) + 1,
                                         offset |-> s.offset])]

btf_encoder__loc_state_cmp(a, b) ==
    a.section < b.section \/ (a.section = b.section /\ a.offset < b.offset)

(* qsort() of the C library: the order of equal states is open. *)
sorted_loc_states ==
    LET n == Len(loc_states) IN
    {[k \in 1 .. n |-> loc_states[q[k]]] : q \in {q \in [1 .. n -> 1 .. n] :
        /\ \A x \in 1 .. n : \E k \in 1 .. n : q[k] = x
        /\ \A k, m \in 1 .. n :
               k < m => ~btf_encoder__loc_state_cmp(loc_states[q[m]], loc_states[q[k]])}}

add_locsec(acc, sec) == IF sec.items = <<>> THEN acc ELSE Append(acc, sec)

btf_encoder__add_locsec(states) ==
    LET all == FoldLeft(add_loc, [btf |-> btf, entries |-> <<>>], states)
        locsec(sec) == [Btf("LOCSEC", input.sections[sec].name, 0) EXCEPT
                          !.items = SelectSeq(all.entries, LAMBDA e : e.section = sec)]
    IN FoldLeft(add_locsec, all.btf, [sec \in DOMAIN input.sections |-> locsec(sec)])

btf_encoder__add_datasec(k) ==
    LET sorted == SortSeq(secinfo[k], LAMBDA a, b : a.offset < b.offset)
    IN [Btf("DATASEC", input.sections[k].name, 0) EXCEPT
          !.size = Last(sorted).offset + Last(sorted).size, !.items = sorted]

add_datasec(acc, k) ==
    IF secinfo[k] = <<>> THEN acc ELSE Append(acc, btf_encoder__add_datasec(k))

(* The rest of btf_encoder__encode() before the file is written. *)
add_sections ==
    /\ pc = "funcs"
    /\ i > Len(saved)
    /\ \E states \in sorted_loc_states :
           btf' = FoldLeft(add_datasec, btf_encoder__add_locsec(states),
                           [k \in DOMAIN secinfo |-> k])
    /\ pc' = IF btf' = <<>> THEN "empty" ELSE "write"
    /\ saved' = <<>>
    /\ loc_states' = <<>>
    /\ UNCHANGED <<input, c, i, enc, secinfo, out, cu, ids>>

(* btf_encoder__write_raw_file(): a file that is not complete is removed. *)
btf_encoder__write_raw_file ==
    /\ pc = "write" /\ conf.raw
    /\ \/ pc' = "failed" /\ UNCHANGED out                            \* open()
       \/ pc' = "failed" /\ out' = [out EXCEPT !.file = "gone"]      \* short write()
       \/ pc' = "load" /\ out' = [out EXCEPT !.file = "new"]
    /\ UNCHANGED <<input, c, i, btf, enc, saved, loc_states, secinfo, cu, ids>>

(* btf_encoder__write_elf(): an existing section is overwritten in the file,
   and may be torn; objcopy adds a new one or leaves the file alone.        *)
WriteElf(sec) == {[err |-> FALSE, as |-> "new"], [err |-> TRUE, as |-> out[sec]],
                  [err |-> TRUE, as |-> "torn"]}

(* Mutant: the result of the first write is lost. *)
write_base_always(r) == TRUE

(* The split BTF is written first; its base only if that worked. *)
write_base(r) == ~r.err

btf_encoder__write_elf ==
    /\ pc = "write" /\ ~conf.raw
    /\ \E r \in WriteElf("file") :
        /\ out' = [out EXCEPT !.file = r.as]
        /\ pc' = IF conf.distilled /\ write_base(r) THEN "write base"
                 ELSE IF r.err THEN "failed" ELSE "load"
    /\ UNCHANGED <<input, c, i, btf, enc, saved, loc_states, secinfo, cu, ids>>

write_distilled_base ==
    /\ pc = "write base"
    /\ \E r \in WriteElf("base") :
        /\ out' = [out EXCEPT !.base = r.as]
        /\ pc' = IF r.err THEN "failed" ELSE "load"
    /\ UNCHANGED <<input, c, i, btf, enc, saved, loc_states, secinfo, cu, ids>>

----------------------------------------------------------------------------
(* btf_loader.c *)

NewTag(tag, name, type) ==
    [tag |-> tag, type |-> type, name |-> name, size |-> 0, enc |-> "", dims |-> <<>>,
     kids |-> <<>>, vararg |-> FALSE, decl |-> FALSE, annots |-> <<>>]
NewKid(name, type) == [name |-> name, type |-> type, bits |-> 0, off |-> 0, value |-> 0]

(* An inner array that is loaded already is absorbed. *)
create_new_array(t, types) ==
    LET inner == IF t.type \in DOMAIN types THEN types[t.type] ELSE NewTag("null", "", 0)
    IN IF inner.tag = "array"
       THEN [NewTag("array", "", inner.type) EXCEPT !.dims = <<t.nelems>> \o inner.dims]
       ELSE [NewTag("array", "", t.type) EXCEPT !.dims = <<t.nelems>>]

create_members(t) ==
    [k \in DOMAIN t.items |-> [NewKid(t.items[k].name, t.items[k].type) EXCEPT
                                 !.bits = t.items[k].bits, !.off = t.items[k].off]]

create_new_class(t) ==
    [NewTag(IF t.kind = "STRUCT" THEN "struct" ELSE "union", t.name, 0) EXCEPT
       !.size = t.size, !.kids = create_members(t)]

(* A value of 32 bits is unsigned unless the enumeration is signed. *)
create_new_enumeration(t) ==
    LET val(v) == IF t.kind = "ENUM" /\ ~t.kflag THEN v % U32 ELSE v
    IN [NewTag("enum", t.name, 0) EXCEPT
          !.size = IF t.size # 0 THEN t.size * 8 ELSE 32,
          !.enc = IF t.kflag THEN "signed" ELSE "",
          !.kids = [k \in DOMAIN t.items |->
                       [NewKid(t.items[k].name, 0) EXCEPT !.value = val(t.items[k].value)]]]

(* A parameter without a type stands for "...". *)
cu__load_ftype(t) ==
    LET ps == SelectSeq(t.items, LAMBDA x : x.type # 0)
    IN [NewTag("subroutine", "", t.type) EXCEPT
          !.vararg = \E k \in DOMAIN t.items : t.items[k].type = 0,
          !.kids = [k \in DOMAIN ps |-> NewKid(ps[k].name, ps[k].type)]]

TagOfKind == [CONST |-> "const", PTR |-> "pointer", RESTRICT |-> "restrict",
              VOLATILE |-> "volatile", TYPE_TAG |-> "annot"]

(* One type of btf__load_types(); "null" leaves a hole in the table. *)
load_type(t, types) ==
    CASE t.kind = "INT" -> [NewTag("base", t.name, 0) EXCEPT !.size = t.size * 8, !.enc = t.enc]
      [] t.kind = "FLOAT" -> [NewTag("base", t.name, 0) EXCEPT !.size = t.size * 8, !.enc = "single"]
      [] t.kind = "ARRAY" -> create_new_array(t, types)
      [] t.kind \in {"STRUCT", "UNION"} -> create_new_class(t)
      [] t.kind \in {"ENUM", "ENUM64"} -> create_new_enumeration(t)
      [] t.kind = "FWD" -> [NewTag(IF t.kflag THEN "union" ELSE "struct", t.name, 0) EXCEPT !.decl = TRUE]
      [] t.kind = "TYPEDEF" -> NewTag("typedef", t.name, t.type)
      [] t.kind \in DOMAIN TagOfKind -> NewTag(TagOfKind[t.kind], "", t.type)
      [] t.kind = "FUNC_PROTO" -> cu__load_ftype(t)
      [] OTHER -> NewTag("null", "", 0)

OfKind(kind) == {k \in DOMAIN btf : btf[k].kind = kind}

btf__load_types ==
    /\ pc = "load"
    /\ cu' = [NoCu EXCEPT
                !.types = FoldLeft(LAMBDA types, t : Append(types, load_type(t, types)), <<>>, btf),
                !.functions = [k \in OfKind("FUNC") |->
                                 [name |-> btf[k].name, proto |-> btf[k].type, inlined |-> FALSE]],
                !.variables = [k \in OfKind("VAR") |-> btf[k]]]
    /\ pc' = "decl tags"
    /\ i' = 1
    /\ UNCHANGED <<input, c, btf, enc, saved, loc_states, secinfo, out, ids>>

(* Attributes of a function, one of its parameters or a variable; there are
   none of a type.                                                          *)
process_decl_tag(t) ==
    IF t.type \in DOMAIN cu.functions
    THEN LET proto == cu.functions[t.type].proto IN
         IF t.idx < 0 THEN {[of |-> t.type, idx |-> -1, value |-> t.name]}
         ELSE IF t.idx + 1 \in DOMAIN cu.types[proto].kids
         THEN {[of |-> proto, idx |-> t.idx, value |-> t.name]} ELSE {}
    ELSE IF t.type \in DOMAIN cu.variables
    THEN {[of |-> t.type, idx |-> -1, value |-> t.name]} ELSE {}

process_decl_tags ==
    /\ pc = "decl tags"
    /\ cu' = [cu EXCEPT !.attrs = UNION {process_decl_tag(btf[k]) : k \in OfKind("DECL_TAG")}]
    /\ pc' = "inline sites"
    /\ UNCHANGED <<input, c, i, btf, enc, saved, loc_states, secinfo, out, ids>>

(* Only one of a section is a site, as mark_inline_functions() has it. *)
btf__mark_inline_functions ==
    /\ pc = "inline sites"
    /\ LET entries == UNION {{[btf[k].items[e] EXCEPT !.section = btf[k].name] :
                                 e \in DOMAIN btf[k].items} : k \in OfKind("LOCSEC")}
       IN cu' = [cu EXCEPT
                   !.functions = [f \in DOMAIN cu.functions |-> [cu.functions[f] EXCEPT
                                    !.inlined = \E e \in entries : e.func = f]],
                   !.sites = entries]
    /\ pc' = "loaded"
    /\ UNCHANGED <<input, c, i, btf, enc, saved, loc_states, secinfo, out, ids>>

Done ==
    /\ pc \in {"loaded", "failed", "drift", "empty"}
    /\ UNCHANGED vars

Next ==
    \/ btf_encoder__new \/ encode_cu \/ encode_type \/ types_end
    \/ save_functions \/ add_inline_expansions \/ btf_encoder__encode_cu_variables
    \/ encode \/ add_saved_func \/ add_sections
    \/ btf_encoder__write_raw_file \/ btf_encoder__write_elf \/ write_distilled_base
    \/ btf__load_types \/ process_decl_tags \/ btf__mark_inline_functions \/ Done

Spec == Init /\ [][Next]_vars

----------------------------------------------------------------------------
(* types__match(), which loosely compares two types of functions. *)

fwd__kind(t) == IF t.kind # "FWD" THEN t.kind ELSE IF t.kflag THEN "UNION" ELSE "STRUCT"

names__match(t1, t2) == t1.name = t2.name

Follow == {"PTR", "VOLATILE", "CONST", "RESTRICT", "TYPE_TAG"}

(* A const that the other type has not. *)
skip_const(k1, k2) == k1 = "CONST" \/ k2 = "CONST"

types__match(types) ==
    LET match[p \in (0 .. Len(types)) \X (0 .. Len(types))] ==
            LET t1 == types[p[1]]
                t2 == types[p[2]]
                k == fwd__kind(t1)
            IN IF p[1] = p[2] THEN TRUE
               ELSE IF p[1] = 0 \/ p[2] = 0 THEN FALSE
               ELSE IF k # fwd__kind(t2)
               THEN /\ skip_const(k, fwd__kind(t2))
                    /\ match[IF k = "CONST" THEN <<t1.type, p[2]>> ELSE <<p[1], t2.type>>]
               ELSE CASE k = "INT" -> t1.size = t2.size /\ t1.enc = t2.enc /\ names__match(t1, t2)
                      [] k = "FLOAT" -> t1.size = t2.size /\ names__match(t1, t2)
                      [] k \in {"TYPEDEF", "STRUCT", "UNION", "ENUM", "ENUM64"} -> names__match(t1, t2)
                      [] k \in Follow -> match[t1.type, t2.type]
                      [] k = "ARRAY" -> t1.nelems = t2.nelems /\ match[t1.type, t2.type]
                      [] k = "FUNC_PROTO" ->
                             /\ Len(t1.items) = Len(t2.items)
                             /\ match[t1.type, t2.type]
                             /\ \A n \in DOMAIN t1.items : match[t1.items[n].type, t2.items[n].type]
                      [] OTHER -> FALSE
    IN match

----------------------------------------------------------------------------
(* What a type means, to a depth: the tags that are reached from it, whatever
   their ids are.  <<>> is void.  An array of arrays has all dimensions.    *)

Dims(T) == LET dims[id \in 0 .. Len(T)] ==
                   IF id = 0 \/ T[id].tag # "array" THEN <<>> ELSE T[id].dims \o dims[T[id].type]
           IN dims
Element(T) == LET element[id \in 0 .. Len(T)] ==
                      IF id = 0 \/ T[id].tag # "array" THEN id ELSE element[T[id].type]
              IN element

Meaning(T) ==
    LET m[d \in 0 .. 4, id \in 0 .. Len(T)] ==
            IF id = 0 \/ T[id].tag = "unspec" THEN <<>>
            ELSE IF d = 0 THEN <<"...">>
            ELSE LET t == T[id]
                     kid(k) == <<k.name, k.bits, k.off, k.value, m[d - 1, k.type]>>
                 IN <<t.tag, t.name, t.size, t.enc, Dims(T)[id], t.vararg, t.decl,
                      [k \in DOMAIN t.kids |-> kid(t.kids[k])],
                      m[d - 1, IF t.tag = "array" THEN Element(T)[id] ELSE t.type]>>
    IN m

(* What BTF can say of a tag of the source. *)
Sayable(t) ==
    LET bytes == Bytes(t.size)
        float == t.enc \in {"single", "double", "ldbl"} /\ conf.gen_floats
        fake == ~float /\ bytes \notin {1, 2, 4, 8, 16}
    IN CASE t.tag = "base" ->
                [t EXCEPT !.name = IF fake THEN "__SANITIZED_FAKE_INT__" ELSE @,
                          !.size = 8 * (IF fake THEN 4 ELSE bytes),
                          !.enc = IF float THEN "single"
                                  ELSE IF @ \in {"signed", "bool"} THEN @ ELSE ""]
         [] t.tag = "enum" ->
                [t EXCEPT !.size = 8 * bytes, !.enc = "",
                          !.kids = [k \in DOMAIN t.kids |-> [t.kids[k] EXCEPT
                             !.value = IF conf.skip_enum64 THEN t.kids[k].value % U32
                                       ELSE t.kids[k].value]]]
         [] t.tag = "array" -> [t EXCEPT !.dims = IF @ = <<>> THEN <<0>> ELSE @]
         [] t.tag = "annot" -> [t EXCEPT !.name = ""]
         [] OTHER -> t
Source(k) == [n \in DOMAIN input.cus[k].types |-> Sayable(input.cus[k].types[n])]
Loaded == [n \in DOMAIN cu.types |->
              IF cu.types[n].tag = "enum" THEN [cu.types[n] EXCEPT !.enc = ""] ELSE cu.types[n]]

States == {"new", "cu", "types", "save", "inlines", "vars", "funcs", "write", "write base",
           "load", "decl tags", "inline sites", "loaded", "empty", "failed", "drift"}

(* The BTF that is written is well formed: what a type refers to is there, a
   function refers to a prototype, a section to variables.                  *)
TypeOK ==
    /\ input \in InputType
    /\ pc \in States
    /\ pc = "write" => \A k \in DOMAIN btf :
         /\ btf[k].type \in 0 .. Len(btf)
         /\ btf[k].kind = "FUNC" => btf[btf[k].type].kind = "FUNC_PROTO"
         /\ btf[k].kind = "DATASEC" => \A n \in DOMAIN btf[k].items :
                                          btf[btf[k].items[n].type].kind = "VAR"
         /\ btf[k].kind \in {"STRUCT", "UNION", "FUNC_PROTO"} =>
                \A n \in DOMAIN btf[k].items : btf[k].items[n].type \in 0 .. Len(btf)

(* The ids that btf_encoder__precompute_btf_ids() predicts are those that
   btf_encoder__encode_tag() gets, so that the check for an "id drift" in
   btf_encoder__encode_cu() never fails an encoding.                        *)
NoDrift == pc # "drift"

(* The index of every array, which is predicted before the int that it may
   need is there, is the type "int".                                        *)
IndexTypeIsInt ==
    pc \in {"save", "write", "loaded"} => \A k \in OfKind("ARRAY") :
        /\ btf[k].index \in DOMAIN btf
        /\ btf[btf[k].index].kind = "INT" /\ btf[btf[k].index].name = "int"

(* Whatever CU a type comes from, and whatever was skipped or took several ids
   before it, the loaded type with its id means the same.                   *)
RoundTrip ==
    pc = "loaded" => \A k \in DOMAIN input.cus :
        LET src == Meaning(Source(k))
            new == Meaning(Loaded)
        IN \A id \in DOMAIN input.cus[k].types :
               input.cus[k].types[id].tag \notin {"null", "unspec"} =>
                   src[3, id] = new[3, ids[k][id]]

(* The table of a CU with the prototype of a function behind it, and with the
   pointers of a kfunc to an arena.                                         *)
WithProto(k, proto, flags) ==
    LET arena(acc, n) ==
            LET id == IF n = 0 THEN acc.proto.type
                      ELSE IF n \in DOMAIN acc.proto.kids THEN acc.proto.kids[n].type ELSE 0
                last == Len(acc.types)
            IN IF <<"ARENA_RET", "ARENA_ARG1", "ARENA_ARG2">>[n + 1] \notin flags THEN acc
               ELSE [types |-> acc.types \o <<NewTag("annot", "", acc.types[id].type),
                                              NewTag("pointer", "", last + 1)>>,
                     proto |-> IF n = 0 THEN [acc.proto EXCEPT !.type = last + 2]
                               ELSE [acc.proto EXCEPT !.kids[n].type = last + 2]]
        end == FoldLeft(arena, [types |-> Source(k), proto |-> proto], <<0, 1, 2>>)
    IN Append(end.types, [end.proto EXCEPT !.tag = "subroutine", !.name = "", !.decl = FALSE])

IsKfunc(f) == conf.tag_kfuncs /\ \E s \in DOMAIN input.btf_ids :
                 LET sym == input.btf_ids[s] IN
                 /\ sym.kind = "func" /\ sym.name = f
                 /\ \E r \in kfunc_ranges : input.btf_ids[r].name = sym.set
FlagsOf(f) == UNION {input.btf_ids[s].flags : s \in {s \in DOMAIN input.btf_ids :
                        input.btf_ids[s].kind = "func" /\ input.btf_ids[s].name = f}}

(* A function of any CU that is not a declaration, is a symbol of the ELF file
   and has names for its parameters is loaded with its prototype, although
   its ids were translated while another map was in use; it has exactly the
   attributes of the source and those of a kfunc, and a parameter has its own. *)
FuncsKept ==
    pc = "loaded" => \A k \in DOMAIN input.cus :
        \A n \in DOMAIN input.cus[k].functions :
            LET f == input.cus[k].functions[n]
                flags == IF IsKfunc(f.name) THEN FlagsOf(f.name) ELSE {}
                src == WithProto(k, f.proto, IF conf.attributes THEN flags ELSE {})
                found == {x \in DOMAIN cu.functions :
                             cu.functions[x].name = f.name /\ ~cu.functions[x].inlined}
                attrs(of) == {<<a.idx, a.value>> : a \in {a \in cu.attrs : a.of = of}}
                annots(S) == {<<f.proto.annots[a].idx, f.proto.annots[a].value>> :
                                 a \in {a \in DOMAIN f.proto.annots : f.proto.annots[a].idx \in S}}
                kfunc == IF IsKfunc(f.name) /\ ~conf.skip_decl_tag
                         THEN {<<-1, "bpf_kfunc">>} \cup
                              (IF "FASTCALL" \in flags THEN {<<-1, "bpf_fastcall">>} ELSE {})
                         ELSE {}
            IN IF f.proto.decl \/ f.name \notin input.elf_functions THEN found = {}
               ELSE \E x \in found :
                      /\ found = {x}
                      /\ Meaning(src)[4, Len(src)] = Meaning(Loaded)[4, cu.functions[x].proto]
                      /\ attrs(x) = annots({-1}) \cup kfunc
                      /\ attrs(cu.functions[x].proto) = annots(Nat)

(* The sections of variables are in order, an entry names the variable that is
   at its address in the file, with its type and size, and all variables of
   the included sections that have a definition are there.                  *)
Defined(k, v) ==
    /\ v.declaration => v.spec
    /\ v.top_level /\ v.global /\ v.valid /\ ~v.filtered /\ v.type # 0
    /\ input.cus[k].types[v.type].size # 0 \/ input.cus[k].types[v.type].tag = "pointer"
VarsPlaced ==
    pc = "loaded" =>
        /\ \A d \in OfKind("DATASEC") :
               LET items == btf[d].items IN
               /\ \A n \in 1 .. Len(items) - 1 : items[n].offset <= items[n + 1].offset
               /\ \A n \in DOMAIN items : items[n].offset + items[n].size <= btf[d].size
        /\ \A k \in DOMAIN input.cus : \A n \in DOMAIN input.cus[k].variables :
               LET v == input.cus[k].variables[n]
                   at(s) == v.addr - s.addr
               IN \A x \in enc.include :
                    LET s == input.sections[x] IN
                    /\ Defined(k, v)
                    /\ s.bits /\ s.addr <= v.addr /\ v.addr < s.addr + s.sz
                    /\ at(s) = 0 => [name |-> v.name, shndx |-> x] \in input.objects
                    => \E d \in OfKind("DATASEC") : \E e \in DOMAIN btf[d].items :
                         LET entry == btf[d].items[e] IN
                         /\ btf[d].name = s.name /\ entry.offset = at(s)
                         /\ cu.variables[entry.type].name = v.name
                         /\ Meaning(Source(k))[3, v.type] =
                            Meaning(Loaded)[3, cu.variables[entry.type].type]

\* The number that words of 32 bits, the low one first, are with that sign.
Number(words, signed) ==
    LET n == words[1] + (IF Len(words) > 1 THEN words[2] * U32 ELSE 0)
        range == IF Len(words) > 1 THEN U32 * U32 ELSE U32
    IN IF signed /\ 2 * n >= range THEN n - range ELSE n

(* What a LOC_PARAM says is where the parameter is: its register and the offset
   from it, or its value; an address is counted from addr_base.             *)
SaysWhere(p, l) ==
    CASE l.kind = "const" ->
             Number(p.items, "SIGNED" \in p.flags)
                 + (IF "ADDR" \in p.flags /\ l.value >= addr_base THEN addr_base ELSE 0) = l.value
      [] l.kind = "regs" -> p.items = <<l.value, l.value + 1>>
      [] OTHER -> /\ p.items[1] = (IF l.kind = "stack" THEN U32 - 1 ELSE l.value)
                  /\ ("DEREF" \in p.flags) = l.deref
                  /\ l.offset = IF "OFFSET" \in p.flags THEN Number(<<p.items[2]>>, TRUE) ELSE 0

\* A constant of more than 64 bits is not known.
IsTold(l) == l.kind # "none" /\ ~(l.kind = "const" /\ l.size \notin 1 .. 8)

(* A site of an inline expansion is loaded with the function that was expanded
   and with a location, or 0, for each of its parameters, that says where it is. *)
InlineSitesKept ==
    pc = "loaded" /\ conf.inlines => \A k \in DOMAIN input.cus :
        \A n \in DOMAIN input.cus[k].inlines :
            LET x == input.cus[k].inlines[n]
                src == WithProto(k, x.proto, {})
                told(p) == p \in DOMAIN x.locs /\ IsTold(x.locs[p])
            IN x.section # 0 /\ input.sections[x.section].exec =>
                 \E s \in cu.sites :
                    LET f == cu.functions[s.func]
                        locs == btf[s.loc_proto].items
                    IN /\ s.section = input.sections[x.section].name /\ s.offset = x.offset
                       /\ f.name = x.name
                       /\ Meaning(src)[4, Len(src)] = Meaning(Loaded)[4, f.proto]
                       /\ Len(locs) = Len(x.proto.kids) + (IF x.proto.vararg THEN 1 ELSE 0)
                       /\ \A p \in DOMAIN locs : (locs[p] # 0) = told(p)
                       /\ \A p \in DOMAIN locs : told(p) => SaysWhere(btf[locs[p]], x.locs[p])

(* A type of BTF without the consts that types__match() looks through: all but
   those of void.                                                           *)
Erased(types) ==
    LET e[id \in 0 .. Len(types)] ==
            LET t == types[id]
                k == fwd__kind(t)
            IN IF id = 0 THEN <<>>
               ELSE IF k = "CONST" /\ e[t.type] # <<>> /\ e[t.type][1] # "CONST" THEN e[t.type]
               ELSE CASE k = "INT" -> <<k, t.name, t.size, t.enc>>
                      [] k = "FLOAT" -> <<k, t.name, t.size>>
                      [] k \in {"TYPEDEF", "STRUCT", "UNION", "ENUM", "ENUM64"} -> <<k, t.name>>
                      [] k = "ARRAY" -> <<k, t.nelems, e[t.type]>>
                      [] k = "FUNC_PROTO" ->
                             <<k, e[t.type], [n \in DOMAIN t.items |-> e[t.items[n].type]]>>
                      [] OTHER -> <<k, e[t.type]>>
    IN e

(* Two types match if they are the same but for const, however their ids and
   their consts are arranged: the comparison of the prototypes of a function
   does not depend on the order in which its instances come.                *)
MatchIgnoresConst ==
    pc = "write" =>
        LET T == {k \in DOMAIN btf : btf[k].kind \in Follow \cup
                     {"INT", "FLOAT", "TYPEDEF", "STRUCT", "UNION", "FWD", "ENUM", "ENUM64",
                      "ARRAY", "FUNC_PROTO"}}
            e == Erased(btf)
            match == types__match(btf)
        IN \A a, b \in T : match[a, b] = (e[a] = e[b])

(* An encoding that succeeds has written all of its sections. *)
SuccessMeansWritten ==
    pc \in {"load", "loaded"} =>
        out.file = "new" /\ (conf.distilled /\ ~conf.raw => out.base = "new")

(* The attributes of structs, unions and typedefs are loaded too: "For decl
   tags we add attributes to the tags associated with the types they refer
   to" (btf__load_types()).                                                 *)
TypeAttrsKept ==
    pc = "loaded" => \A k \in DOMAIN input.cus : \A id \in DOMAIN input.cus[k].types :
        \A a \in DOMAIN input.cus[k].types[id].annots :
            \E x \in cu.attrs : /\ x.of = ids[k][id]
                                /\ x.value = input.cus[k].types[id].annots[a].value

(* The ids that are given out ahead of the types are the ones the types get. *)
IdsForetold == NoDrift /\ IndexTypeIsInt

(* What is loaded from the BTF is what was encoded: the types of every CU, the
   functions saved while it was encoded, the variables at their addresses and
   the sites of inline expansions; and types that compare equal are equal.  *)
LoadedAsEncoded ==
    RoundTrip /\ FuncsKept /\ VarsPlaced /\ InlineSitesKept /\ MatchIgnoresConst
=============================================================================
