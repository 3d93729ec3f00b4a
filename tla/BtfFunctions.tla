--------------------------- MODULE BtfFunctions ---------------------------
(***************************************************************************)
(* Which functions end up in BTF: the tables of ELF functions              *)
(* (elf_functions__collect()), the functions of every CU, saved while the  *)
(* CUs are encoded (btf_encoder__save_func()), and                         *)
(* btf_encoder__add_saved_funcs(), which sorts them, combines the          *)
(* instances of the same function and adds it once, or not at all.         *)
(*                                                                         *)
(* A function is seen in many CUs: out of line, inlined, or both, and      *)
(* optimised differently.  An ELF file is a value of Elfs, a function name *)
(* without its suffix is a number (strcmp() is their order), a type id is  *)
(* a value of Types.                                                       *)
(***************************************************************************)
EXTENDS Naturals, Sequences, SequencesExt, FiniteSets

CONSTANTS
    Elfs,               \* ELF files processed in this run of pahole
    SymTabs,            \* their function symbols: functions from Elfs to
                        \* sequences of Sym
    Fns,                \* functions a CU may hold, see FnType
    Types,              \* ids of return and parameter types
    types__match(_, _), \* do two ids name the same type, up to const
    TrueSignature,      \* --btf_features=true_signature: a subset of BOOLEAN
    SkipInconsistent,   \* ... =consistent_func: a subset of BOOLEAN
    Faults,             \* may memory run out: {} or {"memory"}
    MaxFns              \* bound: functions saved

SymSuffix == {"", ".cold", ".part", ".constprop", ".isra", ".llvm"}
Sym == [name : Nat, suffix : SymSuffix, addr : Nat]

\* What saved_functions_combine() shares, and what stays with one instance.
SharedFlags == {"unexpected_reg", "inconsistent_proto", "uncertain_parm_loc",
                "reordered_parm"}
OwnFlags == {"optimized_parms", "signature_changed", "optimized_symbol"}
FnFlags == (SharedFlags \cup OwnFlags) \ {"optimized_symbol"}

\* types are those of the return value and of all parameters, located leaves
\* out the parameters without a location or optimised out, unoptimized only the
\* latter.
FnType == [name : Nat, addr : Nat, flags : SUBSET FnFlags,
           types : Seq(Types), located : Seq(Types), unoptimized : Seq(Types)]

ASSUME SymTabsAssumption == SymTabs \subseteq [Elfs -> Seq(Sym)]
ASSUME FnsAssumption == Fns \subseteq FnType
ASSUME OptionsAssumption ==
    TrueSignature \subseteq BOOLEAN /\ SkipInconsistent \subseteq BOOLEAN
ASSUME MaxFnsAssumption == MaxFns \in Nat
\* types__match() strips const on both sides and then compares kind, name, size
\* and what the type refers to: an equivalence.
ASSUME MatchReflexive == \A t \in Types : types__match(t, t)
ASSUME MatchSymmetric ==
    \A t, u \in Types : types__match(t, u) => types__match(u, t)
ASSUME MatchTransitive ==
    \A t, u, v \in Types : types__match(t, u) /\ types__match(u, v)
                              => types__match(t, v)

NoElf == "none"

ASSUME NoElfAssumption == NoElf \notin Elfs

VARIABLES
    symtab, true_signature, skip_inconsistent,
    pc,             \* "cus", "functions", "combine", "add", "end" or "abort"
    cu,             \* the ELF file of the CU being encoded, or encoded last
    tables,         \* elf_functions_list: for each ELF file that has been seen
                    \* its function symbols, sorted by name, and
                    \* ambiguous_addr for each name
    func_states,    \* encoder->func_states
    i, j,           \* the locals of btf_encoder__add_saved_funcs(), from 1
    btf,            \* the functions added
    saved           \* history: func_states when the last function was saved

conf == <<symtab, true_signature, skip_inconsistent>>
vars == <<conf, pc, cu, tables, func_states, i, j, btf, saved>>

Init ==
    /\ symtab \in SymTabs
    /\ true_signature \in TrueSignature
    /\ skip_inconsistent \in SkipInconsistent
    /\ pc = "cus" /\ cu = NoElf
    /\ tables = [e \in {} |-> {}]
    /\ func_states = <<>> /\ saved = <<>>
    /\ i = 1 /\ j = 1
    /\ btf = <<>>

-----------------------------------------------------------------------------
(* The table of ELF functions                                              *)

str_contains_non_fn_suffix(suffix) == suffix \in {".cold", ".part"}
str_contains_optimized_fn_suffix(suffix) == suffix \in {".constprop", ".isra"}

\* qsort() of the C library, of the elements of s whose index is in S: the order of
\* equal elements is open.
qsort(s, S, Leq(_, _)) ==
    LET n == Cardinality(S) IN
    {[k \in 1..n |-> s[p[k]]] : p \in {q \in [1..n -> S] :
        /\ \A x \in S : \E k \in 1..n : q[k] = x
        /\ \A a, b \in 1..n : a < b => Leq(s[q[a]], s[q[b]])}}

elf_function__name_cmp(a, b) == a.name <= b.name

\* Two neighbours with this name differ; an address of 0 is taken for none.
elf_function__has_ambiguous_address(syms, name) ==
    \E k \in 1..(Len(syms) - 1) :
        /\ syms[k].name = name /\ syms[k + 1].name = name
        /\ syms[k].addr # 0 /\ syms[k + 1].addr # syms[k].addr

\* Variant: no function has an ambiguous address.
ambiguous_addr_never(syms, name) == FALSE

\* The addresses of a name are examined when an entry with another name follows.
ambiguous_addr(syms, name) ==
    /\ \E k \in 1..Len(syms) : syms[k].name > name
    /\ elf_function__has_ambiguous_address(syms, name)

Names(syms) == {syms[k].name : k \in 1..Len(syms)}

\* The table of an ELF file, without the symbols that are no functions.
elf_functions__collect(e) ==
    {[syms |-> syms,
      ambiguous_addr |-> [name \in Names(syms) |-> ambiguous_addr(syms, name)]]
        : syms \in qsort(symtab[e],
                        {k \in 1..Len(symtab[e]) :
                            ~str_contains_non_fn_suffix(symtab[e][k].suffix)},
                        elf_function__name_cmp)}

\* Two states belong to the same struct elf_function.
SameElf(s, t) == s.elf = t.elf /\ s.name = t.name

\* The symbols of a function of an ELF file, and those at an address.
SymsOf(e, name) == {k \in 1..Len(tables[e].syms) : tables[e].syms[k].name = name}
SymsAt(e, name, addr) == {k \in SymsOf(e, name) : tables[e].syms[k].addr = addr}

-----------------------------------------------------------------------------
(* btf_encoder__encode_cu()                                                *)

\* The files are loaded one after the other.
InTurn(e) == e \in DOMAIN tables => e = cu

\* A CU is stolen; the table of its ELF file is made when it is the first one.
btf_encoder__elf_functions(e) ==
    /\ pc = "cus"
    /\ InTurn(e)
    /\ IF e \in DOMAIN tables
       THEN UNCHANGED tables
       ELSE \E t \in elf_functions__collect(e) :
               tables' = [x \in DOMAIN tables \cup {e} |->
                            IF x = e THEN t ELSE tables[x]]
    /\ cu' = e
    /\ pc' = "functions"
    /\ UNCHANGED <<conf, func_states, i, j, btf, saved>>

\* Parameters that were optimised out are left out of some prototypes.
KeptTypes(fn) ==
    IF "reordered_parm" \in fn.flags THEN fn.located
    ELSE IF true_signature /\ "signature_changed" \in fn.flags THEN fn.unoptimized
    ELSE fn.types

Firsts(S) == {k \in S : \A m \in S : k <= m}

\* The suffix of the first symbol at the function's address that has one.
TrueSym(fn, sym) ==
    LET syms == tables[cu].syms
        at == {k \in SymsAt(cu, fn.name, fn.addr) : syms[k].suffix # ""} IN
    IF true_signature /\ fn.addr # 0 /\ at # {}
    THEN \E k \in Firsts(at) : sym = syms[k].suffix
    ELSE sym = ""

\* Is there an optimised clone at the function's address?
OptimizedSymbol(fn) ==
    /\ fn.addr # 0
    /\ \E k \in SymsAt(cu, fn.name, fn.addr) :
          str_contains_optimized_fn_suffix(tables[cu].syms[k].suffix)

func_state(fn, sym) ==
    [elf |-> cu, name |-> fn.name, addr |-> fn.addr, sym |-> sym,
     types |-> KeptTypes(fn),
     flags |-> IF OptimizedSymbol(fn) THEN fn.flags \cup {"optimized_symbol"}
                                      ELSE fn.flags]

\* A function whose name is in the ELF table is saved; the others are skipped.
btf_encoder__save_func(fn) ==
    /\ pc = "functions"
    /\ Len(func_states) < MaxFns
    /\ fn.name \in Names(tables[cu].syms)
    /\ \E sym \in SymSuffix :
          /\ TrueSym(fn, sym)
          /\ func_states' = Append(func_states, func_state(fn, sym))
    /\ saved' = func_states'
    /\ UNCHANGED <<conf, pc, cu, tables, i, j, btf>>

\* No memory for the ELF table or a state: the state is dropped, the CU is
\* given back with LSK__ABORT and pahole ends without encoding anything.
encode_cu_error ==
    /\ pc \in {"cus", "functions"}
    /\ "memory" \in Faults
    /\ pc' = "abort"
    /\ UNCHANGED <<conf, cu, tables, func_states, i, j, btf, saved>>

encode_cu_end ==
    /\ pc = "functions"
    /\ pc' = "cus"
    /\ UNCHANGED <<conf, cu, tables, func_states, i, j, btf, saved>>

-----------------------------------------------------------------------------
(* btf_encoder__add_saved_funcs()                                          *)

\* Variants: by name only, and the two keys swapped.
saved_functions_cmp_by_name(a, b) == a.name <= b.name

saved_functions_cmp_swapped(a, b) ==
    \/ a.addr # 0 /\ b.addr = 0
    \/ ((a.addr = 0) <=> (b.addr = 0)) /\ a.name <= b.name

\* By name, and the out of line instances of a function before the inlined ones.
saved_functions_cmp(a, b) ==
    \/ a.name < b.name
    \/ a.name = b.name /\ (a.addr # 0 \/ b.addr = 0)

no_saved_funcs ==
    /\ pc = "cus"
    /\ func_states = <<>>
    /\ pc' = "end"
    /\ UNCHANGED <<conf, cu, tables, func_states, i, j, btf, saved>>

\* All CUs were encoded: the saved functions are sorted.
sort_saved_funcs ==
    /\ pc = "cus"
    /\ func_states # <<>>
    /\ func_states' \in qsort(func_states, 1..Len(func_states), saved_functions_cmp)
    /\ i' = 1 /\ j' = 2
    /\ pc' = "combine"
    /\ UNCHANGED <<conf, cu, tables, btf, saved>>

funcs__match(s, t) ==
    /\ Len(s.types) = Len(t.types)
    /\ \A k \in 1..Len(s.types) : types__match(s.types[k], t.types[k])

Shared(s, t) == (s.flags \cup t.flags) \cap SharedFlags

\* Variant: what the later instance knows is not shared.
combined_flags_first(a, b) == a.flags \cap SharedFlags

\* The flags that two instances share after they were compared.
combined_flags(a, b) ==
    Shared(a, b) \cup
       (IF /\ ~true_signature \/ ((a.addr # 0) <=> (b.addr # 0))
           /\ Shared(a, b) \subseteq {"uncertain_parm_loc"}
           /\ ~funcs__match(a, b)
        THEN {"inconsistent_proto"} ELSE {})

WithShared(s, flags) == [s EXCEPT !.flags = (s.flags \cap OwnFlags) \cup flags]

\* The instance at j is of the same function as the one at i.
saved_functions_combine ==
    /\ pc = "combine"
    /\ j <= Len(func_states)
    /\ SameElf(func_states[i], func_states[j])
    /\ LET flags == combined_flags(func_states[i], func_states[j]) IN
       func_states' = [func_states EXCEPT ![i] = WithShared(func_states[i], flags),
                                          ![j] = WithShared(func_states[j], flags)]
    /\ j' = j + 1
    /\ UNCHANGED <<conf, pc, cu, tables, i, btf, saved>>

combine_end ==
    /\ pc = "combine"
    /\ j <= Len(func_states) => ~SameElf(func_states[i], func_states[j])
    /\ pc' = "add"
    /\ UNCHANGED <<conf, cu, tables, func_states, i, j, btf, saved>>

Group == i..(j - 1)

\* "Unexpected reg, uncertain parm loc and ambiguous address mean we cannot trust
\* fentry"; the ambiguous_addr of a state is never set.
TrueStates == {k \in Group : /\ func_states[k].sym # ""
                             /\ "unexpected_reg" \notin func_states[k].flags
                             /\ "uncertain_parm_loc" \notin func_states[k].flags}

\* Variant: optimised parameters always keep a function out.
skip_optimized_parms_any(s) == "optimized_parms" \in s.flags

btf_encoder_func_state__skip_optimized_parms(s) ==
    /\ ~true_signature
    /\ "optimized_parms" \in s.flags
    /\ "signature_changed" \in s.flags \/ "optimized_symbol" \in s.flags

\* An instance at the address of a symbol, if possible one whose prototype BTF
\* can represent.
btf_encoder__select_canonical_state ==
    LET s == func_states[i]
        at == {k \in Group : SymsAt(s.elf, s.name, func_states[k].addr) # {}}
        good == {k \in at :
                   ~btf_encoder_func_state__skip_optimized_parms(func_states[k])} IN
    IF good # {} THEN Firsts(good) ELSE IF at # {} THEN Firsts(at) ELSE {i}

canonical_state == IF j - i > 1 THEN btf_encoder__select_canonical_state ELSE {i}

skip_reason(canonical) ==
    LET s == func_states[i] IN
    \/ "unexpected_reg" \in s.flags
    \/ skip_inconsistent /\ "inconsistent_proto" \in s.flags
    \/ "uncertain_parm_loc" \in s.flags
    \/ "reordered_parm" \in s.flags
    \/ btf_encoder_func_state__skip_optimized_parms(func_states[canonical])
    \/ tables[s.elf].ambiguous_addr[s.name]

\* btf_encoder__add_func() or btf_encoder__add_bpf_kfunc()
btf_encoder__add_func(s) ==
    btf' = Append(btf, [elf |-> s.elf, name |-> s.name, addr |-> s.addr,
                        sym |-> s.sym, types |-> s.types])

\* Variant: the next group starts with nothing in it.
next_group_empty ==
    IF j <= Len(func_states)
    THEN /\ i' = j /\ j' = j /\ pc' = "combine"
         /\ UNCHANGED func_states
    ELSE /\ pc' = "end" /\ func_states' = <<>>
         /\ UNCHANGED <<i, j>>

\* The loop goes on with the next group, or the states are freed.
next_group ==
    IF j <= Len(func_states)
    THEN /\ i' = j /\ j' = j + 1 /\ pc' = "combine"
         /\ UNCHANGED func_states
    ELSE /\ pc' = "end" /\ func_states' = <<>>
         /\ UNCHANGED <<i, j>>

btf_encoder__add_true_signature ==
    /\ pc = "add"
    /\ true_signature
    /\ \E k \in Firsts(TrueStates) : btf_encoder__add_func(func_states[k])
    /\ next_group
    /\ UNCHANGED <<conf, cu, tables, saved>>

\* No true signature was added: the canonical instance is.
btf_encoder__add_canonical ==
    /\ pc = "add"
    /\ true_signature => TrueStates = {}
    /\ \E k \in canonical_state :
          ~skip_reason(k) /\ btf_encoder__add_func(func_states[k])
    /\ next_group
    /\ UNCHANGED <<conf, cu, tables, saved>>

btf_encoder__log_func_skip ==
    /\ pc = "add"
    /\ true_signature => TrueStates = {}
    /\ \E k \in canonical_state : skip_reason(k)
    /\ next_group
    /\ UNCHANGED <<conf, cu, tables, btf, saved>>

\* btf__add_func() and its like fail: the states are freed, nothing is written.
add_saved_funcs_error ==
    /\ pc = "add"
    /\ "memory" \in Faults
    /\ pc' = "abort"
    /\ func_states' = <<>>
    /\ UNCHANGED <<conf, cu, tables, i, j, btf, saved>>

Next ==
    \/ \E e \in Elfs : btf_encoder__elf_functions(e)
    \/ \E fn \in Fns : btf_encoder__save_func(fn)
    \/ encode_cu_error \/ encode_cu_end
    \/ no_saved_funcs \/ sort_saved_funcs
    \/ saved_functions_combine \/ combine_end
    \/ btf_encoder__add_true_signature \/ btf_encoder__add_canonical
    \/ btf_encoder__log_func_skip \/ add_saved_funcs_error

Spec == Init /\ [][Next]_vars

-----------------------------------------------------------------------------
(* Properties                                                              *)

State == [elf : Elfs, name : Nat, addr : Nat, sym : SymSuffix, types : Seq(Types),
          flags : SUBSET (SharedFlags \cup OwnFlags)]

\* Every variable keeps the values its C type and its use allow; the loop
\* variables of btf_encoder__add_saved_funcs() stay inside the array.
TypeOK ==
    /\ symtab \in SymTabs
    /\ true_signature \in BOOLEAN /\ skip_inconsistent \in BOOLEAN
    /\ pc \in {"cus", "functions", "combine", "add", "end", "abort"}
    /\ cu \in Elfs \cup {NoElf} /\ (pc = "functions" => cu \in DOMAIN tables)
    /\ DOMAIN tables \subseteq Elfs
    /\ \A e \in DOMAIN tables : tables[e].syms \in Seq(Sym)
    /\ func_states \in Seq(State) /\ saved \in Seq(State)
    /\ i \in Nat /\ j \in Nat
    /\ pc \in {"combine", "add"} =>
          i \in 1..Len(func_states) /\ j \in (i + 1)..(Len(func_states) + 1)
    /\ btf \in Seq([elf : Elfs, name : Nat, addr : Nat, sym : SymSuffix,
                    types : Seq(Types)])

Instances(b) == {s \in ToSet(saved) : SameElf(s, b)}
Encoded == ToSet(btf)

\* "exclude functions with unexpected register use, multiple inconsistent
\* prototypes or uncertain parameter locations": it is enough that one instance
\* in one CU has them, in whatever order the CUs came.
EncodedTrusted ==
    \A b \in Encoded : b.sym = "" =>
        \A s \in Instances(b) :
            s.flags \cap {"unexpected_reg", "uncertain_parm_loc", "reordered_parm"} = {}

\* "keeping a real instance as the anchor ensures real instances are still
\* compared against each other for prototype consistency"; without true
\* signatures inlined instances are compared as well.
EncodedConsistent ==
    skip_inconsistent =>
        \A b \in Encoded : b.sym = "" =>
            \A s, t \in Instances(b) :
                ~true_signature \/ (s.addr # 0 /\ t.addr # 0) => funcs__match(s, t)

\* The instances of a function are merged "into one, before adding it to the
\* BTF": no function of an ELF file is added twice.
AddedOnce ==
    \A k, m \in 1..Len(btf) : SameElf(btf[k], btf[m]) => k = m

OneAddress(s) ==
    \A k, m \in SymsOf(s.elf, s.name) :
        tables[s.elf].syms[k].addr = tables[s.elf].syms[m].addr

\* Without a true signature a function is not added when its name stands for
\* code at several addresses.
UnambiguousEncoded ==
    \A b \in Encoded : b.sym = "" => OneAddress(b)

AtSymbol(s) == SymsAt(s.elf, s.name, s.addr) # {}

\* "ensure to only select and emit BTF for the most canonical function
\* definition": one at the address of a symbol when there is any.
EncodedCanonical ==
    \A b \in Encoded : (\E s \in Instances(b) : AtSymbol(s)) => AtSymbol(b)

\* Nothing any instance says keeps the function out.
Representable(s) ==
    /\ s.flags \cap SharedFlags = {}
    /\ "optimized_parms" \notin s.flags
          \/ s.flags \cap {"signature_changed", "optimized_symbol"} = {}

\* "Do not exclude functions with optimized-out parameters by default": a
\* function with one address, whose instances agree and are all representable,
\* is added.
GoodEncoded ==
    pc = "end" =>
        \A s \in ToSet(saved) :
            /\ \A t, u \in Instances(s) : Representable(t) /\ funcs__match(t, u)
            /\ OneAddress(s)
            => \E b \in Encoded : SameElf(s, b)

\* A function is added for the code its name stands for: of all its instances the
\* one at the address of a symbol, and none if there are several addresses.
EncodedAddress == UnambiguousEncoded /\ EncodedCanonical
=============================================================================
