--------------------------- MODULE ParamLocations ---------------------------
(***************************************************************************)
(* Where the parameters of a function are when it is entered: the DWARF    *)
(* location of each (parameter__decode_location()), compared with the      *)
(* registers the calling convention gives to a function of that prototype  *)
(* (function__analyze_parameter_locations()), to find out that a compiler  *)
(* changed the signature, and to leave the function out of BTF or to add   *)
(* it with the signature it really has.                                    *)
(*                                                                         *)
(* The compiler and the calling conventions are external: Compile and      *)
(* Places.  The machines are 64-bit ones.  A register is its position in   *)
(* the order in which the convention uses it, which is what                *)
(* cu->register_params[] translates to.  Parameters in floating point or   *)
(* vector registers, names, and locations of the BTF inline sites' own     *)
(* format (BtfTypes) are left out.                                         *)
(***************************************************************************)
EXTENDS Integers, Sequences, SequencesExt, FiniteSets

CONSTANTS
    Machines,       \* e_machine of the object: a subset of AllMachines
    Compilers,      \* a subset of {"gcc", "clang"}
    Sources         \* parameter lists: sequences of [type, fate], see Fates

AllMachines == {"x86_64", "aarch64", "s390"}

ASSUME MachinesAssumption == Machines \subseteq AllMachines
ASSUME CompilersAssumption == Compilers \subseteq {"gcc", "clang"}

VARIABLES
    pc,             \* "compile", "load", "analyze", "save", or "done"
    machine,        \* cu: e_machine
    compiler,       \* cu: who produced it
    true_signature, \* conf_load->true_signature
    source,         \* the parameters declared: [type, fate]
    marked,         \* the DIE has DW_AT_calling_convention DW_CC_nocall
    suffixed,       \* the symbol has a suffix, as in f.isra.0
    dies,           \* the DW_TAG_formal_parameter DIEs
    parms,          \* struct parameter, for each of them
    proto,          \* flags of struct ftype
    state           \* the function as it is added to BTF, or what kept it out

unit == <<machine, compiler, true_signature>>
function == <<source, marked, suffixed, dies>>
vars == <<pc, unit, function, parms, proto, state>>

-----------------------------------------------------------------------------
(* The types of parameters: a long, an __int128, and
     struct small { int a, b; };       struct pair { long a, b; };
     union big { long a; char b[24]; };
   and what a compiler does to a parameter of a static function.            *)

addr_size == 8
NoMember == -1
Types == {"long", "int128", "small", "pair", "big"}
SizeOf == [long |-> 8, int128 |-> 16, small |-> 8, pair |-> 16, big |-> 24]
MemberOffsets == [long |-> {}, int128 |-> {}, small |-> {0, 4}, pair |-> {0, 8}, big |-> {}]
IsStruct(type) == type \in {"small", "pair"}

\* Its value follows from that of another: it is at an offset from it, is loaded
\* from there, or one is added, or it is taken from one.
Derived == {"derived", "loaded", "sum", "difference"}

Fates(type) ==
    {"used", "unused", "dropped"}
    \cup (IF type = "long" THEN {"late", "const", "attr"} \cup Derived ELSE {})
    \cup (IF IsStruct(type) THEN {"first"} ELSE {})
    \cup (IF type = "pair" THEN {"second", "member1", "member2"} ELSE {})

\* The parameter is passed as it was declared, or one long of it is.
Whole == {"used", "late", "unused", "first", "second"}
Part == {"member1", "member2"}
Halves == {"first", "second"} \cup Part
Changed == \E k \in DOMAIN source : source[k].fate \notin Whole

\* What is passed for a parameter: its type, a long, or nothing.
Passed(p) == IF p.fate \in Whole THEN p.type ELSE IF p.fate \in Part THEN "long" ELSE "none"

ASSUME SourcesAssumption ==
    \A s \in Sources :
        /\ s \in Seq([type : Types, fate : STRING])
        /\ \A k \in DOMAIN s : s[k].fate \in Fates(s[k].type)

-----------------------------------------------------------------------------
(* What the loader knows of the machines                                   *)

arch__nr_register_params == [x86_64 |-> 6, aarch64 |-> 8, s390 |-> 5][machine]
arch__agg_use_two_regs == machine # "s390"
arch__arg_align_two_regs == machine = "aarch64"
arch__param_loc_supported == machine \in {"x86_64", "aarch64"}

\* What its calling convention says besides: too large arguments are passed by
\* reference, and after one that did not fit all others are on the stack.
ByReference == machine \in {"aarch64", "s390"}
NoBackfill == machine = "aarch64"

\* The registers that an argument of a type takes.
largest_in_regs == IF arch__agg_use_two_regs THEN 2 * addr_size ELSE addr_size
Words(type) == IF SizeOf[type] > largest_in_regs THEN 1 ELSE SizeOf[type] \div addr_size
Argument(n, next) == [w \in 1 .. n |-> next + w - 1]

\* One more argument: it is in the next registers, or on the stack.
Place(acc, type) ==
    LET nr == arch__nr_register_params
        first == IF arch__arg_align_two_regs /\ type = "int128"
                 THEN acc.next + (acc.next % 2) ELSE acc.next
    IN IF type = "none" \/ (SizeOf[type] > largest_in_regs /\ ~ByReference)
       THEN [acc EXCEPT !.regs = Append(@, <<>>)]
       ELSE IF first + Words(type) <= nr
       THEN [next |-> first + Words(type),
             regs |-> Append(acc.regs, Argument(Words(type), first))]
       ELSE [next |-> IF NoBackfill THEN nr ELSE acc.next, regs |-> Append(acc.regs, <<>>)]

\* Registers of each argument of a function with these types, <<>> for the stack.
Places(types) == FoldLeft(Place, [next |-> 0, regs |-> <<>>], types).regs

\* The registers parameter k really is in.
RealPlace(k) == Places([j \in DOMAIN source |-> Passed(source[j])])[k]

-----------------------------------------------------------------------------
(* The DWARF a compiler writes: operations, expressions, location lists     *)

op(atom, reg, n) == [atom |-> atom, reg |-> reg, n |-> n]
Reg(r) == op("reg", r, 0)
Breg(r, n) == op("breg", r, n)
Piece(n) == op("piece", -1, n)
StackValue == op("stack_value", -1, 0)
Fbreg == op("fbreg", -1, 16)

\* An argument passed by reference is in memory, where its register points.
WholeLocation(type, regs) ==
    IF regs = <<>> THEN <<Fbreg>>
    ELSE IF Len(regs) = 2
    THEN <<Reg(regs[1]), Piece(8), Reg(regs[2]), Piece(8)>>
    ELSE IF SizeOf[type] > addr_size THEN <<Breg(regs[1], 0)>>
    ELSE <<Reg(regs[1])>>

\* Another parameter, a pointer, from which the value of this one follows.
Bases(k) == {j \in DOMAIN source \ {k} : /\ source[j].type = "long"
                                         /\ source[j].fate \in Whole
                                         /\ RealPlace(j) # <<>>}
Base(k) == Breg(RealPlace(CHOOSE j \in Bases(k) : TRUE)[1], 8)

Location(k) ==
    LET p == source[k]
        regs == RealPlace(k)
        half == [small |-> 4, pair |-> 8]
    IN CASE p.fate = "used" -> <<WholeLocation(p.type, regs), <<Fbreg>>>>
         [] p.fate = "late" /\ regs # <<>> -> <<<<op("entry", regs[1], 0), StackValue>>>>
         [] p.fate = "late" /\ regs = <<>> -> <<<<Fbreg>>>>
         [] p.fate \in {"first", "second"} /\ (regs = <<>> \/ Len(regs) * 8 < SizeOf[p.type]) ->
                <<WholeLocation(p.type, regs)>>
         [] p.fate = "first" /\ Len(regs) * 8 = SizeOf[p.type] ->
                <<<<Reg(regs[1]), Piece(half[p.type])>>>>
         [] p.fate = "second" /\ Len(regs) * 8 = SizeOf[p.type] ->
                <<<<Piece(8), Reg(regs[2]), Piece(8)>>>>
         [] p.fate \in Part ->
                LET it == IF regs = <<>> THEN Fbreg ELSE Reg(regs[1])
                IN <<IF p.fate = "member1" THEN <<it, Piece(8)>> ELSE <<Piece(8), it, Piece(8)>>>>
         [] p.fate = "const" -> <<<<op("lit", -1, 1), StackValue>>>>
         [] p.fate = "derived" -> <<<<Base(k), StackValue>>>>
         [] p.fate = "loaded" -> <<<<Base(k), op("deref", -1, 0), StackValue>>>>
         [] p.fate = "sum" ->
                <<<<Base(k), op("lit", -1, 1), op("plus", -1, 0), StackValue>>>>
         [] p.fate = "difference" ->
                <<<<op("lit", -1, 1), Base(k), op("minus", -1, 0), StackValue>>>>
         [] OTHER -> <<>>

Die(k) == [idx |-> k, type |-> source[k].type, const |-> source[k].fate = "attr",
           loc |-> Location(k)]

\* The elements of a sequence that are at some of its indexes.
Only(s, which) == FlattenSeq([k \in DOMAIN s |-> IF k \in which THEN <<s[k]>> ELSE <<>>])

\* In a clone gcc may list the parameters without a location last.
Reordered(ds) ==
    LET located == {k \in DOMAIN ds : ds[k].loc # <<>>}
    IN Only(ds, located) \o Only(ds, DOMAIN ds \ located)

Compile ==
    LET all == [k \in DOMAIN source |-> Die(k)] IN
    /\ pc = "compile"
    /\ \A k \in DOMAIN source : source[k].fate \in Derived => Bases(k) # {}
    /\ compiler = "gcc" /\ Changed => \A k \in DOMAIN source : source[k].fate # "unused"
    /\ dies' \in IF compiler = "gcc" /\ Changed THEN {all, Reordered(all)} ELSE {all}
    /\ marked' \in IF compiler = "clang" /\ Changed THEN BOOLEAN ELSE {FALSE}
    /\ suffixed' = (compiler = "gcc" /\ Changed)
    /\ pc' = "load"
    /\ UNCHANGED <<unit, source, parms, proto, state>>

-----------------------------------------------------------------------------
(* parameter__new(): decoding a location                                   *)

NoReg == -1

NewParameter(d) ==
    [idx |-> d.idx, type |-> d.type, size |-> SizeOf[d.type],
     memory |-> SizeOf[d.type] > (IF arch__agg_use_two_regs THEN 2 * addr_size ELSE addr_size),
     has_const |-> d.const, has_loc |-> d.loc # <<>>,
     loc_reg |-> NoReg, loc_reg2 |-> NoReg, loc_offset |-> 0, loc_deref |-> FALSE,
     loc_stack |-> FALSE, loc_const |-> FALSE, loc_value |-> IF d.const THEN 1 ELSE 0,
     first |-> {}, second |-> {}, member |-> NoMember,
     optimized |-> FALSE, unexpected |-> FALSE]

\* 0 when BTF cannot describe a value of that size.
parameter__loc_size(p) == IF p.size > 16 THEN 0 ELSE p.size

parameter__record_loc_reg(p, reg, offset, deref) ==
    IF parameter__loc_size(p) = 0 \/ p.loc_reg \notin {NoReg, reg} THEN p
    ELSE [p EXCEPT !.loc_reg = reg, !.loc_offset = offset, !.loc_deref = deref]

parameter__record_loc_reg_pair(p, reg, reg2) ==
    [p EXCEPT !.loc_reg = reg, !.loc_reg2 = reg2, !.loc_offset = 0, !.loc_deref = FALSE]

parameter__record_loc_const(p, value) ==
    IF parameter__loc_size(p) = 0 THEN p
    ELSE [p EXCEPT !.loc_const = TRUE, !.loc_value = value]

\* The piece at an offset of the value is a member of the first or second word.
Field(p, off) ==
    IF off < addr_size THEN [p EXCEPT !.first = @ \cup {off}]
                       ELSE [p EXCEPT !.second = @ \cup {off - addr_size}]

\* One operation of an expression that describes the value piece by piece.
Piecewise(acc, o) ==
    LET after_reg == acc.last = "reg" IN
    IF o.atom = "piece"
    THEN [p |-> IF acc.last = "none" THEN acc.p ELSE Field(acc.p, acc.off),
          off |-> acc.off + o.n, regs |-> acc.regs, last |-> "piece",
          size |-> IF after_reg THEN acc.size + o.n ELSE acc.size,
          regs_only |-> acc.regs_only /\ after_reg]
    ELSE IF o.atom = "reg"
    THEN [p |-> IF acc.off < addr_size \/ acc.p.loc_reg = NoReg
                THEN parameter__record_loc_reg(acc.p, o.reg, 0, FALSE) ELSE acc.p,
          off |-> acc.off, regs |-> Append(acc.regs, o.reg), last |-> "reg",
          size |-> acc.size, regs_only |-> acc.regs_only]
    ELSE [acc EXCEPT !.regs_only = FALSE, !.last = o.atom]

Pieces(p, first_loc, expr) ==
    LET all == FoldLeft(Piecewise, [p |-> p, off |-> 0, regs |-> <<>>, size |-> 0,
                                    regs_only |-> TRUE, last |-> "none"], expr)
    IN IF first_loc /\ all.regs_only /\ Len(all.regs) = 2 /\ all.size = p.size
       THEN parameter__record_loc_reg_pair(all.p, all.regs[1], all.regs[2])
       ELSE all.p

\* An expression of several operations.
parameter__multi_exprs(p, first_loc, expr) ==
    LET head == expr[1]
        value == \E i \in 2 .. Len(expr) : expr[i].atom = "stack_value"
    IN IF head.atom = "lit"
       THEN IF first_loc THEN parameter__record_loc_const(p, head.n) ELSE p
       ELSE IF p.size > addr_size /\ arch__agg_use_two_regs THEN Pieces(p, first_loc, expr)
       ELSE IF ~first_loc THEN p
       ELSE IF head.atom = "reg" THEN parameter__record_loc_reg(p, head.reg, 0, FALSE)
       ELSE IF head.atom = "breg" THEN parameter__record_loc_reg(p, head.reg, head.n, ~value)
       ELSE p

\* Variant: only an explicit DW_OP_deref is a dereference.
Deref_explicit(value, deref) == deref

Deref(value, deref) == deref \/ ~value

\* An expression of one operation, what it computes being the value itself
\* or, without DW_OP_stack_value, where the value is.
SingleExpr(p, first_loc, o, value, deref) ==
    CASE o.atom = "reg" /\ first_loc -> parameter__record_loc_reg(p, o.reg, 0, FALSE)
      [] o.atom = "breg" /\ first_loc ->
            parameter__record_loc_reg(p, o.reg, o.n, Deref(value, deref))
      [] o.atom = "fbreg" /\ first_loc /\ parameter__loc_size(p) # 0 ->
            [p EXCEPT !.loc_stack = TRUE, !.loc_offset = o.n, !.loc_deref = Deref(value, deref)]
      [] o.atom = "lit" /\ first_loc -> parameter__record_loc_const(p, o.n)
      [] o.atom = "entry" -> parameter__record_loc_reg(p, o.reg, 0, FALSE)
      [] OTHER -> p

DecodeExpr(p, first_loc, expr) ==
    LET value == Last(expr).atom = "stack_value"
        inner == IF value THEN Front(expr) ELSE expr
        deref == inner # <<>> /\ Last(inner).atom = "deref"
        ops == IF deref THEN Front(inner) ELSE inner
    IN IF ops = <<>> THEN p
       ELSE IF Len(ops) > 1 THEN parameter__multi_exprs(p, first_loc, ops)
       ELSE SingleExpr(p, first_loc, ops[1], value, deref)

\* The one member the pieces name, if they name one.
parameter__finish_piece_decode(p) ==
    LET fields == p.first \cup {addr_size + off : off \in p.second}
    IN IF Cardinality(fields) = 1 /\ fields \subseteq MemberOffsets[p.type]
       THEN [p EXCEPT !.member = CHOOSE off \in fields : TRUE] ELSE p

DecodeLater(p, expr) == DecodeExpr(p, FALSE, expr)

parameter__decode_location(p, list) ==
    parameter__finish_piece_decode(
        IF list = <<>> THEN p ELSE FoldLeft(DecodeLater, DecodeExpr(p, TRUE, Head(list)), Tail(list)))

parameter__new(d) == parameter__decode_location(NewParameter(d), d.loc)

\* die__create_new_function(); the order of parameters is compared with that of
\* the abstract origin when the types are recoded.
Load ==
    /\ pc = "load"
    /\ parms' = [k \in DOMAIN dies |-> parameter__new(dies[k])]
    /\ proto' = [proto EXCEPT !.signature_changed = compiler = "clang" /\ marked,
                              !.reordered = \E k \in DOMAIN dies : dies[k].idx # k]
    /\ pc' = "analyze"
    /\ UNCHANGED <<unit, function, state>>

-----------------------------------------------------------------------------
(* function__analyze_parameter_locations()                                 *)

parameter__abi_slots(p) ==
    IF ~arch__agg_use_two_regs \/ p.size <= addr_size THEN 1
    ELSE (p.size + addr_size - 1) \div addr_size

\* Variant: the alignment is forgotten.
parameter__align_reg_idx_never(p, reg_idx) == reg_idx

\* An __int128 starts at an even register on some machines.
parameter__align_reg_idx(p, reg_idx) ==
    IF arch__arg_align_two_regs /\ p.size > addr_size /\ p.type = "int128"
    THEN reg_idx + (reg_idx % 2) ELSE reg_idx

\* The parameter after number k is where it is if k kept all of its registers.
next_parameter_preserves_slots(ps, k, reg_idx, slots) ==
    /\ k < Len(ps)
    /\ ps[k + 1].loc_reg # NoReg
    /\ LET next == parameter__align_reg_idx(ps[k + 1], reg_idx + slots)
       IN next < arch__nr_register_params /\ ps[k + 1].loc_reg = next

\* The parameter becomes the one member of it that is used.
parameter__apply_true_sig_member(p) == [p EXCEPT !.type = "long"]

parameter__reg_in_expected_window(p, reg_idx, slots) ==
    \E i \in 0 .. slots - 1 : reg_idx + i < arch__nr_register_params /\ p.loc_reg = reg_idx + i

\* Parameter k is in a register that one of its type is not in.
Odd(p, reg_idx) ==
    /\ ~p.loc_deref /\ p.loc_reg # NoReg
    /\ ~parameter__reg_in_expected_window(p, reg_idx, parameter__abi_slots(p))

\* One parameter, unless the registers are used up.
MatchNext(acc, k) ==
    LET p == acc.parms[k]
        reg_idx == parameter__align_reg_idx(p, acc.reg_idx)
    IN IF acc.full \/ p.memory THEN acc
       ELSE IF reg_idx >= arch__nr_register_params THEN [acc EXCEPT !.full = TRUE]
       ELSE [acc EXCEPT !.reg_idx = reg_idx + parameter__abi_slots(p),
                        !.parms = [@ EXCEPT ![k] =
                            IF Odd(p, reg_idx) THEN [p EXCEPT !.unexpected = TRUE] ELSE p]]

\* clang, and the signature was not changed.
function__match_clang_parameter_locations(ps) ==
    FoldLeftDomain(MatchNext, [parms |-> ps, reg_idx |-> 0, full |-> FALSE], ps).parms

\* true_sig_enabled: it is known that the signature was changed, and asked how.
true_sig == arch__param_loc_supported /\ true_signature /\ proto.signature_changed

\* Parameter k of ps, when reg_idx is the register it should be in: what is found
\* out about it, and how many registers it consumes.
Judge(ps, k, reg_idx) ==
    LET p == ps[k]
        slots == parameter__abi_slots(p)
        reg_slots == IF p.memory THEN 1 ELSE slots
        regs_available == reg_idx < arch__nr_register_params
        preserved == next_parameter_preserves_slots(ps, k, reg_idx, slots)
        is(q, n) == [parm |-> q, slots |-> n]
        optimized == [p EXCEPT !.optimized = TRUE]
        unexpected == [p EXCEPT !.unexpected = TRUE]
    IN IF ~p.has_loc
       THEN IF p.has_const /\ compiler = "gcc" THEN is(optimized, reg_slots)
            ELSE IF ~true_sig THEN is(p, reg_slots)
            ELSE IF regs_available /\ preserved THEN is(p, slots)
            ELSE is(optimized, 0)
       ELSE IF true_sig /\ p.loc_const THEN is(optimized, 0)
       ELSE IF ~regs_available THEN is(p, 0)
       ELSE IF true_sig /\ p.loc_stack
       THEN IF p.memory THEN is(p, 0) ELSE is(unexpected, reg_slots)
       ELSE IF p.loc_reg = NoReg
       THEN is(IF true_sig THEN unexpected ELSE optimized, reg_slots)
       ELSE IF p.loc_reg # reg_idx THEN is(unexpected, reg_slots)
       ELSE IF ~true_sig \/ p.first \cup p.second = {} THEN is(p, reg_slots)
       ELSE IF p.first # {} /\ p.second # {} THEN is(p, slots)
       ELSE IF preserved THEN is([p EXCEPT !.member = NoMember], slots)
       ELSE IF p.member # NoMember THEN is(parameter__apply_true_sig_member(p), 1)
       ELSE is(p, reg_slots)

\* One parameter, and the registers that it consumes.
JudgeNext(acc, k) ==
    LET p == acc.parms[k]
        reg_idx == IF p.memory THEN acc.reg_idx
                   ELSE parameter__align_reg_idx(p, acc.reg_idx)
        j == Judge(acc.parms, k, reg_idx)
    IN [parms |-> [acc.parms EXCEPT ![k] = j.parm], reg_idx |-> reg_idx + j.slots]

JudgeAll(ps) == FoldLeftDomain(JudgeNext, [parms |-> ps, reg_idx |-> 0], ps).parms

function__analyze_parameter_locations(ps) ==
    IF compiler = "clang" /\ ~proto.signature_changed
    THEN IF arch__param_loc_supported THEN function__match_clang_parameter_locations(ps) ELSE ps
    ELSE JudgeAll(ps)

\* cu__resolve_func_ret_types_optimized(): a parameter that is a struct may be
\* the reason for an unexpected register.
Analyze ==
    LET ps == function__analyze_parameter_locations(parms) IN
    /\ pc = "analyze"
    /\ parms' = ps
    /\ proto' = [proto EXCEPT
          !.optimized = \E k \in DOMAIN ps : ps[k].optimized \/ ~ps[k].has_loc,
          !.unexpected = /\ \E k \in DOMAIN ps : ps[k].unexpected
                         /\ \A k \in DOMAIN ps : ~IsStruct(ps[k].type)]
    /\ pc' = "save"
    /\ UNCHANGED <<unit, function, state>>

-----------------------------------------------------------------------------
(* The BTF encoder, for a function of one instance                         *)

\* btf_encoder__add_loc_param(): what is said of the parameter at a call site.
add_loc_param(p) ==
    IF p.loc_const \/ p.has_const
    THEN IF p.size > addr_size THEN <<>> ELSE <<"const", -1, p.loc_value>>
    ELSE IF p.loc_reg # NoReg /\ p.loc_reg2 # NoReg THEN <<"pair", p.loc_reg, p.loc_reg2>>
    ELSE IF p.loc_reg # NoReg
    THEN <<IF p.loc_deref THEN "memory" ELSE "value", p.loc_reg, p.loc_offset>>
    ELSE IF p.loc_stack
    THEN <<IF p.loc_deref THEN "memory" ELSE "value", -1, p.loc_offset>>
    ELSE <<>>

EncodesTrueSignature == true_signature /\ arch__param_loc_supported

\* Variant: only the reordered functions drop parameters.
Kept_reordered(p) == ~(proto.reordered /\ (~p.has_loc \/ p.optimized))

\* btf_encoder__save_func(): the parameters that are kept.
Kept(p) ==
    /\ ~(proto.reordered /\ (~p.has_loc \/ p.optimized))
    /\ ~(EncodesTrueSignature /\ proto.signature_changed /\ p.optimized)

\* btf_encoder__add_saved_funcs(): a function with a suffixed symbol may be added
\* with its true signature; else it must not be skipped.
Added ==
    \/ EncodesTrueSignature /\ suffixed /\ ~proto.unexpected
    \/ /\ ~proto.unexpected
       /\ ~proto.reordered
       /\ ~(~EncodesTrueSignature /\ proto.optimized /\ (proto.signature_changed \/ suffixed))

Save ==
    /\ pc = "save"
    /\ state' = [added |-> Added, parms |-> Only(parms, {k \in DOMAIN parms : Kept(parms[k])})]
    /\ pc' = "done"
    /\ UNCHANGED <<unit, function, parms, proto>>

Init ==
    /\ pc = "compile"
    /\ machine \in Machines /\ compiler \in Compilers /\ true_signature \in BOOLEAN
    /\ source \in Sources
    /\ marked = FALSE /\ suffixed = FALSE /\ dies = <<>>
    /\ parms = <<>>
    /\ proto = [signature_changed |-> FALSE, reordered |-> FALSE,
                optimized |-> FALSE, unexpected |-> FALSE]
    /\ state = [added |-> FALSE, parms |-> <<>>]

Next == Compile \/ Load \/ Analyze \/ Save

Spec == Init /\ [][Next]_vars

-----------------------------------------------------------------------------
(* Properties                                                              *)

TypeOK ==
    /\ pc \in {"compile", "load", "analyze", "save", "done"}
    /\ \A k \in DOMAIN parms :
          /\ parms[k].idx \in DOMAIN source
          /\ parms[k].loc_reg \in {NoReg} \cup 0 .. arch__nr_register_params - 1
          /\ parms[k].member \in {NoMember} \cup MemberOffsets[source[parms[k].idx].type]
    /\ \A k \in DOMAIN state.parms : state.parms[k] \in ToSet(parms)

Declared == Places([k \in DOMAIN source |-> source[k].type])
Reported == Places([k \in DOMAIN state.parms |-> state.parms[k].type])
InRegisters == <<>> \notin ToSet(Declared) /\ \A k \in DOMAIN source : source[k].type # "big"

\* A register is not the expected one, but a struct is among the parameters.
Masked == \E k \in DOMAIN parms : parms[k].unexpected

\* Where half of a struct is used its place does not tell whether the other half is
\* passed, unless the function is known to be changed, every register is used, and
\* what follows is in one that tells.
Ambiguous ==
    \E k \in DOMAIN source :
        /\ source[k].fate \in Halves
        /\ \/ ~(true_signature /\ proto.signature_changed)
           \/ \E j \in DOMAIN source : source[j].type = "int128" /\ source[j].fate = "dropped"
           \/ k < Len(source) /\ (\/ source[k + 1].fate \in Halves
                                  \/ source[k + 1].type = "int128")

\* The words of parameter k that the function uses, and their registers; a word
\* that is passed alone is in the first register of its place.
UsedWords(k) ==
    CASE source[k].fate \in {"used", "late"} -> DOMAIN RealPlace(k)
      [] source[k].fate \in {"first", "member1"} /\ RealPlace(k) # <<>> -> {1}
      [] source[k].fate \in {"second", "member2"} /\ RealPlace(k) # <<>> -> {2}
      [] OTHER -> {}
WordAt(place, alone, w) == IF alone THEN place[1] ELSE place[w]

\* "Also exclude functions with unexpected register use": a caller that follows the
\* signature in BTF puts every value the function uses into the register where
\* the function expects it.
SignatureHolds ==
    /\ pc = "done" /\ state.added
    /\ compiler = "clang" => arch__param_loc_supported
    /\ InRegisters /\ ~Masked /\ ~Ambiguous
    => \A k \in DOMAIN source : \A w \in UsedWords(k) : \E j \in DOMAIN state.parms :
            LET p == state.parms[j]
                alone == p.type # source[k].type
            IN /\ p.idx = k
               /\ Reported[j] # <<>>
               /\ alone => p.member = (w - 1) * addr_size
               /\ WordAt(Reported[j], alone, w) =
                        WordAt(RealPlace(k), source[k].fate \in Part, w)

\* function__analyze_parameter_locations() finds no fault with a function that is
\* called as it was declared.
NoFalseAlarm ==
    pc = "done" /\ ~Changed /\ (\A k \in DOMAIN source : source[k].type # "big")
        => state.added /\ state.parms = parms

\* "true_signature can rewrite those signatures": of a function that is known to
\* be changed, the parameters that are still passed are the ones in BTF.
TrueSignatureFound ==
    /\ pc = "done"
    /\ proto.signature_changed /\ EncodesTrueSignature /\ InRegisters
    /\ \A k \in DOMAIN source :
          /\ source[k].fate \in {"used", "late", "dropped", "const", "attr"}
          /\ source[k].type = "int128" => source[k].fate = "used" /\ ~arch__arg_align_two_regs
    => /\ state.added
       /\ [j \in DOMAIN state.parms |-> state.parms[j].idx] =
            Only([k \in DOMAIN source |-> k], {k \in DOMAIN source : Passed(source[k]) # "none"})

\* "In the absence of the stack value, breg/fbreg are implicitly dereferences; with
\* it they are non-dereference calculations": what can be said at a call site of
\* the value that an expression computes, or of the piece of it that is left; none
\* if btf_encoder__add_loc_param() has no words for it.
Atoms(expr) == [i \in DOMAIN expr |-> expr[i].atom]

Meaning(expr) ==
    LET o == expr[1]
        atoms == Atoms(expr)
    IN CASE atoms \in {<<"reg">>, <<"reg", "piece">>, <<"entry", "stack_value">>} ->
                {<<"value", o.reg, 0>>}
         [] atoms = <<"piece", "reg", "piece">> -> {<<"value", expr[2].reg, 0>>}
         [] atoms = <<"reg", "piece", "reg", "piece">> -> {<<"pair", o.reg, expr[3].reg>>}
         [] atoms = <<"lit", "stack_value">> -> {<<"const", -1, o.n>>}
         [] atoms = <<"breg", "stack_value">> -> {<<"value", o.reg, o.n>>}
         [] atoms \in {<<"breg">>, <<"fbreg">>, <<"breg", "deref", "stack_value">>} ->
                {<<"memory", o.reg, o.n>>}
         [] OTHER -> {}

\* Where in the value the pieces are that an expression names.
PieceOffsets(expr) ==
    LET atoms == Atoms(expr)
    IN CASE atoms \in {<<"reg", "piece">>, <<"fbreg", "piece">>} -> {0}
         [] atoms \in {<<"piece", "reg", "piece">>, <<"piece", "fbreg", "piece">>} -> {expr[1].n}
         [] atoms = <<"reg", "piece", "reg", "piece">> -> {0, expr[2].n}
         [] OTHER -> {}

\* A value that is calculated from a register or a literal in more operations: of
\* these the code tells the first only, as ComputedDescribed shows.
Computed(expr) == ToSet(Atoms(expr)) \cap {"plus", "minus"} # {}

\* What is found in the location of a DIE, which parameter__decode_location()
\* made into the parameter p.
Described(d, p) ==
    LET told == add_loc_param(p)
        expr == d.loc[1]
    IN /\ d.loc = <<>> => told = IF d.const THEN <<"const", -1, 1>> ELSE <<>>
       /\ d.loc # <<>> /\ ~Computed(expr) =>
             /\ told \in {<<>>} \cup Meaning(expr)
             /\ p.member # NoMember => PieceOffsets(expr) = {p.member}
             /\ d.type = "pair" /\ arch__agg_use_two_regs =>
                   \A off \in {0, addr_size} : PieceOffsets(expr) = {off} => p.member = off

\* BTF says nothing of where a parameter is, or what the first expression of its
\* location means; and the member that a struct in registers may be replaced with
\* (parameter__finish_piece_decode()) is the one of which there is a piece.
LocationDescribed == pc = "analyze" => \A k \in DOMAIN dies : Described(dies[k], parms[k])

\* The same sentence of the comment, of every expression.
ComputedDescribed ==
    pc = "analyze" => \A k \in DOMAIN dies :
        dies[k].loc # <<>> => add_loc_param(parms[k]) \in {<<>>} \cup Meaning(dies[k].loc[1])

\* A function is taken for changed only when it is called in another way than it was
\* declared, and then its true signature is the one that is encoded.
ChangesFound == NoFalseAlarm /\ TrueSignatureFound
=============================================================================
