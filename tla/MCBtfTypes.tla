----------------------------- MODULE MCBtfTypes -----------------------------
(* Small files for BtfTypes: all kinds of types in three places of a table,
   and functions, variables and inline expansions over a fixed table.       *)
EXTENDS BtfTypes

CONSTANT Scope      \* "all", or "annots" for one file with an annotated struct

MCU32 == 16

Int32 == [NewTag("base", "int", 0) EXCEPT !.size = 32, !.enc = "signed"]
Base(name, size, e) == [NewTag("base", name, 0) EXCEPT !.size = size, !.enc = e]
Array(type, dims) == [NewTag("array", "", type) EXCEPT !.dims = dims]
Member(type, bits, off) == [NewKid("m", type) EXCEPT !.bits = bits, !.off = off]
Struct(tag, type) == [NewTag(tag, "s", 0) EXCEPT !.size = 8, !.kids = <<Member(type, 0, 0), Member(type, 3, 32)>>]
Enum(size, values) == [NewTag("enum", "e", 0) EXCEPT !.size = size,
    !.enc = IF \E k \in DOMAIN values : values[k] < 0 THEN "signed" ELSE "",
    !.kids = [k \in DOMAIN values |-> [NewKid("E", 0) EXCEPT !.value = values[k]]]]
Proto(type, params, dots) == [NewTag("subroutine", "", type) EXCEPT !.vararg = dots,
    !.kids = [k \in DOMAIN params |-> NewKid("p", params[k])]]
Annots(t, a) == [t EXCEPT !.annots = a]
TypeAnnot == <<[value |-> "tag", idx |-> -1]>>

Refs == {0, 1, 3}
Middle ==
    {Int32, Base("char", 8, ""), Base("u24", 24, ""), Base("bool", 8, "bool"),
     Base("double", 64, "double"), Base("complex", 64, "complex"), NewTag("unspec", "", 0),
     NewTag("null", "", 0), NewTag("atomic", "", 0), Enum(32, <<0, -1>>), Enum(32, <<0, 9>>),
     Enum(64, <<3, 17>>), Enum(64, <<-1>>), Enum(32, <<>>),
     [NewTag("struct", "s", 0) EXCEPT !.decl = TRUE], [NewTag("union", "s", 0) EXCEPT !.decl = TRUE]}
    \cup {NewTag(tag, "", r) : tag \in {"const", "pointer", "volatile", "annot"}, r \in Refs}
    \cup {NewTag("restrict", "", 3), NewTag("typedef", "t", 1), Annots(NewTag("typedef", "t", 3), TypeAnnot)}
    \cup {Struct("struct", r) : r \in {1, 2, 3}} \cup {Struct("union", 3)}
    \cup {Array(r, d) : r \in {1, 3}, d \in {<<>>, <<2>>, <<2, 3>>}}
    \cup {Proto(0, <<>>, FALSE), Proto(1, <<3>>, FALSE), Proto(3, <<1, 3>>, TRUE)}

First == {NewTag("unspec", "", 0), NewTag("null", "", 0), Array(3, <<2, 3>>), NewTag("const", "", 3),
          Struct("struct", 2)}
Third == {Int32, NewTag("pointer", "", 0), Array(2, <<4>>), NewTag("const", "", 2)}

(* Only a struct may lead back to itself, and what is not in the table is not
   referred to.                                                             *)
RefsOf(t) == IF t.tag \in {"struct", "union"} THEN {}
             ELSE {t.type} \cup {t.kids[k].type : k \in DOMAIN t.kids}
Sound(types) ==
    /\ LET next(S) == UNION {RefsOf(types[n]) : n \in S \ {0}} IN
       \A n \in DOMAIN types : n \notin next({n}) \cup next(next({n})) \cup next(next(next({n})))
    /\ \A n \in DOMAIN types : types[n].tag # "null" \/
           \A o \in DOMAIN types : /\ n \notin RefsOf(types[o])
                                   /\ \A k \in DOMAIN types[o].kids : types[o].kids[k].type # n
    /\ \A n \in DOMAIN types : \A k \in DOMAIN types[n].kids :
           types[n].tag = "subroutine" => types[types[n].kids[k].type].tag # "unspec"

CuOf(types) == [types |-> types, functions |-> <<>>, inlines |-> <<>>, variables |-> <<>>]
Seconds == {CuOf(<<Array(2, <<2>>), Int32>>), CuOf(<<NewTag("pointer", "", 2), Array(3, <<2, 2>>), Struct("struct", 1)>>),
            CuOf(<<NewTag("unspec", "", 0), Array(1, <<3>>), NewTag("const", "", 2)>>)}

Conf == [gen_floats |-> TRUE, skip_enum64 |-> FALSE, inlines |-> FALSE, skip_decl_tag |-> FALSE,
         tag_kfuncs |-> FALSE, attributes |-> FALSE, vars |-> {}, force |-> FALSE, raw |-> TRUE,
         distilled |-> FALSE]
File(cus, cf) == [cus |-> cus, sections |-> <<>>, objects |-> {}, btf_ids |-> <<>>,
                  elf_functions |-> {}, conf |-> cf]

TypeFiles ==
    {File(<<CuOf(<<f, m, t>>), s>>, cf) :
        <<f, m, t>> \in {x \in First \X Middle \X Third : Sound(x)}, s \in Seconds,
        cf \in {Conf, [Conf EXCEPT !.gen_floats = FALSE, !.skip_enum64 = TRUE]}}

----------------------------------------------------------------------------
(* int, a pointer to it, a struct and a second CU whose table is longer. *)
Table1 == <<NewTag("unspec", "", 0), NewTag("pointer", "", 3), Int32>>
Table2 == <<Array(2, <<2, 2>>), Int32, NewTag("pointer", "", 1), Struct("struct", 2), NewTag("unspec", "", 0)>>

FnAnnots == <<[value |-> "fast", idx |-> -1], [value |-> "arg", idx |-> 1]>>
Fn(name, proto) == [name |-> name, proto |-> proto]
Functions1 == <<Fn("f", Annots(Proto(2, <<2, 3>>, FALSE), FnAnnots)), Fn("missing", Proto(0, <<>>, FALSE))>>
Functions2 == <<Fn("g", Proto(3, <<3, 3>>, TRUE)),
                Fn("d", [Proto(0, <<>>, FALSE) EXCEPT !.decl = TRUE])>>

Sym(kind, name, addr, sz, flags, set) ==
    [kind |-> kind, name |-> name, addr |-> addr, sz |-> sz, flags |-> flags, set |-> set]
(* f is in the first set and g in the second, which follows it. *)
IdLists == {<<>>} \cup
    {<<Sym("set8", "k1", 0, 4, x, ""), Sym("func", "f", 2, 2, ff, "k1"),
       Sym("set8", "k2", 4, 6, y, ""), Sym("func", "g", 4, 2, gf, "k2")>> :
        x \in {{}, {"kfuncs"}}, y \in {{}, {"kfuncs"}},
        ff \in {{}, {"FASTCALL"}, {"ARENA_RET", "ARENA_ARG1"}, {"ARENA_ARG2"}},
        gf \in {{}, {"ARENA_ARG1", "ARENA_ARG2"}}}

FunctionFiles ==
    {[File(<<[CuOf(Table1) EXCEPT !.functions = Functions1],
             [CuOf(Table2) EXCEPT !.functions = Functions2]>>,
           [Conf EXCEPT !.tag_kfuncs = tk, !.attributes = at, !.skip_decl_tag = sd])
        EXCEPT !.btf_ids = l, !.elf_functions = {"f", "g", "d"}] :
        tk \in BOOLEAN, at \in BOOLEAN, sd \in BOOLEAN, l \in IdLists}

Sections == <<[name |-> "text", addr |-> 8, sz |-> 8, bits |-> TRUE, exec |-> TRUE, alloc |-> TRUE],
              [name |-> "percpu", addr |-> 0, sz |-> 8, bits |-> TRUE, exec |-> FALSE, alloc |-> TRUE],
              [name |-> "data", addr |-> 16, sz |-> 16, bits |-> TRUE, exec |-> FALSE, alloc |-> TRUE],
              [name |-> "note", addr |-> 0, sz |-> 40, bits |-> FALSE, exec |-> FALSE, alloc |-> FALSE]>>
Var(name, type, addr) ==
    [name |-> name, type |-> type, addr |-> addr, declaration |-> FALSE, spec |-> FALSE,
     top_level |-> TRUE, global |-> TRUE, external |-> TRUE, valid |-> TRUE, filtered |-> FALSE,
     annots |-> <<>>]
Odd(v) == {v, [v EXCEPT !.declaration = TRUE], [v EXCEPT !.declaration = TRUE, !.spec = TRUE],
           [v EXCEPT !.global = FALSE], [v EXCEPT !.valid = FALSE], [v EXCEPT !.filtered = TRUE],
           [v EXCEPT !.type = 0], [v EXCEPT !.type = 1], Annots(v, TypeAnnot)}

VarFiles ==
    {[File(<<[CuOf(Table1) EXCEPT !.variables = <<v, Var("v2", 3, 24)>>],
             [CuOf(Table2) EXCEPT !.variables = <<Var("v3", 2, 16), Var("v4", w, 4)>>]>>,
           [Conf EXCEPT !.vars = vs, !.force = force, !.raw = FALSE, !.distilled = force])
        EXCEPT !.sections = Sections, !.objects = o] :
        v \in UNION {Odd(Var("v1", 2, a)) : a \in {0, 28, 50}}, w \in {3, 4},
        vs \in {{"percpu"}, {"percpu", "global"}}, force \in BOOLEAN,
        o \in {{}, {[name |-> "v1", shndx |-> 2], [name |-> "v3", shndx |-> 3]}}}

At(kind, value, deref) ==
    [kind |-> kind, addr |-> FALSE, value |-> value, deref |-> deref, signed |-> FALSE, offset |-> 0, size |-> 8]
Const(value, size) == [At("const", value, FALSE) EXCEPT !.signed = value < 0, !.size = size]
Locs == {<<>>, <<At("reg", 5, FALSE)>>, <<At("none", 0, FALSE), At("regs", 2, FALSE)>>,
         <<[Const(20, 8) EXCEPT !.addr = TRUE], [At("stack", 0, TRUE) EXCEPT !.offset = -3]>>,
         <<[At("reg", 3, TRUE) EXCEPT !.offset = 2, !.size = 0], Const(-2, 4)>>,
         <<Const(-2, 8), Const(7, 16)>>, <<Const(MCU32 + 5, 8), [Const(2, 8) EXCEPT !.addr = TRUE]>>}
Inl(name, proto, section, offset, locs) ==
    [name |-> name, proto |-> proto, section |-> section, offset |-> offset, locs |-> locs]
InlineFiles ==
    {[File(<<[CuOf(Table1) EXCEPT !.inlines = <<Inl("i", Proto(2, <<2, 3>>, FALSE), s, 4, l)>>],
             [CuOf(Table2) EXCEPT !.functions = Functions2,
                !.inlines = <<Inl("i", Proto(4, <<3>>, TRUE), 1, o, l),
                              Inl("j", Proto(0, <<>>, FALSE), 1, 2, <<>>)>>]>>,
           [Conf EXCEPT !.inlines = inl])
        EXCEPT !.sections = [Sections EXCEPT ![2].addr = base], !.elf_functions = {"g"}] :
        l \in Locs, s \in {0, 1, 3}, o \in {1, 6}, inl \in BOOLEAN, base \in {0, 4}}

Small == {File(<<>>, Conf), File(<<CuOf(<<>>), CuOf(<<NewTag("unspec", "", 0)>>)>>, Conf)}
Annotated == {File(<<CuOf(<<Annots(Struct("struct", 2), TypeAnnot), Int32>>)>>, Conf)}

MCInputs == IF Scope = "annots" THEN Annotated
            ELSE TypeFiles \cup FunctionFiles \cup VarFiles \cup InlineFiles \cup Small
=============================================================================
