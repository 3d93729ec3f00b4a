-------------------------------- MODULE Emit --------------------------------
(***************************************************************************)
(* pahole --compile: the structs and unions of the CUs are printed one     *)
(* after the other, each after the definitions and forward declarations    *)
(* that a compiler has to see before it.  Which ones were printed is kept  *)
(* in flags of the types of a CU and, for the types of earlier CUs, in     *)
(* lists that are searched by name (struct type_emissions).                *)
(*                                                                         *)
(* A type of a CU is a record; what refers to a type is the id of one with *)
(* a definition of its own, or a chain of pointers, arrays, qualifiers and *)
(* functions that ends in ids.  A name is a word and the number of the     *)
(* suffix that tells it from other types of that name; NoName is NULL.     *)
(* Text is what it uses of other definitions.                              *)
(***************************************************************************)
EXTENDS Integers, Sequences, SequencesExt, FiniteSets

CONSTANT Programs       \* files: sequences of CUs, which are sequences of types

VARIABLES
    file,       \* the CUs
    k, id,      \* the CU and the struct or union of it that is next
    types,      \* types of the CU, with definition_emitted and fwd_decl_emitted
    emissions,  \* struct type_emissions: definitions, fwd_decls, base types
    structures, \* structures__tree
    out         \* what was printed

vars == <<file, k, id, types, emissions, structures, out>>

NoName == <<"", 0>>
Void == [tag |-> "void", name |-> NoName]
Id(n) == [tag |-> "id", id |-> n]
Ptr(ref) == [tag |-> "pointer", type |-> ref]
Array(ref) == [tag |-> "array", type |-> ref]
Const(ref) == [tag |-> "const", type |-> ref]
Atomic(ref) == [tag |-> "atomic", type |-> ref]
Func(parms) == [tag |-> "subroutine", parms |-> parms]     \* parms[1] is what it returns

\* A type as the loaders create it; the members of a typedef are what it stands for.
Type(tag, name, members) ==
    [tag |-> tag, name |-> <<name, 0>>, members |-> members,
     definition_emitted |-> FALSE, fwd_decl_emitted |-> FALSE]

Aggregates == {"struct", "union"}
IsDeclaration(t) == t.members = <<>>

\* Base types as older compilers write them for _Atomic ones.
atomic_names == {<<"atomic_int", 0>>}

-----------------------------------------------------------------------------
(* What a definition looks like                                            *)

\* cu__type()
TypeOf(ts, ref) == IF ref.tag = "id" THEN ts[ref.id] ELSE ref

\* The definitions a type refers to when it is printed as a member, a parameter or
\* a typedef: by value, through a pointer, or as a parameter of a function.
RECURSIVE Uses(_, _, _)
Uses(ts, ref, how) ==
    LET t == TypeOf(ts, ref)
        members == UNION {Uses(ts, t.members[n], "value") : n \in DOMAIN t.members}
    IN CASE t.tag = "void" -> {}
         [] t.tag = "pointer" -> Uses(ts, t.type, IF how = "parameter" THEN how ELSE "pointer")
         [] t.tag = "array" -> Uses(ts, t.type, "value")
         [] t.tag \in {"const", "atomic"} -> Uses(ts, t.type, how)
         [] t.tag = "subroutine" ->
                UNION {Uses(ts, t.parms[p], IF p = 1 THEN "pointer" ELSE "parameter")
                       : p \in DOMAIN t.parms}
         [] t.tag \in {"struct", "union", "enum"} /\ t.name = NoName -> members
         [] t.tag = "base" -> IF t.name \in atomic_names
                              THEN {[tag |-> "typedef", name |-> t.name, how |-> how]} ELSE {}
         [] t.tag = "typedef" ->
                {[tag |-> "typedef", name |-> t.name, how |-> how]}
                \cup (IF how = "value" THEN {u \in members : u.tag # "typedef"} ELSE {})
         [] OTHER -> {[tag |-> t.tag, name |-> t.name, how |-> how]}

\* A typedef may name a struct that is defined later; a member may not be one.
UsesOf(ts, n) ==
    LET t == ts[n]
        named == t.tag = "typedef" /\ ~(t.members[1].tag = "id" /\ ts[t.members[1].id].name = NoName)
    IN UNION {Uses(ts, t.members[m], IF named THEN "pointer" ELSE "value") : m \in DOMAIN t.members}

Forward(tag, name) == [what |-> "forward", tag |-> tag, name |-> name, uses |-> {}]
Definition(ts, n) ==
    [what |-> "definition", tag |-> ts[n].tag, name |-> ts[n].name, uses |-> UsesOf(ts, n)]
TypedefOf(ts, n, name) ==
    [what |-> "definition", tag |-> "typedef", name |-> name, uses |-> UsesOf(ts, n)]
Unfinished == [what |-> "unfinished", tag |-> "typedef", name |-> NoName, uses |-> {}]

-----------------------------------------------------------------------------
(* struct type_emissions                                                   *)

(* The state of an emission: the types of the CU, the lists, what was printed,
   and whether the type was found to be printed by the caller.               *)
Emission == [types |-> types, em |-> emissions, out |-> out, ret |-> FALSE]

Say(S, text) == [S EXCEPT !.out = Append(@, text), !.ret = FALSE]
Done(S, n) == [S EXCEPT !.types[n].definition_emitted = TRUE, !.ret = FALSE]

\* An entry of a list is the node of a type, under the name the type has now.
Node(S, n) == [cu |-> k, id |-> n, tag |-> S.types[n].tag, name |-> S.types[n].name]
Others(n, list) == {d \in list : d.cu # k \/ d.id # n}

type_emissions__add_definition(S, n) ==
    [S EXCEPT !.types[n].definition_emitted = TRUE,
              !.em.fwd_decls = Others(n, @),
              !.em.definitions = @ \cup {Node(S, n)},
              !.ret = TRUE]

type_emissions__add_fwd_decl(S, n) ==
    [S EXCEPT !.types[n].fwd_decl_emitted = TRUE,
              !.em.fwd_decls = IF Node(S, n) \in S.em.definitions THEN @ ELSE @ \cup {Node(S, n)}]

\* Mutant: a struct is taken for a union of the same name.
type_emissions__find_definition_any_tag(S, tag, name) ==
    name # NoName /\ \E d \in S.em.definitions : d.name = name

type_emissions__find_definition(S, tag, name) ==
    name # NoName /\ \E d \in S.em.definitions : d.tag = tag /\ d.name = name

type_emissions__find_shadow_definition(S, tag, name) ==
    name # NoName /\ \E d \in S.em.definitions :
        d.tag # tag /\ d.tag \in Aggregates \cup {"enum"} /\ d.name = name

type_emissions__find_fwd_decl(S, name) ==
    name # NoName /\ \E d \in S.em.fwd_decls : d.name = name

-----------------------------------------------------------------------------
(* Emission of what a type needs, and of the type                          *)

RECURSIVE tag__emit_definitions(_, _), type__emit_definitions(_, _),
          typedef__emit_definitions(_, _)

ftype__emit_definitions(S, ref) == FoldLeft(tag__emit_definitions, S, ref.parms)

\* An enumeration without enumerators is a forward declaration, not a definition.
enumeration__emit_definitions(S, n) ==
    LET t == S.types[n] IN
    IF t.definition_emitted THEN S
    ELSE IF type_emissions__find_definition(S, "enum", t.name) THEN Done(S, n)
    ELSE IF t.members = <<>> THEN Say(S, Forward("enum", t.name))
    ELSE type_emissions__add_definition(Say(S, Definition(S.types, n)), n)

\* A typedef of an enumeration without a name: the word comes before the check.
typedef_of_enumeration(S, n, name) ==
    LET text == IF S.types[n].definition_emitted THEN Unfinished ELSE TypedefOf(S.types, n, name)
    IN type_emissions__add_definition(Say(S, text), n)

type__emit_fwd_decl(S, n) ==
    LET t == S.types[n] IN
    IF t.fwd_decl_emitted \/ t.name = NoName THEN S
    ELSE IF type_emissions__find_fwd_decl(S, t.name)
    THEN [S EXCEPT !.types[n].fwd_decl_emitted = TRUE]
    ELSE type_emissions__add_fwd_decl(Say(S, Forward(t.tag, t.name)), n)

base_type__emit_definitions(S, n) ==
    LET t == S.types[n] IN
    IF t.definition_emitted \/ t.name \notin atomic_names THEN S
    ELSE IF t.name \in S.em.base_types THEN Done(S, n)
    ELSE [Done(Say(S, TypedefOf(S.types, n, t.name)), n) EXCEPT !.em.base_types = @ \cup {t.name}]

\* type__emit_definitions() and then type__emit(), which prints no type without a name.
definitions_and_type(S, n) ==
    LET T == type__emit_definitions(S, n) IN
    IF T.ret /\ T.types[n].name # NoName THEN Say(T, Definition(T.types, n)) ELSE T

\* What a typedef needs; it looks through less than tag__emit_definitions() does.
typedef_needs(S, n) ==
    LET ref == S.types[n].members[1]
        t == TypeOf(S.types, ref)
        u == TypeOf(S.types, t.type)
    IN CASE t.tag \in {"atomic", "array"} -> tag__emit_definitions(S, t.type)
         [] t.tag = "typedef" -> typedef__emit_definitions(S, ref.id)
         [] t.tag = "pointer" ->
                CASE u.tag = "typedef" -> typedef__emit_definitions(S, t.type.id)
                  [] u.tag = "subroutine" -> ftype__emit_definitions(S, u)
                  [] OTHER -> S
         [] t.tag = "subroutine" -> ftype__emit_definitions(S, t)
         [] t.tag = "enum" -> enumeration__emit_definitions(S, ref.id)
         [] t.tag \in Aggregates -> definitions_and_type(S, ref.id)
         [] OTHER -> S

\* Mutant: the typedef is printed whatever its type needed.
typedef_not_rechecked(S, n) == Say(S, Definition(S.types, n))

(* "Recheck if the typedef was emitted": what it needs may have needed it.   *)
typedef_rechecked(S, n) ==
    IF S.types[n].definition_emitted THEN S ELSE Say(S, Definition(S.types, n))

typedef__emit_definitions(S, n) ==
    LET def == S.types[n]
        t == TypeOf(S.types, def.members[1])
        T == typedef_needs(S, n)
        whole == CASE t.tag = "enum" /\ t.name = NoName ->
                        typedef_of_enumeration(S, def.members[1].id, def.name)
                   [] t.tag \in Aggregates /\ t.name = NoName -> Say(T, TypedefOf(T.types, n, def.name))
                   [] OTHER -> typedef_rechecked(T, n)
    IN CASE def.definition_emitted -> S
         [] type_emissions__find_definition(S, "typedef", def.name) -> Done(S, n)
         [] OTHER -> type_emissions__add_definition(whole, n)

\* next_indirection: where a chain ends, and whether a pointer is on the way.
RECURSIVE Follow(_, _)
Follow(ref, pointer) ==
    CASE ref.tag = "pointer" -> Follow(ref.type, TRUE)
      [] ref.tag \in {"array", "const", "atomic"} -> Follow(ref.type, pointer)
      [] OTHER -> [end |-> ref, pointer |-> pointer]

tag__emit_definitions(S, ref) ==
    LET f == Follow(ref, FALSE)
        t == TypeOf(S.types, f.end)
        n == f.end.id
        inner == IF t.name = NoName THEN type__emit_definitions(S, n) ELSE S
    IN CASE t.tag = "void" -> S
         [] t.tag = "base" -> base_type__emit_definitions(S, n)
         [] t.tag = "typedef" -> typedef__emit_definitions(S, n)
         [] t.tag = "enum" -> IF t.name = NoName THEN S ELSE enumeration__emit_definitions(S, n)
         [] t.tag \in Aggregates /\ f.pointer -> type__emit_fwd_decl(inner, n)
         [] t.tag \in Aggregates /\ ~f.pointer -> definitions_and_type(S, n)
         [] t.tag = "subroutine" -> ftype__emit_definitions(S, t)

(* "If we have a 'struct foo' and we then find a 'union foo' ... we need to
   disambiguate by adding a suffix": the type has the new name from now on, in
   the lists too.                                                            *)
Disambiguated(S, n) ==
    IF type_emissions__find_shadow_definition(S, S.types[n].tag, S.types[n].name)
    THEN LET name == [S.types[n].name EXCEPT ![2] = 1]
         IN [S EXCEPT !.types[n].name = name,
                      !.em.fwd_decls = {IF d \in Others(n, @) THEN d ELSE [d EXCEPT !.name = name] : d \in @}]
    ELSE S

type__emit_definitions(S, n) ==
    LET t == S.types[n]
        D == Disambiguated(S, n)
        found(T) == type_emissions__find_definition(T, t.tag, T.types[n].name)
        T == FoldLeft(tag__emit_definitions, type_emissions__add_definition(D, n), t.members)
    IN CASE t.definition_emitted -> [S EXCEPT !.ret = FALSE]
         [] ~t.definition_emitted /\ (found(S) \/ found(D)) -> Done(IF found(S) THEN S ELSE D, n)
         [] OTHER -> [T EXCEPT !.ret = TRUE]

-----------------------------------------------------------------------------
(* The stealer                                                             *)

Init ==
    /\ file \in Programs
    /\ k = 1 /\ id = 1
    /\ types = file[1]
    /\ emissions = [definitions |-> {}, fwd_decls |-> {}, base_types |-> {}]
    /\ structures = {}
    /\ out = <<>>

\* type__compare() looks at names, sizes and offsets, not at types: members are of
\* one size here and are named by their place.
Structure(t) == <<t.name, [m \in DOMAIN t.members |-> IF t.tag = "union" THEN 0 ELSE m]>>

\* print_classes(), class_formatter(): what the class needs and then the class, unless
\* a structure like it was seen in another CU or it is out already.
print_class ==
    /\ k <= Len(file) /\ id <= Len(types)
    /\ LET t == types[id]
           T == definitions_and_type(Emission, id)
           shown == t.tag \in Aggregates /\ t.name # NoName /\ ~IsDeclaration(t)
                    /\ Structure(t) \notin structures
       IN IF shown
          THEN /\ types' = T.types /\ emissions' = T.em /\ out' = T.out
               /\ structures' = structures \cup {Structure(T.types[id])}
          ELSE UNCHANGED <<types, emissions, structures, out>>
    /\ id' = id + 1
    /\ UNCHANGED <<file, k>>

next_cu ==
    /\ k <= Len(file) /\ id > Len(types)
    /\ k' = k + 1
    /\ id' = 1
    /\ types' = IF k < Len(file) THEN file[k + 1] ELSE <<>>
    /\ UNCHANGED <<file, emissions, structures, out>>

Next == print_class \/ next_cu

Spec == Init /\ [][Next]_vars

-----------------------------------------------------------------------------
(* Properties                                                              *)

Defines(d, tag, name) == d.what = "definition" /\ d.tag = tag /\ d.name = name

\* A compiler has seen this struct or union before statement n, or in its name.
Known(n, u) ==
    \/ out[n].tag = u.tag /\ out[n].name = u.name
    \/ \E m \in 1 .. n - 1 :
          \/ out[m].tag = u.tag /\ out[m].name = u.name
          \/ \E w \in out[m].uses : w.tag = u.tag /\ w.name = u.name

(* What a statement uses was said before: typedefs, and structs, unions and
   enumerations of which there is a value; what a parameter points to at least
   by name, or it would be another type that ends with the parameter list.    *)
UsesSaid ==
    \A n \in DOMAIN out : \A u \in out[n].uses :
        CASE u.how = "value" \/ u.tag = "typedef" ->
                \E m \in 1 .. n - 1 : Defines(out[m], u.tag, u.name)
          [] u.how = "parameter" -> Known(n, u)
          [] OTHER -> TRUE

DefinedOnce ==
    \A m, n \in DOMAIN out :
        m < n /\ out[m].what = "definition" => ~Defines(out[n], out[m].tag, out[m].name)

\* The kinds of struct, union or enumeration there are of a name.
OneKind ==
    LET tags == UNION {{<<out[n].name, out[n].tag>>} \cup {<<u.name, u.tag>> : u \in out[n].uses}
                       : n \in DOMAIN out}
    IN \A s, t \in tags : s[1] = t[1] /\ "typedef" \notin {s[2], t[2]} => s = t

(* "Produces a header that can be included in a C source file and built": each
   statement is legal after those before it, in whatever order the types are
   in the CUs and however they refer to each other.                          *)
Compilable == Unfinished \notin ToSet(out) /\ UsesSaid /\ DefinedOnce /\ OneKind

(* "with all definitions for all types": at the end of a CU each of its structs
   and unions has been defined, with what the CU says is in it.              *)
AllDefined ==
    k <= Len(file) /\ id > Len(types) =>
        \A n \in DOMAIN types :
            types[n].tag \in Aggregates /\ types[n].name # NoName /\ ~IsDeclaration(types[n]) =>
                \E d \in ToSet(out) :
                    /\ Defines(d, types[n].tag, types[n].name)
                    /\ d.uses = UsesOf(types, n)
=============================================================================
