------------------------------- MODULE MCEmit -------------------------------
(* Files for pahole --compile: structs and unions, typedefs, an enumeration, an
   "atomic_" base type and a struct without a name that refer to each other in
   the ways that C allows, in one CU or in two that hold the types in opposite
   orders.                                                                   *)
EXTENDS Emit, TLC

CONSTANT Scope      \* which of "qualified", "kinds" and "embedded" are in, see below

Ways(n) == {Id(n), Ptr(Id(n)), Ptr(Func(<<Void, Ptr(Id(n))>>))}
\* What typedef__emit_definitions() looks through, and qualifiers, which it does not.
TypedefWays(n) ==
    {Id(n), Ptr(Id(n)), Array(Ptr(Id(n))), Ptr(Func(<<Id(n)>>)), Func(<<Void, Ptr(Id(n))>>)}
    \cup (IF "qualified" \in Scope THEN {Const(Id(n)), Ptr(Const(Id(n)))} ELSE {})

A == {Type("struct", "A", <<v, w>>) : v \in Ways(2) \cup {Id(4)},
                                      w \in {Id(3), Ptr(Func(<<Void, Ptr(Id(3))>>)), Id(5)}}
     \cup {Type("struct", "A", <<Ptr(Array(Ptr(Id(2)))), Ptr(Id(3))>>)}
B == {Type("struct", "B", <<w>>) : w \in Ways(1) \cup {Id(3), Ptr(Id(3))}}
     \cup {Type("struct", "B", <<>>), Type("union", "A", <<Ptr(Id(3)), Id(4)>>)}
T == {Type("typedef", "T", <<w>>) : w \in TypedefWays(1) \cup {Id(2), Ptr(Id(4)), Id(6)}}
U == {Type("enum", "E", <<Void>>)} \cup
     {Type("typedef", "U", <<w>>) : w \in {Id(1), Atomic(Id(3)), Ptr(Func(<<Void, Ptr(Id(2))>>))}}
Atomics == Type("base", "atomic_int", <<>>)
Nameless == {Type("struct", "", <<w>>) : w \in {Id(1), Ptr(Id(2))}}

-----------------------------------------------------------------------------
(* What C allows: no type contains itself, and no typedef is needed to say what
   it is.  A need is a type and whether its size is needed or its name.       *)

RECURSIVE Needs(_, _, _)
Needs(ts, ref, sized) ==
    LET t == TypeOf(ts, ref) IN
    CASE t.tag \in {"void", "base", "enum"} -> {}
      [] t.tag = "pointer" -> Needs(ts, t.type, FALSE)
      [] t.tag \in {"const", "atomic"} -> Needs(ts, t.type, sized)
      [] t.tag = "array" -> Needs(ts, t.type, TRUE)
      [] t.tag = "subroutine" -> UNION {Needs(ts, t.parms[p], FALSE) : p \in DOMAIN t.parms}
      [] OTHER -> {<<ref.id, sized>>}

NeededBy(ts, n, sized) ==
    LET t == ts[n]
        all(v) == UNION {Needs(ts, t.members[m], v) : m \in DOMAIN t.members}
    IN CASE t.tag = "typedef" -> all(sized)
         [] t.tag \in Aggregates -> IF sized \/ t.name = NoName THEN all(TRUE) ELSE {}
         [] OTHER -> {}

Legal(ts) ==
    LET further(S, n) == S \cup UNION {NeededBy(ts, x[1], x[2]) : x \in S}
        needed(n, sized) == FoldLeft(further, NeededBy(ts, n, sized), <<1, 2, 3, 4>>)
        declared == {n \in DOMAIN ts : ts[n].tag = "struct" /\ IsDeclaration(ts[n])}
    IN \A n \in DOMAIN ts, sized \in BOOLEAN :
          <<n, sized>> \notin needed(n, sized) /\ needed(n, sized) \cap (declared \X {TRUE}) = {}

-----------------------------------------------------------------------------

(* What the emitter gets wrong.  A struct or union that shares its name with
   one of another kind must not be pointed to: it would be declared under the
   name it has until its definition is printed.                              *)
RECURSIVE PointedTo(_, _)
PointedTo(ref, pointer) ==
    LET f == Follow(ref, pointer) IN
    IF f.end.tag = "subroutine"
    THEN UNION {PointedTo(f.end.parms[p], FALSE) : p \in DOMAIN f.end.parms}
    ELSE IF f.end.tag = "id" /\ f.pointer THEN {f.end.id} ELSE {}

AllMembers(ts, n) == ToSet(ts[n].members)
KindsApart(ts) ==
    ts[1].name = ts[2].name => \A n \in DOMAIN ts : \A ref \in AllMembers(ts, n) :
        PointedTo(ref, FALSE) \cap {1, 2} = {}

\* The types whose definitions are emitted with that of a member.
RECURSIVE EmittedWith(_, _)
EmittedWith(ts, ref) ==
    LET f == Follow(ref, FALSE) IN
    CASE f.end.tag = "void" -> {}
      [] f.end.tag = "subroutine" -> UNION {EmittedWith(ts, f.end.parms[p]) : p \in DOMAIN f.end.parms}
      [] OTHER -> IF f.pointer /\ ts[f.end.id].tag \in Aggregates THEN {} ELSE {f.end.id}

(* A struct must not be emitted for the sake of a typedef while one is that it
   embeds.                                                                   *)
NoEmbedding(ts) ==
    LET further(S, n) == S \cup UNION {UNION {EmittedWith(ts, ref) : ref \in AllMembers(ts, m)} : m \in S}
        embeds(S, n) == S \cup UNION {{y[1] : y \in NeededBy(ts, x, TRUE)} : x \in S}
        rounds == <<1, 2, 3, 4>>
    IN \A n \in {n \in 1 .. 2 : ts[n].tag \in Aggregates} :
          \A m \in FoldLeft(further, {n}, rounds) \ {n} :
             ts[m].tag \in Aggregates => n \notin FoldLeft(embeds, {m}, rounds)

Units == {ts \in {<<a, b, t, u, Atomics, s>> : a \in A, b \in B, t \in T, u \in U, s \in Nameless} :
            /\ ts[3].members # <<Id(6)>> => ts[6].members = <<Ptr(Id(2))>>
            /\ Legal(ts)
            /\ "kinds" \in Scope \/ KindsApart(ts)
            /\ "embedded" \in Scope \/ NoEmbedding(ts)}

\* The types of a CU in the opposite order.
RECURSIVE Renumbered(_, _)
Renumbered(ref, last) ==
    CASE ref.tag = "id" -> Id(last - ref.id)
      [] ref.tag \in {"pointer", "array", "const", "atomic"} ->
            [ref EXCEPT !.type = Renumbered(@, last)]
      [] ref.tag = "subroutine" ->
            [ref EXCEPT !.parms = [p \in DOMAIN @ |-> Renumbered(@[p], last)]]
      [] OTHER -> ref
Backwards(ts) ==
    LET last == Len(ts) + 1
    IN [n \in DOMAIN ts |-> [ts[last - n] EXCEPT !.members =
            [m \in DOMAIN @ |-> Renumbered(@[m], last)]]]

MCPrograms == {<<ts, Backwards(ts)>> : ts \in Units} \cup {<<Backwards(ts), ts>> : ts \in Units}
=============================================================================
