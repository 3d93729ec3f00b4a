---------------------------- MODULE DwarfCuProofs ----------------------------
(***************************************************************************)
(* The decoding of DIEs, for any module: any number of units, in the main  *)
(* file or a dwz alternate file, that import each other in any way.  A DIE *)
(* becomes a tag at most twice.                                            *)
(***************************************************************************)
EXTENDS DwarfCu, FiniteSetTheorems, TLAPS

\* What identifies a tag.
Marks == {"die", "tag", "walk", "space"}

\* Tags as the recoding takes and gives them: a sequence of records.
Shaped(T) ==
    /\ T = [h \in DOMAIN T |-> T[h]]
    /\ \E n \in Nat : DOMAIN T = 1 .. n
    /\ \A h \in DOMAIN T : T[h] = [x \in DOMAIN T[h] |-> T[h][x]] /\ Marks \subseteq DOMAIN T[h]

(* The tags U are the tags T, recoded: each stays the tag of its DIE, of the walk
   that made it and of its space. *)
Keeps(T, U) ==
    /\ Shaped(U)
    /\ DOMAIN U = DOMAIN T
    /\ \A h \in DOMAIN T : /\ U[h].die = T[h].die /\ U[h].tag = T[h].tag
                           /\ U[h].walk = T[h].walk /\ U[h].space = T[h].space

\* Tags that nothing was done to are kept.
LEMMA KeepsItself == ASSUME NEW T, Shaped(T) PROVE Keeps(T, T)
BY DEF Keeps

\* What two steps of recoding keep, both together keep.
LEMMA KeepsTrans ==
  ASSUME NEW T, NEW U, NEW V, Keeps(T, U), Keeps(U, V) PROVE Keeps(T, V)
BY DEF Keeps

\* Setting the type of a tag keeps all tags.
LEMMA TypeSetKeeps ==
  ASSUME NEW T, Shaped(T), NEW h, NEW v
  PROVE  Keeps(T, [T EXCEPT ![h].type = v])
BY DEF Keeps, Shaped, Marks

\* Setting the name of a tag keeps all tags.
LEMMA NameSetKeeps ==
  ASSUME NEW T, Shaped(T), NEW h, NEW v
  PROVE  Keeps(T, [T EXCEPT ![h].name = v])
BY DEF Keeps, Shaped, Marks

\* Setting the type and the name of a tag keeps all tags.
LEMMA BothSetKeeps ==
  ASSUME NEW T, Shaped(T), NEW h, NEW v, NEW w
  PROVE  Keeps(T, [T EXCEPT ![h].type = v, ![h].name = w])
<1> DEFINE U == [T EXCEPT ![h].type = v]
<1>1. Keeps(T, U)
  BY TypeSetKeeps
<1>2. Shaped(U)
  BY <1>1 DEF Keeps
<1>3. Keeps(U, [U EXCEPT ![h].name = w])
  <2> HIDE DEF U
  <2> QED BY <1>2, NameSetKeeps
<1> QED
  BY <1>1, <1>3, KeepsTrans

\* The tags on the list of a tag are a sequence.
LEMMA ChildrenAreListed ==
  ASSUME NEW T, Shaped(T), NEW h, NEW kinds
  PROVE  \E S : ChildrenOf(T, h, kinds) \in Seq(S)
<1> DEFINE C == {c \in DOMAIN T : T[c].list = T[h].die /\ T[c].walk = T[h].walk
                        /\ T[c].space = T[h].space /\ T[c].tag \in kinds /\ T[c].live}
           child(n) == CHOOSE c \in C : Cardinality({b \in C : b < c}) = n - 1
<1>1. IsFiniteSet(DOMAIN T)
  <2>1. PICK n \in Nat : DOMAIN T = 1 .. n
    BY DEF Shaped
  <2>2. IsFiniteSet(1 .. n)
    BY FS_Interval
  <2> QED
    BY <2>1, <2>2
<1>2. IsFiniteSet(C) /\ C \subseteq DOMAIN T
  BY <1>1, FS_Subset
<1>3. Cardinality(C) \in Nat
  BY <1>2, FS_CardinalityType
<1>4. ChildrenOf(T, h, kinds) = [n \in 1 .. Cardinality(C) |-> child(n)]
  BY DEF ChildrenOf
<1> HIDE DEF C, child
<1>5. [n \in 1 .. Cardinality(C) |-> child(n)] \in Seq({child(n) : n \in 1 .. Cardinality(C)})
  BY <1>3
<1> QED
  BY <1>4, <1>5

\* The loops of the recoding, unfolded by FoldLemmas.
Parameters == INSTANCE FoldLemmas WITH op <- parameter__recode_dwarf_type
Lexblock == INSTANCE FoldLemmas WITH op <- lexblock__recode_tag
Namespace == INSTANCE FoldLemmas WITH op <- namespace__recode_tag

\* parameter__recode_dwarf_type() keeps the tags,
LEMMA ParameterKeeps ==
  ASSUME NEW T, Shaped(T), NEW c
  PROVE  Keeps(T, parameter__recode_dwarf_type(T, c))
BY KeepsItself, TypeSetKeeps, BothSetKeeps, Zenon DEF parameter__recode_dwarf_type, SetType

\* over any list of parameters,
LEMMA ParametersKeep ==
  ASSUME NEW T, Shaped(T), NEW S, NEW s \in Seq(S)
  PROVE  Keeps(T, FoldLeft(parameter__recode_dwarf_type, T, s))
<1>1. PICK U : Parameters!Universe(U, T, s)
  BY Parameters!FoldLeftKeeps
<1> DEFINE P == {V \in U : Keeps(T, V)}
<1>2. T \in P
  BY <1>1, KeepsItself DEF Parameters!Universe
<1>3. ASSUME NEW k \in 1 .. Len(s), NEW V \in P, parameter__recode_dwarf_type(V, s[k]) \in U
      PROVE  parameter__recode_dwarf_type(V, s[k]) \in P
  <2>1. Keeps(T, V) /\ Shaped(V)
    BY <1>3 DEF Keeps
  <2> QED
    BY <1>3, <2>1, ParameterKeeps, KeepsTrans
<1>4. Parameters!Fold(T, s) \in P
  <2> HIDE DEF P
  <2>1. P \in SUBSET U
    BY DEF P
  <2> QED
    BY <1>1, <1>2, <1>3, <2>1 DEF Parameters!Universe
<1>5. Parameters!Fold(T, s) = FoldLeft(parameter__recode_dwarf_type, T, s)
  BY DEF Parameters!Fold, FoldLeft, MapThenFoldSet, Max, Parameters!FoldLeft, Parameters!MapThenFoldSet, Parameters!Max
<1> QED
  BY <1>4, <1>5

\* and so does ftype__recode_dwarf_types().
LEMMA FtypeKeeps ==
  ASSUME NEW T, Shaped(T), NEW h
  PROVE  Keeps(T, ftype__recode_dwarf_types(T, h))
BY ChildrenAreListed, ParametersKeep, Zenon DEF ftype__recode_dwarf_types

\* function__recode_dwarf_name() keeps the tags.
LEMMA NameKeeps ==
  ASSUME NEW T, Shaped(T), NEW h
  PROVE  Keeps(T, function__recode_dwarf_name(T, h))
BY KeepsItself, NameSetKeeps, Zenon DEF function__recode_dwarf_name

\* inline_expansion__recode_dwarf_types() keeps the tags.
LEMMA InlineKeeps ==
  ASSUME NEW T, Shaped(T), NEW h
  PROVE  Keeps(T, inline_expansion__recode_dwarf_types(T, h))
<1> DEFINE o == dwarf_cu__find_tag_by_ref(T, T[h].ref.type)
           T1 == function__recode_dwarf_name(T, o)
           F == ftype__recode_dwarf_types(T1, o)
           T2 == FoldLeft(parameter__recode_dwarf_type, F, ChildrenOf(T, h, {"param"}))
<1>1. Keeps(T, T1)
  BY NameKeeps
<1>2. Keeps(T1, F)
  BY <1>1, FtypeKeeps DEF Keeps
<1>3. Keeps(F, T2)
  <2>1. Shaped(F)
    BY <1>2 DEF Keeps
  <2>2. PICK S : ChildrenOf(T, h, {"param"}) \in Seq(S)
    BY ChildrenAreListed
  <2> HIDE DEF F
  <2> QED
    BY <2>1, <2>2, ParametersKeep
<1>4. Keeps(T, T2)
  BY <1>1, <1>2, <1>3, KeepsTrans
<1>5. CASE o = 0
  BY <1>5, NameSetKeeps DEF inline_expansion__recode_dwarf_types
<1>6. CASE o # 0
  <2> HIDE DEF o, T2
  <2>1. \A v, w : Keeps(T2, [T2 EXCEPT ![h].type = v, ![h].name = w])
    BY <1>4, BothSetKeeps DEF Keeps
  <2>2. inline_expansion__recode_dwarf_types(T, h)
          = [T2 EXCEPT ![h].type = T[o].id, ![h].name = T2[o].name]
    BY <1>6 DEF inline_expansion__recode_dwarf_types, o, T2
  <2> QED
    BY <1>4, <2>1, <2>2, KeepsTrans
<1> QED
  BY <1>5, <1>6

\* The body of the loop of lexblock__recode_dwarf_types() keeps the tags,
LEMMA LexblockTagKeeps ==
  ASSUME NEW T, Shaped(T), NEW c
  PROVE  Keeps(T, lexblock__recode_tag(T, c))
BY InlineKeeps, ParameterKeeps, Zenon DEF lexblock__recode_tag

\* over any list,
LEMMA LexblockFoldKeeps ==
  ASSUME NEW T, Shaped(T), NEW S, NEW s \in Seq(S)
  PROVE  Keeps(T, FoldLeft(lexblock__recode_tag, T, s))
<1>1. PICK U : Lexblock!Universe(U, T, s)
  BY Lexblock!FoldLeftKeeps
<1> DEFINE P == {V \in U : Keeps(T, V)}
<1>2. T \in P
  BY <1>1, KeepsItself DEF Lexblock!Universe
<1>3. ASSUME NEW k \in 1 .. Len(s), NEW V \in P, lexblock__recode_tag(V, s[k]) \in U
      PROVE  lexblock__recode_tag(V, s[k]) \in P
  <2>1. Keeps(T, V) /\ Shaped(V)
    BY <1>3 DEF Keeps
  <2> QED
    BY <1>3, <2>1, LexblockTagKeeps, KeepsTrans
<1>4. Lexblock!Fold(T, s) \in P
  <2> HIDE DEF P
  <2>1. P \in SUBSET U
    BY DEF P
  <2> QED
    BY <1>1, <1>2, <1>3, <2>1 DEF Lexblock!Universe
<1>5. Lexblock!Fold(T, s) = FoldLeft(lexblock__recode_tag, T, s)
  BY DEF Lexblock!Fold, FoldLeft, MapThenFoldSet, Max, Lexblock!FoldLeft, Lexblock!MapThenFoldSet, Lexblock!Max
<1> QED
  BY <1>4, <1>5

\* and so does the function.
LEMMA LexblockKeeps ==
  ASSUME NEW T, Shaped(T), NEW h
  PROVE  Keeps(T, lexblock__recode_dwarf_types(T, h))
BY ChildrenAreListed, LexblockFoldKeeps, Zenon DEF lexblock__recode_dwarf_types

\* The body of the loop of namespace__recode_dwarf_types() keeps the tags,
LEMMA NamespaceTagKeeps ==
  ASSUME NEW T, Shaped(T), NEW c
  PROVE  Keeps(T, namespace__recode_tag(T, c))
<1> DEFINE T1 == IF T[c].tag \in {"func", "subroutine"} THEN ftype__recode_dwarf_types(T, c) ELSE T
<1>1. Keeps(T, T1)
  BY KeepsItself, FtypeKeeps, Zenon
<1>2. Shaped(T1)
  BY <1>1 DEF Keeps
<1> HIDE DEF T1
<1>3. \A v : Keeps(T1, SetType(T1, c, v))
  BY <1>2, KeepsItself, TypeSetKeeps, Zenon DEF SetType
<1>4. namespace__recode_tag(T, c) =
        IF T1[c].ref.type.off = 0 THEN T1
        ELSE SetType(T1, c, dwarf_cu__find_type_by_ref(T1, T1[c].ref.type))
  BY DEF namespace__recode_tag, T1
<1> QED
  BY <1>1, <1>3, <1>4, KeepsTrans, Zenon

\* over any list,
LEMMA NamespaceFoldKeeps ==
  ASSUME NEW T, Shaped(T), NEW S, NEW s \in Seq(S)
  PROVE  Keeps(T, FoldLeft(namespace__recode_tag, T, s))
<1>1. PICK U : Namespace!Universe(U, T, s)
  BY Namespace!FoldLeftKeeps
<1> DEFINE P == {V \in U : Keeps(T, V)}
<1>2. T \in P
  BY <1>1, KeepsItself DEF Namespace!Universe
<1>3. ASSUME NEW k \in 1 .. Len(s), NEW V \in P, namespace__recode_tag(V, s[k]) \in U
      PROVE  namespace__recode_tag(V, s[k]) \in P
  <2>1. Keeps(T, V) /\ Shaped(V)
    BY <1>3 DEF Keeps
  <2> QED
    BY <1>3, <2>1, NamespaceTagKeeps, KeepsTrans
<1>4. Namespace!Fold(T, s) \in P
  <2> HIDE DEF P
  <2>1. P \in SUBSET U
    BY DEF P
  <2> QED
    BY <1>1, <1>2, <1>3, <2>1 DEF Namespace!Universe
<1>5. Namespace!Fold(T, s) = FoldLeft(namespace__recode_tag, T, s)
  BY DEF Namespace!Fold, FoldLeft, MapThenFoldSet, Max, Namespace!FoldLeft, Namespace!MapThenFoldSet, Namespace!Max
<1> QED
  BY <1>4, <1>5

\* and so does the function.
LEMMA NamespaceKeeps ==
  ASSUME NEW T, Shaped(T), NEW h
  PROVE  Keeps(T, namespace__recode_dwarf_types(T, h))
BY ChildrenAreListed, NamespaceFoldKeeps, Zenon DEF namespace__recode_dwarf_types

\* dwarf_cu__recode_btf_type_tag_ptr() keeps the tags.
LEMMA PointerKeeps ==
  ASSUME NEW T, Shaped(T), NEW h, NEW pointee
  PROVE  Keeps(T, dwarf_cu__recode_btf_type_tag_ptr(T, h, pointee))
<1> DEFINE chain == <<h>> \o T[h].annots
           place(g) == CHOOSE k \in DOMAIN chain : chain[k] = g
           link(g) == IF place(g) = Len(chain) THEN pointee ELSE T[chain[place(g) + 1]].id
           R == Range(chain)
<1>1. dwarf_cu__recode_btf_type_tag_ptr(T, h, pointee) =
        [g \in DOMAIN T |-> IF g \in R THEN [T[g] EXCEPT !.type = link(g)] ELSE T[g]]
  BY DEF dwarf_cu__recode_btf_type_tag_ptr
<1> HIDE DEF R, link, chain
<1> QED
  BY <1>1 DEF Keeps, Shaped, Marks

\* The end of tag__recode_dwarf_type() keeps the tags.
LEMMA OwnTypeKeeps ==
  ASSUME NEW T, Shaped(T), NEW h
  PROVE  Keeps(T, RecodeOwnType(T, h))
BY KeepsItself, TypeSetKeeps, PointerKeeps, Zenon DEF RecodeOwnType, SetType

\* tag__recode_dwarf_type() keeps the tags, whatever tag it recodes.
LEMMA RecodeKeeps ==
  ASSUME NEW T, Shaped(T), NEW h
  PROVE  Keeps(T, tag__recode_dwarf_type(T, h))
<1> DEFINE F1 == function__recode_dwarf_name(T, h)
           F2 == lexblock__recode_dwarf_types(F1, h)
           F3 == ftype__recode_dwarf_types(F2, h)
           S1 == ftype__recode_dwarf_types(T, h)
<1>1. Keeps(T, RecodeOwnType(F3, h))
  <2>1. Keeps(T, F1) /\ Shaped(F1)
    BY NameKeeps DEF Keeps
  <2>2. Keeps(F1, F2) /\ Shaped(F2)
    BY <2>1, LexblockKeeps DEF Keeps
  <2>3. Keeps(F2, F3) /\ Shaped(F3)
    BY <2>2, FtypeKeeps DEF Keeps
  <2>4. Keeps(F3, RecodeOwnType(F3, h))
    BY <2>3, OwnTypeKeeps
  <2> QED
    BY <2>1, <2>2, <2>3, <2>4, KeepsTrans
<1>2. Keeps(T, RecodeOwnType(S1, h))
  <2>1. Keeps(T, S1) /\ Shaped(S1)
    BY FtypeKeeps DEF Keeps
  <2>2. Keeps(S1, RecodeOwnType(S1, h))
    BY <2>1, OwnTypeKeeps
  <2> QED
    BY <2>1, <2>2, KeepsTrans
<1>3. CASE T[h].tag \in {"struct", "union", "enum", "namespace"}
  BY <1>3, NamespaceKeeps DEF tag__recode_dwarf_type
<1>4. CASE T[h].tag = "func"
  BY <1>4, <1>1, KeepsItself DEF tag__recode_dwarf_type
<1>5. CASE T[h].tag = "subroutine"
  BY <1>5, <1>2 DEF tag__recode_dwarf_type
<1>6. CASE T[h].tag = "inline"
  BY <1>6, InlineKeeps DEF tag__recode_dwarf_type
<1>7. CASE T[h].tag \notin {"struct", "union", "enum", "namespace", "func", "subroutine", "inline"}
  BY <1>7, OwnTypeKeeps DEF tag__recode_dwarf_type
<1> QED
  BY <1>3, <1>4, <1>5, <1>6, <1>7

-----------------------------------------------------------------------------
Spaces == {"alt", "main"}
\* An entry of the stack, and a walk.
Frame == [space : Spaces, unit : Nat, die : Nat \ {0}, depth : Nat, walk : Nat]
Walk == [space : Spaces, unit : Nat, imported : BOOLEAN]

\* The DIEs of a unit of the file.
Dies(space, u) == UnitsIn(file, space)[u].dies

\* The types of the state.
TypeInv ==
    /\ file \in Files
    /\ pc \in {"start", "alt", "main", "prune", "types", "tags", "functions",
               "resolve", "done", "abort", "crash"}
    /\ stack \in Seq(Frame)
    /\ next \in Nat /\ next >= 1
    /\ walks \in Nat
    /\ processing_alt \in BOOLEAN
    /\ Shaped(tags)

(* The units on the stack are walked by different walks, and are of the file
   that is being walked. *)
PhaseInv ==
    /\ processing_alt <=> pc = "alt"
    /\ stack # <<>> => pc \in {"alt", "main"}
    /\ pc = "start" => walks = 0
    /\ \A k \in DOMAIN stack : /\ stack[k].space = pc
                               /\ stack[k].unit \in DOMAIN UnitsIn(file, pc)
                               /\ stack[k].walk \in 1 .. walks
    /\ \A j, k \in DOMAIN stack : stack[j].walk = stack[k].walk => j = k

(* W tells the unit of each walk, and whether it is imported: walks of one unit
   differ in that, the offset of an imported one is in dcu->imported_units, and
   one that is not imported is behind the next unit of its file. *)
WalkInv(W) ==
    /\ W \in [1 .. walks -> Walk]
    /\ \A v, w \in 1 .. walks : W[v] = W[w] => v = w
    /\ \A w \in 1 .. walks :
         /\ W[w].unit \in DOMAIN UnitsIn(file, W[w].space)
         /\ W[w].imported => W[w].space = "main" /\ file.main[W[w].unit].start \in imported
         /\ ~W[w].imported => /\ W[w].space = pc => W[w].unit < next
                              /\ W[w].space = "main" => pc # "alt"
    /\ \A k \in DOMAIN stack : /\ W[stack[k].walk].space = stack[k].space
                               /\ W[stack[k].walk].unit = stack[k].unit

\* The tag is the one of the DIE.
IsOfDie(t, d) == t.die = d.off /\ t.tag = d.tag /\ ~IsImport(d)

(* A tag is of a DIE of the unit of its walk, one that the walk is past, and
   no walk makes two tags of a DIE. *)
TagInv(W) ==
    /\ \A h \in DOMAIN tags : tags[h].tag # "annot" =>
         /\ tags[h].walk \in 1 .. walks
         /\ W[tags[h].walk].space = tags[h].space
         /\ \E k \in DOMAIN Dies(tags[h].space, W[tags[h].walk].unit) :
              /\ IsOfDie(tags[h], Dies(tags[h].space, W[tags[h].walk].unit)[k])
              /\ \A j \in DOMAIN stack : stack[j].walk = tags[h].walk => k < stack[j].die
    /\ \A g, h \in DOMAIN tags :
         /\ tags[g].tag # "annot" /\ tags[h].tag # "annot"
         /\ tags[g].walk = tags[h].walk /\ tags[g].die = tags[h].die
         => g = h

\* What is at the offset is an annotation.
OnlyAnnots(space, off) ==
    \A u \in DOMAIN UnitsIn(file, space) : \A k \in DOMAIN Dies(space, u) :
        Dies(space, u)[k].off = off /\ ~IsImport(Dies(space, u)[k]) => Dies(space, u)[k].tag = "annot"

\* What is tagged as an annotation is one.
AnnotInv ==
    \A h \in DOMAIN tags : tags[h].tag = "annot" =>
        tags[h].space \in Spaces /\ OnlyAnnots(tags[h].space, tags[h].die)

\* The inductive invariant.
IInv == TypeInv /\ PhaseInv /\ AnnotInv /\ \E W : WalkInv(W) /\ TagInv(W)

-----------------------------------------------------------------------------

\* The units of the file and their DIEs are sequences.
LEMMA FileFacts ==
  ASSUME TypeInv
  PROVE  /\ \A s \in Spaces : UnitsIn(file, s) \in Seq(UnitType)
         /\ \A s \in Spaces : \A u \in DOMAIN UnitsIn(file, s) : Dies(s, u) \in Seq(DieType)
<1>1. file \in FileType
  BY FilesAssumption DEF TypeInv
<1>2. \A s \in Spaces : UnitsIn(file, s) \in Seq(UnitType)
  BY <1>1 DEF FileType, UnitsIn
<1>3. ASSUME NEW s \in Spaces, NEW u \in DOMAIN UnitsIn(file, s)
      PROVE  Dies(s, u) \in Seq(DieType)
  <2>1. UnitsIn(file, s)[u] \in UnitType
    BY <1>2, <1>3
  <2> QED
    BY <2>1 DEF UnitType, Dies
<1> QED
  BY <1>2, <1>3

\* Two DIEs of a file at the same offset are one (OffsetsAssumption).
LEMMA SameDie ==
  ASSUME TypeInv, NEW s \in Spaces,
         NEW u \in DOMAIN UnitsIn(file, s), NEW v \in DOMAIN UnitsIn(file, s),
         NEW j \in DOMAIN Dies(s, u), NEW k \in DOMAIN Dies(s, v),
         Dies(s, u)[j].off = Dies(s, v)[k].off,
         ~IsImport(Dies(s, u)[j]), ~IsImport(Dies(s, v)[k])
  PROVE  u = v /\ j = k
BY OffsetsAssumption DEF TypeInv, Dies, Spaces

\* Nothing is walked at the start.
LEMMA InitHolds == Init => IInv
<1> SUFFICES ASSUME Init PROVE IInv
  OBVIOUS
<1>0. \A s : s = <<>> => DOMAIN s = 1 .. 0 /\ s = [h \in DOMAIN s |-> s[h]] /\ s \in Seq(Frame)
  OBVIOUS
<1>1. TypeInv
  <2>1. Shaped(tags)
    <3>1. tags = [h \in DOMAIN tags |-> tags[h]] /\ DOMAIN tags = 1 .. 0
      BY <1>0 DEF Init
    <3>2. \A h : h \notin DOMAIN tags
      BY <3>1
    <3>3. 0 \in Nat
      OBVIOUS
    <3> QED
      BY <3>1, <3>2, <3>3, Zenon DEF Shaped
  <2>2. next \in Nat /\ next >= 1 /\ walks \in Nat
    BY DEF Init
  <2> QED
    BY <1>0, <2>1, <2>2 DEF Init, TypeInv
<1>2. PhaseInv /\ AnnotInv
  <2>1. \A k : k \notin DOMAIN stack /\ k \notin DOMAIN tags
    BY <1>0 DEF Init
  <2> QED
    BY <2>1 DEF Init, PhaseInv, AnnotInv
<1> DEFINE W == [w \in 1 .. 0 |-> [space |-> "main", unit |-> 0, imported |-> FALSE]]
<1>3. WalkInv(W) /\ TagInv(W)
  BY <1>0 DEF Init, WalkInv, TagInv
<1> HIDE DEF W
<1> QED
  BY <1>1, <1>2, <1>3 DEF IInv

(* Two walks of the same unit are one of the file and one of an import, so the
   walk of a tag maps the tags of a DIE injectively into two values. *)
LEMMA OnceInIInv == IInv => ImportedOnce
<1> SUFFICES ASSUME IInv, NEW h \in DOMAIN tags, tags[h].tag # "annot"
             PROVE  Cardinality({g \in DOMAIN tags : tags[g].die = tags[h].die
                                   /\ tags[g].space = tags[h].space}) <= 2
  BY DEF ImportedOnce
<1> DEFINE S == {g \in DOMAIN tags : tags[g].die = tags[h].die /\ tags[g].space = tags[h].space}
           s == tags[h].space
<1>1. PICK W : WalkInv(W) /\ TagInv(W)
  BY DEF IInv
<1> DEFINE u(g) == W[tags[g].walk].unit
<1>2. s \in Spaces /\ u(h) \in DOMAIN UnitsIn(file, s)
  BY <1>1 DEF WalkInv, TagInv, Walk
<1>3. PICK k \in DOMAIN Dies(s, u(h)) : IsOfDie(tags[h], Dies(s, u(h))[k])
  BY <1>1 DEF TagInv
<1>4. ASSUME NEW g \in S PROVE tags[g].tag # "annot"
  <2>1. CASE tags[g].tag = "annot"
    <3>1. OnlyAnnots(s, tags[h].die)
      BY <1>4, <2>1 DEF IInv, AnnotInv
    <3>2. Dies(s, u(h))[k].tag = "annot"
      BY <3>1, <1>2, <1>3 DEF OnlyAnnots, IsOfDie
    <3> QED
      BY <3>2, <1>3 DEF IsOfDie
  <2> QED
    BY <2>1
<1>5. ASSUME NEW g \in S
      PROVE  u(g) = u(h) /\ W[tags[g].walk].space = s /\ tags[g].walk \in 1 .. walks
  <2>1. /\ tags[g].walk \in 1 .. walks /\ W[tags[g].walk].space = s
        /\ \E j \in DOMAIN Dies(s, u(g)) : IsOfDie(tags[g], Dies(s, u(g))[j])
    BY <1>1, <1>4, <1>5 DEF TagInv
  <2>2. u(g) \in DOMAIN UnitsIn(file, s)
    BY <1>1, <2>1 DEF WalkInv
  <2>3. u(g) = u(h)
    <3> HIDE DEF s, u
    <3> QED
      BY <1>2, <1>3, <1>5, <2>1, <2>2, SameDie DEF IsOfDie, IInv, S
  <2> QED
    BY <2>1, <2>3
<1> DEFINE f == [g \in S |-> IF W[tags[g].walk].imported THEN 1 ELSE 0]
<1>6. ASSUME NEW a \in S, NEW b \in S, f[a] = f[b] PROVE a = b
  <2>1. W[tags[a].walk] = W[tags[b].walk]
    <3>1. W[tags[a].walk] \in Walk /\ W[tags[b].walk] \in Walk
      BY <1>1, <1>5 DEF WalkInv
    <3>2. /\ W[tags[a].walk].unit = W[tags[b].walk].unit
          /\ W[tags[a].walk].space = W[tags[b].walk].space
          /\ W[tags[a].walk].imported = W[tags[b].walk].imported
      BY <1>5, <1>6, <3>1 DEF Walk
    <3> QED
      BY <3>1, <3>2 DEF Walk
  <2>2. tags[a].walk = tags[b].walk
    BY <1>1, <1>5, <2>1 DEF WalkInv
  <2> QED
    BY <1>1, <1>4, <2>2 DEF TagInv
<1>7. f \in [S -> 0 .. 1]
  OBVIOUS
<1> HIDE DEF f, S
<1>8. f \in Injection(S, 0 .. 1)
  BY <1>6, <1>7 DEF Injection, IsInjective
<1>9. IsFiniteSet(0 .. 1) /\ Cardinality(0 .. 1) = 2
  <2>1. IsFiniteSet(0 .. 1) /\ Cardinality(0 .. 1) = IF 0 > 1 THEN 0 ELSE 1 - 0 + 1
    <3>1. 0 \in Int /\ 1 \in Int
      OBVIOUS
    <3> QED
      BY <3>1, FS_Interval, Zenon
  <2> QED
    BY <2>1
<1>10. Cardinality(S) <= Cardinality(0 .. 1)
  BY <1>8, <1>9, FS_Injection
<1> QED
  BY <1>9, <1>10 DEF S

-----------------------------------------------------------------------------

\* The unit of a walk is one of its file, and the places of its DIEs are numbers.
LEMMA DieIndexes ==
  ASSUME TypeInv, NEW W, WalkInv(W), NEW w \in 1 .. walks
  PROVE  /\ W[w].space \in Spaces /\ W[w].unit \in DOMAIN UnitsIn(file, W[w].space)
         /\ DOMAIN Dies(W[w].space, W[w].unit) \subseteq Nat
<1>1. W[w].space \in Spaces /\ W[w].unit \in DOMAIN UnitsIn(file, W[w].space)
  BY DEF WalkInv, Walk
<1>2. Dies(W[w].space, W[w].unit) \in Seq(DieType)
  BY <1>1, FileFacts
<1> QED
  BY <1>1, <1>2

\* A step that makes no tag, in which no unit that is walked goes back.
LEMMA TagsStay ==
  ASSUME IInv, UNCHANGED <<file, tags>>, NEW W, NEW V, WalkInv(W), TagInv(W),
         walks \in Nat, walks' \in Nat, walks <= walks',
         \A w \in 1 .. walks : V[w] = W[w],
         \A j \in DOMAIN stack' : stack'[j].walk \in 1 .. walks =>
            \E k \in DOMAIN stack : stack[k].walk = stack'[j].walk /\ stack[k].die <= stack'[j].die,
         \A j \in DOMAIN stack : stack[j].die \in Nat,
         \A j \in DOMAIN stack' : stack'[j].die \in Nat
  PROVE  TagInv(V)' /\ AnnotInv'
<1>1. AnnotInv'
  BY DEF IInv, AnnotInv, OnlyAnnots, Dies
<1>2. ASSUME NEW h \in DOMAIN tags, tags[h].tag # "annot"
      PROVE  /\ tags[h].walk \in 1 .. walks'
             /\ V[tags[h].walk].space = tags[h].space
             /\ \E k \in DOMAIN Dies(tags[h].space, V[tags[h].walk].unit) :
                  /\ IsOfDie(tags[h], Dies(tags[h].space, V[tags[h].walk].unit)[k])
                  /\ \A j \in DOMAIN stack' : stack'[j].walk = tags[h].walk => k < stack'[j].die
  <2>1. /\ tags[h].walk \in 1 .. walks /\ V[tags[h].walk] = W[tags[h].walk]
        /\ W[tags[h].walk].space = tags[h].space
    BY <1>2 DEF TagInv
  <2> DEFINE D == Dies(tags[h].space, W[tags[h].walk].unit)
  <2>2. PICK k \in DOMAIN D :
           /\ IsOfDie(tags[h], D[k])
           /\ \A j \in DOMAIN stack : stack[j].walk = tags[h].walk => k < stack[j].die
    BY <1>2 DEF TagInv
  <2>3. k \in Nat
    BY <2>1, DieIndexes DEF IInv
  <2>4. ASSUME NEW j \in DOMAIN stack', stack'[j].walk = tags[h].walk
        PROVE  k < stack'[j].die
    BY <2>1, <2>2, <2>3, <2>4
  <2> QED
    BY <2>1, <2>2, <2>4
<1> QED
  BY <1>1, <1>2 DEF TagInv, Dies

\* A step behind the walks that recodes tags.
LEMMA TagsKept ==
  ASSUME IInv, Keeps(tags, tags'),
         UNCHANGED <<file, stack, next, walks, imported, processing_alt>>,
         pc \notin {"start", "alt", "main"},
         pc' \in {"prune", "types", "tags", "functions", "resolve", "done", "abort", "crash"}
  PROVE  IInv'
<1>1. TypeInv'
  BY DEF IInv, TypeInv, Keeps
<1>2. PhaseInv'
  BY DEF IInv, PhaseInv
<1>3. AnnotInv'
  BY DEF IInv, AnnotInv, Keeps, OnlyAnnots, Dies
<1>4. PICK W : WalkInv(W) /\ TagInv(W)
  BY DEF IInv
<1>5. WalkInv(W)'
  BY <1>4 DEF WalkInv, IInv, PhaseInv, Walk, Spaces
<1>6. TagInv(W)'
  <2>1. /\ DOMAIN tags' = DOMAIN tags
        /\ \A h \in DOMAIN tags : /\ tags'[h].die = tags[h].die /\ tags'[h].tag = tags[h].tag
                                  /\ tags'[h].walk = tags[h].walk /\ tags'[h].space = tags[h].space
    BY DEF Keeps
  <2>2. UNCHANGED <<file, stack, walks>>
    OBVIOUS
  <2>3. ASSUME NEW h \in DOMAIN tags', tags'[h].tag # "annot"
        PROVE  /\ tags'[h].walk \in 1 .. walks
               /\ W[tags'[h].walk].space = tags'[h].space
               /\ \E k \in DOMAIN Dies(tags'[h].space, W[tags'[h].walk].unit) :
                    /\ IsOfDie(tags'[h], Dies(tags'[h].space, W[tags'[h].walk].unit)[k])
                    /\ \A j \in DOMAIN stack : stack[j].walk = tags'[h].walk => k < stack[j].die
    <3>1. h \in DOMAIN tags /\ tags[h].tag # "annot"
      BY <2>1, <2>3
    <3> DEFINE D == Dies(tags[h].space, W[tags[h].walk].unit)
    <3>2. /\ tags[h].walk \in 1 .. walks /\ W[tags[h].walk].space = tags[h].space
          /\ \E k \in DOMAIN D :
               /\ IsOfDie(tags[h], D[k])
               /\ \A j \in DOMAIN stack : stack[j].walk = tags[h].walk => k < stack[j].die
      BY <1>4, <3>1 DEF TagInv
    <3>3. PICK k \in DOMAIN D :
             /\ IsOfDie(tags[h], D[k])
             /\ \A j \in DOMAIN stack : stack[j].walk = tags[h].walk => k < stack[j].die
      BY <3>2
    <3>4. IsOfDie(tags'[h], D[k])
      BY <2>1, <3>1, <3>3 DEF IsOfDie
    <3> QED
      BY <2>1, <3>1, <3>2, <3>3, <3>4
  <2>4. ASSUME NEW g \in DOMAIN tags', NEW h \in DOMAIN tags',
               tags'[g].tag # "annot", tags'[h].tag # "annot",
               tags'[g].walk = tags'[h].walk, tags'[g].die = tags'[h].die
        PROVE  g = h
    BY <1>4, <2>1, <2>4 DEF TagInv
  <2> QED
    BY <2>2, <2>3, <2>4 DEF TagInv, Dies
<1> QED
  BY <1>1, <1>2, <1>3, <1>4, <1>5, <1>6 DEF IInv

\* Each step preserves the invariant.  add_alt_pus: no unit is walked yet.
LEMMA AddAltPus == ASSUME IInv, add_alt_pus PROVE IInv'
<1> USE DEF add_alt_pus
<1>0. stack = <<>> /\ (\A k : k \notin DOMAIN stack) /\ file.hasalt \in BOOLEAN
  <2>1. stack = <<>>
    BY DEF IInv, PhaseInv
  <2>2. file \in FileType
    BY FilesAssumption DEF IInv, TypeInv
  <2> QED
    BY <2>1, <2>2 DEF FileType
<1>1. TypeInv' /\ PhaseInv'
  <2>1. CASE file.hasalt
    BY <1>0, <2>1 DEF IInv, TypeInv, PhaseInv
  <2>2. CASE ~file.hasalt
    BY <1>0, <2>2 DEF IInv, TypeInv, PhaseInv
  <2> QED
    BY <2>1, <2>2
<1>2. PICK W : WalkInv(W) /\ TagInv(W)
  BY DEF IInv
<1>3. WalkInv(W)'
  BY <1>2 DEF WalkInv, IInv, PhaseInv
<1>4. TagInv(W)' /\ AnnotInv'
  BY <1>2 DEF TagInv, Dies, IInv, AnnotInv, OnlyAnnots
<1> QED
  BY <1>1, <1>2, <1>3, <1>4 DEF IInv

\* units_end: the walks of the main file start after those of the alternate file.
LEMMA UnitsEnd == ASSUME IInv, units_end PROVE IInv'
<1> USE DEF units_end
<1>0. \A k : k \notin DOMAIN stack
  <2>1. stack = <<>>
    OBVIOUS
  <2> QED
    BY <2>1
<1>1. TypeInv' /\ PhaseInv'
  <2>1. next' \in Nat /\ next' >= 1
    OBVIOUS
  <2> QED
    BY <1>0, <2>1 DEF IInv, TypeInv, PhaseInv
<1>2. PICK W : WalkInv(W) /\ TagInv(W)
  BY DEF IInv
<1>3. WalkInv(W)'
  BY <1>2 DEF WalkInv, IInv, PhaseInv, Walk, Spaces
<1>4. TagInv(W)' /\ AnnotInv'
  BY <1>2 DEF TagInv, Dies, IInv, AnnotInv, OnlyAnnots
<1> QED
  BY <1>1, <1>2, <1>3, <1>4 DEF IInv

\* unit_walked: the unit below is the one whose import ends.
LEMMA UnitWalked == ASSUME IInv, unit_walked PROVE IInv'
<1>1. /\ stack' \in Seq(Frame) /\ Len(stack') = Len(stack) - 1 /\ Len(stack) \in Nat /\ Len(stack) # 0
      /\ \A k \in DOMAIN stack' : k + 1 \in DOMAIN stack /\ stack'[k] = stack[k + 1]
  BY DEF unit_walked, IInv, TypeInv
<1>2. DOMAIN stack = 1 .. Len(stack) /\ DOMAIN stack' = 1 .. Len(stack')
  BY <1>1 DEF IInv, TypeInv
<1>3. TypeInv'
  BY <1>1 DEF unit_walked, IInv, TypeInv
<1>4. PhaseInv'
  <2>1. ASSUME NEW j \in DOMAIN stack', NEW k \in DOMAIN stack', stack'[j].walk = stack'[k].walk
        PROVE  j = k
    <3>1. j + 1 = k + 1
      BY <1>1, <2>1 DEF IInv, PhaseInv
    <3> QED
      BY <1>1, <1>2, <3>1
  <2>2. stack # <<>>
    BY DEF unit_walked
  <2> QED
    BY <1>1, <2>1, <2>2 DEF unit_walked, IInv, PhaseInv
<1>5. PICK W : WalkInv(W) /\ TagInv(W)
  BY DEF IInv
<1>6. WalkInv(W)'
  BY <1>1, <1>5 DEF unit_walked, WalkInv
<1>7. TagInv(W)' /\ AnnotInv'
  BY <1>1, <1>5 DEF unit_walked, TagInv, Dies, IInv, AnnotInv, OnlyAnnots
<1> QED
  BY <1>3, <1>4, <1>5, <1>6, <1>7 DEF IInv

\* B is the stack A, its units walked as far or farther.
Ahead(A, B) ==
    /\ B \in Seq(Frame)
    /\ DOMAIN B = DOMAIN A
    /\ \A k \in DOMAIN A : /\ B[k].space = A[k].space /\ B[k].unit = A[k].unit
                           /\ B[k].walk = A[k].walk /\ A[k].die <= B[k].die

\* Going to the next DIE leaves the units walked as they are.
LEMMA AdvancedFacts ==
  ASSUME TypeInv, stack # <<>>
  PROVE  /\ Ahead(stack, Advanced)
         /\ 1 \in DOMAIN stack /\ Advanced[1].die = stack[1].die + 1
<1>1. stack \in Seq(Frame) /\ 1 \in DOMAIN stack
  BY DEF TypeInv
<1>2. stack[1] \in Frame
  BY <1>1
<1> DEFINE f == [stack[1] EXCEPT !.die = @ + 1]
<1>3. /\ f \in Frame /\ f.die = stack[1].die + 1
      /\ f.space = stack[1].space /\ f.unit = stack[1].unit /\ f.walk = stack[1].walk
  BY <1>2 DEF Frame
<1>4. Advanced = [stack EXCEPT ![1] = f]
  BY DEF Advanced
<1> HIDE DEF f
<1>5. /\ Advanced \in Seq(Frame) /\ DOMAIN Advanced = DOMAIN stack
      /\ Advanced[1] = f /\ \A k \in DOMAIN stack : k # 1 => Advanced[k] = stack[k]
  BY <1>1, <1>3, <1>4
<1>6. \A k \in DOMAIN stack : stack[k] \in Frame
  BY <1>1
<1>7. \A k \in DOMAIN stack : stack[k].die \in Nat
  BY <1>6 DEF Frame
<1> QED
  BY <1>1, <1>3, <1>5, <1>7 DEF Ahead

\* So does staying.
LEMMA StaysAhead ==
  ASSUME TypeInv PROVE Ahead(stack, stack)
<1>1. stack \in Seq(Frame)
  BY DEF TypeInv
<1>2. \A k \in DOMAIN stack : stack[k] \in Frame
  BY <1>1
<1>3. \A k \in DOMAIN stack : stack[k].die \in Nat
  BY <1>2 DEF Frame
<1> QED
  BY <1>1, <1>3 DEF Ahead

\* The places of the DIEs being processed are numbers.
LEMMA AheadDies ==
  ASSUME TypeInv, NEW A, Ahead(stack, A)
  PROVE  \A k \in DOMAIN stack : stack[k].die \in Nat /\ A[k].die \in Nat
<1>1. \A k \in DOMAIN stack : stack[k] \in Frame /\ A[k] \in Frame
  BY DEF TypeInv, Ahead
<1> QED
  BY <1>1 DEF Frame

\* A step that goes on without a tag and without a new walk.
LEMMA MovedOn ==
  ASSUME IInv, UNCHANGED <<file, tags, pc, processing_alt, walks, imported>>,
         Ahead(stack, stack'), next' \in Nat, next <= next'
  PROVE  IInv'
<1>1. TypeInv'
  BY DEF IInv, TypeInv, Ahead
<1>2. PhaseInv'
  <2>1. stack' # <<>> => stack # <<>>
    BY DEF Ahead, IInv, TypeInv
  <2> QED
    BY <2>1 DEF IInv, PhaseInv, Ahead
<1>3. PICK W : WalkInv(W) /\ TagInv(W)
  BY DEF IInv
<1>4. WalkInv(W)'
  <2>1. \A w \in 1 .. walks : W[w].unit \in Nat
    BY <1>3 DEF WalkInv, Walk
  <2>2. next \in Nat
    BY DEF IInv, TypeInv
  <2> QED
    BY <1>3, <2>1, <2>2 DEF WalkInv, Ahead
<1>5. TagInv(W)' /\ AnnotInv'
  <2>1. \A k \in DOMAIN stack : stack[k].die \in Nat /\ stack'[k].die \in Nat
    BY AheadDies DEF IInv
  <2>2. walks \in Nat /\ walks' = walks
    BY DEF IInv, TypeInv
  <2> QED
    BY <1>3, <2>1, <2>2, TagsStay DEF Ahead
<1> QED
  BY <1>1, <1>2, <1>3, <1>4, <1>5 DEF IInv

\* A step that starts the walk of a unit.
LEMMA WalkStarted ==
  ASSUME IInv, UNCHANGED <<file, tags, pc, processing_alt>>,
         NEW A, Ahead(stack, A), NEW f \in Frame, stack' = <<f>> \o A,
         walks' = walks + 1, next' \in Nat, next <= next', imported \subseteq imported',
         pc \in {"alt", "main"},
         f.walk = walks + 1, f.space = pc, f.unit \in DOMAIN UnitsIn(file, pc),
         NEW b \in BOOLEAN,
         b => pc = "main" /\ file.main[f.unit].start \in imported' \ imported,
         ~b => next <= f.unit /\ f.unit < next'
  PROVE  IInv'
<1>1. A \in Seq(Frame) /\ DOMAIN A = DOMAIN stack /\ walks \in Nat /\ next \in Nat
  BY DEF Ahead, IInv, TypeInv
<1>2. /\ stack' \in Seq(Frame) /\ Len(stack') = Len(A) + 1 /\ Len(A) \in Nat
      /\ stack'[1] = f /\ DOMAIN stack' = 1 .. Len(A) + 1 /\ DOMAIN A = 1 .. Len(A)
  BY <1>1
<1>3. \A k \in DOMAIN stack' : k # 1 => k - 1 \in DOMAIN stack /\ stack'[k] = A[k - 1]
  BY <1>1, <1>2
<1>4. TypeInv'
  BY <1>1, <1>2 DEF IInv, TypeInv
<1>5. ASSUME NEW k \in DOMAIN stack', k # 1
      PROVE  /\ stack'[k].walk = stack[k - 1].walk /\ stack'[k].unit = stack[k - 1].unit
             /\ stack'[k].space = stack[k - 1].space /\ stack'[k].walk \in 1 .. walks
             /\ stack[k - 1].die <= stack'[k].die
  BY <1>1, <1>3, <1>5 DEF Ahead, IInv, PhaseInv
<1>6. PhaseInv'
  <2>1. ASSUME NEW j \in DOMAIN stack', NEW k \in DOMAIN stack', stack'[j].walk = stack'[k].walk
        PROVE  j = k
    <3>1. CASE j = 1 \/ k = 1
      BY <1>1, <1>2, <1>5, <2>1, <3>1
    <3>2. CASE j # 1 /\ k # 1
      <4>1. j - 1 = k - 1
        <5>1. j - 1 \in DOMAIN stack /\ k - 1 \in DOMAIN stack
          BY <1>3, <3>2
        <5>2. stack[j - 1].walk = stack[k - 1].walk
          BY <1>5, <2>1, <3>2
        <5> QED
          BY <5>1, <5>2 DEF IInv, PhaseInv
      <4> QED
        BY <1>2, <4>1
    <3> QED
      BY <3>1, <3>2
  <2>2. \A k \in DOMAIN stack' : /\ stack'[k].space = pc /\ stack'[k].unit \in DOMAIN UnitsIn(file, pc)
                                 /\ stack'[k].walk \in 1 .. walks + 1
    <3> TAKE k \in DOMAIN stack'
    <3>1. CASE k = 1
      BY <1>1, <1>2, <3>1
    <3>2. CASE k # 1
      BY <1>1, <1>3, <1>5, <3>2 DEF IInv, PhaseInv
    <3> QED
      BY <3>1, <3>2
  <2>3. pc # "start"
    OBVIOUS
  <2> QED
    BY <2>1, <2>2, <2>3 DEF IInv, PhaseInv
<1>7. PICK W : WalkInv(W) /\ TagInv(W)
  BY DEF IInv
<1> DEFINE x == [space |-> pc, unit |-> f.unit, imported |-> b]
           M == [w \in 1 .. walks + 1 |-> IF w = walks + 1 THEN x ELSE W[w]]
<1>8. x \in Walk /\ x.space = pc /\ x.unit = f.unit /\ x.imported = b
  BY DEF Walk, Frame, Spaces
<1> HIDE DEF x
<1>8a. /\ M \in [1 .. walks + 1 -> Walk] /\ M[walks + 1] = x
       /\ \A w \in 1 .. walks : M[w] = W[w] /\ W[w] \in Walk /\ w # walks + 1
  BY <1>1, <1>7, <1>8 DEF WalkInv
<1> HIDE DEF M
<1>9. PICK V : /\ V \in [1 .. walks + 1 -> Walk] /\ V[walks + 1] = x
               /\ \A w \in 1 .. walks : V[w] = W[w] /\ W[w] \in Walk /\ w # walks + 1
  BY <1>8a
<1>10. WalkInv(V)'
  <2>1. \A w \in 1 .. walks : W[w] # x
    BY <1>1, <1>7, <1>8, <1>9 DEF WalkInv, Walk
  <2>2. ASSUME NEW v \in 1 .. walks + 1, NEW w \in 1 .. walks + 1, V[v] = V[w]
        PROVE  v = w
    <3>1. \A z \in 1 .. walks + 1 : z = walks + 1 \/ z \in 1 .. walks
      BY <1>1
    <3>2. CASE v \in 1 .. walks /\ w \in 1 .. walks
      BY <1>7, <1>9, <2>2, <3>2 DEF WalkInv
    <3>3. CASE v = walks + 1 \/ w = walks + 1
      BY <1>9, <2>1, <2>2, <3>1, <3>3
    <3> QED
      BY <3>1, <3>2, <3>3
  <2>3. ASSUME NEW w \in 1 .. walks + 1
        PROVE  /\ V[w].unit \in DOMAIN UnitsIn(file, V[w].space)
               /\ V[w].imported => V[w].space = "main" /\ file.main[V[w].unit].start \in imported'
               /\ ~V[w].imported => /\ V[w].space = pc => V[w].unit < next'
                                    /\ V[w].space = "main" => pc # "alt"
    <3>1. CASE w = walks + 1
      BY <1>8, <1>9, <3>1
    <3>2. CASE w \in 1 .. walks
      <4>1. W[w].unit \in Nat
        BY <1>9, <3>2 DEF Walk
      <4> QED
        BY <1>1, <1>7, <1>9, <3>2, <4>1 DEF WalkInv
    <3> QED
      BY <1>1, <3>1, <3>2
  <2>4. ASSUME NEW k \in DOMAIN stack'
        PROVE  V[stack'[k].walk].space = stack'[k].space /\ V[stack'[k].walk].unit = stack'[k].unit
    <3>1. CASE k = 1
      BY <1>2, <1>8, <1>9, <3>1
    <3>2. CASE k # 1
      BY <1>3, <1>5, <1>7, <1>9, <3>2 DEF WalkInv
    <3> QED
      BY <3>1, <3>2
  <2>5. file' = file /\ pc' = pc /\ walks' = walks + 1
    OBVIOUS
  <2>6. V \in [1 .. walks' -> Walk] /\ \A v, w \in 1 .. walks' : V[v] = V[w] => v = w
    BY <1>9, <2>2, <2>5
  <2>7. \A w \in 1 .. walks' :
          /\ V[w].unit \in DOMAIN UnitsIn(file', V[w].space)
          /\ V[w].imported => V[w].space = "main" /\ file'.main[V[w].unit].start \in imported'
          /\ ~V[w].imported => /\ V[w].space = pc' => V[w].unit < next'
                               /\ V[w].space = "main" => pc' # "alt"
    BY <2>3, <2>5
  <2> QED
    BY <2>4, <2>6, <2>7, Zenon DEF WalkInv
<1>11. TagInv(V)' /\ AnnotInv'
  <2>1. \A k \in DOMAIN stack : stack[k].die \in Nat /\ A[k].die \in Nat
    BY AheadDies DEF IInv
  <2>2. \A j \in DOMAIN stack' : stack'[j].die \in Nat
    <3>1. \A j \in DOMAIN stack' : stack'[j] \in Frame
      BY <1>2
    <3> QED
      BY <3>1 DEF Frame
  <2>3. ASSUME NEW j \in DOMAIN stack', stack'[j].walk \in 1 .. walks
        PROVE  \E k \in DOMAIN stack : stack[k].walk = stack'[j].walk /\ stack[k].die <= stack'[j].die
    <3>1. j # 1
      BY <1>1, <1>2, <2>3
    <3> QED
      BY <1>3, <1>5, <3>1
  <2>4. walks' \in Nat /\ walks <= walks'
    BY <1>1
  <2>5. \A w \in 1 .. walks : V[w] = W[w]
    BY <1>9
  <2>6. walks \in Nat
    BY <1>1
  <2>7. UNCHANGED <<file, tags>>
    OBVIOUS
  <2>8. /\ \A j \in DOMAIN stack : stack[j].die \in Nat
        /\ \A j \in DOMAIN stack' : stack'[j].walk \in 1 .. walks =>
             \E k \in DOMAIN stack : stack[k].walk = stack'[j].walk /\ stack[k].die <= stack'[j].die
    BY <2>1, <2>3
  <2> QED
    BY <1>7, <2>2, <2>4, <2>5, <2>6, <2>7, <2>8, TagsStay
<1> QED
  BY <1>4, <1>6, <1>10, <1>11 DEF IInv

\* next_unit: the walk is the first one of that unit that is not an import.
LEMMA NextUnit == ASSUME IInv, next_unit PROVE IInv'
<1>1. /\ pc \in {"alt", "main"} /\ stack = <<>> /\ next \in Nat /\ next' = next + 1
      /\ UNCHANGED <<file, tags, pc, processing_alt, imported>>
  BY DEF next_unit, IInv, TypeInv
<1>2. CASE UnitsOf(pc)[next].filtered
  <2>1. UNCHANGED <<stack, walks>>
    BY <1>2 DEF next_unit
  <2>2. Ahead(stack, stack')
    BY <2>1, StaysAhead DEF IInv
  <2> QED
    BY <1>1, <2>1, <2>2, MovedOn
<1>3. CASE ~UnitsOf(pc)[next].filtered
  <2> DEFINE f == [space |-> pc, unit |-> next, die |-> 1, depth |-> 0, walk |-> walks + 1]
  <2>1. stack' = <<f>> \o stack /\ walks' = walks + 1
    BY <1>3 DEF next_unit, Push
  <2>2. /\ f \in Frame /\ f.walk = walks + 1 /\ f.space = pc /\ f.unit = next
    BY <1>1 DEF Frame, Spaces, IInv, TypeInv
  <2>3. next \in DOMAIN UnitsIn(file, pc)
    <3>1. UnitsIn(file, pc) \in Seq(UnitType) /\ next <= Len(UnitsIn(file, pc))
      BY <1>1, FileFacts DEF next_unit, UnitsOf, IInv, Spaces
    <3>2. next # 0
      BY DEF IInv, TypeInv
    <3> QED
      BY <1>1, <3>1, <3>2
  <2>4. Ahead(stack, stack)
    BY StaysAhead DEF IInv
  <2> HIDE DEF f
  <2>5. next <= next' /\ next' \in Nat /\ next < next' /\ imported \subseteq imported'
    BY <1>1
  <2>6. PICK b \in BOOLEAN : ~b
    OBVIOUS
  <2>7. UNCHANGED <<file, tags, pc, processing_alt>>
    BY <1>1
  <2>8. next <= f.unit /\ f.unit < next' /\ f.unit \in DOMAIN UnitsIn(file, pc)
    BY <1>1, <2>2, <2>3
  <2> QED
    BY <1>1, <2>1, <2>2, <2>4, <2>5, <2>6, <2>7, <2>8, WalkStarted
<1> QED
  BY <1>2, <1>3

(* import_unit: the walk is the first one that is an import of that unit, for
   its offset was not in dcu->imported_units. *)
LEMMA ImportUnit == ASSUME IInv, import_unit PROVE IInv'
<1>1. /\ stack # <<>> /\ UNCHANGED <<file, pc, next, processing_alt, tags>>
      /\ next \in Nat /\ next <= next' /\ next' \in Nat
  BY DEF import_unit, IInv, TypeInv
<1>2. /\ Ahead(stack, Advanced) /\ 1 \in DOMAIN stack
  BY <1>1, AdvancedFacts DEF IInv
<1> DEFINE r == Die.type
           alt == r.form = "alt" \/ processing_alt
           units == IF alt THEN file.alt ELSE file.main
           S == {k \in DOMAIN units : units[k].start = r.off /\ units[k].partial}
           f == [space |-> "main", unit |-> CHOOSE k \in S : TRUE, die |-> 1,
                 depth |-> stack[1].depth + 1, walk |-> walks + 1]
<1>3. CASE stack' = Advanced /\ UNCHANGED <<imported, walks>>
  BY <1>1, <1>2, <1>3, MovedOn
<1>4. CASE /\ S # {} /\ ~alt /\ r.off \notin imported
           /\ imported' = imported \cup {r.off} /\ stack' = <<f>> \o Advanced /\ walks' = walks + 1
  <2>1. pc = "main" /\ units = file.main
    BY <1>1, <1>4 DEF IInv, PhaseInv
  <2>2. f.unit \in S
    BY <1>4
  <2>3. f.unit \in DOMAIN file.main /\ file.main[f.unit].start = r.off
    BY <2>1, <2>2
  <2>4. UnitsIn(file, pc) = file.main
    BY <2>1 DEF UnitsIn
  <2>5. file.main \in Seq(UnitType)
    BY <2>1, <2>4, FileFacts DEF IInv, Spaces
  <2>6. stack[1].depth \in Nat /\ walks \in Nat
    <3>1. stack[1] \in Frame /\ walks \in Nat
      BY <1>2 DEF IInv, TypeInv
    <3> QED
      BY <3>1 DEF Frame
  <2>7. f \in Frame /\ f.walk = walks + 1 /\ f.space = pc
    <3> DEFINE unit == CHOOSE k \in S : TRUE
    <3>1. f = [space |-> "main", unit |-> unit, die |-> 1, depth |-> stack[1].depth + 1,
               walk |-> walks + 1]
      OBVIOUS
    <3> HIDE DEF f
    <3>2. unit \in DOMAIN file.main
      BY <2>3, <3>1
    <3> HIDE DEF unit
    <3>3. unit \in Nat
      BY <2>5, <3>2
    <3> QED
      BY <2>1, <2>6, <3>1, <3>3 DEF Frame, Spaces
  <2>8. pc \in {"alt", "main"} /\ f.unit \in DOMAIN UnitsIn(file, pc)
        /\ file.main[f.unit].start \in imported' \ imported /\ imported \subseteq imported'
    BY <1>4, <2>1, <2>3, <2>4
  <2>9. stack' = <<f>> \o Advanced /\ walks' = walks + 1
    BY <1>4
  <2>10. PICK b \in BOOLEAN : b
    OBVIOUS
  <2> HIDE DEF f
  <2> QED
    BY <1>1, <1>2, <2>1, <2>7, <2>8, <2>9, <2>10, WalkStarted
<1> QED
  <2>1. die__process_imported_unit
    BY DEF import_unit
  <2> QED
    BY <1>3, <1>4, <2>1 DEF die__process_imported_unit

-----------------------------------------------------------------------------
\* The DIE that is processed, in the file.
LEMMA CurrentDie ==
  ASSUME IInv, stack # <<>>, stack[1].die <= Len(Unit.dies)
  PROVE  /\ 1 \in DOMAIN stack /\ stack[1].space = pc /\ pc \in Spaces
         /\ stack[1].unit \in DOMAIN UnitsIn(file, pc)
         /\ stack[1].die \in DOMAIN Dies(pc, stack[1].unit)
         /\ Die = Dies(pc, stack[1].unit)[stack[1].die]
         /\ Die \in DieType
<1>1. 1 \in DOMAIN stack /\ stack[1] \in Frame
  BY DEF IInv, TypeInv
<1>2. stack[1].space = pc /\ stack[1].unit \in DOMAIN UnitsIn(file, pc) /\ pc \in Spaces
  BY <1>1 DEF IInv, PhaseInv, Spaces
<1>3. Dies(pc, stack[1].unit) \in Seq(DieType) /\ Unit.dies = Dies(pc, stack[1].unit)
  BY <1>2, FileFacts DEF IInv, Unit, UnitsOf, Dies
<1>4. stack[1].die \in Nat /\ stack[1].die # 0
  BY <1>1 DEF Frame
<1>5. stack[1].die \in DOMAIN Dies(pc, stack[1].unit)
  BY <1>3, <1>4
<1>6. Die = Dies(pc, stack[1].unit)[stack[1].die]
  BY <1>3 DEF Die
<1>7. Die \in DieType
  BY <1>3, <1>5, <1>6
<1> QED
  BY <1>1, <1>2, <1>5, <1>6, <1>7

\* The tag t of the DIE at an offset.
Tag(t, off, tag, walk, space) ==
    /\ t = [x \in DOMAIN t |-> t[x]] /\ Marks \subseteq DOMAIN t
    /\ t.die = off /\ t.tag = tag /\ t.walk = walk /\ t.space = space

\* The space of the file being walked.
Space == IF processing_alt THEN "alt" ELSE "main"

\* tag__init() takes the offset and the tag of the DIE, the walk and the space.
LEMMA NewTagIsTag ==
  ASSUME NEW d, NEW list, NEW table, NEW id
  PROVE  Tag(NewTag(d, list, table, id), d.off, d.tag, stack[1].walk, Space)
<1> DEFINE h == cu__hash(d.tag)
           ref == [type |-> set_attr_type(IF d.tag = "inline" THEN d.origin ELSE d.type),
                   origin |-> set_attr_type(d.origin),
                   spec |-> set_attr_type(d.spec)]
           has == d.origin # NoRef
           name == IF d.named THEN d.off ELSE 0
           w == stack[1].walk
           t == [die |-> d.off, tag |-> d.tag, list |-> list, walk |-> w,
                 space |-> Space,
                 hash |-> h, table |-> table, id |-> id, live |-> TRUE,
                 ref |-> ref, has_origin |-> has,
                 type |-> 0, name |-> name, annots |-> <<>>]
<1>1. NewTag(d, list, table, id) = t
  BY DEF NewTag, Space
<1> HIDE DEF h, ref, has, name, w
<1>2. Tag(t, d.off, d.tag, w, Space)
  BY DEF Tag, Marks
<1> QED
  BY <1>1, <1>2 DEF w

\* The space of an annotation is set after tag__init().
LEMMA SpaceSetIsTag ==
  ASSUME NEW t, NEW off, NEW tag, NEW walk, NEW old, NEW space, Tag(t, off, tag, walk, old)
  PROVE  Tag([t EXCEPT !.space = space], off, tag, walk, space)
BY DEF Tag, Marks

\* The annotations of a pointer are set after tag__init().
LEMMA AnnotsSetIsTag ==
  ASSUME NEW t, NEW off, NEW tag, NEW walk, NEW space, NEW annots, Tag(t, off, tag, walk, space)
  PROVE  Tag([t EXCEPT !.annots = annots], off, tag, walk, space)
BY DEF Tag, Marks

\* A tag of an annotation.
AnnotTag(t) ==
    /\ t = [x \in DOMAIN t |-> t[x]] /\ Marks \subseteq DOMAIN t
    /\ t.tag = "annot" /\ t.space \in Spaces /\ OnlyAnnots(t.space, t.die)

\* An offset at which there is an annotation is of nothing else.
LEMMA OneAnnotation ==
  ASSUME TypeInv, NEW s \in Spaces, NEW off, IsAnnotation(s, off)
  PROVE  OnlyAnnots(s, off)
<1>1. UnitsIn(file, s) \in Seq(UnitType) /\ \A u \in DOMAIN UnitsIn(file, s) : Dies(s, u) \in Seq(DieType)
  BY FileFacts
<1>2. PICK unit \in ToSet(UnitsIn(file, s)) : \E d \in ToSet(unit.dies) : d.off = off /\ d.tag = "annot"
  BY DEF IsAnnotation, UnitsOf
<1>3. PICK u \in DOMAIN UnitsIn(file, s) : unit = UnitsIn(file, s)[u]
  BY <1>1 DEF ToSet
<1>4. PICK j \in DOMAIN Dies(s, u) : Dies(s, u)[j].off = off /\ Dies(s, u)[j].tag = "annot"
  BY <1>1, <1>2, <1>3 DEF ToSet, Dies
<1>5. ~IsImport(Dies(s, u)[j])
  BY <1>4 DEF IsImport
<1>6. ASSUME NEW v \in DOMAIN UnitsIn(file, s), NEW k \in DOMAIN Dies(s, v),
             Dies(s, v)[k].off = off, ~IsImport(Dies(s, v)[k])
      PROVE  Dies(s, v)[k].tag = "annot"
  BY <1>4, <1>5, <1>6, SameDie
<1> QED
  BY <1>6 DEF OnlyAnnots

(* What die__create_new_pointer_tag() makes of DW_AT_GNU_annotation has the
   offset of an annotation in the space that it is put in. *)
LEMMA PointerAnnotsAreAnnots ==
  ASSUME IInv, stack # <<>>, stack[1].die <= Len(Unit.dies),
         NEW id, Die.tag = "pointer"
  PROVE  \E n \in Nat : /\ DOMAIN PointerAnnots(Die, id) = 1 .. n
                        /\ PointerAnnots(Die, id) = [k \in 1 .. n |-> PointerAnnots(Die, id)[k]]
                        /\ \A k \in 1 .. n : AnnotTag(PointerAnnots(Die, id)[k])
<1> DEFINE d == Die
           cut == {k \in DOMAIN d.annots :
                      \/ d.annots[k].form = "alt" /\ ~file.hasalt
                      \/ ~IsAnnotation(AnnotSpace(Space, d, k), d.annots[k].off)}
           n == IF cut = {} THEN Len(d.annots) ELSE Min(cut) - 1
           base(k) == NewTag([d EXCEPT !.off = d.annots[k].off, !.tag = "annot",
                                       !.type = NoRef, !.origin = NoRef],
                             d.off, "table", id + k - 1)
           tag(k) == [base(k) EXCEPT !.space = AnnotSpace(Space, d, k)]
<1>1. d \in DieType /\ d.annots \in Seq(RefType)
  BY CurrentDie DEF DieType
<1>2. n \in Nat /\ n <= Len(d.annots) /\ \A k \in 1 .. n : k \in DOMAIN d.annots /\ k \notin cut
  <2>1. CASE cut = {}
    BY <1>1, <2>1
  <2>2. CASE cut # {}
    <3>1. cut \in SUBSET Nat /\ \A k \in cut : k \in 1 .. Len(d.annots)
      BY <1>1
    <3>2. \E x \in cut : \A y \in cut : x <= y
      <4> HIDE DEF cut
      <4> QED
        BY <2>2, <3>1, Parameters!LeastIn
    <3>3. Min(cut) \in cut /\ \A y \in cut : Min(cut) <= y
      <4> HIDE DEF cut
      <4> QED
        BY <3>2 DEF Min
    <3>4. PICK m \in 1 .. Len(d.annots) : m = Min(cut) /\ m \in cut /\ \A y \in cut : m <= y
      BY <3>1, <3>3
    <3>5. n = m - 1
      BY <2>2, <3>4
    <3>6. Len(d.annots) \in Nat /\ DOMAIN d.annots = 1 .. Len(d.annots)
      BY <1>1
    <3> HIDE DEF n, cut, d
    <3>7. m - 1 \in Nat /\ m - 1 <= Len(d.annots)
      BY <3>4, <3>6
    <3>8. ASSUME NEW k \in 1 .. m - 1 PROVE k \in 1 .. Len(d.annots) /\ k < m
      BY <3>4, <3>6
    <3>9. \A k \in 1 .. m - 1 : k \notin cut
      BY <3>1, <3>4, <3>8
    <3> QED
      BY <3>5, <3>6, <3>7, <3>8, <3>9
  <2> QED
    BY <2>1, <2>2
<1>3. PointerAnnots(Die, id) = [k \in 1 .. n |-> tag(k)]
  BY DEF PointerAnnots, Space
<1>4. ASSUME NEW k \in 1 .. n PROVE AnnotTag(tag(k))
  <2> DEFINE a == [d EXCEPT !.off = d.annots[k].off, !.tag = "annot",
                            !.type = NoRef, !.origin = NoRef]
  <2>1. a.off = d.annots[k].off /\ a.tag = "annot"
    BY <1>1 DEF DieType
  <2>2. Tag(base(k), d.annots[k].off, "annot", stack[1].walk, Space)
    <3>1. base(k) = NewTag(a, d.off, "table", id + k - 1)
      OBVIOUS
    <3> HIDE DEF a, base
    <3> QED
      BY <2>1, <3>1, NewTagIsTag
  <2>3. Tag(tag(k), d.annots[k].off, "annot", stack[1].walk, AnnotSpace(Space, d, k))
    <3> HIDE DEF base, d
    <3> QED
      BY <2>2, SpaceSetIsTag
  <2>4. AnnotSpace(Space, d, k) \in Spaces
    BY DEF AnnotSpace, Spaces
  <2>5. OnlyAnnots(AnnotSpace(Space, d, k), d.annots[k].off)
    <3>1. IsAnnotation(AnnotSpace(Space, d, k), d.annots[k].off)
      <4>1. k \in DOMAIN d.annots /\ k \notin cut
        BY <1>2
      <4> QED
        BY <4>1
    <3> HIDE DEF d, n
    <3> QED
      BY <2>4, <3>1, OneAnnotation DEF IInv
  <2> HIDE DEF tag
  <2> QED
    BY <2>3, <2>4, <2>5 DEF Tag, AnnotTag
<1> QED
  <2> HIDE DEF n, tag
  <2> QED
    BY <1>2, <1>3, <1>4

\* U is T with G and t appended.
Longer(T, G, t, U) ==
    \E n, m \in Nat :
        /\ DOMAIN T = 1 .. n /\ DOMAIN G = 1 .. m /\ DOMAIN U = 1 .. n + m + 1
        /\ U = [h \in DOMAIN U |-> U[h]]
        /\ \A h \in 1 .. n : U[h] = T[h]
        /\ \A k \in 1 .. m : U[n + k] = G[k]
        /\ U[n + m + 1] = t

\* A sequence with another sequence and one element appended.
LEMMA LongerBy ==
  ASSUME NEW T, NEW n \in Nat, DOMAIN T = 1 .. n, T = [h \in DOMAIN T |-> T[h]],
         NEW G, NEW m \in Nat, DOMAIN G = 1 .. m, G = [k \in DOMAIN G |-> G[k]],
         NEW t
  PROVE  Longer(T, G, t, T \o G \o <<t>>)
<1> DEFINE S == {T[h] : h \in 1 .. n} \cup {G[k] : k \in 1 .. m} \cup {t}
<1>1. T \in Seq(S) /\ G \in Seq(S) /\ <<t>> \in Seq(S)
  <2>1. \A h \in 1 .. n : T[h] \in S
    OBVIOUS
  <2>2. \A k \in 1 .. m : G[k] \in S
    OBVIOUS
  <2>3. t \in S
    OBVIOUS
  <2> HIDE DEF S
  <2>4. T \in Seq(S)
    BY <2>1
  <2>5. G \in Seq(S)
    BY <2>2
  <2> QED
    BY <2>3, <2>4, <2>5
<1> HIDE DEF S
<1> DEFINE V == T \o G
<1>2. Len(T) = n /\ Len(G) = m
  BY <1>1
<1>3. /\ V \in Seq(S) /\ Len(V) = n + m
      /\ \A h \in 1 .. n : V[h] = T[h]
      /\ \A k \in 1 .. m : V[n + k] = G[k]
  BY <1>1, <1>2
<1> HIDE DEF V
<1> DEFINE U == V \o <<t>>
<1>4. /\ U \in Seq(S) /\ Len(U) = n + m + 1
      /\ \A h \in 1 .. n + m : U[h] = V[h]
      /\ U[n + m + 1] = t
  BY <1>1, <1>3
<1>5. \A h \in 1 .. n : h \in 1 .. n + m
  OBVIOUS
<1>6. \A k \in 1 .. m : n + k \in 1 .. n + m
  OBVIOUS
<1>7. U = T \o G \o <<t>>
  BY DEF V
<1> HIDE DEF U
<1>8. DOMAIN U = 1 .. n + m + 1 /\ U = [h \in DOMAIN U |-> U[h]]
  BY <1>4
<1>9. (\A h \in 1 .. n : U[h] = T[h]) /\ \A k \in 1 .. m : U[n + k] = G[k]
  BY <1>3, <1>4, <1>5, <1>6
<1> QED
  BY <1>4, <1>7, <1>8, <1>9 DEF Longer

\* A sequence with one element appended.
LEMMA LongerByOne ==
  ASSUME NEW T, Shaped(T), NEW t
  PROVE  Longer(T, <<>>, t, Append(T, t))
<1>1. PICK n \in Nat : DOMAIN T = 1 .. n
  BY DEF Shaped
<1>2. T = [h \in DOMAIN T |-> T[h]]
  BY DEF Shaped
<1> DEFINE S == {T[h] : h \in 1 .. n} \cup {t}
<1>3. T \in Seq(S) /\ t \in S
  <2>1. \A h \in 1 .. n : T[h] \in S
    OBVIOUS
  <2>2. t \in S
    OBVIOUS
  <2> HIDE DEF S
  <2> QED
    BY <1>1, <1>2, <2>1, <2>2
<1> HIDE DEF S
<1>4. Len(T) = n
  BY <1>1, <1>3
<1> DEFINE U == Append(T, t)
<1>5. /\ U \in Seq(S) /\ Len(U) = n + 1 /\ U[n + 1] = t
      /\ \A h \in 1 .. n : U[h] = T[h]
  BY <1>3, <1>4
<1> HIDE DEF U
<1>6. DOMAIN U = 1 .. n + 1 /\ U = [h \in DOMAIN U |-> U[h]]
  BY <1>5
<1>7. /\ 0 \in Nat /\ n + 0 + 1 = n + 1
      /\ \A G : G = <<>> => DOMAIN G = 1 .. 0
      /\ \A k : k \notin 1 .. 0
  OBVIOUS
<1>8. Longer(T, <<>>, t, U)
  <2>1. PICK G : G = <<>>
    OBVIOUS
  <2>2. DOMAIN G = 1 .. 0
    BY <1>7, <2>1
  <2>3. Longer(T, G, t, U)
    BY <1>1, <1>5, <1>6, <1>7, <2>2 DEF Longer
  <2> QED
    BY <2>1, <2>3
<1> QED
  BY <1>8 DEF U

\* What process_die adds: the tags of annotations, then the one of the DIE.
Added(t) ==
    /\ Tag(t, Die.off, Die.tag, stack[1].walk, Space)
    /\ \E G : /\ \A k \in DOMAIN G : AnnotTag(G[k])
              /\ Longer(tags, G, t, tags')

\* Processing a DIE makes no tag, or its own after those of its annotations.
LEMMA TagsMade ==
  ASSUME IInv, process_die
  PROVE  UNCHANGED tags \/ \E t : Added(t)
<1> DEFINE k == stack[1].die
           fate == Fates(Unit.dies)[k]
           id == Len(TableOf(Die.tag))
           list == ListOf(Unit.dies)[k]
           gcc == IF Die.tag = "pointer" /\ LlvmAnnots(Die) = <<>>
                     /\ "type_tag" \notin file.ignore
                  THEN PointerAnnots(Die, id) ELSE <<>>
           llvm == IF Die.tag = "pointer" THEN LlvmAnnots(Die) ELSE <<>>
           n == Len(tags)
           own == [a \in DOMAIN gcc |-> n + a]
           base == NewTag(Die, list, "table", id + Len(gcc))
           t == [base EXCEPT !.annots = llvm \o own]
<1>1. \/ UNCHANGED tags
      \/ tags' = Append(tags, NewTag(Die, list, "none", 0))
      \/ tags' = Append(tags, NewTag(Die, list, "table", id))
      \/ tags' = tags \o gcc \o <<t>>
  BY DEF process_die
<1>2. Shaped(tags)
  BY DEF IInv, TypeInv
<1>3. ASSUME NEW u, tags' = Append(tags, u), Tag(u, Die.off, Die.tag, stack[1].walk, Space)
      PROVE  Added(u)
  <2>1. PICK G : G = <<>>
    OBVIOUS
  <2>2. \A a : a \notin DOMAIN G
    BY <2>1
  <2>3. Longer(tags, G, u, tags')
    BY <1>2, <1>3, <2>1, LongerByOne
  <2> QED
    BY <1>3, <2>2, <2>3 DEF Added
<1>4. CASE tags' = Append(tags, NewTag(Die, list, "none", 0))
  <2> HIDE DEF list
  <2> QED
    BY <1>3, <1>4, NewTagIsTag
<1>5. CASE tags' = Append(tags, NewTag(Die, list, "table", id))
  <2> HIDE DEF list, id
  <2> QED
    BY <1>3, <1>5, NewTagIsTag
<1>6. CASE tags' = tags \o gcc \o <<t>>
  <2>1. PICK G : G = gcc
    OBVIOUS
  <2>2. \E m \in Nat : /\ DOMAIN G = 1 .. m /\ G = [a \in DOMAIN G |-> G[a]]
                       /\ \A a \in DOMAIN G : AnnotTag(G[a])
    <3>1. CASE G = <<>>
      <4>1. 0 \in Nat /\ DOMAIN G = 1 .. 0 /\ G = [a \in DOMAIN G |-> G[a]] /\ \A a : a \notin DOMAIN G
        BY <3>1
      <4> QED
        BY <4>1, Zenon
    <3>2. CASE G # <<>>
      <4>1. Die.tag = "pointer" /\ G = PointerAnnots(Die, id)
        BY <2>1, <3>2
      <4>2. stack # <<>> /\ stack[1].die <= Len(Unit.dies)
        BY DEF process_die
      <4> HIDE DEF id
      <4>3. PICK m \in Nat : /\ DOMAIN G = 1 .. m /\ G = [a \in 1 .. m |-> G[a]]
                             /\ \A a \in 1 .. m : AnnotTag(G[a])
        BY <4>1, <4>2, PointerAnnotsAreAnnots
      <4> QED
        BY <4>3
    <3> QED
      BY <3>1, <3>2
  <2>3. Tag(t, Die.off, Die.tag, stack[1].walk, Space)
    <3>1. Tag(base, Die.off, Die.tag, stack[1].walk, Space)
      <4> HIDE DEF list, id, gcc
      <4> QED
        BY NewTagIsTag
    <3> HIDE DEF base, llvm, own
    <3> QED
      BY <3>1, AnnotsSetIsTag
  <2>4. tags' = tags \o G \o <<t>>
    BY <1>6, <2>1
  <2> HIDE DEF t, gcc
  <2>5. Longer(tags, G, t, tags \o G \o <<t>>)
    BY <1>2, <2>2, LongerBy DEF Shaped
  <2> QED
    BY <2>2, <2>3, <2>4, <2>5 DEF Added
<1> QED
  <2> HIDE DEF t, gcc, list, id
  <2> QED
    BY <1>1, <1>4, <1>5, <1>6

\* The tags after a step that adds one for the DIE.
LEMMA TagsAfter ==
  ASSUME IInv, NEW t, Added(t)
  PROVE  /\ Shaped(tags')
         /\ \E n, z \in Nat :
              /\ DOMAIN tags = 1 .. n /\ z \notin 1 .. n /\ z \in DOMAIN tags'
              /\ tags'[z] = t
              /\ \A h \in 1 .. n : h \in DOMAIN tags' /\ tags'[h] = tags[h]
              /\ \A h \in DOMAIN tags' : h \in 1 .. n \/ h = z \/ AnnotTag(tags'[h])
<1>1. PICK G : (\A k \in DOMAIN G : AnnotTag(G[k])) /\ Longer(tags, G, t, tags')
  BY DEF Added
<1>2. PICK n \in Nat, m \in Nat :
        /\ DOMAIN tags = 1 .. n /\ DOMAIN G = 1 .. m /\ DOMAIN tags' = 1 .. n + m + 1
        /\ tags' = [h \in DOMAIN tags' |-> tags'[h]]
        /\ \A h \in 1 .. n : tags'[h] = tags[h]
        /\ \A k \in 1 .. m : tags'[n + k] = G[k]
        /\ tags'[n + m + 1] = t
  BY <1>1 DEF Longer
<1> DEFINE z == n + m + 1
<1>3. z \in Nat /\ z \notin 1 .. n /\ z \in 1 .. n + m + 1 /\ \A h \in 1 .. n : h \in 1 .. n + m + 1
  OBVIOUS
<1>4. ASSUME NEW h \in 1 .. n + m + 1, h \notin 1 .. n, h # z PROVE AnnotTag(tags'[h])
  <2>1. h - n \in 1 .. m /\ n + (h - n) = h
    BY <1>4
  <2>2. tags'[h] = G[h - n]
    BY <1>2, <2>1
  <2> QED
    BY <1>1, <1>2, <2>1, <2>2
<1>5. Shaped(tags')
  <2>1. \A h \in 1 .. n : tags[h] = [x \in DOMAIN tags[h] |-> tags[h][x]] /\ Marks \subseteq DOMAIN tags[h]
    BY <1>2 DEF IInv, TypeInv, Shaped
  <2>2. t = [x \in DOMAIN t |-> t[x]] /\ Marks \subseteq DOMAIN t
    BY DEF Added, Tag
  <2>3. \A h \in 1 .. n + m + 1 : /\ tags'[h] = [x \in DOMAIN tags'[h] |-> tags'[h][x]]
                                  /\ Marks \subseteq DOMAIN tags'[h]
    <3> TAKE h \in 1 .. n + m + 1
    <3>1. CASE h \in 1 .. n
      BY <1>2, <2>1, <3>1
    <3>2. CASE h = z
      BY <1>2, <2>2, <3>2
    <3>3. CASE h \notin 1 .. n /\ h # z
      BY <1>4, <3>3 DEF AnnotTag
    <3> QED
      BY <3>1, <3>2, <3>3
  <2>4. n + m + 1 \in Nat
    OBVIOUS
  <2> QED
    BY <1>2, <2>3, <2>4 DEF Shaped
<1> QED
  <2>1. tags'[z] = t
    BY <1>2
  <2> HIDE DEF z
  <2> QED
    BY <1>2, <1>3, <1>4, <1>5, <2>1

(* A DIE that becomes a tag was not one in the walk of its unit: that walk had
   not come to it. *)
LEMMA DieTagged ==
  ASSUME IInv, process_die, NEW t, Added(t)
  PROVE  IInv'
<1>1. /\ stack # <<>> /\ stack[1].die <= Len(Unit.dies) /\ ~IsImport(Die) /\ stack' = Advanced
      /\ UNCHANGED <<file, pc, next, walks, imported, processing_alt>>
  BY DEF process_die
<1>2. /\ Ahead(stack, stack') /\ 1 \in DOMAIN stack /\ stack'[1].die = stack[1].die + 1
  BY <1>1, AdvancedFacts DEF IInv
<1>3. /\ Shaped(tags')
      /\ \E n, z \in Nat :
           /\ DOMAIN tags = 1 .. n /\ z \notin 1 .. n /\ z \in DOMAIN tags'
           /\ tags'[z] = t
           /\ \A h \in 1 .. n : h \in DOMAIN tags' /\ tags'[h] = tags[h]
           /\ \A h \in DOMAIN tags' : h \in 1 .. n \/ h = z \/ AnnotTag(tags'[h])
  BY TagsAfter
<1>4. PICK n \in Nat, z \in Nat :
        /\ DOMAIN tags = 1 .. n /\ z \notin 1 .. n /\ z \in DOMAIN tags'
        /\ tags'[z] = t
        /\ \A h \in 1 .. n : h \in DOMAIN tags' /\ tags'[h] = tags[h]
        /\ \A h \in DOMAIN tags' : h \in 1 .. n \/ h = z \/ AnnotTag(tags'[h])
  BY <1>3
<1>5. PICK W : WalkInv(W) /\ TagInv(W)
  BY DEF IInv
<1> DEFINE u == stack[1].unit
           p == stack[1].die
           w == stack[1].walk
<1>6. /\ stack[1].space = pc /\ pc \in Spaces /\ Space = pc
      /\ u \in DOMAIN UnitsIn(file, pc) /\ p \in DOMAIN Dies(pc, u)
      /\ Die = Dies(pc, u)[p]
  BY <1>1, CurrentDie DEF Space, IInv, PhaseInv, Spaces
<1>7. t.die = Die.off /\ t.tag = Die.tag /\ t.walk = w /\ t.space = pc
  BY <1>6 DEF Added, Tag
<1>8. w \in 1 .. walks /\ W[w].space = pc /\ W[w].unit = u
  BY <1>2, <1>5, <1>6 DEF WalkInv, IInv, PhaseInv
<1>9. \A j \in DOMAIN stack : stack[j].die \in Nat /\ stack'[j].die \in Nat
  BY <1>2, AheadDies DEF IInv
<1>10. DOMAIN stack' = DOMAIN stack /\ \A j \in DOMAIN stack : /\ stack'[j].walk = stack[j].walk
                                                               /\ stack[j].die <= stack'[j].die
  BY <1>2 DEF Ahead
<1>11. TypeInv'
  BY <1>1, <1>2, <1>3 DEF IInv, TypeInv, Ahead
<1>12. PhaseInv'
  <2>1. stack' # <<>> => stack # <<>>
    BY <1>1
  <2> QED
    BY <1>1, <1>2, <2>1 DEF IInv, PhaseInv, Ahead
<1>13. WalkInv(W)'
  BY <1>1, <1>2, <1>5 DEF WalkInv, Ahead
<1>14. AnnotInv'
  <2> SUFFICES ASSUME NEW h \in DOMAIN tags', tags'[h].tag = "annot"
               PROVE  tags'[h].space \in Spaces /\ OnlyAnnots(tags'[h].space, tags'[h].die)
    BY <1>1 DEF AnnotInv, OnlyAnnots, Dies
  <2>1. CASE h \in 1 .. n
    BY <1>4, <2>1 DEF IInv, AnnotInv
  <2>2. CASE h = z
    <3>1. Die.tag = "annot"
      BY <1>4, <1>7, <2>2
    <3>2. OnlyAnnots(pc, Die.off)
      BY <1>1, <1>6, <3>1, SameDie DEF OnlyAnnots, IInv
    <3> QED
      BY <1>4, <1>6, <1>7, <2>2, <3>2
  <2>3. CASE AnnotTag(tags'[h])
    BY <2>3 DEF AnnotTag
  <2> QED
    BY <1>4, <2>1, <2>2, <2>3
<1>15. ASSUME NEW g \in DOMAIN tags', tags'[g].tag # "annot", g # z
       PROVE  g \in DOMAIN tags /\ tags'[g] = tags[g]
  BY <1>4, <1>15 DEF AnnotTag
<1>16. ASSUME NEW h \in DOMAIN tags', tags'[h].tag # "annot"
       PROVE  /\ tags'[h].walk \in 1 .. walks
              /\ W[tags'[h].walk].space = tags'[h].space
              /\ \E k \in DOMAIN Dies(tags'[h].space, W[tags'[h].walk].unit) :
                   /\ IsOfDie(tags'[h], Dies(tags'[h].space, W[tags'[h].walk].unit)[k])
                   /\ \A j \in DOMAIN stack' : stack'[j].walk = tags'[h].walk => k < stack'[j].die
  <2>1. CASE h = z
    <3>1. ASSUME NEW j \in DOMAIN stack', stack'[j].walk = w PROVE p < stack'[j].die
      <4>1. j = 1
        BY <1>2, <1>10, <3>1 DEF IInv, PhaseInv
      <4> QED
        BY <1>2, <1>9, <4>1
    <3>2. IsOfDie(t, Dies(pc, u)[p])
      BY <1>1, <1>6, <1>7 DEF IsOfDie
    <3> HIDE DEF u, p, w
    <3> QED
      BY <1>4, <1>6, <1>7, <1>8, <2>1, <3>1, <3>2
  <2>2. CASE h # z
    <3>1. h \in DOMAIN tags /\ tags'[h] = tags[h]
      BY <1>15, <1>16, <2>2
    <3>2. tags[h].walk \in 1 .. walks /\ W[tags[h].walk].space = tags[h].space
      BY <1>5, <1>16, <3>1 DEF TagInv
    <3> DEFINE D == Dies(tags[h].space, W[tags[h].walk].unit)
    <3>3. PICK k \in DOMAIN D :
             /\ IsOfDie(tags[h], D[k])
             /\ \A j \in DOMAIN stack : stack[j].walk = tags[h].walk => k < stack[j].die
      BY <1>5, <1>16, <3>1 DEF TagInv
    <3>4. k \in Nat
      BY <1>5, <3>2, DieIndexes DEF IInv
    <3>5. \A j \in DOMAIN stack' : stack'[j].walk = tags[h].walk => k < stack'[j].die
      BY <1>9, <1>10, <3>3, <3>4
    <3> QED
      BY <3>1, <3>2, <3>3, <3>5
  <2> QED
    BY <2>1, <2>2
<1>17. ASSUME NEW g \in DOMAIN tags, tags[g].tag # "annot", Die.tag # "annot",
              tags[g].walk = w, tags[g].die = Die.off
       PROVE  FALSE
  <2>1. tags[g].space = pc
    BY <1>5, <1>8, <1>17 DEF TagInv
  <2>2. PICK k \in DOMAIN Dies(pc, u) : IsOfDie(tags[g], Dies(pc, u)[k]) /\ k < p
    BY <1>2, <1>5, <1>8, <1>17, <2>1 DEF TagInv
  <2>3. k = p
    <3>1. Dies(pc, u)[k].off = Dies(pc, u)[p].off /\ ~IsImport(Dies(pc, u)[k]) /\ ~IsImport(Dies(pc, u)[p])
      BY <1>1, <1>6, <1>17, <2>2 DEF IsOfDie
    <3>2. TypeInv
      BY DEF IInv
    <3> HIDE DEF u, p
    <3> QED
      BY <1>6, <2>2, <3>1, <3>2, SameDie
  <2>4. p \in Nat
    BY <1>2, <1>9
  <2> QED
    BY <2>2, <2>3, <2>4
<1>18. ASSUME NEW g \in DOMAIN tags', NEW h \in DOMAIN tags',
              tags'[g].tag # "annot", tags'[h].tag # "annot",
              tags'[g].walk = tags'[h].walk, tags'[g].die = tags'[h].die
       PROVE  g = h
  <2>1. CASE g # z /\ h # z
    BY <1>5, <1>15, <1>18, <2>1 DEF TagInv
  <2>2. CASE g = z /\ h # z
    BY <1>4, <1>7, <1>15, <1>17, <1>18, <2>2
  <2>3. CASE g # z /\ h = z
    BY <1>4, <1>7, <1>15, <1>17, <1>18, <2>3
  <2> QED
    BY <2>1, <2>2, <2>3
<1>19. TagInv(W)'
  <2>1. file' = file /\ walks' = walks
    BY <1>1
  <2> QED
    BY <1>16, <1>18, <2>1 DEF TagInv, Dies
<1> QED
  BY <1>5, <1>11, <1>12, <1>13, <1>14, <1>19 DEF IInv

\* process_die: with or without a tag, the walk goes on behind the DIE.
LEMMA ProcessDie == ASSUME IInv, process_die PROVE IInv'
<1>1. CASE UNCHANGED tags
  <2>1. /\ stack # <<>> /\ stack' = Advanced
        /\ UNCHANGED <<file, pc, next, walks, imported, processing_alt>>
    BY DEF process_die
  <2>2. Ahead(stack, stack') /\ next \in Nat
    BY <2>1, AdvancedFacts DEF IInv, TypeInv
  <2> QED
    BY <1>1, <2>1, <2>2, MovedOn
<1>2. CASE \E t : Added(t)
  BY <1>2, DieTagged
<1> QED
  BY <1>1, <1>2, TagsMade

\* prune_unreferenced_alt_pus: a tag that is pruned is only marked dead.
LEMMA PruneUnreferencedAltPus == ASSUME IInv, prune_unreferenced_alt_pus PROVE IInv'
<1>1. /\ pc = "prune" /\ pc' \in {"crash", "types"}
      /\ UNCHANGED <<file, stack, next, walks, imported, processing_alt>>
  BY DEF prune_unreferenced_alt_pus
<1>2. Shaped(tags)
  BY DEF IInv, TypeInv
<1>3. Keeps(tags, tags')
  <2>1. CASE UNCHANGED tags
    BY <1>2, <2>1, KeepsItself
  <2>2. CASE tags' = [h \in DOMAIN tags |-> [tags[h] EXCEPT !.live = @ /\ ~Pruned(h)]]
    BY <1>2, <2>2 DEF Keeps, Shaped, Marks
  <2> QED
    BY <2>1, <2>2 DEF prune_unreferenced_alt_pus
<1> QED
  BY <1>1, <1>3, TagsKept

\* recode_entry: recoding keeps the tags.
LEMMA RecodeEntry == ASSUME IInv, recode_entry PROVE IInv'
<1>1. /\ pc \in {"types", "tags", "functions"}
      /\ UNCHANGED <<file, pc, stack, next, walks, imported, processing_alt>>
      /\ tags' = tags \/ \E h : tags' = tag__recode_dwarf_type(tags, h)
  BY DEF recode_entry
<1>2. Keeps(tags, tags')
  BY <1>1, KeepsItself, RecodeKeeps DEF IInv, TypeInv
<1> QED
  BY <1>1, <1>2, TagsKept

\* table_recoded: the next table is taken.
LEMMA TableRecoded == ASSUME IInv, table_recoded PROVE IInv'
<1>1. /\ pc \in {"types", "tags", "functions"} /\ pc' \in {"tags", "functions", "resolve"}
      /\ UNCHANGED <<file, stack, next, walks, imported, processing_alt, tags>>
  BY DEF table_recoded
<1>2. Keeps(tags, tags')
  <2>1. Keeps(tags, tags)
    BY KeepsItself DEF IInv, TypeInv
  <2> QED
    BY <1>1, <2>1
<1> QED
  BY <1>1, <1>2, TagsKept

\* resolve_function: the type of a function is set.
LEMMA ResolveFunction == ASSUME IInv, resolve_function PROVE IInv'
<1>1. /\ pc = "resolve" /\ pc' \in {"resolve", "abort"}
      /\ UNCHANGED <<file, stack, next, walks, imported, processing_alt>>
      /\ tags' = tags \/ \E h, id : tags' = SetType(tags, h, id)
  BY DEF resolve_function, resolve_func_ret_type
<1>2. Keeps(tags, tags')
  <2>1. Shaped(tags)
    BY DEF IInv, TypeInv
  <2>2. \A h, id : Keeps(tags, SetType(tags, h, id))
    BY <2>1, KeepsItself, TypeSetKeeps, Zenon DEF SetType
  <2> QED
    BY <1>1, <2>1, <2>2, KeepsItself
<1> QED
  BY <1>1, <1>2, TagsKept

\* functions_resolved: the CU is finished.
LEMMA FunctionsResolved == ASSUME IInv, functions_resolved PROVE IInv'
<1>1. /\ pc = "resolve" /\ pc' = "done"
      /\ UNCHANGED <<file, stack, next, walks, imported, processing_alt, tags>>
  BY DEF functions_resolved
<1>2. Keeps(tags, tags')
  <2>1. Keeps(tags, tags)
    BY KeepsItself DEF IInv, TypeInv
  <2> QED
    BY <1>1, <2>1
<1> QED
  BY <1>1, <1>2, TagsKept

\* Stuttering.
LEMMA NothingDone == ASSUME IInv, UNCHANGED vars PROVE IInv'
<1>1. UNCHANGED <<file, pc, stack, next, walks, imported, processing_alt, tags>>
  BY DEF vars
<1>2. Ahead(stack, stack') /\ next \in Nat
  BY <1>1, StaysAhead DEF IInv, TypeInv
<1> QED
  BY <1>1, <1>2, MovedOn

(* The invariant: the walks of units are apart - one of a unit from its file and,
   if it is partial, one for all its imports (die__process_unit(),
   die__process_imported_unit()) - and a tag is the one of its DIE in its walk. *)
THEOREM WalksAreApart == Spec => []IInv
<1>1. Init => IInv
  BY InitHolds
<1>2. IInv /\ [Next]_vars => IInv'
  BY AddAltPus, NextUnit, UnitsEnd, UnitWalked, ImportUnit, ProcessDie,
     PruneUnreferencedAltPus, RecodeEntry, TableRecoded, ResolveFunction,
     FunctionsResolved, NothingDone DEF Next
<1> QED
  BY <1>1, <1>2, PTL DEF Spec

(* A DIE becomes a tag at most twice, however its unit is imported: directly,
   through other partial units, or by units that import each other. *)
THEOREM ImportsAreOnce == Spec => []ImportedOnce
BY WalksAreApart, OnceInIInv, PTL

=============================================================================
