---------------------------- MODULE PaholeProofs ----------------------------
(***************************************************************************)
(* pahole for any number of files and CUs, whatever is in them, and any    *)
(* command line: what is printed after the stealer answered for a CU is in *)
(* CUs that were not given back, pretty printing has what it needs, and an *)
(* encoding whose last step failed is no success.                          *)
(***************************************************************************)
EXTENDS Pahole, FiniteSetTheorems, TLAPS

(* The folds of the model, unfolded by FoldLemmas. *)

print_class(S, class) == PrintClass(S, class, CuId)
Printing == INSTANCE FoldLemmas WITH op <- print_class
account_parameter(S, k) == AccountParameter(S, Cu.types[k], CuId)
Accounting == INSTANCE FoldLemmas WITH op <- account_parameter
steal_prototype(S, p) == StealPrototype(S, p, Cu, CuId, HeaderVerdict)
Solving == INSTANCE FoldLemmas WITH op <- steal_prototype

(* What a comparison reads behind the members of a class is one of three. *)
resort_less(resorted, str) == resort_add(-1, resorted, str)
Less == INSTANCE FoldLemmas WITH op <- resort_less
resort_same(resorted, str) == resort_add(0, resorted, str)
Same == INSTANCE FoldLemmas WITH op <- resort_same
resort_more(resorted, str) == resort_add(1, resorted, str)
More == INSTANCE FoldLemmas WITH op <- resort_more

-----------------------------------------------------------------------------
(* The inductive invariant *)

\* The options, and where the load is.
FlowInv ==
    /\ inv \in OptionsType
    /\ argv \in Seq(FileType)
    /\ class_name \in Seq(NameType)
    /\ at \in Nat \X Nat /\ at[2] # 0
    /\ pc \in {"load", "pretty"} => IF argv = <<>> THEN at[1] = 1 ELSE at[1] \in 1 .. Len(argv)
    /\ pc \in {"names", "load", "pretty", "loaded", "exit", "crash"}
    /\ rc # "none" => pc = "exit"

\* A CU that the stealer was called with comes before the one the load is at,
\* also when the running kernel is loaded after the files.
Passed(id) ==
    IF id[1] = 0 THEN argv = <<>> /\ pc # "names" /\ (pc \in {"load", "pretty"} => id[2] < at[2])
    ELSE \/ argv = <<>>
         \/ pc \in {"loaded", "exit", "crash"}
         \/ pc # "names" /\ (id[1] < at[1] \/ (id[1] = at[1] /\ id[2] < at[2]))

StolenInv ==
    /\ stolen \in Seq(Nat \X Nat)
    /\ \A k \in DOMAIN stolen : Passed(stolen[k])
    /\ freed \subseteq ToSet(stolen)

\* The CUs that were met and not given back.
Live == (ToSet(stolen) \cup (IF pc \in {"pretty", "crash"} THEN {CuId} ELSE {})) \ freed

HeaderInv ==
    /\ DOMAIN header = {"found", "cu", "read_already", "bytes"}
    /\ header.found \in BOOLEAN
    /\ inv.mode = "prettify" /\ header.found => header.cu \in Live

\* The tree and the list that will be printed in order.
Entry(ids) == [class : ClassType, cu : ids, nr_files : Nat, nr_methods : Nat]
SortedInv ==
    CanSort /\ class_name = <<>> /\ inv.stats # "methods" =>
        tree \in Seq(Entry(Live)) /\ list \in Seq(Entry(Live))

\* An entry of class_names, before and after its class is found.
Prototype ==
    [name : Nat, bad : BOOLEAN, nr_args : BOOLEAN, size : BOOLEAN, type : BOOLEAN,
     type_enum : Seq(SUBSET Nat), filter : Nat, range : Nat,
     class : Seq(ClassType), cu : Nat \X Nat, cutypes : Seq(ClassType),
     enums : SUBSET SUBSET Nat, resolved : BOOLEAN]
Found(p) == p.class # NoClass

ProtosInv ==
    /\ pc = "names" \/ class_name = <<>> => protos = <<>>
    /\ inv.mode = "prettify" =>
         /\ protos \in Seq(Prototype)
         /\ Len(protos) <= Len(class_name)
         /\ Len(class_name) <= 1 =>
              \A k \in DOMAIN protos : Found(protos[k]) => protos[k].cu \in Live

\* What pretty printing starts with it keeps.
SolvedInv ==
    /\ pc = "pretty" =>
         /\ inv.mode = "prettify" /\ class_name # <<>>
         /\ inv.header_type # 0 => header.found
         /\ \A k \in DOMAIN protos : ~NeedsEnum(protos[k])
         /\ inv.skip_missing \/ \A k \in DOMAIN protos : Found(protos[k])
         /\ pretty \in {"records", "next", "failed"} => protos # <<>>
    /\ pretty # "off" => pc \in {"pretty", "crash"}
    /\ pc = "crash" => inv.skip_missing

PaholeInv ==
    /\ FlowInv /\ StolenInv /\ HeaderInv /\ SortedInv /\ ProtosInv /\ SolvedInv
    /\ UsesLiveCus /\ EncodedOnSuccess

-----------------------------------------------------------------------------
(* Sequences *)

\* The elements of a sequence with one more.
LEMMA AppendSet ==
  ASSUME NEW S, NEW s \in Seq(S), NEW e \in S
  PROVE  /\ Append(s, e) \in Seq(S)
         /\ ToSet(Append(s, e)) = ToSet(s) \cup {e}
<1> DEFINE t == Append(s, e)
<1>1. t \in Seq(S) /\ Len(t) = Len(s) + 1 /\ t[Len(s) + 1] = e /\ Len(s) \in Nat
      /\ \A k \in 1 .. Len(s) : t[k] = s[k]
  OBVIOUS
<1>2. DOMAIN t = 1 .. Len(s) + 1 /\ DOMAIN s = 1 .. Len(s)
  BY <1>1
<1> HIDE DEF t
<1>3. ASSUME NEW x \in ToSet(t) PROVE x \in ToSet(s) \cup {e}
  BY <1>1, <1>2 DEF ToSet
<1>4. ASSUME NEW x \in ToSet(s) \cup {e} PROVE x \in ToSet(t)
  BY <1>1, <1>2 DEF ToSet
<1>5. ToSet(t) = ToSet(s) \cup {e}
  BY <1>3, <1>4
<1> QED
  BY <1>1, <1>5 DEF t

-----------------------------------------------------------------------------
(* The load *)

\* The file and the CU that the load is at are of their types.
LEMMA FileFacts ==
  ASSUME FlowInv, pc \in {"load", "pretty"}
  PROVE  /\ File \in FileType
         /\ CuId \in Nat \X Nat
         /\ CuId = IF argv = <<>> THEN <<0, at[2]>> ELSE at
         /\ at[1] \in Nat /\ at[2] \in Nat \ {0} /\ at[1] # 0 /\ at = <<at[1], at[2]>>
<1>1. at[1] \in Nat /\ at[2] \in Nat \ {0} /\ at = <<at[1], at[2]>>
  BY DEF FlowInv
<1>2. CuId = IF argv = <<>> THEN <<0, at[2]>> ELSE at
  BY DEF CuId, Kernel
<1>3. CuId \in Nat \X Nat
  BY <1>1, <1>2
<1>4. CASE argv = <<>>
  BY <1>1, <1>2, <1>3, <1>4 DEF FlowInv, File, Kernel, OptionsType
<1>5. CASE argv # <<>>
  BY <1>1, <1>2, <1>3, <1>5 DEF FlowInv, File, Kernel
<1> QED
  BY <1>4, <1>5

\* The CU that the stealer is called with.
LEMMA CuFacts ==
  ASSUME FlowInv, Stealing
  PROVE  /\ Cu \in CuType /\ Cu.types \in Seq(ClassType) /\ Cu.fns \in Seq(Seq(Nat))
         /\ pc = "load"
<1>1. pc = "load" /\ File \in FileType /\ at[2] \in Nat \ {0} /\ at[2] <= Len(File.cus)
  BY FileFacts DEF Stealing
<1>2. File.cus \in Seq(CuType)
  BY <1>1 DEF FileType
<1>3. Cu \in CuType
  BY <1>1, <1>2 DEF Cu
<1> QED
  BY <1>1, <1>3 DEF CuType

\* A CU is met once.
LEMMA NotStolen ==
  ASSUME FlowInv, StolenInv, pc \in {"load", "pretty"}
  PROVE  CuId \notin ToSet(stolen) /\ CuId \notin freed
<1>1. \A k \in DOMAIN stolen : stolen[k] # CuId
  <2> SUFFICES ASSUME NEW k \in DOMAIN stolen, stolen[k] = CuId PROVE FALSE
    OBVIOUS
  <2>1. Passed(CuId)
    BY DEF StolenInv
  <2>2. CASE argv = <<>>
    BY <2>1, <2>2, FileFacts DEF Passed
  <2>3. CASE argv # <<>>
    BY <2>1, <2>3, FileFacts DEF Passed
  <2> QED
    BY <2>2, <2>3
<1> QED
  BY <1>1 DEF StolenInv, ToSet

\* What the answer for a CU changes: the load goes on or ends, the CUs that were
\* not given back stay, and the CU is one of them unless it is given back.
LEMMA Answered ==
  ASSUME FlowInv, StolenInv, pc \in {"load", "pretty"},
         NEW verdict, Answer(verdict),
         UNCHANGED <<inv, argv, class_name, rc>>,
         pc = "pretty" => verdict # "DELETE"
  PROVE  /\ FlowInv' /\ StolenInv'
         /\ pc' \in {"load", "loaded"}
         /\ Live \subseteq Live'
         /\ verdict # "DELETE" => CuId \in Live'
<1>1. pc' \in {"load", "loaded"}
  BY DEF Answer, AfterFile
<1> DEFINE next == verdict \in {"DELETE", "KEEPIT"}
<1>2. /\ next => at' = <<at[1], at[2] + 1>> /\ pc' = "load"
      /\ ~next => at' = <<at[1] + 1, 1>> /\ (pc' = "load" => argv # <<>> /\ at[1] # Len(argv))
  <2>1. CASE next
    BY <2>1 DEF Answer
  <2>2. CASE ~next
    <3>1. at' = <<at[1] + 1, 1>> /\ pc' = IF err' # 0 THEN "loaded" ELSE AfterFile
      BY <2>2 DEF Answer
    <3> QED
      BY <2>2, <3>1 DEF AfterFile, Kernel
  <2> QED
    BY <2>1, <2>2
<1>3. at[1] \in Nat /\ at[2] \in Nat \ {0} /\ at[1] # 0 /\ at = <<at[1], at[2]>>
  BY FileFacts
<1>4. FlowInv'
  <2>1. at' \in Nat \X Nat /\ at'[2] # 0
    BY <1>2, <1>3
  <2>2. pc' \in {"load", "pretty"} => IF argv = <<>> THEN at'[1] = 1 ELSE at'[1] \in 1 .. Len(argv)
    <3>1. argv \in Seq(FileType) /\ IF argv = <<>> THEN at[1] = 1 ELSE at[1] \in 1 .. Len(argv)
      BY DEF FlowInv
    <3>2. Len(argv) \in Nat
      BY <3>1
    <3> QED
      BY <1>1, <1>2, <1>3, <3>1, <3>2
  <2> QED
    BY <1>1, <2>1, <2>2 DEF FlowInv
<1>5. stolen' = Append(stolen, CuId) /\ stolen \in Seq(Nat \X Nat) /\ CuId \in Nat \X Nat
  BY FileFacts DEF Answer, StolenInv
<1>6. stolen' \in Seq(Nat \X Nat) /\ ToSet(stolen') = ToSet(stolen) \cup {CuId}
  BY <1>5, AppendSet
<1>7. freed' = freed \/ (freed' = freed \cup {CuId} /\ verdict = "DELETE")
  BY DEF Answer
<1>8. \A id \in ToSet(stolen') : Passed(id)'
  <2> SUFFICES ASSUME NEW id \in ToSet(stolen') PROVE Passed(id)'
    OBVIOUS
  <2>1. id \in Nat \X Nat /\ id[1] \in Nat /\ id[2] \in Nat
    BY <1>6 DEF ToSet
  <2>2. CASE id = CuId
    <3>1. CuId = IF argv = <<>> THEN <<0, at[2]>> ELSE at
      BY FileFacts
    <3> QED
      BY <1>1, <1>2, <1>3, <2>2, <3>1 DEF Passed
  <2>3. CASE id \in ToSet(stolen)
    <3>1. Passed(id)
      BY <2>3 DEF StolenInv, ToSet
    <3>2. CASE id[1] = 0
      <4>1. argv = <<>> /\ id[2] < at[2]
        BY <3>1, <3>2 DEF Passed
      <4> QED
        BY <1>1, <1>2, <1>3, <2>1, <3>2, <4>1 DEF Passed
    <3>3. CASE id[1] # 0
      <4>1. argv = <<>> \/ id[1] < at[1] \/ (id[1] = at[1] /\ id[2] < at[2])
        BY <3>1, <3>3 DEF Passed
      <4> QED
        BY <1>1, <1>2, <1>3, <2>1, <3>3, <4>1 DEF Passed
    <3> QED
      BY <3>2, <3>3
  <2> QED
    BY <1>6, <2>2, <2>3
<1>9. StolenInv'
  <2>1. freed' \subseteq ToSet(stolen')
    BY <1>6, <1>7 DEF StolenInv
  <2>2. \A k \in DOMAIN stolen' : stolen'[k] \in ToSet(stolen')
    BY DEF ToSet
  <2> QED
    BY <1>6, <1>8, <2>1, <2>2 DEF StolenInv
<1>10. CuId \notin ToSet(stolen) /\ CuId \notin freed
  BY NotStolen
<1>11. Live' = ToSet(stolen') \ freed'
  BY <1>1 DEF Live
<1>12. Live \subseteq Live'
  BY <1>6, <1>7, <1>10, <1>11 DEF Live
<1>13. verdict # "DELETE" => CuId \in Live'
  BY <1>6, <1>7, <1>10, <1>11
<1> QED
  BY <1>1, <1>4, <1>9, <1>12, <1>13
-----------------------------------------------------------------------------
(* The set of structures *)

\* What the stealer works on, with the prototypes as they were.
Kept(S) ==
    /\ DOMAIN S = {"tree", "list", "resort", "out", "protos", "verdict", "dump"}
    /\ S.protos = protos

\* All entries of the tree and of the list come from CUs of a set.
Sorted(S, ids) == S.tree \in Seq(Entry(ids)) /\ S.list \in Seq(Entry(ids))

\* A class is put between entries of the tree, or behind the last one.
LEMMA PlaceIn ==
  ASSUME NEW X, NEW t \in Seq(X), NEW class
  PROVE  PlaceOf(t, class) \in 1 .. Len(t) + 1
<1> DEFINE S == {k \in DOMAIN t : type__compare(t[k].class, class) < 0}
<1>1. Len(t) \in Nat /\ DOMAIN t = 1 .. Len(t)
  OBVIOUS
<1>2. IsFiniteSet(1 .. Len(t)) /\ Cardinality(1 .. Len(t)) = Len(t)
  BY <1>1, FS_Interval
<1>3. IsFiniteSet(S) /\ Cardinality(S) <= Len(t) /\ Cardinality(S) \in Nat
  <2>1. S \subseteq 1 .. Len(t)
    BY <1>1
  <2> HIDE DEF S
  <2> QED
    BY <1>2, <2>1, FS_Subset, FS_CardinalityType
<1>4. PlaceOf(t, class) = Cardinality(S) + 1
  BY DEF PlaceOf
<1> QED
  BY <1>1, <1>3, <1>4

\* The place of an equal entry is a place in the tree.
LEMMA EntryIn ==
  ASSUME NEW X, NEW t \in Seq(X), NEW class, EntryOf(t, class) # 0
  PROVE  EntryOf(t, class) \in DOMAIN t
BY DEF EntryOf

\* One element more, in its place.
LEMMA Inserted ==
  ASSUME NEW X, NEW t \in Seq(X), NEW x \in X, NEW n \in 1 .. Len(t) + 1
  PROVE  InsertAt(t, n, x) \in Seq(X)
<1>1. Len(t) \in Nat /\ n \in Nat /\ n >= 1 /\ n <= Len(t) + 1
  OBVIOUS
<1>2. SubSeq(t, 1, n - 1) \in Seq(X) /\ SubSeq(t, n, Len(t)) \in Seq(X)
  BY <1>1
<1> QED
  BY <1>2 DEF InsertAt

\* A structure of a CU is added as an entry of that CU, if it is new.
LEMMA StructuresAdd ==
  ASSUME NEW S, Kept(S), NEW class \in ClassType, NEW cu, NEW n \in Nat
  PROVE  /\ Kept(structures__add(S, class, cu, n))
         /\ \A ids : cu \in ids /\ Sorted(S, ids) => Sorted(structures__add(S, class, cu, n), ids)
<1> DEFINE new == structure__new(class, cu, n)
           T == [S EXCEPT !.tree = InsertAt(@, PlaceOf(@, class), new),
                          !.list = Append(@, new),
                          !.resort = @ \/ Indistinct(S.tree, class)]
<1>1. structures__add(S, class, cu, n) = S \/ structures__add(S, class, cu, n) = T
  BY Zenon DEF structures__add
<1>2. Kept(T)
  BY DEF Kept
<1>3. ASSUME NEW ids, cu \in ids, Sorted(S, ids) PROVE Sorted(T, ids)
  <2>1. new \in Entry(ids)
    BY <1>3 DEF structure__new, Entry
  <2>2. S.tree \in Seq(Entry(ids)) /\ S.list \in Seq(Entry(ids))
    BY <1>3 DEF Sorted
  <2>3. T.tree = InsertAt(S.tree, PlaceOf(S.tree, class), new) /\ T.list = Append(S.list, new)
    BY DEF Kept
  <2> HIDE DEF T, new
  <2>4. PlaceOf(S.tree, class) \in 1 .. Len(S.tree) + 1
    BY <2>2, PlaceIn
  <2>5. InsertAt(S.tree, PlaceOf(S.tree, class), new) \in Seq(Entry(ids))
    BY <2>1, <2>2, <2>4, Inserted
  <2> QED
    BY <2>1, <2>2, <2>3, <2>5 DEF Sorted
<1> HIDE DEF T
<1> QED
  BY <1>1, <1>2, <1>3

\* A class that was seen before is counted in its entry.
LEMMA CountedAgain ==
  ASSUME NEW S, Kept(S), NEW class, EntryOf(S.tree, class) # 0
  PROVE  LET T == [S EXCEPT !.tree[EntryOf(S.tree, class)].nr_files = @ + 1]
         IN Kept(T) /\ \A ids : Sorted(S, ids) => Sorted(T, ids)
<1> DEFINE e == EntryOf(S.tree, class)
           T == [S EXCEPT !.tree[e].nr_files = @ + 1]
<1>1. Kept(T)
  BY DEF Kept
<1>2. ASSUME NEW ids, Sorted(S, ids) PROVE Sorted(T, ids)
  <2>1. S.tree \in Seq(Entry(ids)) /\ S.list \in Seq(Entry(ids))
    BY <1>2 DEF Sorted
  <2>2. e \in DOMAIN S.tree
    BY <2>1, EntryIn
  <2>3. T.tree = [S.tree EXCEPT ![e].nr_files = @ + 1] /\ T.list = S.list
    BY DEF Kept
  <2>4. PICK t : t = S.tree
    OBVIOUS
  <2> HIDE DEF T, e
  <2>5. PICK x : x = t[e]
    OBVIOUS
  <2>6. x \in Entry(ids)
    BY <2>1, <2>2, <2>4, <2>5
  <2>7. [x EXCEPT !.nr_files = x.nr_files + 1] \in Entry(ids)
    BY <2>6 DEF Entry
  <2>8. T.tree = [t EXCEPT ![e] = [x EXCEPT !.nr_files = x.nr_files + 1]]
    BY <2>3, <2>4, <2>5
  <2>9. T.tree \in Seq(Entry(ids))
    BY <2>1, <2>2, <2>4, <2>7, <2>8
  <2> QED
    BY <2>1, <2>3, <2>9 DEF Sorted
<1> QED
  BY <1>1, <1>2

\* What is printed changes nothing else.
LEMMA Emitted ==
  ASSUME NEW S, Kept(S), NEW what, NEW class, NEW cu
  PROVE  /\ Kept(Emit(S, what, class, cu))
         /\ \A ids : Sorted(S, ids) => Sorted(Emit(S, what, class, cu), ids)
BY DEF Emit, Kept, Sorted

\* One class of print_classes().
LEMMA Printed ==
  ASSUME NEW S, Kept(S), NEW class \in ClassType, NEW cu
  PROVE  /\ Kept(PrintClass(S, class, cu))
         /\ \A ids : cu \in ids /\ Sorted(S, ids) => Sorted(PrintClass(S, class, cu), ids)
<1> DEFINE C == [S EXCEPT !.tree[EntryOf(S.tree, class)].nr_files = @ + 1]
           A == structures__add(S, class, cu, 0)
<1>1. \/ PrintClass(S, class, cu) = S
      \/ PrintClass(S, class, cu) = C /\ EntryOf(S.tree, class) # 0
      \/ PrintClass(S, class, cu) = A
      \/ PrintClass(S, class, cu) = Emit(S, "packable", class, cu)
      \/ PrintClass(S, class, cu) = Emit(A, "packable", class, cu)
      \/ PrintClass(S, class, cu) = Emit(S, "class", class, cu)
      \/ PrintClass(S, class, cu) = Emit(A, "class", class, cu)
  BY Zenon DEF PrintClass
<1>2. Kept(A) /\ \A ids : cu \in ids /\ Sorted(S, ids) => Sorted(A, ids)
  BY StructuresAdd
<1>3. EntryOf(S.tree, class) # 0 => Kept(C) /\ \A ids : Sorted(S, ids) => Sorted(C, ids)
  BY CountedAgain
<1> HIDE DEF A, C
<1> QED
  BY <1>1, <1>2, <1>3, Emitted

\* print_classes() of a CU leaves the prototypes alone, and the entries it adds
\* are of that CU.
LEMMA ClassesPrinted ==
  ASSUME FlowInv, Stealing
  PROVE  LET S == print_classes(Cu, CuId) IN
         /\ Kept(S)
         /\ \A ids : CuId \in ids /\ tree \in Seq(Entry(ids)) /\ list \in Seq(Entry(ids))
                     => Sorted(S, ids)
<1> DEFINE s == Cu.types
<1>1. s \in Seq(ClassType)
  BY CuFacts
<1>2. print_classes(Cu, CuId) = Printing!Fold(Work, s)
  BY DEF print_classes, print_class, Printing!Fold, FoldLeft, MapThenFoldSet, Max,
         Printing!FoldLeft, Printing!MapThenFoldSet, Printing!Max
<1>3. PICK U : Printing!Universe(U, Work, s)
  BY <1>1, Printing!FoldLeftKeeps, Zenon
<1>4. Kept(Work) /\ Work.tree = tree /\ Work.list = list
  BY DEF Kept, Work
<1>5. \A k \in 1 .. Len(s) : s[k] \in ClassType
  BY <1>1
<1> HIDE DEF s
<1> DEFINE P == {S \in U : Kept(S)}
<1>6. P \in SUBSET U /\ Work \in P /\ \A k \in 1 .. Len(s) : \A S \in P :
        print_class(S, s[k]) \in U => print_class(S, s[k]) \in P
  BY <1>3, <1>4, <1>5, Printed DEF Printing!Universe, print_class
<1>7. Printing!Fold(Work, s) \in P
  <2> HIDE DEF P
  <2> QED
    BY <1>3, <1>6 DEF Printing!Universe
<1>8. ASSUME NEW ids, CuId \in ids, tree \in Seq(Entry(ids)), list \in Seq(Entry(ids))
      PROVE  Sorted(Printing!Fold(Work, s), ids)
  <2> DEFINE Q == {S \in U : Kept(S) /\ Sorted(S, ids)}
  <2>1. Sorted(Work, ids)
    BY <1>4, <1>8 DEF Sorted
  <2>2. Q \in SUBSET U /\ Work \in Q /\ \A k \in 1 .. Len(s) : \A S \in Q :
          print_class(S, s[k]) \in U => print_class(S, s[k]) \in Q
    BY <1>3, <1>4, <1>5, <1>8, <2>1, Printed DEF Printing!Universe, print_class
  <2>3. Printing!Fold(Work, s) \in Q
    <3> HIDE DEF Q
    <3> QED
      BY <1>3, <2>2 DEF Printing!Universe
  <2> QED
    BY <2>3
<1> QED
  BY <1>2, <1>7, <1>8

\* One parameter of cu__account_nr_methods().
LEMMA Accounted ==
  ASSUME NEW S, Kept(S), NEW class, NEW cu
  PROVE  Kept(AccountParameter(S, class, cu))
<1> DEFINE C == [S EXCEPT !.tree[EntryOf(S.tree, class)].nr_methods = @ + 1]
           new == structure__new(class, cu, 1)
           T == [S EXCEPT !.tree = InsertAt(@, PlaceOf(@, class), new),
                          !.list = Append(@, new),
                          !.resort = @ \/ Indistinct(S.tree, class)]
<1>1. \/ AccountParameter(S, class, cu) = S
      \/ AccountParameter(S, class, cu) = C
      \/ AccountParameter(S, class, cu) = T
  BY Zenon DEF AccountParameter, structures__add
<1>2. Kept(C) /\ Kept(T)
  BY DEF Kept
<1> HIDE DEF C, T
<1> QED
  BY <1>1, <1>2

\* cu__account_nr_methods() leaves the prototypes alone.
LEMMA MethodsAccounted ==
  ASSUME FlowInv, Stealing
  PROVE  Kept(cu__account_nr_methods(Cu, CuId))
<1> DEFINE s == FlattenSeq(Cu.fns)
<1>1. s \in Seq(Nat)
  <2>1. s = Accounting!FlattenSeq(Cu.fns)
    BY DEF FlattenSeq, Accounting!FlattenSeq
  <2> QED
    BY <2>1, CuFacts, Accounting!FlattenSeqIn
<1>2. cu__account_nr_methods(Cu, CuId) = Accounting!Fold(Work, s)
  BY DEF cu__account_nr_methods, account_parameter, Accounting!Fold, FoldLeft, MapThenFoldSet, Max,
         Accounting!FoldLeft, Accounting!MapThenFoldSet, Accounting!Max
<1> HIDE DEF s
<1>3. PICK U : Accounting!Universe(U, Work, s)
  BY <1>1, Accounting!FoldLeftKeeps, Zenon
<1>4. Kept(Work)
  BY DEF Kept, Work
<1> DEFINE P == {S \in U : Kept(S)}
<1>5. P \in SUBSET U /\ Work \in P /\ \A k \in 1 .. Len(s) : \A S \in P :
        account_parameter(S, s[k]) \in U => account_parameter(S, s[k]) \in P
  BY <1>3, <1>4, Accounted DEF Accounting!Universe, account_parameter
<1>6. Accounting!Fold(Work, s) \in P
  <2> HIDE DEF P
  <2> QED
    BY <1>3, <1>5 DEF Accounting!Universe
<1> QED
  BY <1>2, <1>6

-----------------------------------------------------------------------------
(* The prototypes of a CU *)

\* What is known when n of the prototypes were looked for in the CU: only the
\* answer of the header's CU or LSK__ABORT is given before the last, and with
\* nothing missing every class was found.
Looked(S, n) ==
    /\ DOMAIN S = {"tree", "list", "resort", "out", "protos", "verdict", "dump"}
    /\ S.protos \in Seq(Prototype) /\ Len(S.protos) <= n
    /\ S.dump = FALSE
    /\ S.verdict \in {"none", "ABORT", HeaderVerdict}
    /\ S.verdict = "none" => inv.skip_missing \/ \A k \in DOMAIN S.protos : Found(S.protos[k])

\* The class of the only prototype is in a CU that stays.
OneLive(S) ==
    \A k \in DOMAIN S.protos :
        Found(S.protos[k]) => S.protos[k].cu \in Live \/ (S.protos[k].cu = CuId /\ S.verdict = "none")

\* The prototype kept, with what was found for it.
LEMMA Resolved ==
  ASSUME NEW p \in Prototype, Cu \in CuType
  PROVE  ResolveEnum(p, Cu) \in Prototype /\ ResolveEnum(p, Cu).class = p.class
         /\ ResolveEnum(p, Cu).cu = p.cu
<1>1. EnumsFound(p, Cu) \in SUBSET SUBSET Nat
  <2>1. p.type_enum \in Seq(SUBSET Nat)
    BY DEF Prototype
  <2>2. \A k \in DOMAIN p.type_enum : p.type_enum[k] \in SUBSET Nat
    BY <2>1
  <2>3. CASE {k \in DOMAIN p.type_enum : p.type_enum[k] \notin Cu.enums} = {}
    BY <2>2, <2>3 DEF EnumsFound, ToSet
  <2>4. CASE {k \in DOMAIN p.type_enum : p.type_enum[k] \notin Cu.enums} # {}
    <3> DEFINE M == {k \in DOMAIN p.type_enum : p.type_enum[k] \notin Cu.enums}
    <3>1. Min(M) \in M
      <4>1. M \subseteq Nat /\ M # {}
        BY <2>1, <2>4
      <4> HIDE DEF M
      <4>2. \E x \in M : \A y \in M : x <= y
        BY <4>1, Solving!LeastIn
      <4> QED
        BY <4>2, Zenon DEF Min
    <3>2. \A k \in 1 .. Min(M) - 1 : k \in DOMAIN p.type_enum
      BY <2>1, <3>1
    <3>3. EnumsFound(p, Cu) = {p.type_enum[k] : k \in 1 .. Min(M) - 1}
      BY <2>4 DEF EnumsFound
    <3> HIDE DEF M
    <3> QED
      BY <2>2, <3>2, <3>3
  <2> QED
    BY <2>3, <2>4
<1>2. type__find_type_enum(p, Cu) \in BOOLEAN
  BY DEF type__find_type_enum
<1>3. PICK b, e : b = type__find_type_enum(p, Cu) /\ e = p.enums \cup EnumsFound(p, Cu)
  OBVIOUS
<1>4. ResolveEnum(p, Cu) = [p EXCEPT !.resolved = b, !.enums = e]
  BY <1>3 DEF ResolveEnum
<1>5. b \in BOOLEAN
  BY <1>2, <1>3
<1>6. e \in SUBSET SUBSET Nat
  <2>1. p.enums \in SUBSET SUBSET Nat
    BY DEF Prototype
  <2> QED
    BY <1>1, <1>3, <2>1
<1>7. [p EXCEPT !.resolved = b, !.enums = e] \in Prototype
  BY <1>5, <1>6 DEF Prototype
<1>8. /\ [p EXCEPT !.resolved = b, !.enums = e].class = p.class
      /\ [p EXCEPT !.resolved = b, !.enums = e].cu = p.cu
  BY DEF Prototype
<1> QED
  BY <1>4, <1>7, <1>8

\* The type found for a prototype is one of the CU.
LEMMA TypeFound ==
  ASSUME Cu.types \in Seq(ClassType), NEW name, NEW decls,
         cu__find_type_by_name(Cu, name, decls) # 0
  PROVE  Cu.types[cu__find_type_by_name(Cu, name, decls)] \in ClassType
<1> DEFINE named == {k \in DOMAIN Cu.types : Cu.types[k].name = name
                                              /\ (Cu.types[k].decl => decls)}
<1>1. cu__find_type_by_name(Cu, name, decls) = Min(named) /\ named # {}
  BY DEF cu__find_type_by_name
<1>2. named \subseteq Nat /\ named \subseteq DOMAIN Cu.types
  OBVIOUS
<1> HIDE DEF named
<1>3. \E x \in named : \A y \in named : x <= y
  BY <1>1, <1>2, Solving!LeastIn
<1>4. Min(named) \in named
  BY <1>3, Zenon DEF Min
<1>5. PICK t, m : t = Cu.types /\ m = cu__find_type_by_name(Cu, name, decls)
  OBVIOUS
<1>6. m \in DOMAIN t
  BY <1>1, <1>2, <1>4, <1>5
<1> QED
  BY <1>5, <1>6

\* The answer of the CU of the header.
LEMMA HeaderAnswer ==
  ASSUME HeaderInv
  PROVE  /\ HeaderVerdict \in {"KEEPIT", "DELETE"}
         /\ DOMAIN FindHeader = DOMAIN header
         /\ FindHeader.found \in BOOLEAN
         /\ header.found => FindHeader = header
         /\ FindHeader = header \/ (FindHeader.cu = CuId /\ HeaderVerdict = "KEEPIT")
<1> DEFINE h == [header EXCEPT !.found = TRUE, !.cu = CuId]
<1>1. FindHeader = header \/ (FindHeader = h /\ ~header.found)
  BY DEF FindHeader
<1>2. DOMAIN h = DOMAIN header /\ h.found = TRUE /\ h.cu = CuId
  BY DEF HeaderInv
<1>3. FindHeader # header => HeaderVerdict = "KEEPIT"
  BY DEF HeaderVerdict
<1>4. HeaderVerdict \in {"KEEPIT", "DELETE"}
  BY DEF HeaderVerdict
<1> HIDE DEF h
<1> QED
  BY <1>1, <1>2, <1>3, <1>4 DEF HeaderInv

\* What the loop does with a prototype when pretty printing is asked for: it is
\* kept, with its class if that was not known and is there, and the loop ends if
\* it is not.
LEMMA Sought ==
  ASSUME FlowInv, HeaderInv, Stealing, inv.mode = "prettify", NEW S, S.dump = FALSE,
         S.verdict \in {"none", "ABORT", HeaderVerdict}, NEW p \in Prototype
  PROVE  \E q \in Prototype :
           \/ /\ q.class = p.class /\ q.cu = p.cu
              /\ \/ /\ steal_prototype(S, p) = Keep(S, q)
                    /\ S.verdict # "none" \/ Found(p) \/ inv.skip_missing
                 \/ \E v \in {"ABORT", HeaderVerdict} :
                      steal_prototype(S, p) = Return(Keep(S, q), v)
           \/ /\ S.verdict = "none" /\ Found(q) /\ q.cu = CuId
              /\ steal_prototype(S, p) = Keep(S, q)
<1> DEFINE id == cu__find_type_by_name(Cu, p.name, inv.mode = "pointers" \/ inv.stats = "methods")
           class == Cu.types[id]
           q == IF NeedsEnum(p) THEN ResolveEnum(p, Cu) ELSE p
           f == [q EXCEPT !.class = <<class>>, !.cu = CuId, !.cutypes = Cu.types]
           R == steal_prototype(S, p)
<1>1. \/ R = Keep(S, p) /\ (S.verdict # "none" \/ inv.skip_missing)
      \/ R = Keep(S, q) /\ Found(p)
      \/ \E v \in {"ABORT", HeaderVerdict} : R = Return(Keep(S, p), v) \/ R = Return(Keep(S, q), v)
      \/ R = Keep(S, f) /\ S.verdict = "none" /\ id # 0
  BY Zenon DEF steal_prototype, StealPrototype, Found
<1>2. Cu \in CuType /\ Cu.types \in Seq(ClassType) /\ CuId \in Nat \X Nat
  BY CuFacts, FileFacts
<1>3. q \in Prototype /\ q.class = p.class /\ q.cu = p.cu
  BY <1>2, Resolved
<1>4. id # 0 => class \in ClassType
  BY <1>2, TypeFound
<1> HIDE DEF id, q, R
<1>5. id # 0 => f \in Prototype /\ Found(f) /\ f.cu = CuId
  <2> SUFFICES ASSUME id # 0 PROVE f \in Prototype /\ Found(f) /\ f.cu = CuId
    OBVIOUS
  <2>1. PICK x, t : x = <<class>> /\ t = Cu.types
    OBVIOUS
  <2>2. x \in Seq(ClassType) /\ x # <<>> /\ t \in Seq(ClassType)
    BY <1>2, <1>4, <2>1
  <2>3. f = [q EXCEPT !.class = x, !.cu = CuId, !.cutypes = t]
    BY <2>1
  <2> HIDE DEF f
  <2>4. f \in Prototype
    BY <1>2, <1>3, <2>2, <2>3 DEF Prototype
  <2>5. f.class = x /\ f.cu = CuId
    BY <1>3, <2>3 DEF Prototype
  <2> QED
    BY <2>2, <2>4, <2>5 DEF Found, NoClass
<1> HIDE DEF f
<1> QED
  BY <1>1, <1>3, <1>5 DEF R

\* One more prototype is looked for.
LEMMA LookedNext ==
  ASSUME FlowInv, HeaderInv, Stealing, inv.mode = "prettify",
         NEW S, NEW n \in Nat, Looked(S, n), NEW p \in Prototype
  PROVE  Looked(steal_prototype(S, p), n + 1)
<1>1. S.protos \in Seq(Prototype) /\ Len(S.protos) <= n /\ Len(S.protos) \in Nat
  BY DEF Looked
<1>2. PICK q \in Prototype :
           \/ /\ q.class = p.class /\ q.cu = p.cu
              /\ \/ /\ steal_prototype(S, p) = Keep(S, q)
                    /\ S.verdict # "none" \/ Found(p) \/ inv.skip_missing
                 \/ \E v \in {"ABORT", HeaderVerdict} :
                      steal_prototype(S, p) = Return(Keep(S, q), v)
           \/ /\ S.verdict = "none" /\ Found(q) /\ q.cu = CuId
              /\ steal_prototype(S, p) = Keep(S, q)
  BY Sought DEF Looked
<1>3. PICK t : t = Append(S.protos, q)
  OBVIOUS
<1>4. t \in Seq(Prototype) /\ Len(t) <= n + 1 /\ DOMAIN t = 1 .. Len(S.protos) + 1
      /\ t[Len(S.protos) + 1] = q /\ \A k \in 1 .. Len(S.protos) : t[k] = S.protos[k]
  BY <1>1, <1>3
<1>5. Keep(S, q) = [S EXCEPT !.protos = t]
  BY <1>3 DEF Keep
<1>6. (\A k \in DOMAIN S.protos : Found(S.protos[k])) /\ Found(q) => \A k \in DOMAIN t : Found(t[k])
  BY <1>1, <1>4
<1>7. \/ steal_prototype(S, p) = [S EXCEPT !.protos = t]
         /\ (S.verdict # "none" \/ Found(q) \/ inv.skip_missing)
      \/ \E v \in {"ABORT", HeaderVerdict} :
           steal_prototype(S, p) = [[S EXCEPT !.protos = t] EXCEPT !.verdict = v]
  BY <1>2, <1>5 DEF Return, Found
<1>8. HeaderVerdict \in {"KEEPIT", "DELETE"}
  BY HeaderAnswer
<1> HIDE <1>2, <1>3, <1>5
<1>9. CASE /\ steal_prototype(S, p) = [S EXCEPT !.protos = t]
           /\ S.verdict # "none" \/ Found(q) \/ inv.skip_missing
  BY <1>4, <1>6, <1>8, <1>9 DEF Looked
<1>10. ASSUME NEW v \in {"ABORT", HeaderVerdict},
              steal_prototype(S, p) = [[S EXCEPT !.protos = t] EXCEPT !.verdict = v]
       PROVE  Looked(steal_prototype(S, p), n + 1)
  BY <1>4, <1>8, <1>10 DEF Looked
<1> QED
  BY <1>7, <1>9, <1>10

\* After the first prototype its class, if it was found, is in a CU that stays.
LEMMA FirstLive ==
  ASSUME FlowInv, HeaderInv, Stealing, inv.mode = "prettify",
         NEW S, Looked(S, 0), NEW p \in Prototype, Found(p) => p.cu \in Live
  PROVE  OneLive(steal_prototype(S, p))
<1>1. S.protos = <<>>
  BY DEF Looked
<1>2. PICK q \in Prototype :
           \/ /\ q.class = p.class /\ q.cu = p.cu
              /\ \/ /\ steal_prototype(S, p) = Keep(S, q)
                    /\ S.verdict # "none" \/ Found(p) \/ inv.skip_missing
                 \/ \E v \in {"ABORT", HeaderVerdict} :
                      steal_prototype(S, p) = Return(Keep(S, q), v)
           \/ /\ S.verdict = "none" /\ Found(q) /\ q.cu = CuId
              /\ steal_prototype(S, p) = Keep(S, q)
  BY Sought DEF Looked
<1>3. Keep(S, q) = [S EXCEPT !.protos = <<q>>]
  BY <1>1 DEF Keep
<1>4. /\ Keep(S, q).protos = <<q>> /\ Keep(S, q).verdict = S.verdict
      /\ \A v : Return(Keep(S, q), v).protos = <<q>>
  BY <1>3 DEF Looked, Return
<1>5. steal_prototype(S, p).protos = <<q>>
  BY <1>2, <1>4
<1>6. Found(q) => q.cu \in Live \/ (q.cu = CuId /\ steal_prototype(S, p).verdict = "none")
  BY <1>2, <1>4 DEF Found
<1> QED
  BY <1>5, <1>6 DEF OneLive

\* All prototypes of class_names are looked for in the CU.
LEMMA AllLooked ==
  ASSUME FlowInv, HeaderInv, Stealing, inv.mode = "prettify", protos \in Seq(Prototype)
  PROVE  LET S == StealPrototypes(Cu, CuId, HeaderVerdict) IN
         /\ Looked(S, Len(protos))
         /\ Len(protos) <= 1 /\ (\A k \in DOMAIN protos : Found(protos[k]) => protos[k].cu \in Live)
              => OneLive(S)
<1> DEFINE base == [Work EXCEPT !.protos = <<>>]
<1>1. StealPrototypes(Cu, CuId, HeaderVerdict) = Solving!Fold(base, protos)
  BY DEF StealPrototypes, steal_prototype, Solving!Fold, FoldLeft, MapThenFoldSet, Max,
         Solving!FoldLeft, Solving!MapThenFoldSet, Solving!Max
<1>2. PICK acc : Solving!Loop(acc, base, protos) /\ Solving!Fold(base, protos) = acc[Len(protos)]
  BY Solving!FoldLeftLoop
<1>3. Len(protos) \in Nat
  OBVIOUS
<1>4. Looked(base, 0)
  BY DEF Looked, Work
<1>5. acc[0] = base
  BY <1>2 DEF Solving!Loop
<1>6. \A k \in 1 .. Len(protos) : acc[k] = steal_prototype(acc[k - 1], protos[k])
  BY <1>2, Zenon DEF Solving!Loop, steal_prototype
<1> HIDE DEF base
<1> DEFINE T == {n \in Nat : n \in 0 .. Len(protos) => Looked(acc[n], n)}
<1>7. 0 \in T
  BY <1>4, <1>5
<1>8. ASSUME NEW n \in Nat, n \in T PROVE n + 1 \in T
  <2> SUFFICES ASSUME n + 1 \in 0 .. Len(protos) PROVE Looked(acc[n + 1], n + 1)
    OBVIOUS
  <2>1. n \in 0 .. Len(protos) /\ n + 1 \in 1 .. Len(protos) /\ n + 1 - 1 = n
    BY <1>3
  <2>2. Looked(acc[n], n) /\ protos[n + 1] \in Prototype
    BY <1>8, <2>1
  <2>3. acc[n + 1] = steal_prototype(acc[n], protos[n + 1])
    BY <1>6, <2>1
  <2> HIDE DEF T
  <2> QED
    BY <2>2, <2>3, LookedNext
<1>9. Looked(acc[Len(protos)], Len(protos))
  <2>1. Len(protos) \in T
    <3> HIDE DEF T
    <3> QED
      BY <1>3, <1>7, <1>8, Solving!NatSetInduction
  <2> QED
    BY <1>3, <2>1
<1>10. ASSUME Len(protos) <= 1, \A k \in DOMAIN protos : Found(protos[k]) => protos[k].cu \in Live
       PROVE  OneLive(acc[Len(protos)])
  <2>1. CASE Len(protos) = 0
    <3>1. acc[Len(protos)].protos = <<>>
      BY <1>4, <1>5, <2>1 DEF Looked
    <3> QED
      BY <3>1 DEF OneLive
  <2>2. CASE Len(protos) = 1
    <3> HIDE DEF T
    <3>0. DOMAIN protos = 1 .. Len(protos) /\ \A k \in DOMAIN protos : protos[k] \in Prototype
      OBVIOUS
    <3>1. 1 \in DOMAIN protos /\ protos[1] \in Prototype
      BY <2>2, <3>0
    <3>2. acc[1] = steal_prototype(base, protos[1])
      BY <1>5, <1>6, <2>2
    <3>3. Found(protos[1]) => protos[1].cu \in Live
      BY <1>10, <3>1
    <3> QED
      BY <1>4, <2>2, <3>1, <3>2, <3>3, FirstLive
  <2> QED
    BY <1>3, <1>10, <2>1, <2>2
<1> QED
  BY <1>1, <1>2, <1>9, <1>10

-----------------------------------------------------------------------------
(* The steps *)

\* Entries of some CUs are entries of more CUs.
LEMMA EntryMore ==
  ASSUME NEW a, NEW b, a \subseteq b, NEW s \in Seq(Entry(a))
  PROVE  s \in Seq(Entry(b))
<1>1. \A k \in DOMAIN s : s[k] \in Entry(b)
  <2> SUFFICES ASSUME NEW k \in DOMAIN s PROVE s[k] \in Entry(b)
    OBVIOUS
  <2>1. s[k] \in Entry(a)
    OBVIOUS
  <2> QED
    BY <2>1 DEF Entry
<1> QED
  BY <1>1

\* A CU that stays is no CU that was given back.
LEMMA LiveNotFreed == \A id \in Live : id \notin freed
BY DEF Live

\* The first states.
LEMMA PaholeInit == Init => PaholeInv
<1> SUFFICES ASSUME Init PROVE PaholeInv
  OBVIOUS
<1>0. PICK i \in Invocations : \E options \in i.options, files \in i.files, names \in i.names :
        inv = [options EXCEPT !.argv = files, !.class_name = names]
  BY DEF Init
<1>1. PICK options \in i.options, files \in i.files, names \in i.names :
        inv = [options EXCEPT !.argv = files, !.class_name = names]
  BY <1>0
<1>2. options \in OptionsType /\ files \in Seq(FileType) /\ names \in Seq(NameType)
  BY <1>1, InvocationsAssumption
<1>3. inv \in OptionsType /\ inv.argv = files /\ inv.class_name = names
  <2>1. [options EXCEPT !.argv = files, !.class_name = names] \in OptionsType
    BY <1>2 DEF OptionsType
  <2>2. /\ [options EXCEPT !.argv = files, !.class_name = names].argv = files
        /\ [options EXCEPT !.argv = files, !.class_name = names].class_name = names
    BY <1>2 DEF OptionsType
  <2> QED
    BY <1>1, <2>1, <2>2
<1>4. /\ protos = <<>> /\ pc = "names" /\ argv = inv.argv /\ class_name = inv.class_name
      /\ at = <<1, 1>> /\ freed = {} /\ stolen = <<>> /\ tree = <<>> /\ list = <<>>
      /\ dangling = FALSE /\ rc = "none" /\ header = NoHeader
      /\ pretty = "off"
  BY DEF Init, PrettyInit
<1> HIDE <1>1
<1>5. FlowInv
  BY <1>2, <1>3, <1>4 DEF FlowInv
<1>6. StolenInv
  BY <1>4 DEF StolenInv
<1>7. HeaderInv
  BY <1>4 DEF HeaderInv, NoHeader
<1>8. SortedInv /\ ProtosInv /\ SolvedInv /\ UsesLiveCus /\ EncodedOnSuccess
  BY <1>2, <1>3, <1>4 DEF SortedInv, ProtosInv, SolvedInv, UsesLiveCus, EncodedOnSuccess
<1> QED
  BY <1>5, <1>6, <1>7, <1>8 DEF PaholeInv

\* What every answer of the stealer keeps.
LEMMA Carried ==
  ASSUME PaholeInv, pc \in {"load", "pretty"},
         NEW verdict, Answer(verdict),
         UNCHANGED <<inv, argv, class_name, rc, dangling>>,
         pc = "pretty" => verdict # "DELETE"
  PROVE  /\ FlowInv' /\ StolenInv' /\ UsesLiveCus' /\ EncodedOnSuccess'
         /\ pc' \in {"load", "loaded"}
         /\ Live \subseteq Live'
         /\ pretty' = "off" => SolvedInv'
         /\ verdict # "DELETE" => CuId \in Live'
         /\ UNCHANGED header => HeaderInv'
         /\ UNCHANGED protos => ProtosInv'
         /\ UNCHANGED <<tree, list>> => SortedInv'
<1>1. /\ FlowInv' /\ StolenInv' /\ pc' \in {"load", "loaded"} /\ Live \subseteq Live'
      /\ verdict # "DELETE" => CuId \in Live'
  BY Answered DEF PaholeInv
<1>2. pretty' = "off" => SolvedInv'
  BY <1>1 DEF SolvedInv
<1>3. UsesLiveCus'
  BY DEF PaholeInv, UsesLiveCus, CanSort
<1>4. EncodedOnSuccess'
  BY DEF PaholeInv, FlowInv, EncodedOnSuccess
<1>5. ASSUME UNCHANGED header PROVE HeaderInv'
  BY <1>1, <1>5 DEF PaholeInv, HeaderInv
<1>6. ASSUME UNCHANGED protos PROVE ProtosInv'
  BY <1>1, <1>6 DEF PaholeInv, ProtosInv, Found
<1>7. ASSUME UNCHANGED <<tree, list>> PROVE SortedInv'
  <2> SUFFICES ASSUME (CanSort /\ class_name = <<>> /\ inv.stats # "methods")'
               PROVE  tree' \in Seq(Entry(Live')) /\ list' \in Seq(Entry(Live'))
    BY DEF SortedInv, Entry
  <2>1. tree \in Seq(Entry(Live)) /\ list \in Seq(Entry(Live))
    BY DEF PaholeInv, SortedInv, CanSort
  <2> QED
    BY <1>1, <1>7, <2>1, EntryMore
<1> QED
  BY <1>1, <1>2, <1>3, <1>4, <1>5, <1>6, <1>7

\* CUs that are not looked at, an enumerator that is found, an encoding.
LEMMA StealOther ==
  ASSUME PaholeInv, StealFiltered \/ StealEnumerator \/ pahole_stealer__btf_encode
  PROVE  PaholeInv'
<1>1. /\ Stealing /\ \E verdict : Answer(verdict)
      /\ UNCHANGED <<inv, argv, class_name, rc, dangling, header, pretty, protos, tree, list>>
  BY DEF StealFiltered, StealEnumerator, pahole_stealer__btf_encode, Showing,
         structureVars, streamVars
<1>2. pc = "load" /\ pretty' = "off"
  BY <1>1 DEF Stealing, PaholeInv, SolvedInv
<1> QED
  BY <1>1, <1>2, Carried DEF PaholeInv

\* A listing of classes: with --sort no CU is given back.
LEMMA StealClassesStep ==
  ASSUME PaholeInv, StealClasses
  PROVE  PaholeInv'
<1> DEFINE verdict == Dumped(IF CanSort THEN "KEEPIT" ELSE "DELETE")
           S == print_classes(Cu, CuId)
<1>1. /\ Stealing /\ pc = "load" /\ class_name = <<>> /\ Answer(verdict) /\ Commit(S)
      /\ UNCHANGED <<inv, argv, class_name, rc, dangling, header, pretty>>
  BY DEF StealClasses, Showing, Stealing, structureVars, streamVars
<1>2. CanSort => verdict # "DELETE"
  BY DEF Dumped
<1>3. /\ Kept(S)
      /\ \A ids : CuId \in ids /\ tree \in Seq(Entry(ids)) /\ list \in Seq(Entry(ids))
                  => Sorted(S, ids)
  BY <1>1, ClassesPrinted DEF PaholeInv
<1> HIDE DEF verdict, S
<1>4. protos' = protos /\ tree' = S.tree /\ list' = S.list
  BY <1>1, <1>3 DEF Commit, Kept
<1>5. /\ FlowInv' /\ StolenInv' /\ SolvedInv' /\ UsesLiveCus' /\ EncodedOnSuccess'
      /\ HeaderInv' /\ ProtosInv' /\ Live \subseteq Live' /\ (CanSort => CuId \in Live')
  <2>1. pretty' = "off"
    BY <1>1 DEF PaholeInv, SolvedInv
  <2> QED
    BY <1>1, <1>2, <1>4, <2>1, Carried
<1>6. SortedInv'
  <2> SUFFICES ASSUME (CanSort /\ class_name = <<>> /\ inv.stats # "methods")'
               PROVE  tree' \in Seq(Entry(Live')) /\ list' \in Seq(Entry(Live'))
    BY DEF SortedInv, Entry
  <2>1. tree \in Seq(Entry(Live)) /\ list \in Seq(Entry(Live)) /\ CanSort
    BY <1>1 DEF PaholeInv, SortedInv, CanSort
  <2>2. tree \in Seq(Entry(Live')) /\ list \in Seq(Entry(Live')) /\ CuId \in Live'
    BY <1>5, <2>1, EntryMore
  <2>3. Sorted(S, Live')
    BY <1>3, <2>2
  <2> QED
    BY <1>4, <2>3 DEF Sorted
<1> QED
  BY <1>5, <1>6 DEF PaholeInv

\* The methods of classes are counted.
LEMMA StealMethodsStep ==
  ASSUME PaholeInv, StealMethods
  PROVE  PaholeInv'
<1> DEFINE verdict == Dumped("DELETE")
           S == cu__account_nr_methods(Cu, CuId)
<1>1. /\ Stealing /\ pc = "load" /\ inv.stats = "methods" /\ Answer(verdict) /\ Commit(S)
      /\ UNCHANGED <<inv, argv, class_name, rc, dangling, header, pretty>>
  BY DEF StealMethods, Showing, Stealing, structureVars, streamVars
<1>3. Kept(S)
  BY <1>1, MethodsAccounted DEF PaholeInv
<1> HIDE DEF verdict, S
<1>4. protos' = protos
  BY <1>1, <1>3 DEF Commit, Kept
<1>5. SortedInv'
  BY <1>1 DEF SortedInv
<1>6. pretty' = "off"
  BY <1>1 DEF PaholeInv, SolvedInv
<1> QED
  BY <1>1, <1>4, <1>5, <1>6, Carried DEF PaholeInv

\* The classes that are asked for are looked for in a CU.  With pretty printing
\* the CU stays while there is more to find; when there is not, printing starts.
LEMMA StealNamesStep ==
  ASSUME PaholeInv, StealNames
  PROVE  PaholeInv'
<1> DEFINE S == StealPrototypes(Cu, CuId, HeaderVerdict)
           v == NamesVerdict(S)
<1>1. /\ Stealing /\ pc = "load" /\ class_name # <<>> /\ header' = FindHeader /\ Commit(S)
      /\ UNCHANGED <<inv, argv, class_name, rc, dangling>>
  BY DEF StealNames, Showing, Stealing
<1>2. \/ /\ inv.mode = "prettify" /\ S.verdict = "none" /\ ~Unsolved(S)
         /\ pc' = "pretty" /\ pretty' = "open" /\ UNCHANGED <<at, freed, stolen, err>>
      \/ /\ ~(inv.mode = "prettify" /\ S.verdict = "none" /\ ~Unsolved(S))
         /\ Answer(v) /\ pretty' = pretty
  BY DEF StealNames
<1>3. pretty = "off"
  BY <1>1 DEF PaholeInv, SolvedInv
<1>4. SortedInv'
  BY <1>1 DEF SortedInv
<1>5. /\ HeaderVerdict \in {"KEEPIT", "DELETE"}
      /\ DOMAIN FindHeader = DOMAIN header
      /\ FindHeader.found \in BOOLEAN
      /\ header.found => FindHeader = header
      /\ FindHeader = header \/ (FindHeader.cu = CuId /\ HeaderVerdict = "KEEPIT")
  BY HeaderAnswer DEF PaholeInv
<1>6. protos' = S.protos
  BY <1>1 DEF Commit
<1>7. inv.mode = "prettify" =>
        /\ Looked(S, Len(protos)) /\ protos \in Seq(Prototype) /\ Len(protos) <= Len(class_name)
        /\ Len(class_name) <= 1 => OneLive(S)
  <2> SUFFICES ASSUME inv.mode = "prettify"
               PROVE  /\ Looked(S, Len(protos)) /\ protos \in Seq(Prototype)
                      /\ Len(protos) <= Len(class_name)
                      /\ Len(class_name) <= 1 => OneLive(S)
    OBVIOUS
  <2>1. /\ protos \in Seq(Prototype) /\ Len(protos) <= Len(class_name)
        /\ Len(class_name) <= 1 => \A k \in DOMAIN protos : Found(protos[k]) => protos[k].cu \in Live
    BY DEF PaholeInv, ProtosInv
  <2>2. /\ Looked(S, Len(protos))
        /\ Len(protos) <= 1 /\ (\A k \in DOMAIN protos : Found(protos[k]) => protos[k].cu \in Live)
             => OneLive(S)
    BY <1>1, <2>1, AllLooked DEF PaholeInv
  <2>3. Len(protos) \in Nat /\ Len(class_name) \in Nat
    BY <2>1 DEF PaholeInv, FlowInv
  <2> HIDE DEF S
  <2> QED
    BY <2>1, <2>2, <2>3
<1>8. inv.mode = "prettify" => v = "KEEPIT" \/ (S.verdict # "none" /\ v = S.verdict)
  BY <1>7, Zenon DEF NamesVerdict, Looked
<1>9. CuId \notin freed
  BY <1>1, NotStolen DEF PaholeInv
<1>10. ~(inv.mode = "prettify") => inv.mode' # "prettify"
  BY <1>1
<1> HIDE DEF S, v
<1>11. CASE /\ inv.mode = "prettify" /\ S.verdict = "none" /\ ~Unsolved(S)
            /\ pc' = "pretty" /\ pretty' = "open" /\ UNCHANGED <<at, freed, stolen, err>>
  <2>1. CuId' = CuId /\ Live \subseteq Live' /\ CuId \in Live'
    BY <1>1, <1>9, <1>11 DEF CuId, Kernel, Live
  <2>2. FlowInv'
    BY <1>1, <1>11 DEF PaholeInv, FlowInv
  <2>3. StolenInv'
    BY <1>1, <1>11 DEF PaholeInv, StolenInv, Passed
  <2>4. HeaderInv'
    BY <1>1, <1>5, <2>1 DEF PaholeInv, HeaderInv
  <2>5. ProtosInv'
    <3>1. S.protos \in Seq(Prototype) /\ Len(S.protos) <= Len(class_name)
      <4>1. S.protos \in Seq(Prototype) /\ Len(S.protos) <= Len(protos)
        BY <1>7, <1>11 DEF Looked
      <4> QED
        BY <1>7, <1>11, <4>1 DEF PaholeInv, FlowInv
    <3>2. Len(class_name) <= 1 =>
            \A k \in DOMAIN S.protos : Found(S.protos[k]) => S.protos[k].cu \in Live'
      BY <1>7, <1>11, <2>1 DEF OneLive
    <3> QED
      BY <1>1, <1>6, <1>11, <3>1, <3>2 DEF ProtosInv, Found
  <2>6. SolvedInv'
    <3>1. inv.header_type # 0 => FindHeader.found
      BY <1>11 DEF Unsolved
    <3>2. \A k \in DOMAIN S.protos : ~NeedsEnum(S.protos[k])
      BY <1>11 DEF Unsolved
    <3>3. inv.skip_missing \/ \A k \in DOMAIN S.protos : Found(S.protos[k])
      BY <1>7, <1>11 DEF Looked
    <3> QED
      BY <1>1, <1>6, <1>11, <3>1, <3>2, <3>3 DEF SolvedInv, NeedsEnum, Found
  <2>7. UsesLiveCus' /\ EncodedOnSuccess'
    BY <1>1, <1>11 DEF PaholeInv, FlowInv, UsesLiveCus, EncodedOnSuccess, CanSort
  <2> QED
    BY <1>4, <2>2, <2>3, <2>4, <2>5, <2>6, <2>7 DEF PaholeInv
<1>12. CASE Answer(v) /\ pretty' = pretty
  <2>1. /\ FlowInv' /\ StolenInv' /\ UsesLiveCus' /\ EncodedOnSuccess' /\ SolvedInv'
        /\ pc' \in {"load", "loaded"} /\ Live \subseteq Live'
        /\ v # "DELETE" => CuId \in Live'
    BY <1>1, <1>3, <1>12, Carried
  <2>2. CASE inv.mode # "prettify"
    <3>1. HeaderInv'
      BY <1>1, <1>5, <2>2 DEF PaholeInv, HeaderInv
    <3>2. ProtosInv'
      BY <1>1, <2>1, <2>2 DEF ProtosInv
    <3> QED
      BY <1>4, <2>1, <3>1, <3>2 DEF PaholeInv
  <2>3. CASE inv.mode = "prettify"
    <3>1. v \in {"KEEPIT", "ABORT", HeaderVerdict} /\ (S.verdict = "none" => v = "KEEPIT")
      BY <1>7, <1>8, <2>3 DEF Looked
    <3>2. HeaderInv'
      <4>1. FindHeader # header => CuId \in Live'
        BY <1>5, <2>1, <3>1
      <4> QED
        BY <1>1, <1>5, <2>1, <4>1 DEF PaholeInv, HeaderInv
    <3>3. ProtosInv'
      <4>1. S.protos \in Seq(Prototype) /\ Len(S.protos) <= Len(class_name)
        <5>1. S.protos \in Seq(Prototype) /\ Len(S.protos) <= Len(protos)
          BY <1>7, <2>3 DEF Looked
        <5> QED
          BY <1>7, <2>3, <5>1 DEF PaholeInv, FlowInv
      <4>2. Len(class_name) <= 1 =>
              \A k \in DOMAIN S.protos : Found(S.protos[k]) => S.protos[k].cu \in Live'
        BY <1>7, <2>1, <2>3, <3>1 DEF OneLive
      <4> QED
        BY <1>1, <1>6, <2>1, <4>1, <4>2 DEF ProtosInv, Found
    <3> QED
      BY <1>4, <2>1, <3>2, <3>3 DEF PaholeInv
  <2> QED
    BY <2>2, <2>3
<1> QED
  BY <1>2, <1>11, <1>12

\* What is left of the prototypes when the first is done with.
LEMMA TailFacts ==
  ASSUME NEW X, NEW s \in Seq(X), s # <<>>
  PROVE  /\ Tail(s) \in Seq(X) /\ Len(Tail(s)) <= Len(s)
         /\ \A P \in SUBSET X : (\A k \in DOMAIN s : s[k] \in P) => \A k \in DOMAIN Tail(s) : Tail(s)[k] \in P
<1>1. Len(s) \in Nat /\ DOMAIN s = 1 .. Len(s) /\ Len(s) # 0
  OBVIOUS
<1>2. Tail(s) \in Seq(X) /\ Len(Tail(s)) = Len(s) - 1 /\ DOMAIN Tail(s) = 1 .. Len(s) - 1
  BY <1>1
<1>3. \A k \in 1 .. Len(s) - 1 : Tail(s)[k] = s[k + 1] /\ k + 1 \in DOMAIN s
  BY <1>1
<1> QED
  BY <1>1, <1>2, <1>3

\* What is known of each prototype while pretty printing goes on stays true of
\* the rest of them.
LEMMA ProtosTail ==
  ASSUME ProtosInv, SolvedInv, pc = "pretty", protos # <<>>
  PROVE  LET rest == Tail(protos) IN
         /\ rest \in Seq(Prototype) /\ Len(rest) <= Len(class_name)
         /\ Len(class_name) <= 1 => \A k \in DOMAIN rest : Found(rest[k]) => rest[k].cu \in Live
         /\ \A k \in DOMAIN rest : ~NeedsEnum(rest[k])
         /\ inv.skip_missing \/ \A k \in DOMAIN rest : Found(rest[k])
<1>1. /\ protos \in Seq(Prototype) /\ Len(protos) <= Len(class_name)
      /\ Len(class_name) <= 1 => \A k \in DOMAIN protos : Found(protos[k]) => protos[k].cu \in Live
      /\ \A k \in DOMAIN protos : ~NeedsEnum(protos[k])
      /\ inv.skip_missing \/ \A k \in DOMAIN protos : Found(protos[k])
  BY DEF ProtosInv, SolvedInv
<1> DEFINE P == {p \in Prototype : Len(class_name) <= 1 => (Found(p) => p.cu \in Live)}
           Q == {p \in Prototype : ~NeedsEnum(p) /\ (inv.skip_missing \/ Found(p))}
<1>2. (\A k \in DOMAIN protos : protos[k] \in P) /\ (\A k \in DOMAIN protos : protos[k] \in Q)
  BY <1>1
<1>3. P \in SUBSET Prototype /\ Q \in SUBSET Prototype
  OBVIOUS
<1>4. PICK rest : rest = Tail(protos)
  OBVIOUS
<1>5. /\ rest \in Seq(Prototype) /\ Len(rest) <= Len(protos)
      /\ \A k \in DOMAIN rest : rest[k] \in P
      /\ \A k \in DOMAIN rest : rest[k] \in Q
  <2> HIDE DEF P, Q
  <2> QED
    BY <1>1, <1>2, <1>3, <1>4, TailFacts
<1>6. Len(rest) <= Len(class_name)
  <2>1. Len(rest) \in Nat /\ Len(protos) \in Nat
    BY <1>1, <1>5
  <2> QED
    BY <1>1, <1>5, <2>1
<1> QED
  BY <1>4, <1>5, <1>6

\* Pretty printing follows a prototype and the header into their CUs.
LEMMA PrettyStep ==
  ASSUME PaholeInv, Pretty
  PROVE  PaholeInv'
<1>1. /\ pc = "pretty" /\ pc' = "pretty" /\ protos # <<>> /\ Found(Head(protos))
      /\ UNCHANGED <<inv, argv, class_name, at, freed, stolen, tree, list, encoder, rc, err>>
      /\ PrettyOpen \/ PrettyRecord \/ PrettyEnd \/ PrettyNext
      /\ dangling' = (dangling \/ Head(protos).cu \in freed \/ (header.found /\ header.cu \in freed))
  BY DEF Pretty, Solved, Found, PrettyOpen, PrettyRecord, PrettyEnd, PrettyNext, structureVars
<1>2. inv.mode = "prettify" /\ class_name # <<>> /\ protos \in Seq(Prototype)
  BY <1>1 DEF PaholeInv, SolvedInv, ProtosInv
<1>3. Live' = Live /\ CuId' = CuId
  BY <1>1 DEF Live, CuId, Kernel
<1>4. FlowInv' /\ StolenInv'
  BY <1>1 DEF PaholeInv, FlowInv, StolenInv, Passed
<1>5. HeaderInv' /\ header'.found = header.found
  <2>1. CASE PrettyOpen
    <3>1. PICK b : b = HeaderBytes
      OBVIOUS
    <3>2. header' = [header EXCEPT !.read_already = header.found, !.bytes = b]
      BY <2>1, <3>1 DEF PrettyOpen
    <3> QED
      BY <1>1, <1>3, <3>2 DEF PaholeInv, HeaderInv
  <2>2. CASE UNCHANGED header
    BY <1>1, <1>3, <2>2 DEF PaholeInv, HeaderInv
  <2> QED
    BY <1>1, <2>1, <2>2 DEF PrettyRecord, PrettyEnd, PrettyNext
<1>6. SortedInv'
  BY <1>1, <1>2 DEF SortedInv
<1>7. ProtosInv' /\ SolvedInv'
  <2>1. CASE UNCHANGED protos
    <3>1. ProtosInv'
      BY <1>1, <1>3, <2>1 DEF PaholeInv, ProtosInv, Found
    <3>2. SolvedInv'
      BY <1>1, <1>5, <2>1 DEF PaholeInv, SolvedInv, NeedsEnum, Found
    <3> QED
      BY <3>1, <3>2
  <2>2. CASE PrettyNext
    <3>1. protos' = Tail(protos) /\ pretty' \in {"done", "open"}
      BY <2>2 DEF PrettyNext
    <3>2. /\ Tail(protos) \in Seq(Prototype) /\ Len(Tail(protos)) <= Len(class_name)
          /\ Len(class_name) <= 1 =>
               \A k \in DOMAIN Tail(protos) : Found(Tail(protos)[k]) => Tail(protos)[k].cu \in Live
          /\ \A k \in DOMAIN Tail(protos) : ~NeedsEnum(Tail(protos)[k])
          /\ inv.skip_missing \/ \A k \in DOMAIN Tail(protos) : Found(Tail(protos)[k])
      BY <1>1, ProtosTail DEF PaholeInv
    <3>3. PICK rest : rest = Tail(protos)
      OBVIOUS
    <3>4. ProtosInv'
      BY <1>1, <1>2, <1>3, <3>1, <3>2, <3>3 DEF ProtosInv, Found
    <3>5. SolvedInv'
      BY <1>1, <1>2, <1>5, <3>1, <3>2, <3>3 DEF PaholeInv, SolvedInv, NeedsEnum, Found
    <3> QED
      BY <3>4, <3>5
  <2> QED
    BY <1>1, <2>1, <2>2 DEF PrettyOpen, PrettyRecord, PrettyEnd
<1>8. UsesLiveCus'
  <2>1. header.found => header.cu \notin freed
    BY <1>2, LiveNotFreed DEF PaholeInv, HeaderInv
  <2>2. Len(class_name) <= 1 => Head(protos).cu \notin freed
    <3> SUFFICES ASSUME Len(class_name) <= 1 PROVE Head(protos).cu \notin freed
      OBVIOUS
    <3>1. 1 \in DOMAIN protos /\ Head(protos) = protos[1]
      BY <1>1, <1>2
    <3>2. protos[1].cu \in Live
      BY <1>1, <1>2, <3>1 DEF PaholeInv, ProtosInv
    <3> QED
      BY <3>1, <3>2, LiveNotFreed
  <2>3. Len(class_name) <= 1 \/ Len(class_name) > 1
    BY DEF PaholeInv, FlowInv
  <2>4. dangling' => dangling \/ (inv.mode = "prettify" /\ Len(class_name) > 1)
    BY <1>1, <1>2, <2>1, <2>2, <2>3, Zenon
  <2> QED
    BY <1>1, <2>4 DEF PaholeInv, UsesLiveCus, CanSort
<1>9. EncodedOnSuccess'
  BY <1>1 DEF PaholeInv, EncodedOnSuccess, CanSort
<1> QED
  BY <1>4, <1>5, <1>6, <1>7, <1>8, <1>9 DEF PaholeInv

\* Pretty printing ends with LSK__STOP_LOADING.
LEMMA PrettyDoneStep ==
  ASSUME PaholeInv, PrettyDone
  PROVE  PaholeInv'
<1>1. /\ pc = "pretty" /\ Answer("STOP_LOADING") /\ pretty' = "off"
      /\ protos' = IF pretty = "failed" THEN Tail(protos) ELSE protos
      /\ UNCHANGED <<inv, argv, class_name, rc, dangling, header, tree, list>>
  BY DEF PrettyDone, structureVars
<1>2. inv.mode = "prettify" /\ class_name # <<>> /\ (pretty = "failed" => protos # <<>>)
  BY <1>1 DEF PaholeInv, SolvedInv
<1>3. /\ FlowInv' /\ StolenInv' /\ UsesLiveCus' /\ EncodedOnSuccess' /\ SolvedInv' /\ HeaderInv'
      /\ SortedInv' /\ pc' \in {"load", "loaded"} /\ Live \subseteq Live'
      /\ UNCHANGED protos => ProtosInv'
  BY <1>1, Carried
<1>4. ASSUME pretty = "failed" PROVE ProtosInv'
  <2>1. protos' = Tail(protos)
    BY <1>1, <1>4
  <2>2. /\ Tail(protos) \in Seq(Prototype) /\ Len(Tail(protos)) <= Len(class_name)
        /\ Len(class_name) <= 1 =>
             \A k \in DOMAIN Tail(protos) : Found(Tail(protos)[k]) => Tail(protos)[k].cu \in Live
    BY <1>1, <1>2, <1>4, ProtosTail DEF PaholeInv
  <2>3. PICK rest : rest = Tail(protos)
    OBVIOUS
  <2> QED
    BY <1>1, <1>2, <1>3, <2>1, <2>2, <2>3 DEF ProtosInv, Found
<1> QED
  BY <1>1, <1>3, <1>4 DEF PaholeInv

\* A prototype without a type: only --skip_missing lets pretty printing start.
LEMMA PrettyCrashStep ==
  ASSUME PaholeInv, PrettyCrash
  PROVE  PaholeInv'
<1>1. /\ pc = "pretty" /\ pc' = "crash" /\ protos # <<>> /\ ~Found(Head(protos))
      /\ UNCHANGED <<inv, protos, header, pretty, argv, class_name, at, freed, stolen, tree, list,
                     encoder, err, dangling, rc>>
  BY DEF PrettyCrash, Solved, Found, structureVars, streamVars
<1>2. Live' = Live
  BY <1>1 DEF Live, CuId, Kernel
<1>3. inv.skip_missing
  <2>1. inv.mode = "prettify"
    BY <1>1 DEF PaholeInv, SolvedInv
  <2>2. protos \in Seq(Prototype)
    BY <2>1 DEF PaholeInv, ProtosInv
  <2>3. 1 \in DOMAIN protos /\ Head(protos) = protos[1]
    BY <1>1, <2>2
  <2> QED
    BY <1>1, <2>3 DEF PaholeInv, SolvedInv
<1>4. FlowInv'
  BY <1>1 DEF PaholeInv, FlowInv
<1>5. StolenInv'
  <2>1. \A id : Passed(id) => Passed(id)'
    BY <1>1 DEF Passed
  <2> QED
    BY <1>1, <2>1 DEF PaholeInv, StolenInv
<1>6. HeaderInv' /\ ProtosInv'
  BY <1>1, <1>2 DEF PaholeInv, HeaderInv, ProtosInv, Found
<1>7. SortedInv'
  BY <1>1, <1>2 DEF PaholeInv, SortedInv, CanSort, Entry
<1>8. SolvedInv'
  BY <1>1, <1>3 DEF SolvedInv
<1>9. UsesLiveCus' /\ EncodedOnSuccess'
  BY <1>1 DEF PaholeInv, UsesLiveCus, EncodedOnSuccess, CanSort
<1> QED
  BY <1>4, <1>5, <1>6, <1>7, <1>8, <1>9 DEF PaholeInv

\* What the end of the load and the end of main() keep.
LEMMA Ended ==
  ASSUME PaholeInv, pc \in {"load", "loaded"}, pc' \in {"loaded", "exit"},
         rc' # "none" => pc' = "exit",
         UNCHANGED <<inv, argv, class_name, at, freed, stolen, header, pretty, protos>>
  PROVE  /\ FlowInv' /\ StolenInv' /\ HeaderInv' /\ ProtosInv' /\ SolvedInv' /\ Live' = Live
         /\ UNCHANGED <<tree, list>> => SortedInv'
         /\ UNCHANGED dangling => UsesLiveCus'
<1>1. Live' = Live
  BY DEF Live
<1>2. FlowInv'
  BY DEF PaholeInv, FlowInv
<1>3. StolenInv'
  <2>1. \A id : Passed(id) => Passed(id)'
    BY DEF Passed
  <2> QED
    BY <2>1 DEF PaholeInv, StolenInv
<1>4. HeaderInv' /\ ProtosInv'
  BY <1>1 DEF PaholeInv, HeaderInv, ProtosInv, Found
<1>5. SolvedInv'
  BY DEF PaholeInv, SolvedInv
<1>6. UNCHANGED <<tree, list>> => SortedInv'
  BY <1>1 DEF PaholeInv, SortedInv, CanSort, Entry
<1>7. UNCHANGED dangling => UsesLiveCus'
  BY DEF PaholeInv, UsesLiveCus, CanSort
<1> QED
  BY <1>1, <1>2, <1>3, <1>4, <1>5, <1>6, <1>7

\* Behind the last CU of a file.
LEMMA FileLoadedStep ==
  ASSUME PaholeInv, FileLoaded
  PROVE  PaholeInv'
<1>1. /\ pc = "load" /\ at' = <<at[1] + 1, 1>> /\ pc' = AfterFile
      /\ UNCHANGED <<inv, protos, header, pretty, argv, class_name, freed, stolen, tree, list,
                     encoder, err, dangling, rc>>
  BY DEF FileLoaded, structureVars, streamVars
<1>2. pc' \in {"load", "loaded"} /\ (pc' = "load" => argv # <<>> /\ at[1] # Len(argv))
  BY <1>1 DEF AfterFile, Kernel
<1>3. at[1] \in Nat /\ at[2] \in Nat \ {0} /\ at[1] # 0
  BY <1>1, FileFacts DEF PaholeInv
<1>4. Live' = Live
  BY <1>1, <1>2 DEF Live
<1>5. FlowInv'
  <2>1. argv \in Seq(FileType) /\ (argv # <<>> => at[1] \in 1 .. Len(argv))
    BY <1>1 DEF PaholeInv, FlowInv
  <2>2. pc' = "load" => argv # <<>> /\ at[1] + 1 \in 1 .. Len(argv)
    BY <1>2, <1>3, <2>1
  <2> QED
    BY <1>1, <1>2, <1>3, <2>1, <2>2 DEF PaholeInv, FlowInv
<1>6. StolenInv'
  <2>1. ASSUME NEW k \in DOMAIN stolen PROVE Passed(stolen[k])'
    <3>1. PICK id : id = stolen[k]
      OBVIOUS
    <3>2. Passed(id) /\ id \in Nat \X Nat
      BY <3>1 DEF PaholeInv, StolenInv
    <3>3. id[1] \in Nat /\ id[2] \in Nat
      BY <3>2
    <3>4. Passed(id)'
      BY <1>1, <1>2, <1>3, <3>2, <3>3 DEF Passed
    <3> QED
      BY <1>1, <3>1, <3>4 DEF Passed
  <2> QED
    BY <1>1, <2>1 DEF PaholeInv, StolenInv
<1>7. HeaderInv' /\ ProtosInv'
  BY <1>1, <1>2, <1>4 DEF PaholeInv, HeaderInv, ProtosInv, Found
<1>8. SortedInv'
  BY <1>1, <1>4 DEF PaholeInv, SortedInv, CanSort, Entry
<1>9. SolvedInv' /\ UsesLiveCus' /\ EncodedOnSuccess'
  BY <1>1, <1>2 DEF PaholeInv, SolvedInv, UsesLiveCus, EncodedOnSuccess, CanSort
<1> QED
  BY <1>5, <1>6, <1>7, <1>8, <1>9 DEF PaholeInv

\* A file that cannot be loaded.
LEMMA FileFailedStep ==
  ASSUME PaholeInv, FileFailed
  PROVE  PaholeInv'
<1>1. /\ pc = "load" /\ pc' = "loaded"
      /\ UNCHANGED <<inv, protos, header, pretty, argv, class_name, at, freed, stolen, tree, list,
                     encoder, dangling, rc>>
  BY DEF FileFailed, structureVars, streamVars
<1>2. rc' # "none" => pc' = "exit"
  BY <1>1 DEF PaholeInv, FlowInv
<1>3. EncodedOnSuccess'
  BY <1>1, <1>2 DEF EncodedOnSuccess
<1> QED
  BY <1>1, <1>2, <1>3, Ended DEF PaholeInv

\* The names of -C as they are added to class_names.
LEMMA NamesAreProtos ==
  ASSUME NEW s \in Seq(NameType)
  PROVE  s \in Seq(Prototype) /\ \A k \in DOMAIN s : ~Found(s[k])
<1>1. \A p \in NameType : p \in Prototype /\ ~Found(p)
  <2> SUFFICES ASSUME NEW p \in NameType PROVE p \in Prototype /\ ~Found(p)
    OBVIOUS
  <2>1. <<>> \in Seq(ClassType) /\ <<0, 0>> \in Nat \X Nat /\ {} \in SUBSET SUBSET Nat
    OBVIOUS
  <2> QED
    BY <2>1 DEF NameType, Prototype, Found, NoClass
<1> QED
  BY <1>1

\* populate_class_names(), before files or the running kernel are loaded.
LEMMA NamesStep ==
  ASSUME PaholeInv, Names
  PROVE  PaholeInv'
<1> DEFINE short == class_name = <<>> /\ inv.header_type # 0 /\ inv.mode = "prettify"
           asked == IF short THEN <<inv.header_proto>> ELSE class_name
<1>1. /\ pc = "names" /\ class_name' = asked
      /\ inv' = IF short THEN [inv EXCEPT !.count = 1, !.header_type = 0] ELSE inv
      /\ UNCHANGED <<header, pretty, argv, freed, stolen, tree, list, encoder, err, dangling>>
      /\ \/ pc' = "exit" /\ rc' = "FAILURE" /\ UNCHANGED <<protos, at>>
         \/ pc' = "load" /\ protos' = protos \o asked /\ at' = <<1, 1>> /\ rc' = rc
  BY DEF Names, Exit, structureVars, streamVars
<1>2. inv \in OptionsType /\ class_name \in Seq(NameType) /\ argv \in Seq(FileType)
  BY DEF PaholeInv, FlowInv
<1>3. asked \in Seq(NameType) /\ (class_name # <<>> => asked = class_name)
  <2>1. inv.header_proto \in NameType
    BY <1>2 DEF OptionsType
  <2> QED
    BY <1>2, <2>1
<1>4. /\ inv' \in OptionsType /\ inv'.mode = inv.mode /\ inv'.sort = inv.sort
      /\ inv'.formatter = inv.formatter /\ inv'.stats = inv.stats /\ inv'.encode = inv.encode
  <2>1. PICK i : i = [inv EXCEPT !.count = 1, !.header_type = 0]
    OBVIOUS
  <2>2. i \in OptionsType
    <3>1. [inv EXCEPT !.count = 1, !.header_type = 0] \in OptionsType
      BY <1>2 DEF OptionsType
    <3> QED
      BY <2>1, <3>1
  <2>3. /\ i.mode = inv.mode /\ i.sort = inv.sort /\ i.formatter = inv.formatter
        /\ i.stats = inv.stats /\ i.encode = inv.encode
    BY <1>2, <2>1 DEF OptionsType
  <2>4. inv' = i \/ inv' = inv
    BY <1>1, <2>1, Zenon
  <2> QED
    BY <1>2, <2>2, <2>3, <2>4
<1> HIDE DEF short, asked
<1>5. Live' = Live /\ CanSort' = CanSort
  BY <1>1, <1>4 DEF Live, CanSort
<1>6. FlowInv'
  <2>1. argv # <<>> => 1 \in 1 .. Len(argv)
    BY <1>2
  <2> QED
    BY <1>1, <1>2, <1>3, <1>4, <2>1 DEF PaholeInv, FlowInv
<1>7. StolenInv'
  <2>1. \A id : Passed(id) => Passed(id)'
    BY <1>1 DEF Passed
  <2> QED
    BY <1>1, <2>1 DEF PaholeInv, StolenInv
<1>8. HeaderInv'
  BY <1>1, <1>4, <1>5 DEF PaholeInv, HeaderInv
<1>9. SortedInv'
  BY <1>1, <1>3, <1>4, <1>5 DEF PaholeInv, SortedInv, Entry
<1>10. ProtosInv'
  <2>1. protos = <<>>
    BY <1>1 DEF PaholeInv, ProtosInv
  <2>2. protos' = <<>> \/ (protos' = asked /\ pc' = "load")
    <3>1. <<>> \o asked = asked
      BY <1>3
    <3> QED
      BY <1>1, <2>1, <3>1
  <2>3. pc' # "names"
    BY <1>1
  <2>4. asked \in Seq(Prototype) /\ \A k \in DOMAIN asked : ~Found(asked[k])
    BY <1>3, NamesAreProtos
  <2>5. CASE protos' = <<>>
    <3>1. Len(asked) \in Nat
      BY <1>3
    <3> QED
      BY <1>1, <2>5, <3>1 DEF ProtosInv
  <2>6. CASE protos' = asked
    <3>1. Len(asked) <= Len(asked)
      BY <1>3
    <3>2. PICK s : s = asked
      OBVIOUS
    <3> QED
      BY <1>1, <2>3, <2>4, <2>6, <3>1, <3>2 DEF ProtosInv, Found
  <2> QED
    BY <2>2, <2>5, <2>6
<1>11. SolvedInv'
  BY <1>1 DEF PaholeInv, SolvedInv
<1>12. UsesLiveCus'
  <2>1. CASE class_name = <<>>
    <3>1. dangling => CanSort /\ inv.stats = "methods"
      BY <2>1 DEF PaholeInv, UsesLiveCus
    <3> QED
      BY <1>1, <1>4, <1>5, <3>1 DEF UsesLiveCus
  <2>2. CASE class_name # <<>>
    BY <1>1, <1>3, <1>4, <1>5, <2>2 DEF PaholeInv, UsesLiveCus
  <2> QED
    BY <2>1, <2>2
<1>13. EncodedOnSuccess'
  BY <1>1 DEF PaholeInv, FlowInv, EncodedOnSuccess
<1> QED
  BY <1>6, <1>7, <1>8, <1>9, <1>10, <1>11, <1>12, <1>13 DEF PaholeInv

\* main() tries a file that is none as the name of a class of the running kernel.
LEMMA TrySoleArgStep ==
  ASSUME PaholeInv, TrySoleArg
  PROVE  PaholeInv'
<1>1. /\ pc = "loaded" /\ class_name = <<>> /\ ~inv.encode
      /\ UNCHANGED <<inv, protos, header, pretty, at, freed, stolen, tree, list, encoder, dangling>>
      /\ \/ pc' = "exit" /\ UNCHANGED <<argv, class_name>>
         \/ argv # <<>> /\ class_name' = argv[1].names /\ argv' = <<>> /\ pc' = "names" /\ rc' = rc
  BY DEF TrySoleArg, Loaded, Exit, structureVars, streamVars
<1>2. EncodedOnSuccess'
  BY <1>1 DEF EncodedOnSuccess
<1>3. CASE pc' = "exit" /\ UNCHANGED <<argv, class_name>>
  BY <1>1, <1>2, <1>3, Ended DEF PaholeInv
<1>4. CASE argv # <<>> /\ class_name' = argv[1].names /\ argv' = <<>> /\ pc' = "names" /\ rc' = rc
  <2>1. Live' = Live
    BY <1>1, <1>4 DEF Live
  <2>2. class_name' \in Seq(NameType)
    <3>1. argv[1] \in FileType
      BY <1>4 DEF PaholeInv, FlowInv
    <3> QED
      BY <1>4, <3>1 DEF FileType
  <2>3. FlowInv'
    BY <1>1, <1>4, <2>2 DEF PaholeInv, FlowInv
  <2>4. StolenInv'
    <3>1. \A id : Passed(id) => Passed(id)'
      BY <1>4 DEF Passed
    <3> QED
      BY <1>1, <3>1 DEF PaholeInv, StolenInv
  <2>5. HeaderInv'
    BY <1>1, <2>1 DEF PaholeInv, HeaderInv
  <2>6. SortedInv'
    BY <1>1, <2>1 DEF PaholeInv, SortedInv, CanSort, Entry
  <2>7. ProtosInv'
    <3>1. protos' = <<>>
      BY <1>1 DEF PaholeInv, ProtosInv
    <3>2. Len(class_name') \in Nat
      BY <2>2
    <3> QED
      BY <3>1, <3>2 DEF ProtosInv
  <2>8. SolvedInv'
    BY <1>1, <1>4 DEF PaholeInv, SolvedInv
  <2>9. UsesLiveCus'
    <3>1. dangling => CanSort /\ inv.stats = "methods"
      BY <1>1 DEF PaholeInv, UsesLiveCus
    <3> QED
      BY <1>1, <3>1 DEF UsesLiveCus, CanSort
  <2> QED
    BY <1>2, <2>3, <2>4, <2>5, <2>6, <2>7, <2>8, <2>9 DEF PaholeInv
<1> QED
  BY <1>1, <1>3, <1>4

\* The load failed.
LEMMA LoadErrorStep ==
  ASSUME PaholeInv, LoadError
  PROVE  PaholeInv'
<1>1. /\ pc = "loaded" /\ pc' = "exit" /\ err' # 0
      /\ UNCHANGED <<inv, protos, header, pretty, argv, class_name, at, freed, stolen, tree, list,
                     dangling>>
  BY DEF LoadError, Loaded, Exit, structureVars, streamVars
<1>2. EncodedOnSuccess'
  BY <1>1 DEF EncodedOnSuccess
<1> QED
  BY <1>1, <1>2, Ended DEF PaholeInv

\* One class more of resort_classes(): the entries are still ones of the list.
LEMMA ResortAdd ==
  ASSUME NEW X, NEW resorted \in Seq(X), NEW e \in X, NEW ub
  PROVE  resort_add(ub, resorted, e) \in Seq(X)
<1> DEFINE S == {k \in DOMAIN resorted :
                   type__compare_members_types(resorted[k].class, e.class, ub) < 0}
           n == Cardinality(S) + 1
<1>1. resort_add(ub, resorted, e) = resorted \/ resort_add(ub, resorted, e) = InsertAt(resorted, n, e)
  BY Zenon DEF resort_add
<1>2. Len(resorted) \in Nat /\ DOMAIN resorted = 1 .. Len(resorted)
  OBVIOUS
<1>3. IsFiniteSet(1 .. Len(resorted)) /\ Cardinality(1 .. Len(resorted)) = Len(resorted)
  BY <1>2, FS_Interval
<1>4. Cardinality(S) <= Len(resorted) /\ Cardinality(S) \in Nat
  <2>1. S \subseteq 1 .. Len(resorted)
    BY <1>2
  <2> HIDE DEF S
  <2> QED
    BY <1>3, <2>1, FS_Subset, FS_CardinalityType
<1>5. n \in 1 .. Len(resorted) + 1
  BY <1>2, <1>4
<1> HIDE DEF n
<1>6. InsertAt(resorted, n, e) \in Seq(X)
  BY <1>5, Inserted
<1> QED
  BY <1>1, <1>6

\* resort_classes() has entries of the list, whatever a comparison reads behind
\* the last member of a class.
LEMMA Resorted ==
  ASSUME NEW X, list \in Seq(X), NEW ub \in {-1, 0, 1}
  PROVE  resort_classes(ub) \in Seq(X)
<1>1. \A r \in Seq(X), s \in X : /\ resort_less(r, s) \in Seq(X) /\ resort_same(r, s) \in Seq(X)
                                 /\ resort_more(r, s) \in Seq(X)
  BY ResortAdd DEF resort_less, resort_same, resort_more
<1>2. <<>> \in Seq(X) /\ \A k \in 1 .. Len(list) : list[k] \in X
  OBVIOUS
<1>3. CASE ub = -1
  <2>1. resort_classes(-1) = Less!Fold(<<>>, list)
    BY DEF resort_classes, resort_less, Less!Fold, FoldLeft, MapThenFoldSet, Max,
           Less!FoldLeft, Less!MapThenFoldSet, Less!Max
  <2>2. PICK U : Less!Universe(U, <<>>, list)
    BY Less!FoldLeftKeeps, Zenon
  <2> DEFINE P == {r \in U : r \in Seq(X)}
  <2>3. P \in SUBSET U /\ <<>> \in P /\ \A k \in 1 .. Len(list) : \A r \in P :
          resort_less(r, list[k]) \in U => resort_less(r, list[k]) \in P
    BY <1>1, <1>2, <2>2 DEF Less!Universe
  <2>4. Less!Fold(<<>>, list) \in P
    <3> HIDE DEF P
    <3> QED
      BY <2>2, <2>3 DEF Less!Universe
  <2> QED
    BY <1>3, <2>1, <2>4
<1>4. CASE ub = 0
  <2>1. resort_classes(0) = Same!Fold(<<>>, list)
    BY DEF resort_classes, resort_same, Same!Fold, FoldLeft, MapThenFoldSet, Max,
           Same!FoldLeft, Same!MapThenFoldSet, Same!Max
  <2>2. PICK U : Same!Universe(U, <<>>, list)
    BY Same!FoldLeftKeeps, Zenon
  <2> DEFINE P == {r \in U : r \in Seq(X)}
  <2>3. P \in SUBSET U /\ <<>> \in P /\ \A k \in 1 .. Len(list) : \A r \in P :
          resort_same(r, list[k]) \in U => resort_same(r, list[k]) \in P
    BY <1>1, <1>2, <2>2 DEF Same!Universe
  <2>4. Same!Fold(<<>>, list) \in P
    <3> HIDE DEF P
    <3> QED
      BY <2>2, <2>3 DEF Same!Universe
  <2> QED
    BY <1>4, <2>1, <2>4
<1>5. CASE ub = 1
  <2>1. resort_classes(1) = More!Fold(<<>>, list)
    BY DEF resort_classes, resort_more, More!Fold, FoldLeft, MapThenFoldSet, Max,
           More!FoldLeft, More!MapThenFoldSet, More!Max
  <2>2. PICK U : More!Universe(U, <<>>, list)
    BY More!FoldLeftKeeps, Zenon
  <2> DEFINE P == {r \in U : r \in Seq(X)}
  <2>3. P \in SUBSET U /\ <<>> \in P /\ \A k \in 1 .. Len(list) : \A r \in P :
          resort_more(r, list[k]) \in U => resort_more(r, list[k]) \in P
    BY <1>1, <1>2, <2>2 DEF More!Universe
  <2>4. More!Fold(<<>>, list) \in P
    <3> HIDE DEF P
    <3> QED
      BY <2>2, <2>3 DEF More!Universe
  <2> QED
    BY <1>5, <2>1, <2>4
<1> QED
  BY <1>3, <1>4, <1>5

\* With --sort the classes are printed at the end, from CUs that are still there.
LEMMA PrintOrderedStep ==
  ASSUME PaholeInv, print_ordered_classes
  PROVE  PaholeInv'
<1>1. PICK ub \in {-1, 0, 1} :
        LET sorted == IF need_resort THEN resort_classes(ub) ELSE tree IN
        /\ tree' = IF need_resort THEN sorted ELSE tree
        /\ dangling' = (dangling \/ \E k \in DOMAIN sorted : sorted[k].cu \in freed)
  BY DEF print_ordered_classes
<1> DEFINE sorted == IF need_resort THEN resort_classes(ub) ELSE tree
<1>2. /\ pc = "loaded" /\ pc' = "exit" /\ CanSort /\ rc' = "SUCCESS"
      /\ UNCHANGED <<inv, protos, header, pretty, argv, class_name, at, freed, stolen, list>>
  BY DEF print_ordered_classes, Loaded, Exit, streamVars
<1>3. tree' = sorted /\ dangling' = (dangling \/ \E k \in DOMAIN sorted : sorted[k].cu \in freed)
  BY <1>1
<1> HIDE <1>1
<1>4. ASSUME class_name = <<>>, inv.stats # "methods"
      PROVE  sorted \in Seq(Entry(Live)) /\ list \in Seq(Entry(Live))
  <2>1. tree \in Seq(Entry(Live)) /\ list \in Seq(Entry(Live))
    BY <1>2, <1>4 DEF PaholeInv, SortedInv
  <2>2. resort_classes(ub) \in Seq(Entry(Live))
    BY <2>1, Resorted
  <2> QED
    BY <2>1, <2>2
<1> HIDE DEF sorted
<1>5. /\ FlowInv' /\ StolenInv' /\ HeaderInv' /\ ProtosInv' /\ SolvedInv' /\ Live' = Live
  BY <1>2, Ended
<1>6. SortedInv'
  BY <1>2, <1>3, <1>4, <1>5 DEF SortedInv, Entry
<1>7. UsesLiveCus'
  <2>1. CASE class_name = <<>> /\ inv.stats # "methods"
    <3>1. \A k \in DOMAIN sorted : sorted[k].cu \in Live
      <4>1. \A x \in Entry(Live) : x.cu \in Live
        BY DEF Entry
      <4>2. sorted \in Seq(Entry(Live))
        BY <1>4, <2>1
      <4>3. \A k \in DOMAIN sorted : sorted[k] \in Entry(Live)
        BY <4>2
      <4> QED
        BY <4>1, <4>3
    <3>2. \A k \in DOMAIN sorted : sorted[k].cu \notin freed
      BY <3>1, LiveNotFreed
    <3> QED
      BY <1>2, <1>3, <3>2, Zenon DEF PaholeInv, UsesLiveCus, CanSort
  <2>2. CASE ~(class_name = <<>> /\ inv.stats # "methods")
    BY <1>2, <2>2 DEF UsesLiveCus, CanSort
  <2> QED
    BY <2>1, <2>2
<1>8. EncodedOnSuccess'
  BY <1>2 DEF EncodedOnSuccess, CanSort
<1> QED
  BY <1>5, <1>6, <1>7, <1>8 DEF PaholeInv

\* The rest of main(): what was encoded is written.
LEMMA FinishStep ==
  ASSUME PaholeInv, Finish
  PROVE  PaholeInv'
<1>1. /\ pc = "loaded" /\ pc' = "exit"
      /\ UNCHANGED <<inv, protos, header, pretty, argv, class_name, at, freed, stolen, tree, list,
                     dangling>>
      /\ IF inv.encode /\ encoder # "none"
         THEN encoder' = "written" \/ rc' = "FAILURE"
         ELSE encoder' = encoder
  BY DEF Finish, Loaded, Exit, structureVars, streamVars
<1>2. EncodedOnSuccess'
  BY <1>1 DEF EncodedOnSuccess
<1> QED
  BY <1>1, <1>2, Ended DEF PaholeInv

-----------------------------------------------------------------------------
(* Theorems *)

\* Every step of pahole keeps the invariant.
LEMMA PaholeStep == PaholeInv /\ [Next]_vars => PaholeInv'
<1> SUFFICES ASSUME PaholeInv, [Next]_vars PROVE PaholeInv'
  OBVIOUS
<1>1. CASE Names
  BY <1>1, NamesStep
<1>2. CASE FileLoaded \/ FileFailed
  BY <1>2, FileLoadedStep, FileFailedStep
<1>3. CASE StealFiltered \/ StealEnumerator \/ pahole_stealer__btf_encode
  BY <1>3, StealOther
<1>4. CASE StealClasses \/ StealMethods \/ StealNames
  BY <1>4, StealClassesStep, StealMethodsStep, StealNamesStep
<1>5. CASE Pretty \/ PrettyDone \/ PrettyCrash
  BY <1>5, PrettyStep, PrettyDoneStep, PrettyCrashStep
<1>6. CASE TrySoleArg \/ LoadError
  BY <1>6, TrySoleArgStep, LoadErrorStep
<1>7. CASE print_ordered_classes \/ Finish
  BY <1>7, PrintOrderedStep, FinishStep
<1>8. CASE UNCHANGED vars
  <2>1. UNCHANGED <<inv, protos, header, pretty, pc, argv, class_name, at, freed, stolen, tree, list,
                    encoder, err, dangling, rc>>
    BY <1>8 DEF vars, streamVars
  <2>2. Live' = Live
    BY <2>1 DEF Live, CuId, Kernel
  <2>3. FlowInv' /\ StolenInv'
    BY <2>1 DEF PaholeInv, FlowInv, StolenInv, Passed
  <2>4. HeaderInv' /\ SortedInv' /\ ProtosInv'
    BY <2>1, <2>2 DEF PaholeInv, HeaderInv, SortedInv, ProtosInv, CanSort, Entry, Found
  <2>5. SolvedInv'
    BY <2>1 DEF PaholeInv, SolvedInv, NeedsEnum, Found
  <2>6. UsesLiveCus' /\ EncodedOnSuccess'
    BY <2>1 DEF PaholeInv, UsesLiveCus, EncodedOnSuccess, CanSort
  <2> QED
    BY <2>3, <2>4, <2>5, <2>6 DEF PaholeInv
<1> QED
  BY <1>1, <1>2, <1>3, <1>4, <1>5, <1>6, <1>7, <1>8 DEF Next, Done

\* In every behaviour of pahole, whatever the files and the options are, each CU
\* is met once, and what is printed in order, the header and the only class that
\* is asked for are in CUs that were not given back.
THEOREM PaholeInvariance == Spec => []PaholeInv
<1>1. Init => PaholeInv
  BY PaholeInit
<1>2. PaholeInv /\ [Next]_vars => PaholeInv'
  BY PaholeStep
<1> QED
  BY <1>1, <1>2, PTL DEF Spec

\* What main() and pretty printing work on is there: CUs that were not given
\* back, but for -m, -i and -f with --sort and for several prototypes, and the
\* header, types and enumerations that printing needs.
THEOREM WhatIsUsedIsThere == Spec => []UsesWhatIsThere
<1>1. PaholeInv => UsesWhatIsThere
  BY DEF PaholeInv, SolvedInv, UsesWhatIsThere, SolvedBeforePretty
<1> QED
  BY <1>1, PaholeInvariance, PTL

\* pahole -J that exits with success has written what it encoded, unless the load
\* failed or --sort made main() forget about it.
THEOREM SuccessIsEncoded == Spec => []EncodedOnSuccess
<1>1. PaholeInv => EncodedOnSuccess
  BY DEF PaholeInv
<1> QED
  BY <1>1, PaholeInvariance, PTL

\* The stealer is called with the CU the load is at, and never twice with one,
\* also when the running kernel is loaded after a file of the command line was
\* none.
MetOnce == stolen' # stolen => stolen' = Append(stolen, CuId) /\ CuId \notin ToSet(stolen)
THEOREM CusMetOnce == Spec => [][MetOnce]_vars
<1>1. ASSUME PaholeInv, [Next]_vars PROVE [MetOnce]_vars
  <2>1. \/ UNCHANGED stolen
        \/ pc \in {"load", "pretty"} /\ \E verdict : Answer(verdict)
    <3>1. CASE StealFiltered \/ StealEnumerator \/ pahole_stealer__btf_encode
      BY <3>1 DEF StealFiltered, StealEnumerator, pahole_stealer__btf_encode, Showing, Stealing
    <3>2. CASE StealClasses \/ StealMethods
      BY <3>2 DEF StealClasses, StealMethods, Showing, Stealing
    <3>3. CASE StealNames
      BY <3>3, Zenon DEF StealNames, Showing, Stealing
    <3>4. CASE PrettyDone
      BY <3>4 DEF PrettyDone
    <3>5. CASE Names \/ FileLoaded \/ FileFailed \/ Pretty \/ PrettyCrash
      BY <3>5 DEF Names, FileLoaded, FileFailed, Pretty, PrettyCrash
    <3>6. CASE TrySoleArg \/ LoadError \/ print_ordered_classes \/ Finish
      BY <3>6 DEF TrySoleArg, LoadError, print_ordered_classes, Finish
    <3>7. CASE UNCHANGED vars
      BY <3>7 DEF vars
    <3> QED
      BY <1>1, <3>1, <3>2, <3>3, <3>4, <3>5, <3>6, <3>7 DEF Next, Done
  <2>2. pc \in {"load", "pretty"} => CuId \notin ToSet(stolen)
    BY <1>1, NotStolen DEF PaholeInv
  <2>3. (\E verdict : Answer(verdict)) => stolen' = Append(stolen, CuId)
    BY DEF Answer
  <2> QED
    BY <2>1, <2>2, <2>3 DEF MetOnce
<1> QED
  BY <1>1, PaholeInvariance, PTL DEF Spec

=============================================================================
