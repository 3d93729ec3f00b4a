------------------------ MODULE BtfFunctionsProofs ------------------------
(***************************************************************************)
(* Proofs about BtfFunctions for every set of functions and symbols, every *)
(* number of CUs and every order in which qsort() leaves equal elements:   *)
(* type correctness; that a good function is added; and, as long as one    *)
(* ELF file is processed, that a function is added at most once, never     *)
(* with an instance that cannot be trusted, only with consistent           *)
(* prototypes and only for the code its name stands for.                   *)
(***************************************************************************)
EXTENDS BtfFunctions, FiniteSetTheorems, WellFoundedInduction, TLAPS

Busy == pc \in {"combine", "add"}

\* t is what has become of the saved state s.
Carries(t, s) ==
    /\ t.elf = s.elf /\ t.name = s.name /\ t.addr = s.addr /\ t.types = s.types
    /\ s.flags \subseteq t.flags

\* No instance is lost by the sort, and none forgets a flag.
KeepInv ==
    /\ pc \in {"cus", "functions"} => saved = func_states /\ btf = <<>>
    /\ Busy => \A m \in 1..Len(saved) :
                  \E k \in 1..Len(func_states) : Carries(func_states[k], saved[m])

\* The array stays sorted while flags are shared.
SortInv ==
    Busy => \A a, b \in 1..Len(func_states) :
               a < b => saved_functions_cmp(func_states[a], func_states[b])

\* i..(j - 1) are instances of one function, and the first of them knows what
\* any of them does.
GroupInv ==
    Busy =>
        /\ \A k \in i..(j - 1) : func_states[k].name = func_states[i].name
        /\ \A k \in 1..(i - 1) : func_states[k].name < func_states[i].name
        /\ \A k \in i..(j - 1) :
              func_states[k].flags \cap SharedFlags \subseteq func_states[i].flags
        /\ pc = "add" /\ j <= Len(func_states)
              => func_states[i].name < func_states[j].name

\* As long as nothing else keeps the function out, every instance that has to
\* be compared with the first one was found to match it.
MatchInv ==
    Busy /\ func_states[i].flags
               \cap {"unexpected_reg", "inconsistent_proto", "reordered_parm"} = {}
      => \A k \in i..(j - 1) :
            ~true_signature
               \/ ((func_states[i].addr # 0) <=> (func_states[k].addr # 0))
            => funcs__match(func_states[i], func_states[k])

\* Functions are added in the order of their names.
NamesInv ==
    /\ \A k, m \in 1..Len(btf) : k < m => btf[k].name < btf[m].name
    /\ Busy => \A k \in 1..Len(btf) : btf[k].name < func_states[i].name

IInv == /\ TypeOK /\ KeepInv /\ SortInv /\ GroupInv /\ MatchInv /\ NamesInv
        /\ EncodedTrusted /\ EncodedConsistent

-----------------------------------------------------------------------------
(* Operators                                                               *)

LEMMA MatchEquivalence ==
    ASSUME NEW s \in State, NEW t \in State, NEW u \in State
    PROVE  /\ funcs__match(s, s)
           /\ funcs__match(s, t) => funcs__match(t, s)
           /\ funcs__match(s, t) /\ funcs__match(t, u) => funcs__match(s, u)
<1>0. s.types \in Seq(Types) /\ t.types \in Seq(Types) /\ u.types \in Seq(Types)
  BY DEF State
<1>1. funcs__match(s, s)
  BY <1>0, MatchReflexive DEF funcs__match
<1>2. funcs__match(s, t) => funcs__match(t, s)
  BY <1>0, MatchSymmetric DEF funcs__match
<1>3. funcs__match(s, t) /\ funcs__match(t, u) => funcs__match(s, u)
  BY <1>0, MatchTransitive DEF funcs__match
<1> QED
  BY <1>1, <1>2, <1>3

LEMMA FunctionIsSeq ==
    ASSUME NEW T, NEW n \in Nat, NEW r \in [1..n -> T]
    PROVE  r \in Seq(T) /\ Len(r) = n
OBVIOUS

LEMMA SeqDomain ==
    ASSUME NEW T, NEW s \in Seq(T)
    PROVE  DOMAIN s = 1..Len(s)
OBVIOUS

LEMMA AppendElements ==
    ASSUME NEW T, NEW s \in Seq(T), NEW b
    PROVE  \A m \in DOMAIN Append(s, b) :
              (m \in DOMAIN s /\ Append(s, b)[m] = s[m]) \/ Append(s, b)[m] = b
OBVIOUS

\* Whichever order qsort() chooses: nothing is lost and the result is sorted.
LEMMA SortedStates ==
    ASSUME NEW s \in Seq(State), NEW r \in qsort(s, 1..Len(s), saved_functions_cmp)
    PROVE  /\ r \in Seq(State) /\ Len(r) = Len(s)
           /\ \A x \in 1..Len(s) : \E k \in 1..Len(r) : r[k] = s[x]
           /\ \A k \in 1..Len(r) : \E x \in 1..Len(s) : r[k] = s[x]
           /\ \A a, b \in 1..Len(r) : a < b => saved_functions_cmp(r[a], r[b])
<1> DEFINE n == Cardinality(1..Len(s))
<1>1. n = Len(s) /\ n \in Nat
  BY FS_Interval
<1>2. PICK p \in [1..n -> 1..Len(s)] :
         /\ \A x \in 1..Len(s) : \E k \in 1..n : p[k] = x
         /\ \A a, b \in 1..n : a < b => saved_functions_cmp(s[p[a]], s[p[b]])
         /\ r = [k \in 1..n |-> s[p[k]]]
  BY DEF qsort
<1> HIDE DEF n
<1>3. r \in [1..n -> State]
  <2>1. \A k \in 1..n : p[k] \in 1..Len(s) /\ s[p[k]] \in State
    BY <1>1, <1>2
  <2> QED
    BY <1>2, <2>1
<1>4. r \in Seq(State) /\ Len(r) = n
  BY <1>1, <1>3, FunctionIsSeq
<1> QED
  BY <1>1, <1>2, <1>4

LEMMA SortedSyms ==
    ASSUME NEW s \in Seq(Sym), NEW S \in SUBSET (1..Len(s)),
           NEW r \in qsort(s, S, elf_function__name_cmp)
    PROVE  /\ r \in Seq(Sym)
           /\ \A x \in S : \E k \in 1..Len(r) : r[k] = s[x]
           /\ \A k \in 1..Len(r) : \E x \in S : r[k] = s[x]
           /\ \A a, b \in 1..Len(r) : a < b => r[a].name <= r[b].name
<1> DEFINE n == Cardinality(S)
<1>1. n \in Nat
  <2>1. IsFiniteSet(1..Len(s))
    BY FS_Interval
  <2>2. IsFiniteSet(S)
    BY <2>1, FS_Subset
  <2> QED
    BY <2>2, FS_CardinalityType
<1>2. PICK p \in [1..n -> S] :
         /\ \A x \in S : \E k \in 1..n : p[k] = x
         /\ \A a, b \in 1..n : a < b => elf_function__name_cmp(s[p[a]], s[p[b]])
         /\ r = [k \in 1..n |-> s[p[k]]]
  BY DEF qsort
<1> HIDE DEF n
<1>3. r \in [1..n -> Sym]
  <2>0. \A x \in 1..Len(s) : s[x] \in Sym
    OBVIOUS
  <2>1. \A k \in 1..n : p[k] \in 1..Len(s) /\ s[p[k]] \in Sym
    <3> SUFFICES ASSUME NEW k \in 1..n PROVE p[k] \in 1..Len(s)
      BY <2>0
    <3> QED
      OBVIOUS
  <2> QED
    BY <1>2, <2>1
<1>4. r \in Seq(Sym) /\ Len(r) = n
  BY <1>1, <1>3, FunctionIsSeq
<1>5. \A k \in 1..n : p[k] \in S /\ r[k] = s[p[k]]
  BY <1>2
<1>6. ASSUME NEW a \in 1..n, NEW b \in 1..n, a < b
      PROVE  r[a].name <= r[b].name
  <2>1. r[a] = s[p[a]] /\ r[b] = s[p[b]]
    BY <1>5
  <2>2. s[p[a]].name <= s[p[b]].name
    BY <1>2, <1>6, Zenon DEF elf_function__name_cmp
  <2> QED
    BY <2>1, <2>2, Zenon
<1> QED
  BY <1>2, <1>4, <1>5, <1>6

LEMMA WithSharedFacts ==
    ASSUME NEW s \in State, NEW flags \in SUBSET SharedFlags,
           s.flags \cap SharedFlags \subseteq flags
    PROVE  /\ WithShared(s, flags) \in State
           /\ Carries(WithShared(s, flags), s)
           /\ WithShared(s, flags).flags \cap SharedFlags = flags
<1>1. s.flags \subseteq SharedFlags \cup OwnFlags
  BY DEF State
<1>2. OwnFlags \cap SharedFlags = {}
  BY DEF OwnFlags, SharedFlags
<1>3. WithShared(s, flags).flags = (s.flags \cap OwnFlags) \cup flags
  BY DEF WithShared, State
<1>4. WithShared(s, flags) \in State
  BY <1>1 DEF WithShared, State
<1>5. Carries(WithShared(s, flags), s)
  <2>1. LET t == WithShared(s, flags) IN
        t.elf = s.elf /\ t.name = s.name /\ t.addr = s.addr /\ t.types = s.types
    BY DEF WithShared, State
  <2> QED
    BY <1>1, <1>3, <2>1 DEF Carries
<1> QED
  BY <1>2, <1>3, <1>4, <1>5

\* The flags two instances share include what each of them had, and a mismatch.
LEMMA CombinedFacts ==
    ASSUME NEW a \in State, NEW b \in State
    PROVE  LET flags == combined_flags(a, b) IN
           /\ flags \in SUBSET SharedFlags
           /\ a.flags \cap SharedFlags \subseteq flags
           /\ b.flags \cap SharedFlags \subseteq flags
           /\ flags \cap {"unexpected_reg", "inconsistent_proto", "reordered_parm"} = {}
                 => (~true_signature \/ ((a.addr # 0) <=> (b.addr # 0))
                        => funcs__match(a, b))
<1> DEFINE sh == Shared(a, b)
<1>1. /\ sh \subseteq SharedFlags
      /\ a.flags \cap SharedFlags \subseteq sh /\ b.flags \cap SharedFlags \subseteq sh
  BY DEF Shared
<1>2. sh \subseteq combined_flags(a, b)
  BY DEF combined_flags
<1>3. combined_flags(a, b) \subseteq SharedFlags
  BY <1>1 DEF combined_flags, SharedFlags
<1>4. ASSUME combined_flags(a, b)
                \cap {"unexpected_reg", "inconsistent_proto", "reordered_parm"} = {},
             ~true_signature \/ ((a.addr # 0) <=> (b.addr # 0))
      PROVE  funcs__match(a, b)
  <2>1. sh \subseteq {"uncertain_parm_loc"}
    BY <1>1, <1>2, <1>4 DEF SharedFlags
  <2>2. "inconsistent_proto" \notin combined_flags(a, b)
    BY <1>4
  <2> QED
    BY <1>4, <2>1, <2>2 DEF combined_flags
<1> QED
  BY <1>1, <1>2, <1>3, <1>4

-----------------------------------------------------------------------------
(* Type correctness                                                        *)

LEMMA TypeInit == Init => TypeOK
<1> SUFFICES ASSUME Init PROVE TypeOK
  OBVIOUS
<1>1. <<>> \in Seq(State)
  OBVIOUS
<1> QED
  BY <1>1, OptionsAssumption DEF Init, TypeOK

\* The function that is saved.
LEMMA FuncStateType ==
    ASSUME TypeOK, cu \in Elfs, NEW fn \in Fns, NEW sym \in SymSuffix
    PROVE  func_state(fn, sym) \in State
<1>1. fn \in FnType
  BY FnsAssumption
<1>2. KeptTypes(fn) \in Seq(Types)
  BY <1>1 DEF KeptTypes, FnType
<1>3. fn.flags \subseteq SharedFlags \cup OwnFlags
  BY <1>1 DEF FnType, FnFlags
<1>4. func_state(fn, sym).flags \subseteq SharedFlags \cup OwnFlags
  BY <1>3 DEF func_state, OwnFlags
<1> QED
  BY <1>1, <1>2, <1>4 DEF func_state, State, FnType

\* A function that is added.
LEMMA AddFuncType ==
    ASSUME TypeOK, NEW s \in State, btf_encoder__add_func(s)
    PROVE  btf' \in Seq([elf : Elfs, name : Nat, addr : Nat, sym : SymSuffix,
                         types : Seq(Types)])
BY DEF btf_encoder__add_func, TypeOK, State

LEMMA TypeNextGroup ==
    ASSUME TypeOK, pc = "add", next_group
    PROVE  /\ pc' \in {"combine", "end"}
           /\ func_states' \in Seq(State)
           /\ i' \in Nat /\ j' \in Nat
           /\ pc' = "combine" =>
                 i' \in 1..Len(func_states') /\ j' \in (i' + 1)..(Len(func_states') + 1)
<1>1. CASE j <= Len(func_states)
  BY <1>1 DEF next_group, TypeOK
<1>2. CASE ~(j <= Len(func_states))
  BY <1>2 DEF next_group, TypeOK
<1> QED
  BY <1>1, <1>2

LEMMA CanonicalInGroup ==
    ASSUME TypeOK, pc \in {"combine", "add"}
    PROVE  /\ canonical_state \subseteq Group
           /\ Firsts(TrueStates) \subseteq TrueStates /\ TrueStates \subseteq Group
           /\ Group \subseteq 1..Len(func_states) /\ i \in Group
<1>1. Group \subseteq 1..Len(func_states) /\ i \in Group
  BY DEF Group, TypeOK
<1>2. canonical_state \subseteq Group
  BY <1>1 DEF canonical_state, btf_encoder__select_canonical_state, Firsts
<1> QED
  BY <1>1, <1>2 DEF Firsts, TrueStates

LEMMA TypeStep == TypeOK /\ [Next]_vars => TypeOK'
<1> SUFFICES ASSUME TypeOK, [Next]_vars PROVE TypeOK'
  OBVIOUS
<1> USE DEF conf
<1>1. CASE UNCHANGED vars
  BY <1>1 DEF vars, TypeOK
<1>2. ASSUME NEW e \in Elfs, btf_encoder__elf_functions(e) PROVE TypeOK'
  <2>1. CASE e \in DOMAIN tables
    BY <1>2, <2>1 DEF btf_encoder__elf_functions, TypeOK
  <2>2. CASE e \notin DOMAIN tables
    <3>1. PICK t \in elf_functions__collect(e) :
             tables' = [x \in DOMAIN tables \cup {e} |->
                          IF x = e THEN t ELSE tables[x]]
      BY <1>2, <2>2 DEF btf_encoder__elf_functions
    <3>2. symtab[e] \in Seq(Sym)
      BY SymTabsAssumption DEF TypeOK
    <3>3. t.syms \in Seq(Sym)
      <4> DEFINE S == {k \in 1..Len(symtab[e]) :
                          ~str_contains_non_fn_suffix(symtab[e][k].suffix)}
      <4>1. t.syms \in qsort(symtab[e], S, elf_function__name_cmp)
        BY <3>1 DEF elf_functions__collect
      <4>2. S \in SUBSET (1..Len(symtab[e]))
        OBVIOUS
      <4> HIDE DEF S
      <4> QED
        BY <3>2, <4>1, <4>2, SortedSyms
    <3>4. DOMAIN tables' = DOMAIN tables \cup {e}
      BY <3>1
    <3>5. \A x \in DOMAIN tables' : tables'[x].syms \in Seq(Sym)
      BY <3>1, <3>3, <3>4 DEF TypeOK
    <3> QED
      BY <1>2, <3>4, <3>5 DEF btf_encoder__elf_functions, TypeOK
  <2> QED
    BY <2>1, <2>2
<1>3. ASSUME NEW fn \in Fns, btf_encoder__save_func(fn) PROVE TypeOK'
  <2>1. cu \in Elfs
    BY <1>3 DEF btf_encoder__save_func, TypeOK
  <2>2. PICK sym \in SymSuffix :
           func_states' = Append(func_states, func_state(fn, sym))
    BY <1>3 DEF btf_encoder__save_func
  <2>3. func_states' \in Seq(State)
    BY <2>1, <2>2, FuncStateType DEF TypeOK
  <2> QED
    BY <1>3, <2>3 DEF btf_encoder__save_func, TypeOK
<1>4. CASE encode_cu_error
  BY <1>4 DEF encode_cu_error, TypeOK
<1>5. CASE encode_cu_end
  BY <1>5 DEF encode_cu_end, TypeOK
<1>n. CASE no_saved_funcs
  BY <1>n DEF no_saved_funcs, TypeOK
<1>6. CASE sort_saved_funcs
  <2>1. func_states' \in Seq(State) /\ Len(func_states') = Len(func_states)
    BY <1>6, SortedStates DEF sort_saved_funcs, TypeOK
  <2>2. Len(func_states) \in Nat /\ Len(func_states) # 0
    BY <1>6 DEF sort_saved_funcs, TypeOK
  <2> QED
    BY <1>6, <2>1, <2>2 DEF sort_saved_funcs, TypeOK
<1>7. CASE saved_functions_combine
  <2> DEFINE flags == combined_flags(func_states[i], func_states[j])
             ws(k) == WithShared(func_states[k], flags)
  <2>1. /\ i \in 1..Len(func_states) /\ j \in 1..Len(func_states) /\ i < j
        /\ func_states[i] \in State /\ func_states[j] \in State
    BY <1>7 DEF saved_functions_combine, TypeOK
  <2>2. ws(i) \in State /\ ws(j) \in State
    BY <2>1, CombinedFacts, WithSharedFacts
  <2>3. func_states' = [func_states EXCEPT ![i] = ws(i), ![j] = ws(j)]
    BY <1>7 DEF saved_functions_combine
  <2> HIDE DEF flags, ws
  <2>4. func_states' \in Seq(State) /\ Len(func_states') = Len(func_states)
    BY <2>1, <2>2, <2>3 DEF TypeOK
  <2> QED
    BY <1>7, <2>1, <2>4 DEF saved_functions_combine, TypeOK
<1>8. CASE combine_end
  BY <1>8 DEF combine_end, TypeOK
<1>9. ASSUME pc = "add", next_group, UNCHANGED <<conf, cu, tables, saved>>,
             \/ UNCHANGED btf
             \/ \E k \in Group : btf_encoder__add_func(func_states[k])
      PROVE  TypeOK'
  <2>1. btf' \in Seq([elf : Elfs, name : Nat, addr : Nat, sym : SymSuffix,
                      types : Seq(Types)])
    <3>1. CASE UNCHANGED btf
      BY <3>1 DEF TypeOK
    <3>2. ASSUME NEW k \in Group, btf_encoder__add_func(func_states[k])
          PROVE  btf' \in Seq([elf : Elfs, name : Nat, addr : Nat, sym : SymSuffix,
                               types : Seq(Types)])
      <4>1. func_states[k] \in State
        BY <1>9, <3>2, CanonicalInGroup DEF TypeOK
      <4> QED
        BY <3>2, <4>1, AddFuncType
    <3> QED
      BY <1>9, <3>1, <3>2
  <2>2. /\ pc' \in {"combine", "end"}
        /\ func_states' \in Seq(State)
        /\ i' \in Nat /\ j' \in Nat
        /\ pc' = "combine" =>
              i' \in 1..Len(func_states') /\ j' \in (i' + 1)..(Len(func_states') + 1)
    BY <1>9, TypeNextGroup
  <2> QED
    BY <1>9, <2>1, <2>2 DEF TypeOK
<1>10. CASE btf_encoder__add_true_signature
  BY <1>9, <1>10, CanonicalInGroup DEF btf_encoder__add_true_signature
<1>11. CASE btf_encoder__add_canonical
  BY <1>9, <1>11, CanonicalInGroup DEF btf_encoder__add_canonical
<1>12. CASE btf_encoder__log_func_skip
  BY <1>9, <1>12 DEF btf_encoder__log_func_skip
<1>13. CASE add_saved_funcs_error
  BY <1>13 DEF add_saved_funcs_error, TypeOK
<1> QED
  BY <1>1, <1>2, <1>3, <1>4, <1>5, <1>6, <1>7, <1>8, <1>10, <1>11, <1>12, <1>13, <1>n
     DEF Next

\* The array of saved functions and the loop over it stay type correct for
\* every set of functions, symbols and options.
THEOREM FunctionsTypeCorrect == Spec => []TypeOK
<1> QED
  BY TypeInit, TypeStep, PTL DEF Spec

-----------------------------------------------------------------------------
(* The saved functions                                                     *)

\* What one comparison does to the array.
LEMMA CombineArray ==
    ASSUME TypeOK, saved_functions_combine
    PROVE  /\ i \in 1..Len(func_states) /\ j \in 1..Len(func_states) /\ i < j
           /\ Len(func_states') = Len(func_states)
           /\ \A k \in 1..Len(func_states) :
                 /\ Carries(func_states'[k], func_states[k])
                 /\ func_states'[k].sym = func_states[k].sym
                 /\ k # i /\ k # j => func_states'[k] = func_states[k]
           /\ LET flags == combined_flags(func_states[i], func_states[j]) IN
              /\ func_states'[i].flags = (func_states[i].flags \cap OwnFlags) \cup flags
              /\ func_states'[j].flags = (func_states[j].flags \cap OwnFlags) \cup flags
<1> DEFINE fs == func_states
           flags == combined_flags(fs[i], fs[j])
           ws(k) == WithShared(fs[k], flags)
<1>1. func_states' = [fs EXCEPT ![i] = ws(i), ![j] = ws(j)]
  BY DEF saved_functions_combine
<1>2. /\ i \in 1..Len(fs) /\ j \in 1..Len(fs) /\ i < j
      /\ \A k \in 1..Len(fs) : fs[k] \in State
      /\ fs \in Seq(State)
  BY DEF TypeOK, saved_functions_combine
<1>3. /\ flags \in SUBSET SharedFlags
      /\ fs[i].flags \cap SharedFlags \subseteq flags
      /\ fs[j].flags \cap SharedFlags \subseteq flags
  BY <1>2, CombinedFacts
<1>4. Carries(ws(i), fs[i]) /\ Carries(ws(j), fs[j])
  BY <1>2, <1>3, WithSharedFacts
<1>5. \A k \in 1..Len(fs) : /\ ws(k).flags = (fs[k].flags \cap OwnFlags) \cup flags
                            /\ ws(k).sym = fs[k].sym
  BY <1>2 DEF WithShared, State
<1> HIDE DEF flags, ws
<1>6. /\ Len(func_states') = Len(fs)
      /\ func_states'[i] = ws(i) /\ func_states'[j] = ws(j)
      /\ \A k \in 1..Len(fs) : k # i /\ k # j => func_states'[k] = fs[k]
  BY <1>1, <1>2
<1>7. \A k \in 1..Len(fs) : /\ Carries(func_states'[k], fs[k])
                            /\ func_states'[k].sym = fs[k].sym
  BY <1>4, <1>5, <1>6, <1>2 DEF Carries
<1> QED
  BY <1>2, <1>5, <1>6, <1>7 DEF flags

\* No step loses a saved function.
LEMMA KeepStep == TypeOK /\ KeepInv /\ [Next]_vars => KeepInv'
<1> SUFFICES ASSUME TypeOK, KeepInv, [Next]_vars PROVE KeepInv'
  OBVIOUS
<1> USE DEF conf
<1>1. ASSUME pc \in {"cus", "functions"}, pc' \in {"cus", "functions", "abort", "end"},
             UNCHANGED btf,
             saved' = func_states' \/ UNCHANGED <<func_states, saved>>
      PROVE  KeepInv'
  BY <1>1 DEF KeepInv, Busy
<1>2. ASSUME UNCHANGED <<btf, saved, func_states>>,
             pc' = pc \/ (pc = "combine" /\ pc' = "add")
      PROVE  KeepInv'
  <2>1. (pc' \in {"cus", "functions"} => pc \in {"cus", "functions"})
        /\ (Busy' => Busy)
    BY <1>2 DEF Busy
  <2> QED
    BY <1>2, <2>1 DEF KeepInv, Carries
<1>3. ASSUME pc = "add", next_group, UNCHANGED saved PROVE KeepInv'
  <2>1. pc' = "end" \/ (pc' = "combine" /\ func_states' = func_states)
    BY <1>3 DEF next_group
  <2>2. CASE pc' = "end"
    BY <2>2 DEF KeepInv, Busy
  <2>3. CASE pc' = "combine" /\ func_states' = func_states
    BY <1>3, <2>3 DEF KeepInv, Busy, Carries
  <2> QED
    BY <2>1, <2>2, <2>3
<1>4. CASE sort_saved_funcs
  <2>1. /\ pc' = "combine" /\ saved' = saved /\ saved = func_states
        /\ func_states' \in qsort(func_states, 1..Len(func_states), saved_functions_cmp)
    BY <1>4 DEF sort_saved_funcs, KeepInv
  <2>2. \A x \in 1..Len(func_states) :
           \E k \in 1..Len(func_states') : func_states'[k] = func_states[x]
    BY <2>1, SortedStates DEF TypeOK
  <2> QED
    BY <2>1, <2>2 DEF KeepInv, Carries
<1>5. CASE saved_functions_combine
  <2>1. pc = "combine" /\ pc' = "combine" /\ saved' = saved
    BY <1>5 DEF saved_functions_combine
  <2>2. /\ Len(func_states') = Len(func_states)
        /\ \A k \in 1..Len(func_states) : Carries(func_states'[k], func_states[k])
    BY <1>5, CombineArray
  <2> SUFFICES ASSUME NEW m \in 1..Len(saved)
               PROVE  \E k \in 1..Len(func_states') : Carries(func_states'[k], saved[m])
    BY <2>1 DEF KeepInv, Carries
  <2>3. PICK k \in 1..Len(func_states) : Carries(func_states[k], saved[m])
    BY <2>1 DEF KeepInv, Busy
  <2>4. Carries(func_states'[k], saved[m])
    BY <2>2, <2>3 DEF Carries
  <2> QED
    BY <2>2, <2>4
<1>6. CASE add_saved_funcs_error
  BY <1>6 DEF add_saved_funcs_error, KeepInv, Busy
<1>7. CASE UNCHANGED vars
  BY <1>2, <1>7 DEF vars
<1>8. ASSUME NEW e \in Elfs, btf_encoder__elf_functions(e) PROVE KeepInv'
  BY <1>1, <1>8 DEF btf_encoder__elf_functions
<1>9. ASSUME NEW fn \in Fns, btf_encoder__save_func(fn) PROVE KeepInv'
  BY <1>1, <1>9 DEF btf_encoder__save_func
<1>10. CASE encode_cu_error \/ encode_cu_end \/ no_saved_funcs
  BY <1>1, <1>10 DEF encode_cu_error, encode_cu_end, no_saved_funcs
<1>11. CASE combine_end
  BY <1>2, <1>11 DEF combine_end
<1>12. CASE \/ btf_encoder__add_true_signature \/ btf_encoder__add_canonical
            \/ btf_encoder__log_func_skip
  BY <1>3, <1>12 DEF btf_encoder__add_true_signature, btf_encoder__add_canonical,
                     btf_encoder__log_func_skip
<1> QED
  BY <1>4, <1>5, <1>6, <1>7, <1>8, <1>9, <1>10, <1>11, <1>12 DEF Next
-----------------------------------------------------------------------------
(* One ELF file                                                            *)

\* Only one ELF file is processed: BtfFunctions_twoelfs.cfg shows that it is needed.
OneElfFile == \A e, f \in Elfs : e = f

LEMMA IInit == Init => IInv
<1> SUFFICES ASSUME Init PROVE IInv
  OBVIOUS
<1>1. TypeOK
  BY TypeInit
<1>2. btf = <<>> /\ pc = "cus" /\ saved = func_states
  BY DEF Init
<1>3. KeepInv /\ SortInv /\ GroupInv /\ MatchInv
  BY <1>2 DEF KeepInv, SortInv, GroupInv, MatchInv, Busy
<1>4. NamesInv
  BY <1>2 DEF NamesInv, Busy
<1>5. Encoded = {}
  BY <1>2 DEF Encoded, ToSet
<1>6. EncodedTrusted /\ EncodedConsistent
  BY <1>5 DEF EncodedTrusted, EncodedConsistent
<1> QED
  BY <1>1, <1>3, <1>4, <1>6 DEF IInv

\* What is said of the functions added stays true while neither they nor the
\* saved functions change.
LEMMA EncodedSame ==
    ASSUME EncodedTrusted, EncodedConsistent, UNCHANGED <<conf, btf, saved>>
    PROVE  EncodedTrusted' /\ EncodedConsistent'
<1> USE DEF conf
<1>1. Encoded' = Encoded /\ (\A b : Instances(b)' = Instances(b))
  BY DEF Encoded, Instances, SameElf
<1>2. EncodedTrusted'
  BY <1>1 DEF EncodedTrusted, Encoded, Instances
<1>3. EncodedConsistent'
  BY <1>1 DEF EncodedConsistent, Encoded, Instances
<1> QED
  BY <1>2, <1>3

\* Before the functions are sorted none is added.
LEMMA EncodedNone ==
    ASSUME btf' = <<>>
    PROVE  EncodedTrusted' /\ EncodedConsistent'
<1>1. Encoded' = {}
  BY DEF Encoded, ToSet
<1> QED
  BY <1>1 DEF EncodedTrusted, EncodedConsistent

LEMMA StepSort ==
    ASSUME IInv, TypeOK', sort_saved_funcs
    PROVE  IInv'
<1> USE DEF conf
<1>0. TypeOK /\ KeepInv
  BY DEF IInv
<1>1. /\ pc = "cus" /\ pc' = "combine" /\ i' = 1 /\ j' = 2
      /\ func_states' \in qsort(func_states, 1..Len(func_states), saved_functions_cmp)
      /\ UNCHANGED <<conf, btf, saved>>
  BY DEF sort_saved_funcs
<1>2. saved = func_states /\ btf = <<>>
  BY <1>0, <1>1 DEF KeepInv
<1>3. /\ func_states' \in Seq(State) /\ Len(func_states') = Len(func_states)
      /\ \A x \in 1..Len(func_states) :
            \E k \in 1..Len(func_states') : func_states'[k] = func_states[x]
      /\ \A a, b \in 1..Len(func_states') :
            a < b => saved_functions_cmp(func_states'[a], func_states'[b])
  BY <1>0, <1>1, SortedStates DEF TypeOK
<1>4. KeepInv'
  BY <1>0, KeepStep DEF Next
<1>5. SortInv'
  BY <1>3 DEF SortInv, saved_functions_cmp
<1>6. 1 \in 1..Len(func_states') /\ func_states'[1] \in State
  BY <1>1, <1>3 DEF TypeOK
<1>7. GroupInv'
  BY <1>1, <1>6 DEF GroupInv
<1>8. MatchInv'
  <2>1. funcs__match(func_states'[1], func_states'[1])
    BY <1>6, MatchEquivalence
  <2> QED
    BY <1>1, <2>1 DEF MatchInv, funcs__match
<1>9. NamesInv'
  BY <1>1, <1>2 DEF NamesInv
<1>10. EncodedTrusted' /\ EncodedConsistent'
  BY <1>1, <1>2, EncodedNone
<1> QED
  BY <1>4, <1>5, <1>7, <1>8, <1>9, <1>10 DEF IInv

\* What TypeOK says of the elements of the arrays.
LEMMA ElementFacts ==
    ASSUME TypeOK
    PROVE  /\ \A x \in 1..Len(func_states) : func_states[x] \in State
                                             /\ func_states[x].name \in Nat
           /\ \A x \in 1..Len(saved) : saved[x] \in State
           /\ \A x \in 1..Len(btf) : btf[x].name \in Nat
           /\ Len(func_states) \in Nat /\ Len(saved) \in Nat /\ Len(btf) \in Nat
<1>1. func_states \in Seq(State) /\ saved \in Seq(State)
      /\ btf \in Seq([elf : Elfs, name : Nat, addr : Nat, sym : SymSuffix,
                      types : Seq(Types)])
  BY DEF TypeOK
<1>2. \A s \in State : s.name \in Nat
  BY DEF State
<1>3. \A x \in 1..Len(func_states) : func_states[x] \in State
  BY <1>1
<1>4. \A x \in 1..Len(saved) : saved[x] \in State
  BY <1>1
<1> DEFINE T == [elf : Elfs, name : Nat, addr : Nat, sym : SymSuffix,
                 types : Seq(Types)]
<1>5. btf \in Seq(T) /\ \A b \in T : b.name \in Nat
  BY <1>1
<1> HIDE DEF T
<1>6. \A x \in 1..Len(btf) : btf[x] \in T
  BY <1>5
<1>7. \A x \in 1..Len(btf) : btf[x].name \in Nat
  BY <1>5, <1>6
<1>8. Len(func_states) \in Nat /\ Len(saved) \in Nat /\ Len(btf) \in Nat
  BY <1>1, <1>5
<1>9. \A x \in 1..Len(func_states) : func_states[x].name \in Nat
  BY <1>2, <1>3
<1> QED
  BY <1>3, <1>4, <1>7, <1>8, <1>9

LEMMA StepCombine ==
    ASSUME IInv, TypeOK', saved_functions_combine
    PROVE  IInv'
<1> USE DEF conf
<1> DEFINE fs == func_states
           flags == combined_flags(fs[i], fs[j])
           ws(k) == WithShared(fs[k], flags)
<1>0. TypeOK /\ KeepInv /\ SortInv /\ GroupInv /\ MatchInv /\ NamesInv
      /\ EncodedTrusted /\ EncodedConsistent
  BY DEF IInv
<1>1. /\ pc = "combine" /\ j <= Len(fs) /\ SameElf(fs[i], fs[j])
      /\ func_states' = [fs EXCEPT ![i] = ws(i), ![j] = ws(j)]
      /\ j' = j + 1
      /\ UNCHANGED <<conf, pc, i, btf, saved>>
  BY DEF saved_functions_combine
<1>2. /\ i \in 1..Len(fs) /\ j \in 1..Len(fs) /\ i < j
      /\ \A k \in 1..Len(fs) : fs[k] \in State
  BY <1>0, <1>1 DEF TypeOK
<1>3. /\ flags \in SUBSET SharedFlags
      /\ fs[i].flags \cap SharedFlags \subseteq flags
      /\ fs[j].flags \cap SharedFlags \subseteq flags
      /\ flags \cap {"unexpected_reg", "inconsistent_proto", "reordered_parm"} = {}
            => (~true_signature \/ ((fs[i].addr # 0) <=> (fs[j].addr # 0))
                   => funcs__match(fs[i], fs[j]))
  BY <1>2, CombinedFacts
<1>4. /\ Carries(ws(i), fs[i]) /\ ws(i).flags \cap SharedFlags = flags
      /\ Carries(ws(j), fs[j]) /\ ws(j).flags \cap SharedFlags = flags
  BY <1>2, <1>3, WithSharedFacts
<1> HIDE DEF flags, ws
<1>5. /\ Len(func_states') = Len(fs)
      /\ func_states'[i] = ws(i) /\ func_states'[j] = ws(j)
      /\ \A k \in 1..Len(fs) : k # i /\ k # j => func_states'[k] = fs[k]
  BY <1>0, <1>1, <1>2 DEF TypeOK
<1>6. \A k \in 1..Len(fs) : Carries(func_states'[k], fs[k])
  BY <1>4, <1>5 DEF Carries
<1>7. \A k \in 1..Len(fs) :
         /\ func_states'[k].name = fs[k].name /\ func_states'[k].addr = fs[k].addr
         /\ func_states'[k].types = fs[k].types
  BY <1>6 DEF Carries
<1>8. KeepInv'
  BY <1>0, KeepStep DEF Next
<1>9. SortInv'
  BY <1>0, <1>1, <1>5, <1>7 DEF SortInv, Busy, saved_functions_cmp
<1>10. GroupInv'
  <2>1. \A k \in i..(j' - 1) : k \in 1..Len(fs) /\ (k = j \/ k \in i..(j - 1))
    BY <1>0, <1>1, <1>2 DEF TypeOK
  <2>2. fs[j].name = fs[i].name
    BY <1>1 DEF SameElf
  <2>3. \A k \in i..(j' - 1) : fs[k].name = fs[i].name
    BY <1>0, <1>1, <2>1, <2>2 DEF GroupInv, Busy
  <2>4. \A k \in i..(j' - 1) : func_states'[k].name = func_states'[i].name
    BY <1>2, <1>7, <2>1, <2>3
  <2>5. \A k \in 1..(i - 1) : k \in 1..Len(fs) /\ fs[k].name < fs[i].name
    BY <1>0, <1>1, <1>2 DEF GroupInv, Busy
  <2>6. \A k \in 1..(i - 1) : func_states'[k].name < func_states'[i].name
    BY <1>2, <1>7, <2>5
  <2>7. flags \subseteq func_states'[i].flags
    BY <1>4, <1>5
  <2>8. ASSUME NEW k \in i..(j' - 1)
        PROVE  func_states'[k].flags \cap SharedFlags \subseteq func_states'[i].flags
    <3>1. CASE k = i \/ k = j
      BY <1>4, <1>5, <2>7, <3>1
    <3>2. CASE k # i /\ k # j
      <4>1. func_states'[k] = fs[k] /\ k \in i..(j - 1)
        BY <1>5, <2>1, <3>2
      <4>2. fs[k].flags \cap SharedFlags \subseteq fs[i].flags
        BY <1>0, <1>1, <4>1 DEF GroupInv, Busy
      <4> QED
        BY <1>3, <2>7, <4>1, <4>2
    <3> QED
      BY <3>1, <3>2
  <2> QED
    BY <1>1, <2>4, <2>6, <2>8 DEF GroupInv
<1>11. MatchInv'
  <2> SUFFICES ASSUME func_states'[i].flags
                         \cap {"unexpected_reg", "inconsistent_proto",
                               "reordered_parm"} = {},
                      NEW k \in i..(j' - 1),
                      ~true_signature
                        \/ ((func_states'[i].addr # 0) <=> (func_states'[k].addr # 0))
               PROVE  funcs__match(func_states'[i], func_states'[k])
    BY <1>1 DEF MatchInv, funcs__match
  <2>1. k \in 1..Len(fs) /\ (k = j \/ k \in i..(j - 1))
    BY <1>0, <1>1, <1>2 DEF TypeOK
  <2>2. ~true_signature \/ ((fs[i].addr # 0) <=> (fs[k].addr # 0))
    BY <1>2, <1>7, <2>1
  <2>3. flags \cap {"unexpected_reg", "inconsistent_proto", "reordered_parm"} = {}
    BY <1>4, <1>5
  <2>4. fs[i].flags \cap {"unexpected_reg", "inconsistent_proto",
                          "reordered_parm"} = {}
    BY <1>3, <2>3 DEF SharedFlags
  <2>5. funcs__match(fs[i], fs[k])
    <3>1. CASE k = j
      BY <1>3, <2>2, <2>3, <3>1
    <3>2. CASE k \in i..(j - 1)
      BY <1>0, <1>1, <2>2, <2>4, <3>2 DEF MatchInv, Busy
    <3> QED
      BY <2>1, <3>1, <3>2
  <2> QED
    BY <1>2, <1>7, <2>1, <2>5 DEF funcs__match
<1>12. NamesInv'
  BY <1>0, <1>1, <1>2, <1>7 DEF NamesInv, Busy
<1>13. EncodedTrusted' /\ EncodedConsistent'
  BY <1>0, <1>1, EncodedSame
<1> QED
  BY <1>8, <1>9, <1>10, <1>11, <1>12, <1>13 DEF IInv

\* The group at i holds every instance of its function.
LEMMA GroupComplete ==
    ASSUME IInv, pc = "add", NEW m \in 1..Len(saved),
           saved[m].name = func_states[i].name
    PROVE  \E k \in Group : Carries(func_states[k], saved[m])
<1>0. TypeOK /\ KeepInv /\ SortInv /\ GroupInv
  BY DEF IInv
<1>1. PICK k \in 1..Len(func_states) : Carries(func_states[k], saved[m])
  BY <1>0 DEF KeepInv, Busy
<1>2. func_states[k].name = func_states[i].name
  BY <1>1 DEF Carries
<1>3. \A x \in 1..Len(func_states) : func_states[x] \in State /\ func_states[x].name \in Nat
  BY <1>0, ElementFacts
<1>4. i \in 1..Len(func_states) /\ j \in (i + 1)..(Len(func_states) + 1)
  BY <1>0 DEF TypeOK
<1>5. ~(k < i)
  BY <1>0, <1>2, <1>3, <1>4 DEF GroupInv, Busy
<1>6. ASSUME k >= j PROVE FALSE
  <2>1. j \in 1..Len(func_states) /\ func_states[i].name < func_states[j].name
    BY <1>0, <1>4, <1>6 DEF GroupInv, Busy
  <2>2. CASE k = j
    BY <1>2, <1>3, <1>4, <2>1, <2>2
  <2>3. CASE j < k
    <3>1. saved_functions_cmp(func_states[j], func_states[k])
      BY <1>0, <2>1, <2>3 DEF SortInv, Busy
    <3>2. func_states[j].name <= func_states[k].name
      BY <1>3, <2>1, <3>1 DEF saved_functions_cmp
    <3> QED
      BY <1>2, <1>3, <1>4, <2>1, <3>2
  <2> QED
    BY <1>4, <1>6, <2>2, <2>3
<1>7. k \in Group
  BY <1>4, <1>5, <1>6 DEF Group
<1> QED
  BY <1>1, <1>7

\* A function that nothing keeps out: no instance has a flag that would, and
\* those that are compared match.
LEMMA GroupSound ==
    ASSUME IInv, pc = "add", NEW c, ~skip_reason(c)
    PROVE  /\ \A m \in 1..Len(saved) : saved[m].name = func_states[i].name =>
                 saved[m].flags \cap {"unexpected_reg", "uncertain_parm_loc",
                                      "reordered_parm"} = {}
           /\ skip_inconsistent =>
                 \A m, n \in 1..Len(saved) :
                    /\ saved[m].name = func_states[i].name
                    /\ saved[n].name = func_states[i].name
                    /\ ~true_signature \/ (saved[m].addr # 0 /\ saved[n].addr # 0)
                    => funcs__match(saved[m], saved[n])
<1>0. TypeOK /\ SortInv /\ GroupInv /\ MatchInv
  BY DEF IInv
<1>1. func_states[i].flags \cap {"unexpected_reg", "uncertain_parm_loc",
                                 "reordered_parm"} = {}
  BY DEF skip_reason
<1>2. skip_inconsistent => "inconsistent_proto" \notin func_states[i].flags
  BY DEF skip_reason
<1>3. /\ Group = i..(j - 1) /\ i \in 1..Len(func_states)
      /\ \A k \in Group : k \in 1..Len(func_states) /\ i <= k
  BY <1>0 DEF Group, TypeOK
<1>4. ASSUME NEW m \in 1..Len(saved), saved[m].name = func_states[i].name
      PROVE  saved[m].flags \cap {"unexpected_reg", "uncertain_parm_loc",
                                  "reordered_parm"} = {}
  <2>1. PICK k \in Group : Carries(func_states[k], saved[m])
    BY <1>4, GroupComplete
  <2>2. func_states[k].flags \cap SharedFlags \subseteq func_states[i].flags
    BY <1>0, <1>3 DEF GroupInv, Busy
  <2>3. saved[m].flags \subseteq func_states[k].flags
    BY <2>1 DEF Carries
  <2> QED
    BY <1>1, <2>2, <2>3 DEF SharedFlags
<1>5. ASSUME skip_inconsistent, NEW m \in 1..Len(saved),
             saved[m].name = func_states[i].name,
             ~true_signature \/ saved[m].addr # 0
      PROVE  funcs__match(func_states[i], saved[m])
  <2>1. PICK k \in Group : Carries(func_states[k], saved[m])
    BY <1>5, GroupComplete
  <2>2. func_states[i].flags
           \cap {"unexpected_reg", "inconsistent_proto", "reordered_parm"} = {}
    BY <1>1, <1>2, <1>5
  <2>3. ~true_signature \/ func_states[k].addr # 0
    BY <1>5, <2>1 DEF Carries
  <2>4. func_states[k].addr # 0 => func_states[i].addr # 0
    <3>1. CASE k = i
      BY <3>1
    <3>2. CASE i < k
      <4>1. saved_functions_cmp(func_states[i], func_states[k])
        BY <1>0, <1>3, <3>2 DEF SortInv, Busy
      <4>2. func_states[k].name = func_states[i].name /\ func_states[i].name \in Nat
        BY <1>0, <1>3, ElementFacts DEF GroupInv, Busy
      <4> QED
        BY <4>1, <4>2 DEF saved_functions_cmp
    <3> QED
      BY <1>3, <3>1, <3>2
  <2>5. funcs__match(func_states[i], func_states[k])
    BY <1>0, <1>3, <2>2, <2>3, <2>4 DEF MatchInv, Busy
  <2> QED
    BY <2>1, <2>5 DEF Carries, funcs__match
<1>6. ASSUME skip_inconsistent, NEW m \in 1..Len(saved), NEW n \in 1..Len(saved),
             saved[m].name = func_states[i].name, saved[n].name = func_states[i].name,
             ~true_signature \/ (saved[m].addr # 0 /\ saved[n].addr # 0)
      PROVE  funcs__match(saved[m], saved[n])
  <2>1. funcs__match(func_states[i], saved[m]) /\ funcs__match(func_states[i], saved[n])
    BY <1>5, <1>6
  <2>2. func_states[i] \in State /\ saved[m] \in State /\ saved[n] \in State
    BY <1>0, <1>3 DEF TypeOK
  <2>3. funcs__match(saved[m], func_states[i])
    BY <2>1, <2>2, MatchEquivalence
  <2> QED
    BY <2>1, <2>2, <2>3, MatchEquivalence
<1> QED
  BY <1>4, <1>6

\* The names before j are smaller than the one at j.
LEMMA NamesBefore ==
    ASSUME IInv, pc = "add", j <= Len(func_states)
    PROVE  /\ i \in 1..Len(func_states) /\ j \in 1..Len(func_states) /\ i < j
           /\ func_states[i].name < func_states[j].name
           /\ \A k \in 1..(j - 1) : func_states[k].name < func_states[j].name
<1>0. TypeOK /\ GroupInv
  BY DEF IInv
<1>1. i \in 1..Len(func_states) /\ j \in 1..Len(func_states) /\ i < j
  BY <1>0 DEF TypeOK
<1>2. \A k \in 1..Len(func_states) : func_states[k].name \in Nat
  BY <1>0, ElementFacts
<1>3. func_states[i].name < func_states[j].name
  BY <1>0 DEF GroupInv, Busy
<1>4. ASSUME NEW k \in 1..(j - 1) PROVE func_states[k].name < func_states[j].name
  <2>0. k \in 1..Len(func_states)
    BY <1>1
  <2>1. CASE k < i
    <3>1. func_states[k].name < func_states[i].name
      BY <1>0, <1>1, <2>0, <2>1 DEF GroupInv, Busy
    <3> QED
      BY <1>1, <1>2, <1>3, <2>0, <3>1
  <2>2. CASE i <= k
    <3>1. func_states[k].name = func_states[i].name
      BY <1>0, <1>1, <2>0, <2>2 DEF GroupInv, Busy
    <3> QED
      BY <1>3, <3>1
  <2> QED
    BY <1>1, <2>0, <2>1, <2>2
<1> QED
  BY <1>1, <1>3, <1>4

\* The loop goes on: what is said of the array holds for the next group.
LEMMA NextGroupArray ==
    ASSUME IInv, pc = "add", next_group, UNCHANGED <<true_signature, saved>>
    PROVE  KeepInv' /\ SortInv' /\ GroupInv' /\ MatchInv'
<1>0. TypeOK /\ KeepInv /\ SortInv
  BY DEF IInv
<1>1. CASE pc' = "end"
  BY <1>1 DEF KeepInv, SortInv, GroupInv, MatchInv, Busy
<1>2. CASE /\ j <= Len(func_states) /\ i' = j /\ j' = j + 1 /\ pc' = "combine"
           /\ func_states' = func_states
  <2>1. KeepInv'
    BY <1>0, <1>2 DEF KeepInv, Busy, Carries
  <2>2. SortInv'
    BY <1>0, <1>2 DEF SortInv, Busy, saved_functions_cmp
  <2>3. /\ j \in 1..Len(func_states)
        /\ \A k \in 1..(j - 1) : func_states[k].name < func_states[j].name
    BY <1>2, NamesBefore
  <2>4. \A k \in j..(j + 1 - 1) : k = j
    BY <2>3
  <2>5. GroupInv'
    BY <1>2, <2>3, <2>4 DEF GroupInv
  <2>6. func_states[j] \in State
    BY <1>0, <2>3, ElementFacts
  <2>7. funcs__match(func_states[j], func_states[j])
    BY <2>6, MatchEquivalence
  <2>8. MatchInv'
    <3>1. \A k \in i'..(j' - 1) : k = j
      BY <1>2, <2>3
    <3>2. \A k \in i'..(j' - 1) : funcs__match(func_states'[i'], func_states'[k])
      BY <1>2, <2>7, <3>1, Zenon
    <3>3. true_signature' = true_signature
      OBVIOUS
    <3> QED
      BY <3>2, <3>3, Zenon DEF MatchInv, funcs__match
  <2> QED
    BY <2>1, <2>2, <2>5, <2>8
<1> QED
  BY <1>1, <1>2 DEF next_group

\* ... and the names that were added stay in order, the one of the group added
\* or not.
LEMMA NextGroupNames ==
    ASSUME IInv, pc = "add", next_group, NEW b, b.name = func_states[i].name,
           btf' = btf \/ btf' = Append(btf, b)
    PROVE  NamesInv'
<1>0. TypeOK /\ NamesInv
  BY DEF IInv
<1>1. /\ Len(btf) \in Nat
      /\ \A m \in 1..Len(btf) : btf[m].name \in Nat /\ btf[m].name < func_states[i].name
      /\ \A m, n \in 1..Len(btf) : m < n => btf[m].name < btf[n].name
  BY <1>0, ElementFacts DEF NamesInv, Busy
<1>2. i \in 1..Len(func_states) /\ func_states[i].name \in Nat
  <2>1. i \in 1..Len(func_states)
    BY <1>0 DEF TypeOK
  <2> QED
    BY <1>0, <2>1, ElementFacts
<1>3. /\ Len(btf') \in Nat
      /\ \A m \in 1..Len(btf') : \/ m \in 1..Len(btf) /\ btf'[m] = btf[m]
                                 \/ m = Len(btf) + 1 /\ btf'[m] = b
  <2>1. CASE btf' = btf
    BY <1>1, <2>1
  <2>2. CASE btf' = Append(btf, b)
    <3> DEFINE T == [elf : Elfs, name : Nat, addr : Nat, sym : SymSuffix,
                     types : Seq(Types)]
    <3>1. btf \in Seq(T)
      BY <1>0 DEF TypeOK
    <3> HIDE DEF T
    <3> QED
      BY <2>2, <3>1
  <2> QED
    BY <2>1, <2>2
<1>4. ASSUME NEW m \in 1..Len(btf'), NEW n \in 1..Len(btf'), m < n
      PROVE  btf'[m].name < btf'[n].name
  <2>1. m \in 1..Len(btf) /\ btf'[m] = btf[m]
    BY <1>1, <1>3, <1>4
  <2>2. CASE n \in 1..Len(btf) /\ btf'[n] = btf[n]
    BY <1>1, <1>4, <2>1, <2>2
  <2>3. CASE btf'[n] = b
    BY <1>1, <2>1, <2>3
  <2> QED
    BY <1>3, <2>2, <2>3
<1>5. ASSUME pc' = "combine", i' = j, func_states' = func_states,
             j <= Len(func_states), NEW m \in 1..Len(btf')
      PROVE  btf'[m].name < func_states[j].name
  <2>1. j \in 1..Len(func_states) /\ func_states[i].name < func_states[j].name
    BY <1>5, NamesBefore
  <2>2. func_states[j].name \in Nat
    BY <1>0, <2>1, ElementFacts
  <2>3. CASE m \in 1..Len(btf) /\ btf'[m] = btf[m]
    BY <1>1, <1>2, <2>1, <2>2, <2>3
  <2>4. CASE btf'[m] = b
    BY <2>1, <2>4
  <2> QED
    BY <1>3, <2>3, <2>4
<1>6. CASE pc' = "end"
  BY <1>4, <1>6 DEF NamesInv, Busy
<1>7. CASE pc' = "combine" /\ i' = j /\ func_states' = func_states
           /\ j <= Len(func_states)
  BY <1>4, <1>5, <1>7 DEF NamesInv
<1> QED
  BY <1>6, <1>7 DEF next_group

\* A function is added: nothing keeps it out, or it has a true signature.
LEMMA AddSound ==
    ASSUME IInv, pc = "add", UNCHANGED <<conf, saved>>, NEW k \in Group,
           btf_encoder__add_func(func_states[k]),
           func_states[k].sym = "" => \E c \in Group : ~skip_reason(c)
    PROVE  EncodedTrusted' /\ EncodedConsistent'
<1> DEFINE b == [elf |-> func_states[k].elf, name |-> func_states[k].name,
                 addr |-> func_states[k].addr, sym |-> func_states[k].sym,
                 types |-> func_states[k].types]
<1>0. TypeOK /\ GroupInv /\ EncodedTrusted /\ EncodedConsistent
  BY DEF IInv
<1>1. func_states[k].name = func_states[i].name
  BY <1>0 DEF Group, GroupInv, Busy
<1>2. /\ btf' = Append(btf, b)
      /\ b.name = func_states[i].name /\ b.sym = func_states[k].sym
  BY <1>1 DEF btf_encoder__add_func
<1> HIDE DEF b
<1>3. \A x \in Encoded' : x \in Encoded \/ x = b
  <2> DEFINE T == [elf : Elfs, name : Nat, addr : Nat, sym : SymSuffix,
                   types : Seq(Types)]
  <2>1. btf \in Seq(T)
    BY <1>0 DEF TypeOK
  <2> HIDE DEF T
  <2>2. \A m \in DOMAIN Append(btf, b) :
           \/ m \in DOMAIN btf /\ Append(btf, b)[m] = btf[m]
           \/ Append(btf, b)[m] = b
    BY <2>1, AppendElements
  <2> QED
    BY <1>2, <2>2 DEF Encoded, ToSet
<1>4. \A x : Instances(x)' = Instances(x)
  BY DEF Instances, SameElf
<1>5. ASSUME NEW s \in Instances(b)
      PROVE  \E m \in 1..Len(saved) : s = saved[m] /\ saved[m].name = func_states[i].name
  <2>1. s \in ToSet(saved) /\ s.name = func_states[i].name
    BY <1>2 DEF Instances, SameElf
  <2>2. saved \in Seq(State)
    BY <1>0 DEF TypeOK
  <2>3. DOMAIN saved = 1..Len(saved)
    BY <2>2, SeqDomain
  <2> QED
    BY <2>1, <2>3 DEF ToSet
<1>6. ASSUME b.sym = "", NEW s \in Instances(b)
      PROVE  s.flags \cap {"unexpected_reg", "uncertain_parm_loc",
                           "reordered_parm"} = {}
  <2>1. PICK c \in Group : ~skip_reason(c)
    BY <1>2, <1>6
  <2> QED
    BY <1>5, <2>1, GroupSound
<1>7. ASSUME skip_inconsistent, b.sym = "", NEW s \in Instances(b),
             NEW t \in Instances(b), ~true_signature \/ (s.addr # 0 /\ t.addr # 0)
      PROVE  funcs__match(s, t)
  <2>1. PICK c \in Group : ~skip_reason(c)
    BY <1>2, <1>7
  <2>2. PICK m \in 1..Len(saved) : s = saved[m] /\ saved[m].name = func_states[i].name
    BY <1>5
  <2>3. PICK n \in 1..Len(saved) : t = saved[n] /\ saved[n].name = func_states[i].name
    BY <1>5
  <2> QED
    BY <1>7, <2>1, <2>2, <2>3, GroupSound
<1>8. EncodedTrusted'
  BY <1>0, <1>3, <1>4, <1>6 DEF EncodedTrusted
<1>9. EncodedConsistent'
  <2>1. skip_inconsistent' = skip_inconsistent /\ true_signature' = true_signature
    BY DEF conf
  <2> QED
    BY <1>0, <1>3, <1>4, <1>7, <2>1 DEF EncodedConsistent, funcs__match
<1> QED
  BY <1>8, <1>9

\* A group is done with a function added.
LEMMA StepAdd ==
    ASSUME IInv, TypeOK', pc = "add", next_group, UNCHANGED <<conf, saved>>,
           NEW k \in Group, btf_encoder__add_func(func_states[k]),
           func_states[k].sym = "" => \E c \in Group : ~skip_reason(c)
    PROVE  IInv'
<1>1. KeepInv' /\ SortInv' /\ GroupInv' /\ MatchInv'
  BY NextGroupArray DEF conf
<1>2. EncodedTrusted' /\ EncodedConsistent'
  BY AddSound
<1> DEFINE b == [elf |-> func_states[k].elf, name |-> func_states[k].name,
                 addr |-> func_states[k].addr, sym |-> func_states[k].sym,
                 types |-> func_states[k].types]
<1>3. b.name = func_states[i].name
  BY DEF IInv, GroupInv, Busy, Group
<1>4. btf' = Append(btf, b)
  BY DEF btf_encoder__add_func
<1> HIDE DEF b
<1>5. NamesInv'
  BY <1>3, <1>4, NextGroupNames
<1> QED
  BY <1>1, <1>2, <1>5 DEF IInv

\* A group is done without.
LEMMA StepSkip ==
    ASSUME IInv, TypeOK', pc = "add", next_group, UNCHANGED <<conf, btf, saved>>
    PROVE  IInv'
<1>1. KeepInv' /\ SortInv' /\ GroupInv' /\ MatchInv'
  BY NextGroupArray DEF conf
<1>2. EncodedTrusted' /\ EncodedConsistent'
  BY EncodedSame DEF IInv
<1>3. NamesInv'
  BY NextGroupNames
<1> QED
  BY <1>1, <1>2, <1>3 DEF IInv

LEMMA IStep == OneElfFile /\ IInv /\ [Next]_vars => IInv'
<1> SUFFICES ASSUME OneElfFile, IInv, [Next]_vars PROVE IInv'
  OBVIOUS
<1> USE DEF conf
<1>0. TypeOK /\ KeepInv /\ SortInv /\ GroupInv /\ MatchInv /\ NamesInv
      /\ EncodedTrusted /\ EncodedConsistent
  BY DEF IInv
<1>t. TypeOK'
  BY <1>0, TypeStep
<1>1. ASSUME pc \in {"cus", "functions"}, pc' \in {"cus", "functions", "abort", "end"},
             UNCHANGED btf,
             saved' = func_states' \/ UNCHANGED <<func_states, saved>>
      PROVE  IInv'
  <2>1. btf = <<>> /\ saved = func_states
    BY <1>0, <1>1 DEF KeepInv
  <2>2. KeepInv' /\ SortInv' /\ GroupInv' /\ MatchInv'
    BY <1>1, <2>1 DEF KeepInv, SortInv, GroupInv, MatchInv, Busy
  <2>3. NamesInv'
    BY <1>1, <2>1 DEF NamesInv, Busy
  <2>4. EncodedTrusted' /\ EncodedConsistent'
    BY <1>1, <2>1, EncodedNone
  <2> QED
    BY <1>t, <2>2, <2>3, <2>4 DEF IInv
<1>2. ASSUME UNCHANGED <<conf, btf, saved, func_states, i, j>>,
             \/ pc' = pc
             \/ pc = "combine" /\ pc' = "add"
                /\ (j <= Len(func_states) => ~SameElf(func_states[i], func_states[j]))
      PROVE  IInv'
  <2>0. (pc' \in {"cus", "functions"} => pc \in {"cus", "functions"})
        /\ (Busy' => Busy)
    BY <1>2 DEF Busy
  <2>1. KeepInv' /\ SortInv' /\ MatchInv' /\ NamesInv'
    <3>1. KeepInv'
      BY <1>0, <1>2, <2>0 DEF KeepInv, Carries
    <3>2. SortInv'
      BY <1>0, <1>2, <2>0 DEF SortInv, saved_functions_cmp
    <3>3. MatchInv'
      BY <1>0, <1>2, <2>0 DEF MatchInv, funcs__match
    <3>4. NamesInv'
      BY <1>0, <1>2, <2>0 DEF NamesInv
    <3> QED
      BY <3>1, <3>2, <3>3, <3>4
  <2>2. GroupInv'
    <3>1. CASE pc' = pc
      BY <1>0, <1>2, <3>1 DEF GroupInv, Busy
    <3>2. CASE pc = "combine" /\ pc' = "add"
               /\ (j <= Len(func_states) => ~SameElf(func_states[i], func_states[j]))
      <4>1. ASSUME j <= Len(func_states)
            PROVE  func_states[i].name < func_states[j].name
        <5>1. /\ i \in 1..Len(func_states) /\ j \in 1..Len(func_states) /\ i < j
              /\ func_states[i] \in State /\ func_states[j] \in State
          BY <1>0, <3>2, <4>1 DEF TypeOK
        <5>2. func_states[i].elf = func_states[j].elf
          BY <5>1 DEF OneElfFile, State
        <5>3. func_states[i].name # func_states[j].name
          BY <3>2, <4>1, <5>2 DEF SameElf
        <5>4. saved_functions_cmp(func_states[i], func_states[j])
          BY <1>0, <3>2, <5>1 DEF SortInv, Busy
        <5> QED
          BY <5>3, <5>4 DEF saved_functions_cmp
      <4> QED
        BY <1>0, <1>2, <3>2, <4>1 DEF GroupInv, Busy
    <3> QED
      BY <1>2, <3>1, <3>2
  <2> QED
    BY <1>0, <1>2, <1>t, <2>1, <2>2, EncodedSame DEF IInv
<1>3. CASE UNCHANGED vars
  <2>1. /\ UNCHANGED <<conf, btf, saved, func_states, i, j>>
        /\ \/ pc' = pc
           \/ pc = "combine" /\ pc' = "add"
                /\ (j <= Len(func_states) => ~SameElf(func_states[i], func_states[j]))
    BY <1>3 DEF vars
  <2> QED
    BY <1>2, <2>1
<1>4. ASSUME NEW e \in Elfs, btf_encoder__elf_functions(e) PROVE IInv'
  BY <1>1, <1>4 DEF btf_encoder__elf_functions
<1>5. ASSUME NEW fn \in Fns, btf_encoder__save_func(fn) PROVE IInv'
  BY <1>1, <1>5 DEF btf_encoder__save_func
<1>6. CASE encode_cu_error
  BY <1>1, <1>6 DEF encode_cu_error
<1>7. CASE encode_cu_end
  BY <1>1, <1>7 DEF encode_cu_end
<1>n. CASE no_saved_funcs
  BY <1>1, <1>n DEF no_saved_funcs
<1>8. CASE sort_saved_funcs
  BY <1>8, <1>t, StepSort
<1>9. CASE saved_functions_combine
  BY <1>9, <1>t, StepCombine
<1>10. CASE combine_end
  BY <1>2, <1>10 DEF combine_end
<1>11. CASE btf_encoder__add_true_signature
  <2>1. PICK k \in Firsts(TrueStates) : btf_encoder__add_func(func_states[k])
    BY <1>11 DEF btf_encoder__add_true_signature
  <2>2. k \in Group /\ func_states[k].sym # ""
    BY <2>1 DEF Firsts, TrueStates
  <2> QED
    BY <1>11, <1>t, <2>1, <2>2, StepAdd DEF btf_encoder__add_true_signature
<1>12. CASE btf_encoder__add_canonical
  <2>1. PICK k \in canonical_state :
           ~skip_reason(k) /\ btf_encoder__add_func(func_states[k])
    BY <1>12 DEF btf_encoder__add_canonical
  <2>2. k \in Group
    BY <1>0, <1>12, <2>1, CanonicalInGroup DEF btf_encoder__add_canonical
  <2> QED
    BY <1>12, <1>t, <2>1, <2>2, StepAdd DEF btf_encoder__add_canonical
<1>13. CASE btf_encoder__log_func_skip
  BY <1>13, <1>t, StepSkip DEF btf_encoder__log_func_skip
<1>14. CASE add_saved_funcs_error
  <2>1. KeepInv' /\ SortInv' /\ GroupInv' /\ MatchInv' /\ NamesInv'
    BY <1>0, <1>14 DEF add_saved_funcs_error, KeepInv, SortInv, GroupInv, MatchInv,
                       NamesInv, Busy
  <2> QED
    BY <1>0, <1>14, <1>t, <2>1, EncodedSame DEF add_saved_funcs_error, IInv
<1> QED
  BY <1>3, <1>4, <1>5, <1>6, <1>7, <1>8, <1>9, <1>10, <1>11, <1>12, <1>13, <1>14,
     <1>n DEF Next

LEMMA OnceFromNames == TypeOK /\ NamesInv => AddedOnce
<1> SUFFICES ASSUME TypeOK, NamesInv, NEW k \in 1..Len(btf), NEW m \in 1..Len(btf),
                    SameElf(btf[k], btf[m])
             PROVE  k = m
  BY DEF AddedOnce
<1>1. btf[k].name = btf[m].name
  BY DEF SameElf
<1>2. btf[k].name \in Nat /\ Len(btf) \in Nat
  BY ElementFacts
<1> QED
  BY <1>1, <1>2 DEF NamesInv

\* For every set of functions and every order of CUs and of equal elements in
\* qsort(): a function one of whose instances is flagged is not added.
THEOREM TrustedOnly == ASSUME OneElfFile PROVE Spec => []EncodedTrusted
<1>1. IInv => EncodedTrusted
  BY DEF IInv
<1> QED
  BY <1>1, IInit, IStep, PTL DEF Spec

\* ... and with skip_encoding_btf_inconsistent_proto the instances of a function
\* that is added match each other, the out of line ones in every mode.
THEOREM ConsistentOnly == ASSUME OneElfFile PROVE Spec => []EncodedConsistent
<1>1. IInv => EncodedConsistent
  BY DEF IInv
<1> QED
  BY <1>1, IInit, IStep, PTL DEF Spec

\* ... and no function is added twice.
THEOREM NoneTwice == ASSUME OneElfFile PROVE Spec => []AddedOnce
<1>1. IInv => AddedOnce
  BY OnceFromNames DEF IInv
<1> QED
  BY <1>1, IInit, IStep, PTL DEF Spec

-----------------------------------------------------------------------------
(* The functions that are added                                            *)

\* Every instance of the function of s is representable, and they match.
AllGood(s) == \A t, u \in Instances(s) : Representable(t) /\ funcs__match(t, u)

\* elf_functions__collect() examined every name.
TableInv ==
    \A e \in DOMAIN tables :
        tables[e].ambiguous_addr =
            [name \in Names(tables[e].syms) |-> ambiguous_addr(tables[e].syms, name)]

\* A function that was saved is in the table of its ELF file, and its true name
\* is that of a symbol at its address.
InTable(s) ==
    /\ s.elf \in DOMAIN tables /\ s.name \in Names(tables[s.elf].syms)
    /\ s.sym # "" => AtSymbol(s)

SymInv == \A k \in 1..Len(func_states) : InTable(func_states[k])

\* No state comes from nowhere, and where all instances are good none gets a
\* flag from another.
FromInv ==
    Busy => \A k \in 1..Len(func_states) :
               \E s \in ToSet(saved) :
                  /\ Carries(func_states[k], s)
                  /\ AllGood(s) => func_states[k].flags = s.flags

\* i..(j - 1) are instances of one function of one ELF file.
SameInv == Busy => \A k \in i..(j - 1) : SameElf(func_states[k], func_states[i])

\* A good function was added, or its turn is still to come.
CoveredInv ==
    Busy => \A s \in ToSet(saved) :
               AllGood(s) /\ OneAddress(s) =>
                  \/ \E b \in Encoded : SameElf(s, b)
                  \/ \E k \in i..Len(func_states) : SameElf(s, func_states[k])

GInv == /\ TypeOK /\ KeepInv /\ TableInv /\ SymInv /\ FromInv /\ SameInv
        /\ CoveredInv /\ GoodEncoded

LEMMA SavedElements ==
    ASSUME TypeOK
    PROVE  /\ \A s : s \in ToSet(saved) <=> \E m \in 1..Len(saved) : s = saved[m]
           /\ \A s \in ToSet(saved) : s \in State
<1>1. saved \in Seq(State)
  BY DEF TypeOK
<1>2. DOMAIN saved = 1..Len(saved)
  BY <1>1
<1> QED
  BY <1>1, <1>2 DEF ToSet

\* Two instances of one function have the same instances.
LEMMA SameInstances ==
    ASSUME NEW s, NEW t, SameElf(s, t)
    PROVE  Instances(s) = Instances(t) /\ (AllGood(s) <=> AllGood(t))
<1>1. Instances(s) = Instances(t)
  BY DEF Instances, SameElf
<1> QED
  BY <1>1 DEF AllGood

\* What is good about a function only depends on what was saved.
LEMMA GoodSame ==
    ASSUME UNCHANGED saved
    PROVE  \A s : Instances(s)' = Instances(s) /\ (AllGood(s)' <=> AllGood(s))
<1>1. \A s : Instances(s)' = Instances(s)
  BY DEF Instances, SameElf
<1> QED
  BY <1>1 DEF AllGood, Representable, funcs__match

LEMMA TableSame ==
    ASSUME UNCHANGED tables
    PROVE  \A s : (OneAddress(s)' <=> OneAddress(s)) /\ (AtSymbol(s)' <=> AtSymbol(s))
BY DEF OneAddress, AtSymbol, SymsAt, SymsOf

\* A table is that of before or was just made.
LEMMA TablesMade ==
    ASSUME [Next]_vars
    PROVE  \A x \in DOMAIN tables' :
              \/ x \in DOMAIN tables /\ tables'[x] = tables[x]
              \/ x \in Elfs /\ tables'[x] \in elf_functions__collect(x)
<1>1. ASSUME NEW e \in Elfs, btf_encoder__elf_functions(e), tables' # tables,
             NEW x \in DOMAIN tables'
      PROVE  \/ x \in DOMAIN tables /\ tables'[x] = tables[x]
             \/ x \in Elfs /\ tables'[x] \in elf_functions__collect(x)
  <2>1. e \notin DOMAIN tables
    BY <1>1 DEF btf_encoder__elf_functions
  <2>2. PICK t \in elf_functions__collect(e) :
           tables' = [y \in DOMAIN tables \cup {e} |-> IF y = e THEN t ELSE tables[y]]
    BY <1>1, <2>1 DEF btf_encoder__elf_functions
  <2> QED
    BY <1>1, <2>2
<1>2. \/ UNCHANGED tables
      \/ \E e \in Elfs : btf_encoder__elf_functions(e)
  BY DEF Next, vars, btf_encoder__save_func, encode_cu_error, encode_cu_end,
         no_saved_funcs, sort_saved_funcs, saved_functions_combine, combine_end,
         btf_encoder__add_true_signature, btf_encoder__add_canonical,
         btf_encoder__log_func_skip, add_saved_funcs_error
<1> QED
  BY <1>1, <1>2

LEMMA CollectedTable ==
    ASSUME NEW e, NEW t \in elf_functions__collect(e)
    PROVE  t.ambiguous_addr = [name \in Names(t.syms) |-> ambiguous_addr(t.syms, name)]
<1> DEFINE Q == qsort(symtab[e],
                      {k \in 1..Len(symtab[e]) :
                          ~str_contains_non_fn_suffix(symtab[e][k].suffix)},
                      elf_function__name_cmp)
           made(syms) == [syms |-> syms,
                          ambiguous_addr |->
                             [name \in Names(syms) |-> ambiguous_addr(syms, name)]]
<1>1. t \in {made(syms) : syms \in Q}
  BY DEF elf_functions__collect
<1> HIDE DEF Q
<1>2. PICK syms \in Q : t = made(syms)
  BY <1>1
<1> QED
  BY <1>2

LEMMA TableStep == TableInv /\ [Next]_vars => TableInv'
<1> SUFFICES ASSUME TableInv, [Next]_vars, NEW x \in DOMAIN tables'
             PROVE  tables'[x].ambiguous_addr =
                       [name \in Names(tables'[x].syms) |->
                          ambiguous_addr(tables'[x].syms, name)]
  BY DEF TableInv, Names, ambiguous_addr, elf_function__has_ambiguous_address
<1>1. CASE x \in DOMAIN tables /\ tables'[x] = tables[x]
  BY <1>1 DEF TableInv
<1>2. CASE x \in Elfs /\ tables'[x] \in elf_functions__collect(x)
  BY <1>2, CollectedTable
<1> QED
  BY <1>1, <1>2, TablesMade

\* Being in a table only depends on whose instance, where and which symbol.
LEMMA InTableSame ==
    ASSUME NEW s, NEW t, InTable(s), t.elf = s.elf, t.name = s.name,
           t.addr = s.addr, t.sym = s.sym
    PROVE  InTable(t)
BY DEF InTable, AtSymbol, SymsAt, SymsOf

LEMMA InTablesSame ==
    ASSUME \A e \in DOMAIN tables : e \in DOMAIN tables' /\ tables'[e] = tables[e]
    PROVE  \A s : InTable(s) => InTable(s)'
<1> SUFFICES ASSUME NEW s, InTable(s) PROVE InTable(s)'
  OBVIOUS
<1>1. s.elf \in DOMAIN tables' /\ tables'[s.elf] = tables[s.elf]
  BY DEF InTable
<1>2. SymsAt(s.elf, s.name, s.addr)' = SymsAt(s.elf, s.name, s.addr)
  BY <1>1 DEF SymsAt, SymsOf
<1> QED
  BY <1>1, <1>2 DEF InTable, AtSymbol

\* The function that is saved.
LEMMA FuncStateInTable ==
    ASSUME TypeOK, cu \in DOMAIN tables, NEW fn \in Fns, NEW sym \in SymSuffix,
           fn.name \in Names(tables[cu].syms), TrueSym(fn, sym)
    PROVE  InTable(func_state(fn, sym))
<1> DEFINE s == func_state(fn, sym)
<1>1. s.elf = cu /\ s.name = fn.name /\ s.addr = fn.addr /\ s.sym = sym
  BY DEF func_state
<1>2. ASSUME sym # "" PROVE SymsAt(cu, fn.name, fn.addr) # {}
  BY <1>2 DEF TrueSym, Firsts
<1> SUFFICES InTable(s)
  OBVIOUS
<1> HIDE DEF s
<1> QED
  BY <1>1, <1>2 DEF InTable, AtSymbol

LEMMA SymStep == TypeOK /\ SymInv /\ [Next]_vars => SymInv'
<1> SUFFICES ASSUME TypeOK, SymInv, [Next]_vars PROVE SymInv'
  OBVIOUS
<1>0. func_states \in Seq(State)
  BY DEF TypeOK
<1>r. ASSUME \A k \in 1..Len(func_states') : \E s : func_states'[k] = s /\ InTable(s)'
      PROVE  SymInv'
  <2> SUFFICES ASSUME NEW k \in 1..Len(func_states') PROVE InTable(func_states[k])'
    BY DEF SymInv
  <2>1. PICK s : func_states'[k] = s /\ InTable(s)'
    BY <1>r
  <2> QED
    BY <2>1 DEF InTable, AtSymbol, SymsAt, SymsOf
<1>1. ASSUME UNCHANGED tables, func_states' = func_states \/ func_states' = <<>>
      PROVE  SymInv'
  <2>1. \A s : InTable(s) => InTable(s)'
    BY <1>1, InTablesSame
  <2>2. \A k \in 1..Len(func_states') : k \in 1..Len(func_states)
                                         /\ func_states'[k] = func_states[k]
    BY <1>1
  <2> QED
    BY <1>r, <2>1, <2>2 DEF SymInv
<1>2. ASSUME NEW e \in Elfs, btf_encoder__elf_functions(e) PROVE SymInv'
  <2>1. \A x \in DOMAIN tables : x \in DOMAIN tables' /\ tables'[x] = tables[x]
    <3>1. CASE e \in DOMAIN tables
      BY <1>2, <3>1 DEF btf_encoder__elf_functions
    <3>2. CASE e \notin DOMAIN tables
      BY <1>2, <3>2 DEF btf_encoder__elf_functions
    <3> QED
      BY <3>1, <3>2
  <2>2. \A s : InTable(s) => InTable(s)'
    BY <2>1, InTablesSame
  <2>3. func_states' = func_states
    BY <1>2 DEF btf_encoder__elf_functions
  <2> QED
    BY <1>r, <2>2, <2>3 DEF SymInv
<1>3. ASSUME NEW fn \in Fns, btf_encoder__save_func(fn) PROVE SymInv'
  <2>1. PICK sym \in SymSuffix :
           /\ TrueSym(fn, sym)
           /\ func_states' = Append(func_states, func_state(fn, sym))
    BY <1>3 DEF btf_encoder__save_func
  <2>2. /\ cu \in DOMAIN tables /\ fn.name \in Names(tables[cu].syms)
        /\ tables' = tables
    BY <1>3 DEF btf_encoder__save_func, TypeOK
  <2>3. InTable(func_state(fn, sym))
    BY <2>1, <2>2, FuncStateInTable
  <2>4. \A s : InTable(s) => InTable(s)'
    BY <2>2, InTablesSame
  <2>5. PICK s : s = func_state(fn, sym)
    OBVIOUS
  <2>6. InTable(s) /\ func_states' = Append(func_states, s)
    BY <2>1, <2>3, <2>5
  <2>7. \A k \in 1..Len(func_states') :
           \/ k \in 1..Len(func_states) /\ func_states'[k] = func_states[k]
           \/ func_states'[k] = s
    BY <1>0, <2>6
  <2> QED
    BY <1>r, <2>4, <2>6, <2>7 DEF SymInv
<1>4. CASE sort_saved_funcs
  <2>1. /\ tables' = tables
        /\ func_states' \in qsort(func_states, 1..Len(func_states), saved_functions_cmp)
    BY <1>4 DEF sort_saved_funcs
  <2>2. \A k \in 1..Len(func_states') :
           \E x \in 1..Len(func_states) : func_states'[k] = func_states[x]
    BY <1>0, <2>1, SortedStates
  <2>3. \A s : InTable(s) => InTable(s)'
    BY <2>1, InTablesSame
  <2> QED
    BY <1>r, <2>2, <2>3 DEF SymInv
<1>5. CASE saved_functions_combine
  <2>1. tables' = tables
    BY <1>5 DEF saved_functions_combine
  <2>2. \A s : InTable(s) => InTable(s)'
    BY <2>1, InTablesSame
  <2>3. /\ Len(func_states') = Len(func_states)
        /\ \A k \in 1..Len(func_states) :
              /\ Carries(func_states'[k], func_states[k])
              /\ func_states'[k].sym = func_states[k].sym
    BY <1>5, CombineArray
  <2>4. ASSUME NEW k \in 1..Len(func_states)
        PROVE  \E s : func_states'[k] = s /\ InTable(s)
    <3>1. PICK s : s = func_states'[k]
      OBVIOUS
    <3>2. /\ s.elf = func_states[k].elf /\ s.name = func_states[k].name
          /\ s.addr = func_states[k].addr /\ s.sym = func_states[k].sym
      BY <2>3, <3>1 DEF Carries
    <3>3. InTable(func_states[k])
      BY DEF SymInv
    <3>4. InTable(s)
      BY <3>2, <3>3, InTableSame
    <3> QED
      BY <3>1, <3>4
  <2> QED
    BY <1>r, <2>2, <2>3, <2>4
<1>6. ASSUME UNCHANGED tables, next_group PROVE SymInv'
  BY <1>1, <1>6 DEF next_group
<1>7. CASE UNCHANGED vars
  BY <1>1, <1>7 DEF vars
<1>8. CASE encode_cu_error \/ encode_cu_end \/ no_saved_funcs \/ combine_end
           \/ add_saved_funcs_error
  BY <1>1, <1>8 DEF encode_cu_error, encode_cu_end, no_saved_funcs, combine_end,
                    add_saved_funcs_error
<1>9. CASE \/ btf_encoder__add_true_signature \/ btf_encoder__add_canonical
           \/ btf_encoder__log_func_skip
  BY <1>6, <1>9 DEF btf_encoder__add_true_signature, btf_encoder__add_canonical,
                    btf_encoder__log_func_skip
<1> QED
  BY <1>2, <1>3, <1>4, <1>5, <1>7, <1>8, <1>9 DEF Next

\* The states of a function whose instances are all good are as they were saved.
LEMMA GroupGood ==
    ASSUME TypeOK, FromInv, Busy, NEW s \in ToSet(saved), AllGood(s),
           NEW k \in 1..Len(func_states), SameElf(s, func_states[k]),
           NEW m \in 1..Len(func_states), SameElf(s, func_states[m])
    PROVE  /\ func_states[k].flags \cap SharedFlags = {}
           /\ Representable(func_states[k])
           /\ funcs__match(func_states[k], func_states[m])
<1>1. ASSUME NEW n \in 1..Len(func_states), SameElf(s, func_states[n])
      PROVE  \E t \in Instances(s) :
                func_states[n].types = t.types /\ func_states[n].flags = t.flags
  <2>1. PICK t \in ToSet(saved) :
           /\ Carries(func_states[n], t)
           /\ AllGood(t) => func_states[n].flags = t.flags
    BY DEF FromInv
  <2>2. SameElf(t, s) /\ SameElf(s, t)
    BY <1>1, <2>1 DEF Carries, SameElf
  <2>3. AllGood(t) /\ t \in Instances(s)
    BY <2>1, <2>2, SameInstances DEF Instances
  <2> QED
    BY <2>1, <2>3 DEF Carries
<1>2. PICK t \in Instances(s) :
         func_states[k].types = t.types /\ func_states[k].flags = t.flags
  BY <1>1
<1>3. PICK u \in Instances(s) :
         func_states[m].types = u.types /\ func_states[m].flags = u.flags
  BY <1>1
<1>4. Representable(t) /\ funcs__match(t, u)
  BY DEF AllGood
<1> QED
  BY <1>2, <1>3, <1>4 DEF Representable, funcs__match

LEMMA GInit == Init => GInv
<1> SUFFICES ASSUME Init PROVE GInv
  OBVIOUS
<1>1. TypeOK
  BY TypeInit
<1>2. pc = "cus" /\ func_states = <<>> /\ saved = func_states /\ btf = <<>>
      /\ DOMAIN tables = {}
  BY DEF Init
<1> QED
  BY <1>1, <1>2 DEF GInv, KeepInv, TableInv, SymInv, FromInv, SameInv, CoveredInv,
                    GoodEncoded, Busy

LEMMA GoodSort ==
    ASSUME GInv, sort_saved_funcs
    PROVE  FromInv' /\ SameInv' /\ CoveredInv' /\ GoodEncoded'
<1>0. TypeOK /\ KeepInv
  BY DEF GInv
<1>1. /\ pc' = "combine" /\ saved' = saved /\ tables' = tables /\ i' = 1 /\ j' = 2
      /\ func_states' \in qsort(func_states, 1..Len(func_states), saved_functions_cmp)
      /\ saved = func_states
  BY <1>0 DEF sort_saved_funcs, KeepInv
<1>2. /\ \A x \in 1..Len(func_states) :
            \E k \in 1..Len(func_states') : func_states'[k] = func_states[x]
      /\ \A k \in 1..Len(func_states') :
            \E x \in 1..Len(func_states) : func_states'[k] = func_states[x]
  BY <1>0, <1>1, SortedStates DEF TypeOK
<1>3. ASSUME NEW s PROVE s \in ToSet(saved) <=> \E m \in 1..Len(saved) : s = saved[m]
  BY <1>0, SavedElements
<1>4. FromInv'
  <2> SUFFICES ASSUME NEW k \in 1..Len(func_states')
               PROVE  \E s \in ToSet(saved) :
                         Carries(func_states'[k], s) /\ func_states'[k].flags = s.flags
    BY <1>1 DEF FromInv, Carries
  <2>1. PICK x \in 1..Len(func_states) : func_states'[k] = func_states[x]
    BY <1>2
  <2> QED
    BY <1>1, <1>3, <2>1 DEF Carries
<1>5. SameInv'
  BY <1>1 DEF SameInv, SameElf
<1>6. CoveredInv'
  <2> SUFFICES ASSUME NEW s \in ToSet(saved)
               PROVE  \E k \in 1..Len(func_states') : SameElf(s, func_states'[k])
    BY <1>1 DEF CoveredInv, SameElf
  <2>1. PICK m \in 1..Len(saved) : s = saved[m]
    BY <1>3
  <2>2. PICK k \in 1..Len(func_states') : func_states'[k] = s
    BY <1>1, <1>2, <2>1
  <2> QED
    BY <2>2 DEF SameElf
<1> QED
  BY <1>1, <1>4, <1>5, <1>6 DEF GoodEncoded

LEMMA GoodCombine ==
    ASSUME GInv, saved_functions_combine
    PROVE  FromInv' /\ SameInv' /\ CoveredInv' /\ GoodEncoded'
<1> DEFINE fs == func_states
           flags == combined_flags(fs[i], fs[j])
<1>0. TypeOK /\ FromInv /\ SameInv /\ CoveredInv /\ Busy
  BY DEF GInv, Busy, saved_functions_combine
<1>1. /\ pc' = "combine" /\ saved' = saved /\ tables' = tables /\ btf' = btf
      /\ i' = i /\ j' = j + 1 /\ SameElf(fs[i], fs[j])
  BY DEF saved_functions_combine
<1>2. /\ i \in 1..Len(fs) /\ j \in 1..Len(fs) /\ i < j
      /\ Len(func_states') = Len(fs)
      /\ \A k \in 1..Len(fs) :
            /\ Carries(func_states'[k], fs[k])
            /\ k # i /\ k # j => func_states'[k] = fs[k]
      /\ func_states'[i].flags = (fs[i].flags \cap OwnFlags) \cup flags
      /\ func_states'[j].flags = (fs[j].flags \cap OwnFlags) \cup flags
  BY <1>0, CombineArray
<1>3. \A k \in 1..Len(fs) : fs[k].flags \subseteq SharedFlags \cup OwnFlags
  BY <1>0, ElementFacts DEF State
<1>4. ASSUME NEW s \in ToSet(saved), AllGood(s), SameElf(s, fs[i])
      PROVE  func_states'[i].flags = fs[i].flags /\ func_states'[j].flags = fs[j].flags
  <2>1. SameElf(s, fs[j])
    BY <1>1, <1>4 DEF SameElf
  <2>2. /\ fs[i].flags \cap SharedFlags = {} /\ fs[j].flags \cap SharedFlags = {}
        /\ funcs__match(fs[i], fs[j])
    BY <1>0, <1>2, <1>4, <2>1, GroupGood
  <2>3. flags = {}
    <3>1. Shared(fs[i], fs[j]) = {}
      BY <2>2 DEF Shared
    <3> QED
      BY <2>2, <3>1 DEF combined_flags
  <2> HIDE DEF flags
  <2>4. /\ fs[i].flags \subseteq SharedFlags \cup OwnFlags
        /\ fs[j].flags \subseteq SharedFlags \cup OwnFlags
    BY <1>2, <1>3
  <2> QED
    BY <1>2, <2>2, <2>3, <2>4
<1> HIDE DEF flags
<1>5. FromInv'
  <2> SUFFICES ASSUME NEW k \in 1..Len(fs)
               PROVE  \E s \in ToSet(saved) :
                         /\ Carries(func_states'[k], s)
                         /\ AllGood(s)' => func_states'[k].flags = s.flags
    BY <1>1, <1>2 DEF FromInv, Carries
  <2>1. PICK s \in ToSet(saved) :
           Carries(fs[k], s) /\ (AllGood(s) => fs[k].flags = s.flags)
    BY <1>0 DEF FromInv
  <2>2. Carries(func_states'[k], s)
    BY <1>2, <2>1 DEF Carries
  <2>3. ASSUME AllGood(s) PROVE func_states'[k].flags = s.flags
    <3>1. CASE k # i /\ k # j
      BY <1>2, <2>1, <2>3, <3>1
    <3>2. CASE k = i \/ k = j
      <4>1. SameElf(s, fs[i])
        BY <1>1, <2>1, <3>2 DEF SameElf, Carries
      <4> QED
        BY <1>4, <2>1, <2>3, <3>2, <4>1
    <3> QED
      BY <3>1, <3>2
  <2>4. AllGood(s)' <=> AllGood(s)
    BY <1>1, GoodSame
  <2> QED
    BY <2>2, <2>3, <2>4
<1>6. SameInv'
  <2> SUFFICES ASSUME NEW k \in i..j PROVE SameElf(func_states'[k], func_states'[i])
    BY <1>1, <1>2 DEF SameInv, SameElf
  <2>1. k \in 1..Len(fs) /\ (k = j \/ k \in i..(j - 1))
    BY <1>2
  <2>2. SameElf(fs[k], fs[i])
    BY <1>0, <1>1, <2>1 DEF SameInv, SameElf
  <2>3. Carries(func_states'[k], fs[k]) /\ Carries(func_states'[i], fs[i])
    BY <1>2, <2>1
  <2> QED
    BY <2>2, <2>3 DEF SameElf, Carries
<1>7. CoveredInv'
  <2> SUFFICES ASSUME NEW s \in ToSet(saved), AllGood(s)', OneAddress(s)'
               PROVE  \/ \E b \in Encoded : SameElf(s, b)
                      \/ \E k \in i..Len(fs) : SameElf(s, func_states'[k])
    BY <1>1, <1>2 DEF CoveredInv, Encoded, SameElf
  <2>1. AllGood(s) /\ OneAddress(s)
    BY <1>1, GoodSame, TableSame
  <2>2. CASE \E b \in Encoded : SameElf(s, b)
    BY <2>2
  <2>3. ASSUME NEW k \in i..Len(fs), SameElf(s, fs[k])
        PROVE  SameElf(s, func_states'[k])
    <3>1. k \in 1..Len(fs)
      BY <1>2
    <3> QED
      BY <1>2, <2>3, <3>1 DEF SameElf, Carries
  <2> QED
    BY <1>0, <2>1, <2>2, <2>3 DEF CoveredInv
<1> QED
  BY <1>1, <1>5, <1>6, <1>7 DEF GoodEncoded

\* A group is done, and a good function with it.
LEMMA GoodGroup ==
    ASSUME GInv, pc = "add", next_group, UNCHANGED <<tables, saved>>,
           \A b \in Encoded : b \in Encoded',
           \A s \in ToSet(saved) :
              AllGood(s) /\ OneAddress(s) /\ SameElf(s, func_states[i])
                 => \E b \in Encoded' : SameElf(s, b)
    PROVE  FromInv' /\ SameInv' /\ CoveredInv' /\ GoodEncoded'
<1>0. TypeOK /\ FromInv /\ SameInv /\ CoveredInv /\ KeepInv /\ Busy
  BY DEF GInv, Busy
<1>1. /\ i \in 1..Len(func_states) /\ j \in (i + 1)..(Len(func_states) + 1)
      /\ Len(func_states) \in Nat
  BY <1>0 DEF TypeOK
<1>2. ASSUME NEW s \in ToSet(saved), AllGood(s), OneAddress(s)
      PROVE  \/ \E b \in Encoded' : SameElf(s, b)
             \/ \E k \in j..Len(func_states) : SameElf(s, func_states[k])
  <2>1. CASE \E b \in Encoded : SameElf(s, b)
    BY <2>1
  <2>2. ASSUME NEW k \in i..Len(func_states), SameElf(s, func_states[k])
        PROVE  \/ \E b \in Encoded' : SameElf(s, b)
               \/ \E n \in j..Len(func_states) : SameElf(s, func_states[n])
    <3>1. CASE k < j
      <4>1. k \in i..(j - 1)
        BY <1>1, <3>1
      <4>2. SameElf(func_states[k], func_states[i])
        BY <1>0, <4>1 DEF SameInv
      <4>3. SameElf(s, func_states[i])
        BY <2>2, <4>2 DEF SameElf
      <4> QED
        BY <1>2, <4>3
    <3>2. CASE k >= j
      <4>1. k \in j..Len(func_states)
        BY <1>1, <3>2
      <4> QED
        BY <2>2, <4>1
    <3> QED
      BY <1>1, <3>1, <3>2
  <2> QED
    BY <1>0, <1>2, <2>1, <2>2 DEF CoveredInv
<1>3. \A s : (AllGood(s)' <=> AllGood(s)) /\ (OneAddress(s)' <=> OneAddress(s))
  BY GoodSame, TableSame
<1>4. CASE pc' = "combine" /\ i' = j /\ j' = j + 1 /\ func_states' = func_states
  <2>1. FromInv'
    <3> SUFFICES ASSUME NEW k \in 1..Len(func_states)
                 PROVE  \E s \in ToSet(saved) :
                           /\ Carries(func_states[k], s)
                           /\ AllGood(s)' => func_states[k].flags = s.flags
      BY <1>4 DEF FromInv, Carries
    <3> QED
      BY <1>0, <1>3 DEF FromInv
  <2>2. SameInv'
    BY <1>1, <1>4 DEF SameInv, SameElf
  <2>3. CoveredInv'
    <3> SUFFICES ASSUME NEW s \in ToSet(saved), AllGood(s)', OneAddress(s)'
                 PROVE  \/ \E b \in Encoded' : SameElf(s, b)
                        \/ \E k \in j..Len(func_states) : SameElf(s, func_states[k])
      BY <1>4 DEF CoveredInv, SameElf
    <3> QED
      BY <1>2, <1>3
  <2> QED
    BY <1>4, <2>1, <2>2, <2>3 DEF GoodEncoded
<1>5. CASE pc' = "end" /\ j > Len(func_states)
  <2>1. FromInv' /\ SameInv' /\ CoveredInv'
    BY <1>5 DEF FromInv, SameInv, CoveredInv, Busy
  <2>2. GoodEncoded'
    <3> SUFFICES ASSUME NEW s \in ToSet(saved), AllGood(s)', OneAddress(s)'
                 PROVE  \E b \in Encoded' : SameElf(s, b)
      BY <1>5 DEF GoodEncoded, AllGood, SameElf
    <3>1. j..Len(func_states) = {}
      BY <1>1, <1>5
    <3> QED
      BY <1>2, <1>3, <3>1
  <2> QED
    BY <2>1, <2>2
<1>6. \/ pc' = "combine" /\ i' = j /\ j' = j + 1 /\ func_states' = func_states
      \/ pc' = "end" /\ j > Len(func_states)
  BY <1>1 DEF next_group
<1> QED
  BY <1>4, <1>5, <1>6

\* The function added is that of the group.
LEMMA GoodAdd ==
    ASSUME GInv, pc = "add", next_group, UNCHANGED <<tables, saved>>,
           NEW k \in Group, btf_encoder__add_func(func_states[k])
    PROVE  FromInv' /\ SameInv' /\ CoveredInv' /\ GoodEncoded'
<1> DEFINE b == [elf |-> func_states[k].elf, name |-> func_states[k].name,
                 addr |-> func_states[k].addr, sym |-> func_states[k].sym,
                 types |-> func_states[k].types]
           T == [elf : Elfs, name : Nat, addr : Nat, sym : SymSuffix,
                 types : Seq(Types)]
<1>0. TypeOK /\ SameInv
  BY DEF GInv
<1>1. SameElf(func_states[k], func_states[i])
  BY <1>0 DEF SameInv, Busy, Group
<1>2. btf' = Append(btf, b) /\ SameElf(b, func_states[i])
  BY <1>1 DEF btf_encoder__add_func, SameElf
<1>3. btf \in Seq(T)
  BY <1>0 DEF TypeOK
<1> HIDE DEF b, T
<1>4. /\ DOMAIN btf = 1..Len(btf) /\ DOMAIN btf' = 1..(Len(btf) + 1)
      /\ Len(btf) \in Nat /\ btf'[Len(btf) + 1] = b
      /\ \A m \in 1..Len(btf) : btf'[m] = btf[m]
  BY <1>2, <1>3
<1>5. b \in Encoded' /\ \A x \in Encoded : x \in Encoded'
  BY <1>4 DEF Encoded, ToSet
<1>6. \A s \in ToSet(saved) :
         SameElf(s, func_states[i]) => \E x \in Encoded' : SameElf(s, x)
  BY <1>2, <1>5 DEF SameElf
<1> QED
  BY <1>5, <1>6, GoodGroup

\* Nothing keeps a good function out.
LEMMA GoodNotSkipped ==
    ASSUME GInv, pc = "add", NEW s \in ToSet(saved), AllGood(s), OneAddress(s),
           SameElf(s, func_states[i]), NEW c \in Group
    PROVE  ~skip_reason(c)
<1>0. TypeOK /\ SameInv /\ FromInv /\ SymInv /\ TableInv /\ Busy
  BY DEF GInv, Busy
<1>1. i \in 1..Len(func_states) /\ c \in 1..Len(func_states)
  BY <1>0, CanonicalInGroup
<1>2. SameElf(s, func_states[c])
  BY <1>0 DEF SameInv, SameElf, Group
<1>3. func_states[i].flags \cap SharedFlags = {}
  BY <1>0, <1>1, GroupGood
<1>4. Representable(func_states[c])
  BY <1>0, <1>1, <1>2, GroupGood
<1>5. ~btf_encoder_func_state__skip_optimized_parms(func_states[c])
  BY <1>4 DEF Representable, btf_encoder_func_state__skip_optimized_parms
<1>6. ~tables[func_states[i].elf].ambiguous_addr[func_states[i].name]
  <2> DEFINE e == func_states[i].elf
             name == func_states[i].name
             syms == tables[e].syms
  <2>1. e \in DOMAIN tables /\ name \in Names(syms)
    BY <1>0, <1>1 DEF SymInv, InTable
  <2>2. tables[e].ambiguous_addr[name] = ambiguous_addr(syms, name)
    BY <1>0, <2>1 DEF TableInv
  <2>3. s.elf = e /\ s.name = name
    BY DEF SameElf
  <2>4. syms \in Seq(Sym)
    BY <1>0, <2>1 DEF TypeOK
  <2> HIDE DEF e, name
  <2>5. \A k, m \in 1..Len(syms) :
           syms[k].name = name /\ syms[m].name = name => syms[k].addr = syms[m].addr
    BY <2>3 DEF OneAddress, SymsOf
  <2>6. ~elf_function__has_ambiguous_address(syms, name)
    BY <2>4, <2>5 DEF elf_function__has_ambiguous_address
  <2>7. ~tables[e].ambiguous_addr[name]
    BY <2>2, <2>6 DEF ambiguous_addr
  <2> QED
    BY <2>7 DEF e, name
<1> QED
  BY <1>3, <1>5, <1>6 DEF skip_reason, SharedFlags

LEMMA GStep == GInv /\ [Next]_vars => GInv'
<1> SUFFICES ASSUME GInv, [Next]_vars PROVE GInv'
  OBVIOUS
<1> USE DEF conf
<1>0. TypeOK /\ KeepInv /\ TableInv /\ SymInv /\ FromInv /\ SameInv /\ CoveredInv
      /\ GoodEncoded
  BY DEF GInv
<1>t. TypeOK' /\ KeepInv' /\ TableInv' /\ SymInv'
  BY <1>0, TypeStep, KeepStep, TableStep, SymStep
<1> SUFFICES FromInv' /\ SameInv' /\ CoveredInv' /\ GoodEncoded'
  BY <1>t DEF GInv
<1>1. ASSUME pc' \in {"cus", "functions", "abort"}
      PROVE  FromInv' /\ SameInv' /\ CoveredInv' /\ GoodEncoded'
  BY <1>1 DEF FromInv, SameInv, CoveredInv, GoodEncoded, Busy
<1>2. ASSUME UNCHANGED <<tables, func_states, i, j, btf, saved>>,
             pc' = pc \/ (pc = "combine" /\ pc' = "add")
      PROVE  FromInv' /\ SameInv' /\ CoveredInv' /\ GoodEncoded'
  <2>1. \A s : (AllGood(s)' <=> AllGood(s)) /\ (OneAddress(s)' <=> OneAddress(s))
    BY <1>2, GoodSame, TableSame
  <2>2. (Busy' => Busy) /\ (pc' = "end" => pc = "end")
    BY <1>2 DEF Busy
  <2>3. FromInv'
    <3> SUFFICES ASSUME Busy, NEW k \in 1..Len(func_states)
                 PROVE  \E s \in ToSet(saved) :
                           /\ Carries(func_states[k], s)
                           /\ AllGood(s)' => func_states[k].flags = s.flags
      BY <1>2, <2>2 DEF FromInv, Carries
    <3> QED
      BY <1>0, <2>1 DEF FromInv
  <2>4. SameInv'
    BY <1>0, <1>2, <2>2 DEF SameInv, SameElf
  <2>5. CoveredInv'
    <3> SUFFICES ASSUME Busy, NEW s \in ToSet(saved), AllGood(s)', OneAddress(s)'
                 PROVE  \/ \E b \in Encoded : SameElf(s, b)
                        \/ \E k \in i..Len(func_states) : SameElf(s, func_states[k])
      BY <1>2, <2>2 DEF CoveredInv, SameElf, Encoded
    <3> QED
      BY <1>0, <2>1 DEF CoveredInv
  <2>6. GoodEncoded'
    <3> SUFFICES ASSUME pc = "end", NEW s \in ToSet(saved), AllGood(s)', OneAddress(s)'
                 PROVE  \E b \in Encoded : SameElf(s, b)
      BY <1>2, <2>2 DEF GoodEncoded, AllGood, SameElf, Encoded
    <3>1. AllGood(s) /\ OneAddress(s)
      BY <2>1
    <3> QED
      BY <1>0, <3>1 DEF GoodEncoded, AllGood
  <2> QED
    BY <2>3, <2>4, <2>5, <2>6
<1>3. CASE no_saved_funcs
  <2>1. pc' = "end" /\ saved' = <<>>
    BY <1>0, <1>3 DEF no_saved_funcs, KeepInv
  <2>2. ToSet(saved') = {}
    BY <2>1 DEF ToSet
  <2> QED
    BY <2>1, <2>2 DEF FromInv, SameInv, CoveredInv, GoodEncoded, Busy
<1>4. CASE sort_saved_funcs
  BY <1>4, GoodSort
<1>5. CASE saved_functions_combine
  BY <1>5, GoodCombine
<1>6. CASE combine_end
  BY <1>2, <1>6 DEF combine_end
<1>7. CASE UNCHANGED vars
  BY <1>2, <1>7 DEF vars
<1>8. CASE btf_encoder__add_true_signature
  <2>1. PICK k \in Firsts(TrueStates) : btf_encoder__add_func(func_states[k])
    BY <1>8 DEF btf_encoder__add_true_signature
  <2>2. k \in Group
    BY <2>1 DEF Firsts, TrueStates
  <2> QED
    BY <1>8, <2>1, <2>2, GoodAdd DEF btf_encoder__add_true_signature
<1>9. CASE btf_encoder__add_canonical
  <2>1. PICK k \in canonical_state : btf_encoder__add_func(func_states[k])
    BY <1>9 DEF btf_encoder__add_canonical
  <2>2. k \in Group
    BY <1>0, <1>9, <2>1, CanonicalInGroup DEF btf_encoder__add_canonical
  <2> QED
    BY <1>9, <2>1, <2>2, GoodAdd DEF btf_encoder__add_canonical
<1>10. CASE btf_encoder__log_func_skip
  <2>1. PICK c \in canonical_state : skip_reason(c)
    BY <1>10 DEF btf_encoder__log_func_skip
  <2>2. c \in Group
    BY <1>0, <1>10, <2>1, CanonicalInGroup DEF btf_encoder__log_func_skip
  <2>3. \A s \in ToSet(saved) : ~(AllGood(s) /\ OneAddress(s) /\ SameElf(s, func_states[i]))
    BY <1>10, <2>1, <2>2, GoodNotSkipped DEF btf_encoder__log_func_skip
  <2>4. Encoded' = Encoded
    BY <1>10 DEF btf_encoder__log_func_skip, Encoded
  <2> QED
    BY <1>10, <2>3, <2>4, GoodGroup DEF btf_encoder__log_func_skip
<1>11. ASSUME NEW e \in Elfs, btf_encoder__elf_functions(e)
       PROVE  pc' \in {"cus", "functions", "abort"}
  BY <1>11 DEF btf_encoder__elf_functions
<1>12. ASSUME NEW fn \in Fns, btf_encoder__save_func(fn)
       PROVE  pc' \in {"cus", "functions", "abort"}
  BY <1>12 DEF btf_encoder__save_func
<1>13. CASE encode_cu_error \/ encode_cu_end \/ add_saved_funcs_error
  BY <1>1, <1>13 DEF encode_cu_error, encode_cu_end, add_saved_funcs_error
<1> QED
  BY <1>1, <1>3, <1>4, <1>5, <1>6, <1>7, <1>8, <1>9, <1>10, <1>11, <1>12, <1>13
     DEF Next

\* For every set of functions and symbols, any number of ELF files and every order
\* of CUs and of equal elements in qsort(): a function at one address all of whose
\* instances are representable and agree is added.
THEOREM GoodIsEncoded == Spec => []GoodEncoded
<1>1. GInv => GoodEncoded
  BY DEF GInv
<1> QED
  BY <1>1, GInit, GStep, PTL DEF Spec

-----------------------------------------------------------------------------
(* The address of a function                                               *)

FunctionSyms(syms) == {k \in 1..Len(syms) : ~str_contains_non_fn_suffix(syms[k].suffix)}

\* A name with several addresses has none that is 0 and is not the last of its
\* table: otherwise the loops of elf_functions__collect() do not see that they differ,
\* as BtfFunctions_lastname.cfg shows.
SeenToDiffer ==
    \A t \in SymTabs : \A e \in Elfs : \A k, m \in FunctionSyms(t[e]) :
        t[e][k].name = t[e][m].name /\ t[e][k].addr # t[e][m].addr =>
            /\ t[e][k].addr # 0
            /\ \E n \in FunctionSyms(t[e]) : t[e][n].name > t[e][k].name

\* Where two symbols of a name differ, the name is known to be ambiguous.
DifferInv ==
    \A e \in DOMAIN tables : \A k, m \in 1..Len(tables[e].syms) :
        /\ tables[e].syms[k].name = tables[e].syms[m].name
        /\ tables[e].syms[k].addr # tables[e].syms[m].addr
        => ambiguous_addr(tables[e].syms, tables[e].syms[k].name)

AInv == IInv /\ GInv /\ DifferInv /\ EncodedAddress

\* A set of numbers that is not empty has a least one.
LEMMA LeastNumber ==
    ASSUME NEW T \in SUBSET Nat, T # {}
    PROVE  \E x \in T : \A y \in T : x <= y
<1>1. PICK m \in T : \A x \in T : <<x, m>> \notin OpToRel(<, Nat)
  BY NatLessThanWellFounded, WFMin
<1>2. \A x \in T : ~ (x < m)
  BY <1>1 DEF OpToRel
<1> QED
  BY <1>2

\* In a sorted table it is enough to compare neighbours.
LEMMA NeighboursDiffer ==
    ASSUME NEW syms \in Seq(Sym),
           \A x, y \in 1..Len(syms) : x < y => syms[x].name <= syms[y].name,
           NEW k \in 1..Len(syms), NEW m \in 1..Len(syms), k < m,
           syms[k].name = syms[m].name, syms[k].addr # syms[m].addr,
           syms[k].addr # 0
    PROVE  elf_function__has_ambiguous_address(syms, syms[k].name)
<1>0. \A x \in 1..Len(syms) : syms[x].name \in Nat
  <2>1. \A s \in Sym : s.name \in Nat
    BY DEF Sym
  <2> QED
    BY <2>1
<1> DEFINE T == {x \in k..m : syms[x].addr # syms[k].addr}
<1>1. m \in T /\ T \in SUBSET Nat
  OBVIOUS
<1>2. PICK x \in T : \A y \in T : x <= y
  BY <1>1, LeastNumber
<1>3. x \in k..m /\ x # k /\ syms[x].addr # syms[k].addr
  OBVIOUS
<1>4. x - 1 \in k..m /\ x - 1 \in 1..(Len(syms) - 1)
  BY <1>3
<1>5. syms[x - 1].addr = syms[k].addr
  BY <1>2, <1>3, <1>4
<1>6. \A y \in k..m : syms[y].name = syms[k].name
  <2> SUFFICES ASSUME NEW y \in k..m PROVE syms[y].name = syms[k].name
    OBVIOUS
  <2>1. y \in 1..Len(syms) /\ syms[y].name \in Nat /\ syms[k].name \in Nat
    BY <1>0
  <2>2. y = k \/ syms[k].name <= syms[y].name
    BY <2>1
  <2>3. y = m \/ syms[y].name <= syms[m].name
    BY <2>1
  <2> QED
    BY <2>1, <2>2, <2>3
<1>7. (x - 1) + 1 = x
  BY <1>3
<1> QED
  BY <1>3, <1>4, <1>5, <1>6, <1>7 DEF elf_function__has_ambiguous_address

\* The table made for an ELF file.
LEMMA CollectedDiffer ==
    ASSUME SeenToDiffer, TypeOK, NEW e \in Elfs, NEW t \in elf_functions__collect(e),
           NEW k \in 1..Len(t.syms), NEW m \in 1..Len(t.syms),
           t.syms[k].name = t.syms[m].name, t.syms[k].addr # t.syms[m].addr
    PROVE  ambiguous_addr(t.syms, t.syms[k].name)
<1> DEFINE all == symtab[e]
           S == FunctionSyms(all)
<1>1. all \in Seq(Sym) /\ symtab \in SymTabs
  BY SymTabsAssumption DEF TypeOK
<1>2. S \in SUBSET (1..Len(all))
  BY DEF FunctionSyms
<1>3. t.syms \in qsort(all, S, elf_function__name_cmp)
  BY DEF elf_functions__collect, FunctionSyms
<1>4. \A x, y \in S : all[x].name = all[y].name /\ all[x].addr # all[y].addr =>
         all[x].addr # 0 /\ \E n \in S : all[n].name > all[x].name
  BY <1>1 DEF SeenToDiffer
<1> DEFINE syms == t.syms
<1> HIDE DEF all, S
<1>5. /\ syms \in Seq(Sym)
      /\ \A x \in S : \E n \in 1..Len(syms) : syms[n] = all[x]
      /\ \A n \in 1..Len(syms) : \E x \in S : syms[n] = all[x]
      /\ \A a, b \in 1..Len(syms) : a < b => syms[a].name <= syms[b].name
  BY <1>1, <1>2, <1>3, SortedSyms
<1> SUFFICES ambiguous_addr(syms, syms[k].name)
  OBVIOUS
<1>6. k \in 1..Len(syms) /\ m \in 1..Len(syms) /\ Len(syms) \in Nat
      /\ syms[k].name = syms[m].name /\ syms[k].addr # syms[m].addr
  BY <1>5
<1> HIDE DEF syms
<1>7. PICK x \in S : syms[k] = all[x]
  BY <1>5, <1>6
<1>8. PICK y \in S : syms[m] = all[y]
  BY <1>5, <1>6
<1>9. /\ syms[k].addr # 0 /\ syms[m].addr # 0
      /\ \E n \in S : all[n].name > syms[k].name
  BY <1>4, <1>6, <1>7, <1>8
<1>10. \E n \in 1..Len(syms) : syms[n].name > syms[k].name
  BY <1>5, <1>9
<1>11. elf_function__has_ambiguous_address(syms, syms[k].name)
  <2>1. CASE k < m
    BY <1>5, <1>6, <1>9, <2>1, NeighboursDiffer
  <2>2. CASE m < k
    <3>1. elf_function__has_ambiguous_address(syms, syms[m].name)
      BY <1>5, <1>6, <1>9, <2>2, NeighboursDiffer
    <3> QED
      BY <1>6, <3>1
  <2> QED
    BY <1>6, <2>1, <2>2
<1> QED
  BY <1>10, <1>11 DEF ambiguous_addr

LEMMA DifferStep ==
    SeenToDiffer /\ TypeOK /\ DifferInv /\ [Next]_vars => DifferInv'
<1> SUFFICES ASSUME SeenToDiffer, TypeOK, DifferInv, [Next]_vars,
                    NEW x \in DOMAIN tables',
                    NEW k \in 1..Len(tables'[x].syms),
                    NEW m \in 1..Len(tables'[x].syms),
                    tables'[x].syms[k].name = tables'[x].syms[m].name,
                    tables'[x].syms[k].addr # tables'[x].syms[m].addr
             PROVE  ambiguous_addr(tables'[x].syms, tables'[x].syms[k].name)
  BY DEF DifferInv, ambiguous_addr, elf_function__has_ambiguous_address
<1>1. CASE x \in DOMAIN tables /\ tables'[x] = tables[x]
  BY <1>1 DEF DifferInv
<1>2. CASE x \in Elfs /\ tables'[x] \in elf_functions__collect(x)
  BY <1>2, CollectedDiffer
<1> QED
  BY <1>1, <1>2, TablesMade

\* Which symbols a function has does not change while functions are added.
LEMMA AddressSame ==
    ASSUME EncodedAddress, UNCHANGED <<saved, tables>>,
           \A b \in Encoded' :
              \/ b \in Encoded
              \/ /\ b.sym = "" => OneAddress(b)
                 /\ (\E s \in Instances(b) : AtSymbol(s)) => AtSymbol(b)
    PROVE  EncodedAddress'
<1>1. \A s : /\ OneAddress(s)' <=> OneAddress(s)
             /\ AtSymbol(s)' <=> AtSymbol(s)
             /\ Instances(s)' = Instances(s)
  BY TableSame, GoodSame
<1>2. UnambiguousEncoded'
  BY <1>1 DEF UnambiguousEncoded, EncodedAddress
<1>3. EncodedCanonical'
  <2> SUFFICES ASSUME NEW b \in Encoded', NEW s \in Instances(b)', AtSymbol(s)'
               PROVE  AtSymbol(b)'
    BY DEF EncodedCanonical
  <2>1. s \in Instances(b) /\ AtSymbol(s)
    BY <1>1
  <2>2. AtSymbol(b)
    BY <2>1 DEF EncodedCanonical, EncodedAddress
  <2> QED
    BY <1>1, <2>2
<1> QED
  BY <1>2, <1>3 DEF EncodedAddress

LEMMA AddressNone == btf' = <<>> => EncodedAddress'
<1> SUFFICES ASSUME btf' = <<>> PROVE EncodedAddress'
  OBVIOUS
<1>1. Encoded' = {}
  BY DEF Encoded, ToSet
<1> QED
  BY <1>1 DEF EncodedAddress, UnambiguousEncoded, EncodedCanonical

\* The canonical instance is at a symbol when an instance is.
LEMMA CanonicalAtSymbol ==
    ASSUME AInv, pc = "add", NEW m \in 1..Len(saved),
           SameElf(saved[m], func_states[i]), AtSymbol(saved[m]),
           NEW c \in canonical_state
    PROVE  AtSymbol(func_states[c])
<1>0. TypeOK /\ SameInv /\ IInv
  BY DEF AInv, IInv, GInv
<1>1. \A k \in Group : SameElf(func_states[k], func_states[i])
  BY <1>0 DEF SameInv, Busy, Group
<1>2. PICK n \in Group : Carries(func_states[n], saved[m])
  BY <1>0, GroupComplete DEF SameElf
<1>3. AtSymbol(func_states[n])
  BY <1>2 DEF AtSymbol, Carries
<1> DEFINE s == func_states[i]
           at == {k \in Group : SymsAt(s.elf, s.name, func_states[k].addr) # {}}
<1>4. \A k \in Group : k \in at <=> AtSymbol(func_states[k])
  BY <1>1 DEF AtSymbol, SameElf
<1>5. n \in at
  BY <1>3, <1>4
<1>6. CASE j - i > 1
  <2>1. c \in at
    BY <1>5, <1>6 DEF canonical_state, btf_encoder__select_canonical_state, Firsts
  <2> QED
    BY <1>4, <2>1
<1>7. CASE ~(j - i > 1)
  <2>1. n = i /\ c = i
    BY <1>0, <1>7 DEF canonical_state, Group, TypeOK
  <2> QED
    BY <1>3, <2>1
<1> QED
  BY <1>6, <1>7

\* A function is added: it is at a symbol if an instance is, and unless it has a
\* true signature it has one address.
LEMMA AddressAdd ==
    ASSUME AInv, pc = "add", UNCHANGED <<saved, tables>>, NEW k \in Group,
           btf_encoder__add_func(func_states[k]),
           \/ func_states[k].sym # ""
           \/ k \in canonical_state /\ ~skip_reason(k)
    PROVE  EncodedAddress'
<1> DEFINE b == [elf |-> func_states[k].elf, name |-> func_states[k].name,
                 addr |-> func_states[k].addr, sym |-> func_states[k].sym,
                 types |-> func_states[k].types]
           T == [elf : Elfs, name : Nat, addr : Nat, sym : SymSuffix,
                 types : Seq(Types)]
<1>0. TypeOK /\ SameInv /\ SymInv /\ TableInv /\ DifferInv /\ EncodedAddress
  BY DEF AInv, IInv, GInv
<1>1. i \in 1..Len(func_states) /\ k \in 1..Len(func_states)
  BY <1>0, CanonicalInGroup
<1>2. SameElf(func_states[k], func_states[i])
  BY <1>0 DEF SameInv, Busy, Group
<1>3. /\ btf' = Append(btf, b) /\ btf \in Seq(T)
      /\ b.elf = func_states[k].elf /\ b.name = func_states[k].name
      /\ b.addr = func_states[k].addr /\ b.sym = func_states[k].sym
  BY <1>0 DEF btf_encoder__add_func, TypeOK
<1> HIDE DEF b, T
<1>4. \A x \in Encoded' : x \in Encoded \/ x = b
  <2>1. \A m \in DOMAIN Append(btf, b) :
           \/ m \in DOMAIN btf /\ Append(btf, b)[m] = btf[m]
           \/ Append(btf, b)[m] = b
    BY <1>3, AppendElements
  <2> QED
    BY <1>3, <2>1 DEF Encoded, ToSet
<1>5. ASSUME NEW s \in Instances(b), AtSymbol(s)
      PROVE  AtSymbol(b)
  <2>1. CASE func_states[k].sym # ""
    BY <1>0, <1>1, <1>3, <2>1 DEF SymInv, InTable, AtSymbol
  <2>2. CASE k \in canonical_state
    <3>1. PICK m \in 1..Len(saved) : s = saved[m]
      BY <1>0, SavedElements DEF Instances
    <3>2. SameElf(saved[m], func_states[i])
      BY <1>2, <1>3, <3>1 DEF Instances, SameElf
    <3>3. AtSymbol(func_states[k])
      BY <1>5, <2>2, <3>1, <3>2, CanonicalAtSymbol
    <3> QED
      BY <1>3, <3>3 DEF AtSymbol
  <2> QED
    BY <2>1, <2>2
<1>6. ASSUME b.sym = "" PROVE OneAddress(b)
  <2> DEFINE e == func_states[i].elf
             name == func_states[i].name
             syms == tables[e].syms
  <2>1. ~tables[e].ambiguous_addr[name]
    BY <1>3, <1>6 DEF skip_reason
  <2>2. e \in DOMAIN tables /\ name \in Names(syms)
    BY <1>0, <1>1 DEF SymInv, InTable
  <2>3. b.elf = e /\ b.name = name
    BY <1>2, <1>3 DEF SameElf
  <2> HIDE DEF e, name
  <2>4. ~ambiguous_addr(syms, name)
    BY <1>0, <2>1, <2>2 DEF TableInv
  <2>5. \A x, y \in 1..Len(syms) :
           syms[x].name = name /\ syms[y].name = name => syms[x].addr = syms[y].addr
    BY <1>0, <2>2, <2>4 DEF DifferInv
  <2> QED
    BY <2>3, <2>5 DEF OneAddress, SymsOf
<1> QED
  BY <1>0, <1>4, <1>5, <1>6, AddressSame

LEMMA AInit == Init => AInv
<1> SUFFICES ASSUME Init PROVE AInv
  OBVIOUS
<1>1. IInv /\ GInv
  BY IInit, GInit
<1>2. DOMAIN tables = {} /\ btf = <<>>
  BY DEF Init
<1>3. DifferInv
  BY <1>2 DEF DifferInv
<1>4. Encoded = {}
  BY <1>2 DEF Encoded, ToSet
<1>5. EncodedAddress
  BY <1>4 DEF EncodedAddress, UnambiguousEncoded, EncodedCanonical
<1> QED
  BY <1>1, <1>3, <1>5 DEF AInv

LEMMA AStep == OneElfFile /\ SeenToDiffer /\ AInv /\ [Next]_vars => AInv'
<1> SUFFICES ASSUME OneElfFile, SeenToDiffer, AInv, [Next]_vars PROVE AInv'
  OBVIOUS
<1> USE DEF conf
<1>0. TypeOK /\ KeepInv /\ IInv /\ GInv /\ DifferInv /\ EncodedAddress
  BY DEF AInv, IInv
<1>i. IInv' /\ GInv' /\ DifferInv'
  BY <1>0, IStep, GStep, DifferStep
<1> SUFFICES EncodedAddress'
  BY <1>i DEF AInv
<1>1. ASSUME UNCHANGED <<btf, saved, tables>> PROVE EncodedAddress'
  <2>1. Encoded' = Encoded
    BY <1>1 DEF Encoded
  <2> QED
    BY <1>0, <1>1, <2>1, AddressSame
<1>2. ASSUME pc \in {"cus", "functions"}, UNCHANGED btf PROVE EncodedAddress'
  BY <1>0, <1>2, AddressNone DEF KeepInv
<1>3. CASE UNCHANGED vars
  BY <1>1, <1>3 DEF vars
<1>4. ASSUME NEW e \in Elfs, btf_encoder__elf_functions(e) PROVE EncodedAddress'
  BY <1>2, <1>4 DEF btf_encoder__elf_functions
<1>5. ASSUME NEW fn \in Fns, btf_encoder__save_func(fn) PROVE EncodedAddress'
  BY <1>2, <1>5 DEF btf_encoder__save_func
<1>6. CASE \/ encode_cu_error \/ encode_cu_end \/ no_saved_funcs \/ sort_saved_funcs
           \/ saved_functions_combine \/ combine_end
           \/ btf_encoder__log_func_skip \/ add_saved_funcs_error
  BY <1>1, <1>6 DEF encode_cu_error, encode_cu_end, no_saved_funcs, sort_saved_funcs,
                    saved_functions_combine, combine_end, btf_encoder__log_func_skip,
                    add_saved_funcs_error
<1>7. CASE btf_encoder__add_true_signature
  <2>1. PICK k \in Firsts(TrueStates) : btf_encoder__add_func(func_states[k])
    BY <1>7 DEF btf_encoder__add_true_signature
  <2>2. k \in Group /\ func_states[k].sym # ""
    BY <2>1 DEF Firsts, TrueStates
  <2> QED
    BY <1>7, <2>1, <2>2, AddressAdd DEF btf_encoder__add_true_signature
<1>8. CASE btf_encoder__add_canonical
  <2>1. PICK k \in canonical_state :
           ~skip_reason(k) /\ btf_encoder__add_func(func_states[k])
    BY <1>8 DEF btf_encoder__add_canonical
  <2>2. k \in Group
    BY <1>0, <1>8, <2>1, CanonicalInGroup DEF btf_encoder__add_canonical
  <2> QED
    BY <1>8, <2>1, <2>2, AddressAdd DEF btf_encoder__add_canonical
<1> QED
  BY <1>3, <1>4, <1>5, <1>6, <1>7, <1>8 DEF Next

\* While one ELF file is processed, in which a name with several addresses is not
\* the last of the table and none of them is 0: of all instances of a function that
\* is added the one that is added is at a symbol if any is, and without a true
\* signature its name stands for one address.
THEOREM AddressIsKnown ==
    ASSUME OneElfFile, SeenToDiffer PROVE Spec => []EncodedAddress
<1>1. AInv => EncodedAddress
  BY DEF AInv
<1> QED
  BY <1>1, AInit, AStep, PTL DEF Spec
=============================================================================
