---------------------------- MODULE BtfTypesProofs ---------------------------
(***************************************************************************)
(* The ids of BTF types, for any number of CUs of any tables: the ids that *)
(* are predicted for the types of a CU are the ones that they get, and the *)
(* index of every array is the type "int", which is predicted too.  And a  *)
(* BTF encoding that succeeds has written all its sections.                *)
(***************************************************************************)
EXTENDS BtfTypes, FiniteSetTheorems, TLAPS

(* The folds of the model, unfolded by FoldLemmas. *)

ids_op(acc, k) == btf_encoder__precompute_btf_id(Cu.types, Len(btf), acc, k)
PreIds == INSTANCE FoldLemmas WITH op <- ids_op

\* What is the state of the loop of btf_encoder__precompute_btf_ids() after each
\* entry of the table.
Ids(acc, types, off) ==
    /\ DOMAIN acc = 0 .. Len(types)
    /\ acc[0] = [map |-> <<>>, extra |-> 0, skipped |-> 0]
    /\ \A k \in 1 .. Len(types) : acc[k] = btf_encoder__precompute_btf_id(types, off, acc[k - 1], k)

\* A sequence, whatever its elements are.
Sequence(s) == s \in Seq({s[k] : k \in DOMAIN s})

\* The fold of btf_encoder__precompute_btf_ids() is the last state of its loop.
LEMMA Precompute ==
  ASSUME Sequence(Cu.types)
  PROVE  \E acc : /\ Ids(acc, Cu.types, Len(btf))
                  /\ btf_encoder__precompute_btf_ids(Cu.types, Len(btf))
                     = acc[Len(Cu.types)]
<1> DEFINE s == [k \in 1 .. Len(Cu.types) |-> k]
           b == [map |-> <<>>, extra |-> 0, skipped |-> 0]
<1>1. Len(Cu.types) \in Nat
  BY DEF Sequence
<1>2. s \in Seq(Nat) /\ Len(s) = Len(Cu.types) /\ \A k \in 1 .. Len(s) : s[k] = k
  BY <1>1
<1>3. btf_encoder__precompute_btf_ids(Cu.types, Len(btf)) = PreIds!Fold(b, s)
  BY DEF btf_encoder__precompute_btf_ids, PreIds!Fold, FoldLeft, MapThenFoldSet, Max,
         PreIds!FoldLeft, PreIds!MapThenFoldSet, PreIds!Max, ids_op, btf_encoder__precompute_btf_id
<1> HIDE DEF s, b
<1>4. PICK acc : PreIds!Loop(acc, b, s) /\ PreIds!Fold(b, s) = acc[Len(s)]
  BY <1>2, PreIds!FoldLeftLoop
<1>5. Ids(acc, Cu.types, Len(btf))
  BY <1>2, <1>4, Zenon DEF PreIds!Loop, Ids, ids_op, b
<1> QED
  BY <1>2, <1>3, <1>4, <1>5

\* Induction over the naturals, as FoldLemmas proves it.
LEMMA Induction ==
  ASSUME NEW S, 0 \in S, \A n \in Nat : n \in S => n + 1 \in S
  PROVE  \A n \in Nat : n \in S
BY PreIds!NatSetInduction

-----------------------------------------------------------------------------
(* Sequences *)

\* new has all elements of old, and then some that are not arrays.
Grows(old, new) ==
    /\ Sequence(new)
    /\ Len(old) <= Len(new)
    /\ \A k \in 1 .. Len(old) : new[k] = old[k]
    /\ \A k \in Len(old) + 1 .. Len(new) : new[k].kind # "ARRAY"

\* What is in some Seq(S) is a sequence.
LEMMA SequenceIn ==
  ASSUME NEW S, NEW s \in Seq(S)
  PROVE  Sequence(s)
BY DEF Sequence

\* The length of a sequence is a number, its domain the indexes up to it.
LEMMA SequenceFacts ==
  ASSUME NEW s, Sequence(s)
  PROVE  Len(s) \in Nat /\ DOMAIN s = 1 .. Len(s)
BY DEF Sequence

\* A function with the domain 1 .. n is a sequence.
LEMMA SequenceOf ==
  ASSUME NEW s, NEW n \in Nat, s = [k \in 1 .. n |-> s[k]]
  PROVE  Sequence(s) /\ Len(s) = n
BY DEF Sequence

\* The length and the elements of a concatenation.
LEMMA Concat ==
  ASSUME NEW a, NEW b, Sequence(a), Sequence(b)
  PROVE  /\ Sequence(a \o b)
         /\ Len(a \o b) = Len(a) + Len(b)
         /\ \A k \in 1 .. Len(a) : (a \o b)[k] = a[k]
         /\ \A k \in Len(a) + 1 .. Len(a) + Len(b) : (a \o b)[k] = b[k - Len(a)]
<1> DEFINE A == {a[k] : k \in DOMAIN a}
           B == {b[k] : k \in DOMAIN b}
           S == A \cup B
<1>1. a \in Seq(S) /\ b \in Seq(S)
  BY DEF Sequence
<1> HIDE DEF S
<1>2. a \o b \in Seq(S)
  BY <1>1
<1>3. Sequence(a \o b)
  BY <1>2, SequenceIn
<1>4. /\ Len(a \o b) = Len(a) + Len(b)
      /\ \A k \in 1 .. Len(a) : (a \o b)[k] = a[k]
      /\ \A k \in Len(a) + 1 .. Len(a) + Len(b) : (a \o b)[k] = b[k - Len(a)]
  BY <1>1
<1> QED
  BY <1>3, <1>4

\* The length and the elements of a sequence with one element more.
LEMMA AppendFacts ==
  ASSUME NEW a, NEW e, Sequence(a)
  PROVE  /\ Sequence(Append(a, e))
         /\ Len(Append(a, e)) = Len(a) + 1
         /\ \A k \in 1 .. Len(a) : Append(a, e)[k] = a[k]
         /\ Append(a, e)[Len(a) + 1] = e
<1> DEFINE S == {a[k] : k \in DOMAIN a} \cup {e}
<1>1. a \in Seq(S) /\ e \in S
  BY DEF Sequence
<1> HIDE DEF S
<1>2. Append(a, e) \in Seq(S)
  BY <1>1
<1>3. Sequence(Append(a, e))
  BY <1>2, SequenceIn
<1>4. /\ Len(Append(a, e)) = Len(a) + 1
      /\ \A k \in 1 .. Len(a) : Append(a, e)[k] = a[k]
      /\ Append(a, e)[Len(a) + 1] = e
  BY <1>1
<1> QED
  BY <1>3, <1>4

\* The sequence of one element, as btf_encoder__encode_tag() mostly adds.
LEMMA One ==
  ASSUME NEW e
  PROVE  Sequence(<<e>>) /\ Len(<<e>>) = 1 /\ <<e>>[1] = e
<1>1. <<e>> \in Seq({e})
  OBVIOUS
<1> QED
  BY <1>1, SequenceIn

\* The sequence of none.
LEMMA Empty == Sequence(<<>>) /\ Len(<<>>) = 0
BY DEF Sequence

\* Adding nothing keeps what is there.
LEMMA GrowsSame ==
  ASSUME NEW s, Sequence(s)
  PROVE  Grows(s, s)
BY SequenceFacts DEF Grows

\* Adding types twice is adding types.
LEMMA GrowsMore ==
  ASSUME NEW s, NEW t, NEW u, Sequence(s), Grows(s, t), Grows(t, u)
  PROVE  Grows(s, u)
<1>1. Len(s) \in Nat /\ Len(t) \in Nat /\ Len(u) \in Nat
  BY SequenceFacts DEF Grows
<1> QED
  BY <1>1 DEF Grows

\* Adding several types that are no arrays keeps what is there.
LEMMA GrowsBy ==
  ASSUME NEW s, NEW t, Sequence(s), Sequence(t),
         \A k \in 1 .. Len(t) : t[k].kind # "ARRAY"
  PROVE  Grows(s, s \o t)
<1>1. Len(s) \in Nat /\ Len(t) \in Nat
  BY SequenceFacts
<1>2. \A k \in Len(s) + 1 .. Len(s) + Len(t) : (s \o t)[k].kind # "ARRAY"
  <2> TAKE k \in Len(s) + 1 .. Len(s) + Len(t)
  <2>1. k - Len(s) \in 1 .. Len(t)
    BY <1>1
  <2> QED
    BY <2>1, Concat
<1> QED
  BY <1>1, <1>2, Concat DEF Grows

\* The same of one type.
LEMMA GrowsByOne ==
  ASSUME NEW s, NEW e, Sequence(s), e.kind # "ARRAY"
  PROVE  Grows(s, Append(s, e))
<1>1. Len(s) \in Nat
  BY SequenceFacts
<1> QED
  BY <1>1, AppendFacts DEF Grows

\* FlattenSeq() of sequences without an array is one.
NoArrays(s) == Sequence(s) /\ \A k \in 1 .. Len(s) : s[k].kind # "ARRAY"

\* FlattenSeq() of sequences without an array has none.
LEMMA FlattenNoArrays ==
  ASSUME NEW ss, Sequence(ss), \A k \in 1 .. Len(ss) : NoArrays(ss[k])
  PROVE  NoArrays(FlattenSeq(ss))
<1> DEFINE S == {x \in UNION {{ss[k][m] : m \in 1 .. Len(ss[k])} : k \in 1 .. Len(ss)} :
                   x.kind # "ARRAY"}
<1>1. \A k \in 1 .. Len(ss) : ss[k] \in Seq(S)
  <2> SUFFICES ASSUME NEW k \in 1 .. Len(ss) PROVE ss[k] \in Seq(S)
    OBVIOUS
  <2>1. Sequence(ss[k]) /\ \A m \in 1 .. Len(ss[k]) : ss[k][m].kind # "ARRAY"
    BY DEF NoArrays
  <2>2. \A m \in 1 .. Len(ss[k]) : ss[k][m] \in S
    BY <2>1
  <2> HIDE DEF S
  <2> QED
    BY <2>1, <2>2 DEF Sequence
<1>2. \A x \in S : x.kind # "ARRAY"
  OBVIOUS
<1> HIDE DEF S
<1>3. ss \in Seq(Seq(S))
  BY <1>1 DEF Sequence
<1>4. FlattenSeq(ss) = PreIds!FlattenSeq(ss)
  BY DEF FlattenSeq, PreIds!FlattenSeq
<1>5. FlattenSeq(ss) \in Seq(S)
  BY <1>3, <1>4, PreIds!FlattenSeqIn
<1> QED
  BY <1>2, <1>5, SequenceIn DEF NoArrays

\* Declaration tags are no arrays.
LEMMA AnnotsNoArrays ==
  ASSUME NEW v, Sequence(v), \A k \in 1 .. Len(v) : Sequence(v[k].annots)
  PROVE  NoArrays(AnnotsOf(v))
<1> DEFINE tags(k) == [a \in DOMAIN v[k].annots |->
                         [Btf("DECL_TAG", v[k].annots[a].value, v[k].id)
                            EXCEPT !.idx = v[k].annots[a].idx]]
           ss == [k \in DOMAIN v |-> tags(k)]
<1>1. Len(v) \in Nat /\ DOMAIN v = 1 .. Len(v)
  BY SequenceFacts
<1>2. AnnotsOf(v) = FlattenSeq(ss)
  BY DEF AnnotsOf
<1>3. ASSUME NEW k \in 1 .. Len(v)
      PROVE  NoArrays(tags(k))
  <2>1. Len(v[k].annots) \in Nat /\ DOMAIN v[k].annots = 1 .. Len(v[k].annots)
    BY SequenceFacts
  <2>2. Sequence(tags(k)) /\ Len(tags(k)) = Len(v[k].annots)
    BY <2>1, SequenceOf
  <2>3. \A a \in 1 .. Len(v[k].annots) : tags(k)[a].kind = "DECL_TAG"
    BY <2>1 DEF Btf
  <2> QED
    BY <2>2, <2>3 DEF NoArrays
<1>4. Sequence(ss) /\ Len(ss) = Len(v)
  BY <1>1, SequenceOf
<1>5. \A k \in 1 .. Len(ss) : NoArrays(ss[k])
  BY <1>1, <1>3, <1>4
<1> HIDE DEF ss
<1> QED
  BY <1>2, <1>4, <1>5, FlattenNoArrays

-----------------------------------------------------------------------------
(* Ids *)

\* The number of types behind entry k of a table.
After(acc, types, off, k) == off + k - nulls(types, k) - acc[k].skipped + acc[k].extra

\* Every hole of a table counts once (type_id_null_adj).
LEMMA Nulls ==
  ASSUME NEW types, Sequence(types), NEW k \in 1 .. Len(types)
  PROVE  /\ nulls(types, 0) = 0
         /\ nulls(types, k) \in Nat /\ nulls(types, k - 1) \in Nat
         /\ nulls(types, k) = nulls(types, k - 1) + (IF types[k].tag = "null" THEN 1 ELSE 0)
<1> DEFINE N(n) == {m \in 1 .. n : m \in DOMAIN types /\ types[m].tag = "null"}
<1>0. k \in Nat /\ k - 1 \in Nat /\ DOMAIN types = 1 .. Len(types) /\ Len(types) \in Nat
  BY SequenceFacts
<1>1. N(0) = {} /\ Cardinality({}) = 0
  BY FS_EmptySet
<1>2. ASSUME NEW n \in Nat
      PROVE  IsFiniteSet(N(n)) /\ Cardinality(N(n)) \in Nat
  <2>1. IsFiniteSet(1 .. n)
    BY FS_Interval
  <2>2. N(n) \subseteq 1 .. n
    OBVIOUS
  <2>3. IsFiniteSet(N(n))
    BY <2>1, <2>2, FS_Subset
  <2> QED
    BY <2>3, FS_CardinalityType
<1>3. N(k) = IF types[k].tag = "null" THEN N(k - 1) \cup {k} ELSE N(k - 1)
  BY <1>0
<1>4. k \notin N(k - 1)
  BY <1>0
<1>5. Cardinality(N(k - 1) \cup {k}) = Cardinality(N(k - 1)) + 1
  BY <1>0, <1>2, <1>4, FS_AddElement
<1>6. \A n : nulls(types, n) = Cardinality(N(n))
  BY DEF nulls
<1> HIDE DEF N
<1>7. Cardinality(N(k)) = Cardinality(N(k - 1)) + (IF types[k].tag = "null" THEN 1 ELSE 0)
  <2>1. Cardinality(N(k - 1)) \in Nat
    BY <1>0, <1>2
  <2>2. CASE types[k].tag = "null"
    BY <2>1, <2>2, <1>3, <1>5
  <2>3. CASE types[k].tag # "null"
    BY <2>1, <2>3, <1>3
  <2> QED
    BY <2>2, <2>3
<1>8. Cardinality(N(k)) \in Nat /\ Cardinality(N(k - 1)) \in Nat
  BY <1>0, <1>2
<1> QED
  BY <1>1, <1>6, <1>7, <1>8

\* All tags but an unspecified type have an id at least (tag__nr_btf_ids()).
LEMMA NrIds ==
  ASSUME NEW t \in TagType
  PROVE  tag__nr_btf_ids(t) \in Nat /\ (t.tag # "unspec" => tag__nr_btf_ids(t) > 0)
<1>1. t.dims \in Seq(Nat)
  BY DEF TagType
<1>2. CASE t.dims = <<>>
  BY <1>2 DEF tag__nr_btf_ids
<1>3. CASE t.dims # <<>>
  <2>1. Len(t.dims) \in Nat /\ Len(t.dims) > 0
    BY <1>1, <1>3
  <2> QED
    BY <1>3, <2>1 DEF tag__nr_btf_ids
<1> QED
  BY <1>2, <1>3

Acc == [map : Seq(Int), extra : Nat, skipped : Nat]

\* The state of the loop behind entry k, from the one before it.
IdsStepped(types, off, a, k, b) ==
    LET n == tag__nr_btf_ids(types[k])
        gets == types[k].tag # "null" /\ n # 0
    IN /\ b \in Acc
       /\ Len(b.map) = Len(a.map) + 1
       /\ \A j \in 1 .. Len(a.map) : b.map[j] = a.map[j]
       /\ b.map[Len(a.map) + 1] =
            IF gets THEN off + k - nulls(types, k) - a.skipped + a.extra + n - 1 ELSE 0
       /\ b.extra = IF gets THEN a.extra + n - 1 ELSE a.extra
       /\ b.skipped = IF types[k].tag # "null" /\ n = 0 THEN a.skipped + 1 ELSE a.skipped

\* One iteration of btf_encoder__precompute_btf_ids() appends one id to the
\* map and adjusts the two counters, whatever kind of entry it is for.
LEMMA IdsStepFacts ==
  ASSUME NEW types \in Seq(TagType), NEW off \in Nat, NEW a \in Acc, NEW k \in 1 .. Len(types)
  PROVE  IdsStepped(types, off, a, k, btf_encoder__precompute_btf_id(types, off, a, k))
<1> DEFINE n == tag__nr_btf_ids(types[k])
           b == btf_encoder__precompute_btf_id(types, off, a, k)
           id == off + k - nulls(types, k) - a.skipped + a.extra + n - 1
           gets == types[k].tag # "null" /\ n # 0
<1>1. n \in Nat /\ nulls(types, k) \in Nat /\ k \in Nat
  BY NrIds, Nulls, SequenceIn
<1>2. a.map \in Seq(Int) /\ a.extra \in Nat /\ a.skipped \in Nat
  BY DEF Acc
<1> HIDE DEF n
<1>3. id \in Int
  BY <1>1, <1>2
<1>4. b = [map |-> Append(a.map, IF gets THEN id ELSE 0),
           extra |-> IF gets THEN a.extra + n - 1 ELSE a.extra,
           skipped |-> IF types[k].tag # "null" /\ n = 0 THEN a.skipped + 1 ELSE a.skipped]
  <2>1. CASE types[k].tag = "null"
    BY <2>1, <1>2 DEF btf_encoder__precompute_btf_id, n, Acc
  <2>2. CASE types[k].tag # "null" /\ n = 0
    BY <2>2, <1>2 DEF btf_encoder__precompute_btf_id, n, Acc
  <2>3. CASE types[k].tag # "null" /\ n # 0
    <3>1. a = [map |-> a.map, extra |-> a.extra, skipped |-> a.skipped]
      BY DEF Acc
    <3>2. b = [a EXCEPT !.map = Append(@, id), !.extra = @ + n - 1]
      BY <2>3 DEF btf_encoder__precompute_btf_id, n
    <3> HIDE DEF id, b
    <3> QED
      BY <2>3, <3>1, <3>2
  <2> QED
    BY <2>1, <2>2, <2>3
<1> HIDE DEF b
<1> DEFINE e == IF gets THEN id ELSE 0
<1>5. e \in Int
  BY <1>3
<1> HIDE DEF e, id
<1>6. /\ Append(a.map, e) \in Seq(Int)
      /\ Len(Append(a.map, e)) = Len(a.map) + 1
      /\ \A j \in 1 .. Len(a.map) : Append(a.map, e)[j] = a.map[j]
      /\ Append(a.map, e)[Len(a.map) + 1] = e
  BY <1>2, <1>5
<1>7. b.map = Append(a.map, e)
  BY <1>4 DEF e
<1>8. b.extra \in Nat /\ b.skipped \in Nat
  <2>1. /\ b.extra = IF gets THEN a.extra + n - 1 ELSE a.extra
        /\ b.skipped = IF types[k].tag # "null" /\ n = 0 THEN a.skipped + 1 ELSE a.skipped
    BY <1>4
  <2>2. gets => a.extra + n - 1 \in Nat
    BY <1>1, <1>2
  <2>3. a.skipped + 1 \in Nat
    BY <1>2
  <2> QED
    BY <1>2, <2>1, <2>2, <2>3
<1>9. b \in Acc
  BY <1>4, <1>6, <1>7, <1>8 DEF Acc
<1> QED
  BY <1>4, <1>6, <1>7, <1>9 DEF e, id, n, b, IdsStepped

\* The map has an entry for every one that was seen, which stays, and the ids
\* follow each other.
LEMMA IdsFacts ==
  ASSUME NEW types \in Seq(TagType), NEW off \in Nat, NEW acc, Ids(acc, types, off)
  PROVE  /\ \A k \in 0 .. Len(types) : acc[k] \in Acc /\ Len(acc[k].map) = k
         /\ \A k \in 1 .. Len(types) : \A j \in 1 .. k - 1 : acc[k].map[j] = acc[k - 1].map[j]
         /\ \A k \in 0 .. Len(types) : \A j \in 1 .. k : acc[k].map[j] = acc[j].map[j]
<1>0. Len(types) \in Nat
  OBVIOUS
<1> DEFINE T == {n \in Nat : n \in 0 .. Len(types) =>
                                acc[n] \in Acc /\ Len(acc[n].map) = n}
<1>1. 0 \in T
  <2>1. acc[0] = [map |-> <<>>, extra |-> 0, skipped |-> 0]
    BY DEF Ids
  <2>2. acc[0] \in Acc
    BY <2>1 DEF Acc
  <2>3. Len(acc[0].map) = 0
    BY <2>1
  <2> QED
    BY <2>2, <2>3
<1>2. ASSUME NEW n \in Nat, n \in T PROVE n + 1 \in T
  <2> SUFFICES ASSUME n + 1 \in 0 .. Len(types)
               PROVE  acc[n + 1] \in Acc /\ Len(acc[n + 1].map) = n + 1
    OBVIOUS
  <2>1. n + 1 \in 1 .. Len(types) /\ n \in 0 .. Len(types)
    BY <1>0
  <2>2. acc[n + 1] = btf_encoder__precompute_btf_id(types, off, acc[n + 1 - 1], n + 1) /\ n + 1 - 1 = n
    BY <2>1 DEF Ids
  <2>3. acc[n] \in Acc /\ Len(acc[n].map) = n
    BY <1>2, <2>1
  <2>4. IdsStepped(types, off, acc[n], n + 1, acc[n + 1])
    BY <2>1, <2>2, <2>3, IdsStepFacts
  <2> QED
    BY <2>3, <2>4 DEF IdsStepped
<1>3. \A k \in 0 .. Len(types) : acc[k] \in Acc /\ Len(acc[k].map) = k
  <2>1. \A n \in Nat : n \in T
    <3> HIDE DEF T
    <3> QED
      BY <1>1, <1>2, Induction
  <2> QED
    BY <1>0, <2>1
<1>4. ASSUME NEW k \in 1 .. Len(types)
      PROVE  \A j \in 1 .. k - 1 : acc[k].map[j] = acc[k - 1].map[j]
  <2>1. k - 1 \in 0 .. Len(types)
    BY <1>0
  <2>2. acc[k - 1] \in Acc /\ Len(acc[k - 1].map) = k - 1
    BY <1>3, <2>1
  <2>3. acc[k] = btf_encoder__precompute_btf_id(types, off, acc[k - 1], k)
    BY DEF Ids
  <2>4. IdsStepped(types, off, acc[k - 1], k, acc[k])
    BY <2>2, <2>3, IdsStepFacts
  <2> QED
    BY <2>2, <2>4 DEF IdsStepped
<1> DEFINE U == {n \in Nat : n \in 0 .. Len(types) =>
                                \A j \in 1 .. n : acc[n].map[j] = acc[j].map[j]}
<1>5. 0 \in U
  OBVIOUS
<1>6. ASSUME NEW n \in Nat, n \in U PROVE n + 1 \in U
  <2> SUFFICES ASSUME n + 1 \in 0 .. Len(types), NEW j \in 1 .. n + 1
               PROVE  acc[n + 1].map[j] = acc[j].map[j]
    OBVIOUS
  <2>1. CASE j = n + 1
    BY <2>1
  <2>2. CASE j \in 1 .. n
    <3>1. acc[n].map[j] = acc[j].map[j]
      BY <1>0, <1>6, <2>2
    <3>2. n + 1 \in 1 .. Len(types) /\ n + 1 - 1 = n
      BY <1>0
    <3> QED
      BY <1>4, <2>2, <3>1, <3>2
  <2> QED
    BY <2>1, <2>2
<1>7. \A n \in Nat : n \in U
  <2> HIDE DEF U
  <2> QED
    BY <1>5, <1>6, Induction
<1> QED
  BY <1>0, <1>3, <1>4, <1>7

\* The count of types behind an entry exceeds the one before it by the types
\* of the entry, and the id in the map is that count: the first type is id
\* type_id_off + 1, and no id is left out or given twice.
LEMMA IdsNext ==
  ASSUME NEW types \in Seq(TagType), NEW off \in Nat, NEW acc, Ids(acc, types, off),
         NEW k \in 1 .. Len(types)
  PROVE  LET n == tag__nr_btf_ids(types[k]) IN
         /\ After(acc, types, off, 0) = off
         /\ After(acc, types, off, k - 1) \in Int
         /\ After(acc, types, off, k) =
              After(acc, types, off, k - 1) + (IF types[k].tag = "null" THEN 0 ELSE n)
         /\ types[k].tag # "null" /\ n # 0 =>
              acc[Len(types)].map[k] = After(acc, types, off, k)
<1> DEFINE n == tag__nr_btf_ids(types[k])
<1>1. n \in Nat /\ k - 1 \in 0 .. Len(types) /\ k \in Nat /\ Len(types) \in Nat
  BY NrIds
<1>2. /\ nulls(types, 0) = 0
      /\ nulls(types, k) \in Nat /\ nulls(types, k - 1) \in Nat
      /\ nulls(types, k) = nulls(types, k - 1) + (IF types[k].tag = "null" THEN 1 ELSE 0)
  BY Nulls, SequenceIn
<1>3. acc[k - 1] \in Acc /\ Len(acc[k - 1].map) = k - 1
  BY <1>1, IdsFacts
<1>4. acc[k - 1].extra \in Nat /\ acc[k - 1].skipped \in Nat
  BY <1>3 DEF Acc
<1>5. acc[k] = btf_encoder__precompute_btf_id(types, off, acc[k - 1], k)
  BY DEF Ids
<1> DEFINE gets == types[k].tag # "null" /\ n # 0
           a == acc[k - 1]
<1>13. IdsStepped(types, off, acc[k - 1], k, acc[k])
  BY <1>3, <1>5, IdsStepFacts
<1>6. /\ acc[k].map[Len(a.map) + 1] =
           IF gets THEN off + k - nulls(types, k) - a.skipped + a.extra + n - 1 ELSE 0
      /\ acc[k].extra = IF gets THEN a.extra + n - 1 ELSE a.extra
      /\ acc[k].skipped = IF types[k].tag # "null" /\ n = 0 THEN a.skipped + 1 ELSE a.skipped
  BY <1>13 DEF IdsStepped
<1>7. Len(a.map) + 1 = k
  BY <1>1, <1>3
<1>8. acc[Len(types)].map[k] = acc[k].map[k]
  BY <1>1, IdsFacts
<1>9. After(acc, types, off, 0) = off
  BY <1>2 DEF After, Ids
<1> DEFINE p == nulls(types, k - 1)
           p1 == nulls(types, k)
           q == acc[k - 1].skipped
           q1 == acc[k].skipped
           r == acc[k - 1].extra
           r1 == acc[k].extra
<1>14. After(acc, types, off, k - 1) = off + (k - 1) - p - q + r
  BY DEF After
<1>15. After(acc, types, off, k) = off + k - p1 - q1 + r1
  BY DEF After
<1>16. p \in Nat /\ p1 \in Nat /\ q \in Nat /\ r \in Nat
  BY <1>2, <1>4
<1>17. p1 = p + (IF types[k].tag = "null" THEN 1 ELSE 0)
  BY <1>2
<1>18. r1 = (IF gets THEN r + n - 1 ELSE r) /\ q1 = (IF types[k].tag # "null" /\ n = 0 THEN q + 1 ELSE q)
  BY <1>6
<1>19. acc[k].map[k] = IF gets THEN off + k - p1 - q + r + n - 1 ELSE 0
  BY <1>6, <1>7
<1> HIDE DEF n, a, p, p1, q, q1, r, r1
<1>10. After(acc, types, off, k - 1) \in Int
  BY <1>1, <1>14, <1>16
<1>11. After(acc, types, off, k) =
         After(acc, types, off, k - 1) + (IF types[k].tag = "null" THEN 0 ELSE n)
  <2>1. CASE types[k].tag = "null"
    BY <2>1, <1>1, <1>14, <1>15, <1>16, <1>17, <1>18
  <2>2. CASE types[k].tag # "null" /\ n = 0
    BY <2>2, <1>1, <1>14, <1>15, <1>16, <1>17, <1>18
  <2>3. CASE types[k].tag # "null" /\ n # 0
    BY <2>3, <1>1, <1>14, <1>15, <1>16, <1>17, <1>18
  <2> QED
    BY <2>1, <2>2, <2>3
<1>12. ASSUME types[k].tag # "null", n # 0
       PROVE  acc[Len(types)].map[k] = After(acc, types, off, k)
  BY <1>12, <1>1, <1>8, <1>15, <1>16, <1>17, <1>18, <1>19
<1> QED
  BY <1>9, <1>10, <1>11, <1>12 DEF n

-----------------------------------------------------------------------------
(* What is added for a tag *)

\* A base type that is named "int" is an integer of a size that BTF knows.
PlainInt(t) ==
    t.tag = "base" /\ t.name = "int" =>
        /\ t.enc \notin {"single", "double", "ldbl", "complex"}
        /\ Bytes(t.size) \in {1, 2, 4, 8, 16}

\* The kind and the name of a new type.
LEMMA BtfKind ==
  ASSUME NEW k, NEW n, NEW t
  PROVE  Btf(k, n, t).kind = k /\ Btf(k, n, t).name = n
BY DEF Btf

\* btf_encoder__encode_tag() adds as many types as tag__nr_btf_ids() says, or
\* fails; only an array adds arrays, which have the index of the encoder; "int"
\* adds an integer "int".
LEMMA EncodedTag ==
  ASSUME NEW t \in TagType, t.tag \notin {"null", "unspec"}, NEW id,
         NEW new, new = btf_encoder__encode_tag(t, id)
  PROVE  /\ Sequence(new)
         /\ new = <<>> \/ Len(new) = tag__nr_btf_ids(t)
         /\ t.tag # "array" => NoArrays(new)
         /\ \A k \in 1 .. Len(new) : new[k].kind = "ARRAY" => new[k].index = enc.index_id
         /\ t.tag = "base" /\ t.name = "int" /\ PlainInt(t) =>
              new # <<>> /\ new[1].kind = "INT" /\ new[1].name = "int"
<1>1. CASE t.tag = "array"
  <2> DEFINE n == IF t.dims = <<>> THEN 1 ELSE Len(t.dims)
             array(k) == [Btf("ARRAY", "", IF k = 1 THEN btf_encoder__tag_type(t.type)
                                           ELSE id + k - 2)
                            EXCEPT !.nelems = IF t.dims = <<>> THEN 0 ELSE t.dims[n - k + 1],
                                   !.index = enc.index_id]
  <2>1. n \in Nat /\ n = tag__nr_btf_ids(t)
    BY <1>1, NrIds DEF tag__nr_btf_ids
  <2>2. new = [k \in 1 .. n |-> array(k)]
    BY <1>1 DEF btf_encoder__encode_tag, btf_encoder__add_array, RefKind
  <2>3. \A k : array(k).index = enc.index_id
    BY DEF Btf
  <2> HIDE DEF n, array
  <2>4. Sequence(new) /\ Len(new) = n
    BY <2>1, <2>2, SequenceOf
  <2> QED
    BY <1>1, <2>1, <2>2, <2>3, <2>4
<1>2. ASSUME t.tag # "array"
      PROVE  tag__nr_btf_ids(t) = 1
  BY <1>2 DEF tag__nr_btf_ids
<1>3. ASSUME NEW e, new = <<e>>, e.kind # "ARRAY", t.tag # "array",
             t.tag = "base" /\ t.name = "int" /\ PlainInt(t) => e.kind = "INT" /\ e.name = "int"
      PROVE  /\ Sequence(new)
             /\ Len(new) = tag__nr_btf_ids(t)
             /\ NoArrays(new)
             /\ \A k \in 1 .. Len(new) : new[k].kind = "ARRAY" => new[k].index = enc.index_id
             /\ t.tag = "base" /\ t.name = "int" /\ PlainInt(t) =>
                  new # <<>> /\ new[1].kind = "INT" /\ new[1].name = "int"
  <2>1. Sequence(new) /\ Len(new) = 1 /\ new[1] = e
    BY <1>3, One
  <2>2. \A k \in 1 .. Len(new) : new[k] = e
    BY <2>1
  <2>3. new # <<>>
    BY <2>1, Empty
  <2> QED
    BY <1>2, <1>3, <2>1, <2>2, <2>3 DEF NoArrays
<1>4. CASE t.tag = "base"
  <2> DEFINE odd == Bytes(t.size) \notin {1, 2, 4, 8, 16}
             float == [Btf("FLOAT", t.name, 0) EXCEPT !.size = Bytes(t.size)]
             int == [Btf("INT", IF odd THEN "__SANITIZED_FAKE_INT__" ELSE t.name, 0) EXCEPT
                       !.size = IF odd THEN 4 ELSE Bytes(t.size),
                       !.enc = IF t.enc \in {"signed", "bool"} THEN t.enc ELSE ""]
  <2>1. new = btf_encoder__add_base_type(t)
    BY <1>4 DEF btf_encoder__encode_tag, RefKind
  <2>2. float.kind = "FLOAT" /\ int.kind = "INT"
        /\ int.name = IF odd THEN "__SANITIZED_FAKE_INT__" ELSE t.name
    BY DEF Btf
  <2>3. \/ new = <<float>> /\ t.enc \in {"single", "double", "ldbl"}
        \/ new = <<>> /\ t.enc = "complex"
        \/ new = <<int>>
    BY <2>1 DEF btf_encoder__add_base_type
  <2> HIDE DEF float, int
  <2>4. CASE new = <<float>> /\ t.enc \in {"single", "double", "ldbl"}
    <3>1. ~ (t.tag = "base" /\ t.name = "int" /\ PlainInt(t))
      BY <2>4 DEF PlainInt
    <3> QED
      BY <1>3, <1>4, <2>2, <2>4, <3>1
  <2>5. CASE new = <<>> /\ t.enc = "complex"
    <3>1. ~ (t.tag = "base" /\ t.name = "int" /\ PlainInt(t))
      BY <2>5 DEF PlainInt
    <3> QED
      BY <1>4, <2>5, <3>1, Empty DEF NoArrays
  <2>6. CASE new = <<int>>
    <3>1. t.name = "int" /\ PlainInt(t) => int.name = "int"
      BY <1>4, <2>2 DEF PlainInt
    <3> QED
      BY <1>3, <1>4, <2>2, <2>6, <3>1
  <2> QED
    BY <2>3, <2>4, <2>5, <2>6
<1>5. CASE t.tag \in DOMAIN RefKind
  <2> DEFINE e == Btf(RefKind[t.tag], t.name, btf_encoder__tag_type(t.type))
  <2>1. t.tag \in {"const", "pointer", "restrict", "volatile", "typedef", "annot"}
    BY <1>5 DEF RefKind
  <2>2. new = <<e>>
    BY <1>5, <2>1 DEF btf_encoder__encode_tag, btf_encoder__add_ref_type
  <2>3. e.kind # "ARRAY"
    BY <2>1, BtfKind DEF RefKind
  <2> HIDE DEF e
  <2> QED
    BY <1>3, <2>1, <2>2, <2>3
<1>6. CASE t.tag \in {"struct", "union"}
  <2> DEFINE fwd == [Btf("FWD", t.name, 0) EXCEPT !.kflag = t.tag = "union"]
             str == [Btf(IF t.tag = "union" THEN "UNION" ELSE "STRUCT", t.name, 0) EXCEPT
                       !.size = t.size,
                       !.items = [k \in DOMAIN t.kids |-> btf_encoder__add_field(t.kids[k])]]
  <2>1. new = <<fwd>> \/ new = <<str>>
    BY <1>6 DEF btf_encoder__encode_tag, btf_encoder__add_struct_type, RefKind
  <2>2. fwd.kind # "ARRAY" /\ str.kind # "ARRAY"
    BY DEF Btf
  <2> HIDE DEF fwd, str
  <2> QED
    BY <1>3, <1>6, <2>1, <2>2
<1>7. CASE t.tag = "enum"
  <2> DEFINE is32 == t.size <= 32 \/ conf.skip_enum64
             vals == btf_encoder__add_enum_val(t)
             e == [Btf(IF is32 THEN "ENUM" ELSE "ENUM64", t.name, 0) EXCEPT
                     !.size = Bytes(t.size), !.kflag = vals.kflag, !.items = vals.items]
  <2>1. new = <<e>>
    BY <1>7 DEF btf_encoder__encode_tag, btf_encoder__add_enum_type, RefKind
  <2>2. e.kind # "ARRAY"
    BY DEF Btf
  <2> HIDE DEF e
  <2> QED
    BY <1>3, <1>7, <2>1, <2>2
<1>8. CASE t.tag = "subroutine"
  <2> DEFINE e == [Btf("FUNC_PROTO", "", btf_encoder__tag_type(t.type)) EXCEPT !.items = Params(t)]
  <2>1. new = <<e>>
    BY <1>8 DEF btf_encoder__encode_tag, btf_encoder__add_func_proto_for_ftype,
                btf_encoder__emit_func_proto, RefKind
  <2>2. e.kind # "ARRAY"
    BY DEF Btf
  <2> HIDE DEF e
  <2> QED
    BY <1>3, <1>8, <2>1, <2>2
<1>9. CASE t.tag \notin {"array", "base", "struct", "union", "enum", "subroutine"} /\ t.tag \notin DOMAIN RefKind
  <2>1. new = <<>>
    BY <1>9 DEF btf_encoder__encode_tag
  <2> QED
    BY <1>9, <2>1, Empty DEF NoArrays
<1> QED
  BY <1>1, <1>4, <1>5, <1>6, <1>7, <1>8, <1>9

-----------------------------------------------------------------------------
(* What the encoder keeps for later *)

Save == INSTANCE FoldLemmas WITH op <- save_function
Inline == INSTANCE FoldLemmas WITH op <- btf_encoder__add_inline_expansion
Variable == INSTANCE FoldLemmas WITH op <- encode_variable

FunctionType == [name : STRING, proto : TagType]
InlineType == [name : STRING, proto : TagType, section : Nat, offset : Nat, locs : Seq(Loc)]
CuType == [types : Seq(TagType), functions : Seq(FunctionType), inlines : Seq(InlineType),
           variables : Seq(VarType)]

\* The CUs and the sections of what is encoded are sequences.
LEMMA InputFacts ==
  ASSUME input \in InputType
  PROVE  input.cus \in Seq(CuType) /\ input.sections \in Seq(Section)
BY DEF InputType, CuType, FunctionType, InlineType

\* So are the tables of a CU.
LEMMA CuFacts ==
  ASSUME input \in InputType, c \in 1 .. Len(input.cus)
  PROVE  /\ Cu.types \in Seq(TagType)
         /\ Cu.functions \in Seq(FunctionType)
         /\ Cu.inlines \in Seq(InlineType)
         /\ Cu.variables \in Seq(VarType)
<1>1. input.cus[c] \in CuType
  BY InputFacts
<1> QED
  BY <1>1 DEF Cu, CuType

\* And the annotations of a tag.
LEMMA Annots ==
  ASSUME NEW t \in TagType
  PROVE  Sequence(t.annots)
<1>1. t.annots \in Seq(Annot)
  BY DEF TagType
<1> QED
  BY <1>1, SequenceIn

Saved(s) == Sequence(s) /\ \A k \in 1 .. Len(s) : Sequence(s[k].annots)

\* One more saved function leaves the others.
LEMMA SavedMore ==
  ASSUME NEW s, NEW e, Saved(s), Sequence(e.annots)
  PROVE  Saved(Append(s, e))
<1>1. Len(s) \in Nat
  BY SequenceFacts DEF Saved
<1> QED
  BY <1>1, AppendFacts DEF Saved

\* btf_encoder__save_func() of all functions of a CU saves sequences of
\* annotations only.
LEMMA SavedByFold ==
  ASSUME Saved(saved), input \in InputType, c \in 1 .. Len(input.cus)
  PROVE  Saved(FoldLeft(save_function, saved, Cu.functions))
<1> DEFINE s == Cu.functions
<1>1. s \in Seq(FunctionType)
  BY CuFacts
<1>2. FoldLeft(save_function, saved, s) = Save!Fold(saved, s)
  BY DEF Save!Fold, FoldLeft, MapThenFoldSet, Max, Save!FoldLeft, Save!MapThenFoldSet, Save!Max
<1>3. ASSUME NEW a, Saved(a), NEW k \in 1 .. Len(s)
      PROVE  Saved(save_function(a, s[k]))
  <2>1. s[k] \in FunctionType
    BY <1>1
  <2>2. PICK f : f = s[k]
    OBVIOUS
  <2> HIDE DEF s
  <2>3. f \in FunctionType /\ f.proto \in TagType
    BY <2>1, <2>2 DEF FunctionType
  <2>4. Sequence(btf_encoder__save_func(f).annots)
    BY <2>3, Annots DEF btf_encoder__save_func
  <2>5. \/ save_function(a, f) = a
        \/ save_function(a, f) = Append(a, btf_encoder__save_func(f))
    BY Zenon DEF save_function
  <2> QED
    BY <1>3, <2>2, <2>4, <2>5, SavedMore, Zenon
<1>4. PICK U : Save!Universe(U, saved, s)
  BY <1>1, Save!FoldLeftKeeps, Zenon
<1> HIDE DEF s
<1> DEFINE P == {a \in U : Saved(a)}
<1>5. P \in SUBSET U /\ saved \in P /\ \A k \in 1 .. Len(s) : \A a \in P :
        save_function(a, s[k]) \in U => save_function(a, s[k]) \in P
  BY <1>3, <1>4 DEF Save!Universe
<1> HIDE DEF P
<1>6. Save!Fold(saved, s) \in P
  BY <1>4, <1>5 DEF Save!Universe
<1> QED
  BY <1>2, <1>6 DEF P, s

Located(s) == Sequence(s) /\ \A k \in 1 .. Len(s) : Sequence(s[k].locs)

\* The parameters of a prototype are a sequence, with or without "...".
LEMMA ParamsFacts ==
  ASSUME NEW t \in TagType
  PROVE  Sequence(Params(t))
<1> DEFINE a == [k \in DOMAIN t.kids |-> [name |-> t.kids[k].name,
                                          type |-> btf_encoder__tag_type(t.kids[k].type)]]
           b == IF t.vararg THEN <<[name |-> "", type |-> 0]>> ELSE <<>>
<1>1. t.kids \in Seq(Kid)
  BY DEF TagType
<1>2. Sequence(a)
  <2>1. DOMAIN t.kids = 1 .. Len(t.kids) /\ Len(t.kids) \in Nat
    BY <1>1
  <2>2. a = [k \in 1 .. Len(t.kids) |-> a[k]]
    BY <2>1
  <2> HIDE DEF a
  <2> QED
    BY <2>1, <2>2, SequenceOf
<1>3. Sequence(b)
  <2> DEFINE e == [name |-> "", type |-> 0]
  <2>1. b = <<e>> \/ b = <<>>
    BY Zenon
  <2> HIDE DEF b, e
  <2> QED
    BY <2>1, One, Empty
<1>4. Params(t) = a \o b
  BY DEF Params
<1> HIDE DEF a, b
<1> QED
  BY <1>2, <1>3, <1>4, Concat

\* btf_encoder__add_inline_expansion() of all expansions of a CU keeps
\* sequences of locations only.
LEMMA LocatedByFold ==
  ASSUME Located(loc_states), input \in InputType, c \in 1 .. Len(input.cus)
  PROVE  Located(FoldLeft(btf_encoder__add_inline_expansion, loc_states, Cu.inlines))
<1> DEFINE s == Cu.inlines
<1>1. s \in Seq(InlineType)
  BY CuFacts
<1>2. FoldLeft(btf_encoder__add_inline_expansion, loc_states, s) = Inline!Fold(loc_states, s)
  BY DEF Inline!Fold, FoldLeft, MapThenFoldSet, Max, Inline!FoldLeft, Inline!MapThenFoldSet, Inline!Max
<1>3. ASSUME NEW a, Located(a), NEW k \in 1 .. Len(s)
      PROVE  Located(btf_encoder__add_inline_expansion(a, s[k]))
  <2> DEFINE x == s[k]
             f == btf_encoder__save_func(x)
             none == [size |-> 0, flags |-> {}, values |-> <<>>]
             l == [j \in 1 .. Len(f.params) |->
                     IF j \in DOMAIN x.locs THEN btf_encoder__add_loc_param(x.locs[j]) ELSE none]
             e == [name |-> f.name, type |-> f.type, params |-> f.params,
                   section |-> x.section, offset |-> x.offset, locs |-> l]
  <2>0. x \in InlineType
    BY <1>1
  <2>1. x.proto \in TagType
    <3> HIDE DEF x
    <3> QED
      BY <2>0 DEF InlineType
  <2>2. f.params = Params(x.proto)
    BY DEF btf_encoder__save_func
  <2>3. Len(f.params) \in Nat
    BY <2>1, <2>2, ParamsFacts, SequenceFacts
  <2>4. Sequence(l)
    <3> HIDE DEF f, x, none
    <3> QED
      BY <2>3, SequenceOf
  <2>5. \/ btf_encoder__add_inline_expansion(a, x) = a
        \/ btf_encoder__add_inline_expansion(a, x) = Append(a, e)
    BY DEF btf_encoder__add_inline_expansion
  <2>6. e.locs = l
    OBVIOUS
  <2>7. Len(a) \in Nat
    BY <1>3, SequenceFacts DEF Located
  <2> HIDE DEF e, l, x
  <2>8. Located(Append(a, e))
    BY <1>3, <2>4, <2>6, <2>7, AppendFacts DEF Located
  <2> QED
    BY <1>3, <2>5, <2>8 DEF x
<1>4. PICK U : Inline!Universe(U, loc_states, s)
  BY <1>1, Inline!FoldLeftKeeps, Zenon
<1> HIDE DEF s
<1> DEFINE P == {a \in U : Located(a)}
<1>5. P \in SUBSET U /\ loc_states \in P /\ \A k \in 1 .. Len(s) : \A a \in P :
        btf_encoder__add_inline_expansion(a, s[k]) \in U =>
          btf_encoder__add_inline_expansion(a, s[k]) \in P
  BY <1>3, <1>4 DEF Inline!Universe
<1> HIDE DEF P
<1>6. Inline!Fold(loc_states, s) \in P
  BY <1>4, <1>5 DEF Inline!Universe
<1> QED
  BY <1>2, <1>6 DEF P, s

\* A variable adds types that are no arrays, and the sections stay.
LEMMA VariableKeeps ==
  ASSUME NEW a, Sequence(a.btf), NEW v \in VarType
  PROVE  /\ Grows(a.btf, encode_variable(a, v).btf)
         /\ DOMAIN encode_variable(a, v).secinfo = DOMAIN a.secinfo
<1> DEFINE id == Len(a.btf) + 1
           e == [Btf("VAR", v.name, btf_encoder__tag_type(v.type))
                   EXCEPT !.enc = IF v.external THEN "global" ELSE "static"]
           value_ids == <<[annots |-> v.annots, id |-> id]>>
           more == a.btf \o <<e>> \o AnnotsOf(value_ids)
<1>1. \/ encode_variable(a, v).btf = a.btf
      \/ encode_variable(a, v).btf = more
  BY DEF encode_variable
<1>2. DOMAIN encode_variable(a, v).secinfo = DOMAIN a.secinfo
  BY DEF encode_variable
<1>3. NoArrays(AnnotsOf(value_ids))
  <2>1. v.annots \in Seq(Annot)
    BY DEF VarType
  <2>2. Sequence(value_ids) /\ Len(value_ids) = 1 /\ value_ids[1].annots = v.annots
    BY One
  <2> HIDE DEF value_ids
  <2>3. \A k \in 1 .. Len(value_ids) : Sequence(value_ids[k].annots)
    BY <2>1, <2>2, SequenceIn
  <2> QED
    BY <2>2, <2>3, AnnotsNoArrays
<1>4. e.kind = "VAR"
  BY DEF Btf
<1> HIDE DEF value_ids, e
<1>5. NoArrays(<<e>>)
  <2>1. Sequence(<<e>>) /\ Len(<<e>>) = 1 /\ <<e>>[1] = e
    BY One
  <2> QED
    BY <1>4, <2>1 DEF NoArrays
<1>6. Grows(a.btf, a.btf \o <<e>>)
  BY <1>5, GrowsBy DEF NoArrays
<1>7. Grows(a.btf \o <<e>>, more)
  BY <1>3, <1>6, GrowsBy DEF NoArrays, Grows
<1> HIDE DEF more
<1>8. Grows(a.btf, more)
  BY <1>6, <1>7, GrowsMore
<1> QED
  BY <1>1, <1>2, <1>8, GrowsSame

\* All variables of a CU (btf_encoder__encode_cu_variables()) add types that
\* are no arrays.
LEMMA VariablesByFold ==
  ASSUME NEW base, base = [btf |-> btf, secinfo |-> secinfo, err |-> FALSE],
         Sequence(btf), input \in InputType, c \in 1 .. Len(input.cus)
  PROVE  LET end == FoldLeft(encode_variable, base, Cu.variables) IN
         /\ Grows(btf, end.btf)
         /\ DOMAIN end.secinfo = DOMAIN secinfo
<1> DEFINE s == Cu.variables
<1>1. s \in Seq(VarType)
  BY CuFacts
<1>2. FoldLeft(encode_variable, base, s) = Variable!Fold(base, s)
  BY DEF Variable!Fold, FoldLeft, MapThenFoldSet, Max, Variable!FoldLeft, Variable!MapThenFoldSet,
         Variable!Max
<1> DEFINE Good(a) == Grows(btf, a.btf) /\ DOMAIN a.secinfo = DOMAIN secinfo
<1>3. ASSUME NEW a, Good(a), NEW k \in 1 .. Len(s)
      PROVE  Good(encode_variable(a, s[k]))
  <2>1. s[k] \in VarType
    BY <1>1
  <2> HIDE DEF s
  <2>2. Sequence(a.btf)
    BY <1>3 DEF Grows
  <2> QED
    BY <1>3, <2>1, <2>2, VariableKeeps, GrowsMore
<1>4. PICK U : Variable!Universe(U, base, s)
  BY <1>1, Variable!FoldLeftKeeps, Zenon
<1>7. Good(base)
  BY GrowsSame
<1> HIDE DEF s, Good
<1> DEFINE P == {a \in U : Good(a)}
<1>5. P \in SUBSET U /\ base \in P /\ \A k \in 1 .. Len(s) : \A a \in P :
        encode_variable(a, s[k]) \in U => encode_variable(a, s[k]) \in P
  BY <1>3, <1>4, <1>7 DEF Variable!Universe
<1> HIDE DEF P
<1>6. Variable!Fold(base, s) \in P
  BY <1>4, <1>5 DEF Variable!Universe
<1> QED
  BY <1>2, <1>6 DEF P, s, Good

-----------------------------------------------------------------------------
(* What is added when all CUs are done *)

LocParam == INSTANCE FoldLemmas WITH op <- add_loc_param
AddLoc == INSTANCE FoldLemmas WITH op <- add_loc
LocSec == INSTANCE FoldLemmas WITH op <- add_locsec
DataSec == INSTANCE FoldLemmas WITH op <- add_datasec

\* The locations of an expansion add types that are no arrays.
LEMMA LocParams ==
  ASSUME NEW base, Sequence(base.btf), NEW s, Sequence(s)
  PROVE  Grows(base.btf, FoldLeft(add_loc_param, base, s).btf)
<1>1. PICK S : s \in Seq(S)
  BY DEF Sequence
<1>2. FoldLeft(add_loc_param, base, s) = LocParam!Fold(base, s)
  BY DEF LocParam!Fold, FoldLeft, MapThenFoldSet, Max, LocParam!FoldLeft, LocParam!MapThenFoldSet,
         LocParam!Max
<1>3. ASSUME NEW a, Grows(base.btf, a.btf), NEW l
      PROVE  Grows(base.btf, add_loc_param(a, l).btf)
  <2> DEFINE e == [Btf("LOC_PARAM", "", 0) EXCEPT
                     !.size = l.size, !.flags = l.flags, !.items = l.values]
  <2>1. add_loc_param(a, l).btf = a.btf \/ add_loc_param(a, l).btf = Append(a.btf, e)
    BY DEF add_loc_param
  <2>2. e.kind = "LOC_PARAM"
    BY DEF Btf
  <2> HIDE DEF e
  <2>3. Grows(a.btf, Append(a.btf, e))
    BY <1>3, <2>2, GrowsByOne DEF Grows
  <2> QED
    BY <1>3, <2>1, <2>3, GrowsMore, Zenon
<1>4. PICK U : LocParam!Universe(U, base, s)
  BY <1>1, LocParam!FoldLeftKeeps
<1> DEFINE P == {a \in U : Grows(base.btf, a.btf)}
<1>5. P \in SUBSET U /\ base \in P /\ \A k \in 1 .. Len(s) : \A a \in P :
        add_loc_param(a, s[k]) \in U => add_loc_param(a, s[k]) \in P
  BY <1>3, <1>4, GrowsSame DEF LocParam!Universe
<1> HIDE DEF P
<1>6. LocParam!Fold(base, s) \in P
  BY <1>4, <1>5 DEF LocParam!Universe
<1> QED
  BY <1>2, <1>6 DEF P

\* The prototype of a saved function is one type.
LEMMA FuncProto ==
  ASSUME NEW s
  PROVE  \E e : btf_encoder__add_func_proto_for_state(s) = <<e>> /\ e.kind = "FUNC_PROTO"
<1> DEFINE e == [Btf("FUNC_PROTO", "", s.type) EXCEPT !.items = s.params]
<1>1. e.kind = "FUNC_PROTO"
  BY DEF Btf
<1>2. btf_encoder__add_func_proto_for_state(s) = <<e>>
  BY DEF btf_encoder__add_func_proto_for_state, btf_encoder__emit_func_proto
<1> HIDE DEF e
<1> QED
  BY <1>1, <1>2

\* A prototype and a function.
LEMMA FuncGrows ==
  ASSUME NEW types, Sequence(types), NEW s, NEW name, NEW id
  PROVE  Grows(types, Append(types \o btf_encoder__add_func_proto_for_state(s), Btf("FUNC", name, id)))
<1>1. PICK e : btf_encoder__add_func_proto_for_state(s) = <<e>> /\ e.kind = "FUNC_PROTO"
  BY FuncProto
<1>2. PICK f : f = Btf("FUNC", name, id)
  OBVIOUS
<1>3. f.kind = "FUNC"
  BY <1>2, BtfKind
<1>4. Sequence(<<e>>) /\ Len(<<e>>) = 1 /\ <<e>>[1] = e
  BY One
<1>5. \A k \in 1 .. Len(<<e>>) : <<e>>[k].kind # "ARRAY"
  BY <1>1, <1>4
<1>6. Grows(types, types \o <<e>>)
  BY <1>4, <1>5, GrowsBy
<1>7. Grows(types \o <<e>>, Append(types \o <<e>>, f))
  BY <1>3, <1>6, GrowsByOne DEF Grows
<1> QED
  BY <1>1, <1>2, <1>6, <1>7, GrowsMore

\* A function, its locations and their LOC_PROTO are no arrays.
LEMMA LocGrows ==
  ASSUME NEW a, Sequence(a.btf), NEW s, Sequence(s.locs)
  PROVE  Grows(a.btf, add_loc(a, s).btf)
<1> DEFINE proto == a.btf \o btf_encoder__add_func_proto_for_state(s)
           func == Append(proto, Btf("FUNC", s.name, Len(proto)))
           base == [btf |-> func, ids |-> <<>>]
           locs == FoldLeft(add_loc_param, base, s.locs)
           e == [Btf("LOC_PROTO", "", 0) EXCEPT !.items = locs.ids]
<1>1. add_loc(a, s).btf = Append(locs.btf, e)
  BY Zenon DEF add_loc
<1>2. Grows(a.btf, func)
  BY FuncGrows
<1> HIDE DEF func
<1>3. base.btf = func
  OBVIOUS
<1> HIDE DEF base
<1>4. PICK new : new = locs
  OBVIOUS
<1> HIDE DEF locs
<1>11. e.kind = "LOC_PROTO"
  BY DEF Btf
<1> HIDE DEF e
<1>5. PICK last : last = e /\ last.kind = "LOC_PROTO"
  BY <1>11
<1>6. Sequence(base.btf)
  BY <1>2, <1>3 DEF Grows
<1>7. Grows(base.btf, new.btf)
  BY <1>4, <1>6, LocParams DEF locs
<1>8. Grows(new.btf, Append(new.btf, last))
  BY <1>5, <1>7, GrowsByOne DEF Grows
<1>9. Sequence(a.btf) /\ Grows(a.btf, base.btf) /\ add_loc(a, s).btf = Append(new.btf, last)
  BY <1>1, <1>2, <1>3, <1>4, <1>5
<1>10. Grows(a.btf, new.btf)
  BY <1>7, <1>9, GrowsMore
<1> QED
  BY <1>8, <1>9, <1>10, GrowsMore

\* All expansions together add no arrays.
LEMMA LocsGrow ==
  ASSUME Sequence(btf), NEW base, base = [btf |-> btf, entries |-> <<>>],
         NEW states, Located(states)
  PROVE  Grows(btf, FoldLeft(add_loc, base, states).btf)
<1>1. PICK S : states \in Seq(S)
  BY DEF Sequence, Located
<1>2. FoldLeft(add_loc, base, states) = AddLoc!Fold(base, states)
  BY DEF AddLoc!Fold, FoldLeft, MapThenFoldSet, Max, AddLoc!FoldLeft, AddLoc!MapThenFoldSet, AddLoc!Max
<1>3. ASSUME NEW a, Grows(btf, a.btf), NEW k \in 1 .. Len(states)
      PROVE  Grows(btf, add_loc(a, states[k]).btf)
  <2>1. Grows(a.btf, add_loc(a, states[k]).btf)
    BY <1>3, LocGrows DEF Grows, Located
  <2> QED
    BY <1>3, <2>1, GrowsMore
<1>4. PICK U : AddLoc!Universe(U, base, states)
  BY <1>1, AddLoc!FoldLeftKeeps, Zenon
<1> DEFINE P == {a \in U : Grows(btf, a.btf)}
<1>7. base.btf = btf
  OBVIOUS
<1>5. P \in SUBSET U /\ base \in P /\ \A k \in 1 .. Len(states) : \A a \in P :
        add_loc(a, states[k]) \in U => add_loc(a, states[k]) \in P
  BY <1>3, <1>4, <1>7, GrowsSame DEF AddLoc!Universe
<1> HIDE DEF P
<1>6. AddLoc!Fold(base, states) \in P
  BY <1>4, <1>5 DEF AddLoc!Universe
<1> QED
  BY <1>2, <1>6 DEF P

\* Nor do the LOCSECs of the sections.
LEMMA LocSecs ==
  ASSUME NEW base, Sequence(base), NEW s, Sequence(s), \A k \in 1 .. Len(s) : s[k].kind # "ARRAY"
  PROVE  Grows(base, FoldLeft(add_locsec, base, s))
<1>1. PICK S : s \in Seq(S)
  BY DEF Sequence
<1>2. FoldLeft(add_locsec, base, s) = LocSec!Fold(base, s)
  BY DEF LocSec!Fold, FoldLeft, MapThenFoldSet, Max, LocSec!FoldLeft, LocSec!MapThenFoldSet, LocSec!Max
<1>3. ASSUME NEW a, Grows(base, a), NEW k \in 1 .. Len(s)
      PROVE  Grows(base, add_locsec(a, s[k]))
  <2>1. add_locsec(a, s[k]) = a \/ add_locsec(a, s[k]) = Append(a, s[k])
    BY DEF add_locsec
  <2>2. Grows(a, Append(a, s[k]))
    BY <1>3, GrowsByOne DEF Grows
  <2> QED
    BY <1>3, <2>1, <2>2, GrowsMore, Zenon
<1>4. PICK U : LocSec!Universe(U, base, s)
  BY <1>1, LocSec!FoldLeftKeeps, Zenon
<1> DEFINE P == {a \in U : Grows(base, a)}
<1>5. P \in SUBSET U /\ base \in P /\ \A k \in 1 .. Len(s) : \A a \in P :
        add_locsec(a, s[k]) \in U => add_locsec(a, s[k]) \in P
  BY <1>3, <1>4, GrowsSame DEF LocSec!Universe
<1> HIDE DEF P
<1>6. LocSec!Fold(base, s) \in P
  BY <1>4, <1>5 DEF LocSec!Universe
<1> QED
  BY <1>2, <1>6 DEF P

\* Nor the DATASECs.
LEMMA DataSecs ==
  ASSUME NEW base, Sequence(base), NEW s, Sequence(s)
  PROVE  Grows(base, FoldLeft(add_datasec, base, s))
<1>1. PICK S : s \in Seq(S)
  BY DEF Sequence
<1>2. FoldLeft(add_datasec, base, s) = DataSec!Fold(base, s)
  BY DEF DataSec!Fold, FoldLeft, MapThenFoldSet, Max, DataSec!FoldLeft, DataSec!MapThenFoldSet,
         DataSec!Max
<1>3. ASSUME NEW a, Grows(base, a), NEW k
      PROVE  Grows(base, add_datasec(a, k))
  <2> DEFINE e == btf_encoder__add_datasec(k)
  <2>1. add_datasec(a, k) = a \/ add_datasec(a, k) = Append(a, e)
    BY DEF add_datasec
  <2>2. e.kind = "DATASEC"
    BY DEF btf_encoder__add_datasec, Btf
  <2> HIDE DEF e
  <2>3. Grows(a, Append(a, e))
    BY <1>3, <2>2, GrowsByOne DEF Grows
  <2> QED
    BY <1>3, <2>1, <2>3, GrowsMore, Zenon
<1>4. PICK U : DataSec!Universe(U, base, s)
  BY <1>1, DataSec!FoldLeftKeeps, Zenon
<1> DEFINE P == {a \in U : Grows(base, a)}
<1>5. P \in SUBSET U /\ base \in P /\ \A k \in 1 .. Len(s) : \A a \in P :
        add_datasec(a, s[k]) \in U => add_datasec(a, s[k]) \in P
  BY <1>3, <1>4, GrowsSame DEF DataSec!Universe
<1> HIDE DEF P
<1>6. DataSec!Fold(base, s) \in P
  BY <1>4, <1>5 DEF DataSec!Universe
<1> QED
  BY <1>2, <1>6 DEF P

\* btf_encoder__add_locsec(), in any order that qsort() leaves, adds to the
\* types and changes none.
LEMMA LocSectionsGrow ==
  ASSUME Sequence(btf), Located(loc_states), input.sections \in Seq(Section),
         NEW states \in sorted_loc_states
  PROVE  Grows(btf, btf_encoder__add_locsec(states))
<1> DEFINE base == [btf |-> btf, entries |-> <<>>]
           all == FoldLeft(add_loc, base, states)
           locsec(sec) == [Btf("LOCSEC", input.sections[sec].name, 0) EXCEPT
                             !.items = SelectSeq(all.entries, LAMBDA e : e.section = sec)]
           s == [sec \in DOMAIN input.sections |-> locsec(sec)]
<1>1. Located(states)
  <2> DEFINE n == Len(loc_states)
  <2>1. n \in Nat
    BY SequenceFacts DEF Located
  <2>2. PICK q \in [1 .. n -> 1 .. n] : states = [k \in 1 .. n |-> loc_states[q[k]]]
    BY Zenon DEF sorted_loc_states
  <2> HIDE DEF n
  <2>3. \A k \in 1 .. n : states[k] = loc_states[q[k]]
    BY <2>2
  <2>4. states = [k \in 1 .. n |-> states[k]]
    BY <2>2
  <2>5. Sequence(states) /\ Len(states) = n
    BY <2>1, <2>4, SequenceOf
  <2> QED
    BY <2>2, <2>3, <2>5 DEF Located, n
<1>2. btf_encoder__add_locsec(states) = FoldLeft(add_locsec, all.btf, s)
  BY DEF btf_encoder__add_locsec
<1>3. Grows(btf, all.btf)
  BY <1>1, LocsGrow
<1>4. \A k : locsec(k).kind = "LOCSEC"
  BY DEF Btf
<1> HIDE DEF locsec, all
<1>5. DOMAIN input.sections = 1 .. Len(input.sections) /\ Len(input.sections) \in Nat
  OBVIOUS
<1>6. s = [k \in 1 .. Len(input.sections) |-> s[k]] /\ \A k \in 1 .. Len(input.sections) : s[k] = locsec(k)
  BY <1>5
<1> HIDE DEF s
<1>7. Sequence(s) /\ Len(s) = Len(input.sections)
  BY <1>5, <1>6, SequenceOf, Zenon
<1>8. \A k \in 1 .. Len(s) : s[k].kind # "ARRAY"
  BY <1>4, <1>6, <1>7
<1>9. Grows(all.btf, FoldLeft(add_locsec, all.btf, s))
  BY <1>3, <1>7, <1>8, LocSecs DEF Grows
<1> QED
  BY <1>2, <1>3, <1>9, GrowsMore

\* The end of btf_encoder__encode() adds to the types and changes none.
LEMMA SectionsGrow ==
  ASSUME Sequence(btf), Located(loc_states), input.sections \in Seq(Section),
         DOMAIN secinfo = 1 .. Len(input.sections), add_sections
  PROVE  Grows(btf, btf')
<1> DEFINE s == [k \in DOMAIN secinfo |-> k]
<1>1. PICK states \in sorted_loc_states :
        btf' = FoldLeft(add_datasec, btf_encoder__add_locsec(states), s)
  BY DEF add_sections
<1>2. Grows(btf, btf_encoder__add_locsec(states))
  BY LocSectionsGrow
<1>3. Sequence(s)
  <2>1. Len(input.sections) \in Nat /\ s = [k \in 1 .. Len(input.sections) |-> s[k]]
    OBVIOUS
  <2> HIDE DEF s
  <2> QED
    BY <2>1, SequenceOf
<1> HIDE DEF s
<1>4. Grows(btf_encoder__add_locsec(states), btf')
  BY <1>1, <1>2, <1>3, DataSecs DEF Grows
<1> QED
  BY <1>2, <1>4, GrowsMore

\* The pointers to an arena are no arrays.
LEMMA ArenaGrows ==
  ASSUME Sequence(btf), NEW s, NEW flags
  PROVE  Grows(btf, btf__add_bpf_arena_type_tags(s, flags).btf)
<1> DEFINE id(acc, n) == IF n = 0 THEN acc.state.type
                         ELSE IF n \in DOMAIN acc.state.params THEN acc.state.params[n].type ELSE 0
           new(acc, n) == btf__tag_bpf_arena_ptr(acc.btf, id(acc, n))
           tag(acc, n) ==
             IF acc.err \/ <<"ARENA_RET", "ARENA_ARG1", "ARENA_ARG2">>[n + 1] \notin flags THEN acc
             ELSE IF new(acc, n) = <<>> THEN [acc EXCEPT !.err = TRUE]
             ELSE [acc EXCEPT !.btf = @ \o new(acc, n),
                     !.state = IF n = 0 THEN [@ EXCEPT !.type = Len(acc.btf) + 2]
                               ELSE [@ EXCEPT !.params[n].type = Len(acc.btf) + 2]]
           start == [btf |-> btf, state |-> s, err |-> FALSE]
           Fields == {"btf", "state", "err"}
<1>1. ASSUME NEW types, NEW x
      PROVE  NoArrays(btf__tag_bpf_arena_ptr(types, x))
  <2> DEFINE a == [Btf("TYPE_TAG", "address_space(1)", types[x].type) EXCEPT !.kflag = TRUE]
             b == Btf("PTR", "", Len(types) + 1)
  <2>1. a.kind = "TYPE_TAG" /\ b.kind = "PTR"
    BY DEF Btf
  <2>2. btf__tag_bpf_arena_ptr(types, x) = <<>> \/ btf__tag_bpf_arena_ptr(types, x) = <<a, b>>
    BY Zenon DEF btf__tag_bpf_arena_ptr
  <2> HIDE DEF a, b
  <2>3. <<a, b>> \in Seq({a, b}) /\ Len(<<a, b>>) = 2 /\ <<a, b>>[1] = a /\ <<a, b>>[2] = b
    OBVIOUS
  <2>6. PICK p : p = <<a, b>>
    BY Zenon
  <2>7. p \in Seq({a, b}) /\ Len(p) = 2 /\ p[1] = a /\ p[2] = b
    BY <2>3, <2>6
  <2>8. Sequence(p)
    BY <2>7, SequenceIn
  <2>9. \A k \in 1 .. Len(p) : p[k] = a \/ p[k] = b
    BY <2>7
  <2>4. NoArrays(<<a, b>>)
    BY <2>1, <2>6, <2>8, <2>9 DEF NoArrays
  <2>5. NoArrays(<<>>)
    BY Empty DEF NoArrays
  <2> QED
    BY <2>2, <2>4, <2>5
<1>2. ASSUME NEW acc, DOMAIN acc = Fields, Grows(btf, acc.btf), NEW n
      PROVE  DOMAIN tag(acc, n) = Fields /\ Grows(btf, tag(acc, n).btf)
  <2>1. NoArrays(new(acc, n))
    BY <1>1
  <2> HIDE DEF new
  <2>2. Grows(btf, acc.btf \o new(acc, n))
    BY <1>2, <2>1, GrowsBy, GrowsMore DEF NoArrays, Grows
  <2>3. DOMAIN tag(acc, n) = Fields
    BY <1>2
  <2>4. tag(acc, n).btf \in {acc.btf, acc.btf \o new(acc, n)}
    BY <1>2
  <2> QED
    BY <1>2, <2>2, <2>3, <2>4
<1>3. DOMAIN start = Fields /\ Grows(btf, start.btf)
  BY GrowsSame
<1>4. btf__add_bpf_arena_type_tags(s, flags) = tag(tag(tag(start, 0), 1), 2)
  BY Zenon DEF btf__add_bpf_arena_type_tags
<1> HIDE DEF tag, start, Fields
<1> QED
  BY <1>2, <1>3, <1>4

-----------------------------------------------------------------------------
(* The type of array indexes *)

\* A set of indexes that is not empty has its least one.
LEMMA MinIn ==
  ASSUME NEW n \in Nat, NEW T \in SUBSET (1 .. n), T # {}
  PROVE  Min(T) \in T
<1>1. T \in SUBSET Nat
  OBVIOUS
<1>2. \E x \in T : \A y \in T : x <= y
  BY <1>1, PreIds!LeastIn
<1> QED
  BY <1>2, Zenon DEF Min

NamedInt(t) == t.tag = "base" /\ t.name = "int"

\* array_index_id is the id of the first "int" of the table, or the one behind
\* all types of the CU.
LEMMA IndexFacts ==
  ASSUME NEW types \in Seq(TagType), NEW map, NEW off, NEW pre, NEW index,
         index = array_index_id(types, map, off, pre)
  PROVE  /\ index.has \in BOOLEAN
         /\ index.has => \E j \in 1 .. Len(types) : NamedInt(types[j]) /\ index.id = map[j]
         /\ ~index.has => index.id = off + Len(types) + 1 - nulls(types, Len(types))
                                     - pre.skipped + pre.extra
<1> DEFINE ints == {k \in DOMAIN types : types[k].tag = "base" /\ types[k].name = "int"}
<1>1. ints \in SUBSET (1 .. Len(types)) /\ Len(types) \in Nat
  OBVIOUS
<1>2. index = IF ints # {} THEN [has |-> TRUE, id |-> map[Min(ints)]]
              ELSE [has |-> FALSE, id |-> off + Len(types) + 1 - nulls(types, Len(types))
                                          - pre.skipped + pre.extra]
  BY Zenon DEF array_index_id
<1>3. CASE ints # {}
  <2>1. Min(ints) \in ints
    <3> HIDE DEF ints
    <3> QED
      BY <1>1, <1>3, MinIn
  <2>2. PICK j : j = Min(ints)
    OBVIOUS
  <2>3. index.has = TRUE /\ index.id = map[j]
    BY <1>2, <1>3, <2>2
  <2>4. j \in 1 .. Len(types) /\ NamedInt(types[j])
    BY <1>1, <2>1, <2>2 DEF NamedInt
  <2> QED
    BY <2>3, <2>4
<1>4. CASE ints = {}
  BY <1>2, <1>4
<1> QED
  BY <1>3, <1>4

IsInt(b, id) == id \in 1 .. Len(b) /\ b[id].kind = "INT" /\ b[id].name = "int"

\* The arrays have the index that struct btf_encoder has.
ArraysIndexed(b, e) ==
    \A k \in 1 .. Len(b) : b[k].kind = "ARRAY" => b[k].index = e.index_id /\ e.need_index

\* It is there, if an array needs it.
IndexKnown(b, e) ==
    /\ e.has_index => IsInt(b, e.index_id)
    /\ e.need_index => e.has_index

\* Adding types that are no arrays keeps the arrays and the type of their
\* index.
LEMMA IndexStays ==
  ASSUME NEW b, Sequence(b), NEW b2, Grows(b, b2), NEW e, NEW e2,
         e2.has_index = e.has_index, e2.need_index = e.need_index, e2.index_id = e.index_id
  PROVE  /\ ArraysIndexed(b, e) => ArraysIndexed(b2, e2)
         /\ IndexKnown(b, e) => IndexKnown(b2, e2)
<1>1. Len(b) \in Nat /\ Len(b2) \in Nat /\ Len(b) <= Len(b2)
  BY SequenceFacts DEF Grows
<1>2. ASSUME ArraysIndexed(b, e), NEW k \in 1 .. Len(b2), b2[k].kind = "ARRAY"
      PROVE  b2[k].index = e2.index_id /\ e2.need_index
  <2>1. k \in 1 .. Len(b) /\ b2[k] = b[k]
    BY <1>1, <1>2 DEF Grows
  <2> QED
    BY <1>2, <2>1 DEF ArraysIndexed
<1>3. ASSUME NEW id, IsInt(b, id) PROVE IsInt(b2, id)
  BY <1>1, <1>3 DEF IsInt, Grows
<1> QED
  BY <1>2, <1>3 DEF ArraysIndexed, IndexKnown

-----------------------------------------------------------------------------
(* The inductive invariant *)

IntsArePlain ==
    \A x \in Inputs : \A k \in DOMAIN x.cus : \A n \in DOMAIN x.cus[k].types :
        PlainInt(x.cus[k].types[n])

EncFields == {"has_index", "need_index", "index_id", "type_id_off", "map", "kfuncs", "include"}

EncOK == /\ DOMAIN enc = EncFields
         /\ enc.has_index \in BOOLEAN /\ enc.need_index \in BOOLEAN

\* While the types of a CU are added there are as many as the loop of
\* btf_encoder__precompute_btf_ids() counted, and the index of arrays is there,
\* still to come in the table, or behind the last type of it.
Predicted ==
    \E acc :
        LET types == Cu.types
            off == enc.type_id_off
        IN /\ off \in Nat
           /\ Ids(acc, types, off)
           /\ i \in 1 .. Len(types) + 1
           /\ enc.map = acc[Len(types)].map
           /\ Len(btf) = After(acc, types, off, i - 1)
           /\ ~enc.has_index => enc.index_id = After(acc, types, off, Len(types)) + 1
           /\ enc.has_index =>
                \/ IsInt(btf, enc.index_id)
                \/ \E j \in i .. Len(types) : NamedInt(types[j]) /\ enc.map[j] = enc.index_id

TypesInv ==
    /\ input \in Inputs
    /\ pc \in States \ {"drift"}
    /\ c \in Nat \ {0} /\ i \in Nat \ {0}
    /\ pc \in {"types", "save", "inlines", "vars"} => c <= Len(input.cus)
    /\ Sequence(btf)
    /\ EncOK
    /\ pc # "new" => DOMAIN secinfo = 1 .. Len(input.sections)
    /\ Saved(saved) /\ Located(loc_states)
    /\ pc # "failed" => ArraysIndexed(btf, enc)
    /\ pc \notin {"types", "failed"} => IndexKnown(btf, enc)
    /\ pc = "types" => Predicted

\* What is encoded is one of the inputs, whose tables are sequences.
LEMMA InputOK ==
  ASSUME TypesInv
  PROVE  /\ input \in InputType
         /\ input.cus \in Seq(CuType) /\ input.sections \in Seq(Section)
         /\ Len(input.cus) \in Nat /\ Len(input.sections) \in Nat
         /\ c <= Len(input.cus) => c \in 1 .. Len(input.cus)
         /\ DOMAIN input.sections = 1 .. Len(input.sections)
<1>1. input \in InputType
  BY InputsAssumption DEF TypesInv
<1>2. input.cus \in Seq(CuType) /\ input.sections \in Seq(Section)
  BY <1>1, InputFacts
<1>3. Len(input.cus) \in Nat /\ Len(input.sections) \in Nat
      /\ DOMAIN input.sections = 1 .. Len(input.sections)
  BY <1>2
<1> QED
  BY <1>1, <1>2, <1>3 DEF TypesInv

\* The invariant holds when the encoder is made.
LEMMA TypesInit == Init => TypesInv
<1> SUFFICES ASSUME Init PROVE TypesInv
  OBVIOUS
<1>1. EncOK /\ btf = <<>> /\ saved = <<>> /\ loc_states = <<>> /\ c = 1 /\ i = 1 /\ pc = "new"
      /\ input \in Inputs /\ ~enc.has_index /\ ~enc.need_index
  BY DEF Init, EncOK, EncFields
<1>2. ArraysIndexed(btf, enc) /\ IndexKnown(btf, enc) /\ Sequence(btf)
  BY <1>1, Empty DEF ArraysIndexed, IndexKnown
<1>3. Saved(saved) /\ Located(loc_states)
  BY <1>1, Empty DEF Saved, Located
<1> QED
  BY <1>1, <1>2, <1>3 DEF TypesInv, States

\* The ids of a CU are predicted before its first type is added
\* (btf_encoder__encode_cu()): the index of arrays stays when it is known, and is
\* new only while there is no array.
LEMMA EncodeCu ==
  ASSUME TypesInv, encode_cu
  PROVE  TypesInv'
<1> DEFINE off == Len(btf)
           types == Cu.types
           pre == btf_encoder__precompute_btf_ids(types, off)
           index == array_index_id(types, pre.map, off, pre)
<1>1. /\ pc = "cu" /\ c <= Len(input.cus)
      /\ enc' = [enc EXCEPT !.type_id_off = off, !.map = pre.map,
                   !.has_index = @ \/ index.has,
                   !.index_id = IF enc.has_index THEN @ ELSE index.id]
      /\ i' = 1 /\ pc' = "types"
      /\ UNCHANGED <<input, c, btf, saved, loc_states, secinfo, out, cu, ids>>
  BY Zenon DEF encode_cu
<1>2. c \in 1 .. Len(input.cus) /\ input \in InputType
  BY <1>1, InputOK
<1>3. types \in Seq(TagType) /\ Len(types) \in Nat
  BY <1>2, CuFacts
<1>4. off \in Nat
  BY SequenceFacts DEF TypesInv
<1>5. PICK acc : Ids(acc, types, off) /\ pre = acc[Len(types)]
  BY <1>3, Precompute, SequenceIn
<1>6. /\ index.has \in BOOLEAN
      /\ index.has => \E j \in 1 .. Len(types) : NamedInt(types[j]) /\ index.id = pre.map[j]
      /\ ~index.has => index.id = off + Len(types) + 1 - nulls(types, Len(types))
                                  - pre.skipped + pre.extra
  <2> HIDE DEF types, off, pre
  <2> QED
    BY <1>3, IndexFacts
<1>7. ~index.has => index.id = After(acc, types, off, Len(types)) + 1
  <2>1. acc[Len(types)] \in Acc
    BY <1>3, <1>4, <1>5, IdsFacts
  <2>2. pre.extra \in Nat /\ pre.skipped \in Nat
    BY <1>5, <2>1 DEF Acc
  <2>3. nulls(types, Len(types)) \in Int
    <3>1. CASE Len(types) = 0
      <4>1. {k \in 1 .. 0 : k \in DOMAIN types /\ types[k].tag = "null"} = {}
        OBVIOUS
      <4> QED
        BY <3>1, <4>1, FS_EmptySet DEF nulls
    <3>2. CASE Len(types) # 0
      <4>1. Len(types) \in 1 .. Len(types)
        BY <1>3, <3>2
      <4> QED
        BY <1>3, <4>1, Nulls, SequenceIn
    <3> QED
      BY <3>1, <3>2
  <2>4. PICK n : n = nulls(types, Len(types))
    OBVIOUS
  <2> HIDE DEF index, types, off
  <2>5. After(acc, types, off, Len(types)) = off + Len(types) - n - pre.skipped + pre.extra
    BY <1>5, <2>4 DEF After
  <2>6. ~index.has => index.id = off + Len(types) + 1 - n - pre.skipped + pre.extra
    BY <1>6, <2>4
  <2> HIDE DEF pre
  <2> DEFINE l == Len(types)
             p == pre.skipped
             q == pre.extra
  <2>7. off + Len(types) + 1 - n - pre.skipped + pre.extra = off + l + 1 - n - p + q
        /\ off + Len(types) - n - pre.skipped + pre.extra = off + l - n - p + q
    OBVIOUS
  <2>8. l \in Nat /\ p \in Nat /\ q \in Nat /\ n \in Int
    BY <1>3, <2>2, <2>3, <2>4
  <2> HIDE DEF l, p, q
  <2>9. off + l + 1 - n - p + q = off + l - n - p + q + 1
    BY <1>4, <2>8
  <2> QED
    BY <2>5, <2>6, <2>7, <2>9
<1>8. After(acc, types, off, 0) = off
  <2>1. {k \in 1 .. 0 : k \in DOMAIN types /\ types[k].tag = "null"} = {}
    OBVIOUS
  <2>2. nulls(types, 0) = 0
    BY <2>1, FS_EmptySet DEF nulls
  <2>3. acc[0].skipped = 0 /\ acc[0].extra = 0
    BY <1>5 DEF Ids
  <2> HIDE DEF types, off
  <2> QED
    BY <1>4, <2>2, <2>3 DEF After
<1>9. EncOK /\ ArraysIndexed(btf, enc) /\ IndexKnown(btf, enc) /\ Sequence(btf)
  BY <1>1 DEF TypesInv
<1> HIDE DEF index, pre
<1>10. /\ EncOK'
       /\ enc'.type_id_off = off /\ enc'.map = pre.map
       /\ enc'.has_index = (enc.has_index \/ index.has)
       /\ enc'.index_id = (IF enc.has_index THEN enc.index_id ELSE index.id)
       /\ enc'.need_index = enc.need_index
  BY <1>1, <1>6, <1>9 DEF EncOK, EncFields
<1>11. ArraysIndexed(btf, enc')
  BY <1>9, <1>10 DEF ArraysIndexed, IndexKnown
<1>12. Predicted'
  <2>1. Cu' = Cu /\ i' = 1 /\ btf' = btf
    BY <1>1 DEF Cu
  <2>2. i' \in 1 .. Len(types) + 1 /\ Len(btf) = After(acc, types, off, i' - 1)
    BY <1>3, <1>8, <2>1
  <2>3. ~enc'.has_index => enc'.index_id = After(acc, types, off, Len(types)) + 1
    BY <1>7, <1>10
  <2>4. enc'.has_index => \/ IsInt(btf, enc'.index_id)
                          \/ \E j \in 1 .. Len(types) : NamedInt(types[j]) /\ enc'.map[j] = enc'.index_id
    BY <1>6, <1>9, <1>10 DEF IndexKnown
  <2>5. /\ off \in Nat /\ Ids(acc, types, off) /\ enc'.map = acc[Len(types)].map
    BY <1>4, <1>5, <1>10
  <2> HIDE DEF off
  <2> QED
    BY <1>10, <2>1, <2>2, <2>3, <2>4, <2>5 DEF Predicted
<1>13. c' \in Nat \ {0} /\ i' \in Nat \ {0} /\ c' <= Len(input'.cus)
  BY <1>1 DEF TypesInv
<1> QED
  BY <1>1, <1>9, <1>10, <1>11, <1>12, <1>13 DEF TypesInv, States

\* A type gets the id that was predicted for it, so that the test for a drift
\* of ids never fails; the "int" that the arrays wait for becomes their index.
LEMMA EncodeType ==
  ASSUME TypesInv, IntsArePlain, encode_type
  PROVE  TypesInv'
<1> DEFINE types == Cu.types
           off == enc.type_id_off
           t == types[i]
           new == btf_encoder__encode_tag(t, Len(btf) + 1)
           id == Len(btf) + Len(new)
<1>1. /\ pc = "types" /\ i <= Len(types) /\ i' = i + 1
      /\ UNCHANGED <<input, c, saved, loc_states, secinfo, out, cu, ids>>
  BY DEF encode_type
<1>2. c \in 1 .. Len(input.cus) /\ input \in InputType
  BY <1>1, InputOK DEF TypesInv
<1>3. types \in Seq(TagType) /\ Len(types) \in Nat
  BY <1>2, CuFacts
<1>4. i \in 1 .. Len(types) /\ i \in Nat /\ i + 1 \in 1 .. Len(types) + 1
  BY <1>1, <1>3 DEF TypesInv
<1>5. t \in TagType
  BY <1>3, <1>4
<1>6. PICK acc :
        /\ off \in Nat
        /\ Ids(acc, types, off)
        /\ enc.map = acc[Len(types)].map
        /\ Len(btf) = After(acc, types, off, i - 1)
        /\ ~enc.has_index => enc.index_id = After(acc, types, off, Len(types)) + 1
        /\ enc.has_index =>
             \/ IsInt(btf, enc.index_id)
             \/ \E j \in i .. Len(types) : NamedInt(types[j]) /\ enc.map[j] = enc.index_id
  BY <1>1 DEF TypesInv, Predicted
<1>7. EncOK /\ ArraysIndexed(btf, enc) /\ Sequence(btf) /\ Len(btf) \in Nat
      /\ DOMAIN secinfo = 1 .. Len(input.sections)
  BY <1>1, SequenceFacts DEF TypesInv
<1> DEFINE n == tag__nr_btf_ids(t)
<1>8. /\ After(acc, types, off, i) =
           After(acc, types, off, i - 1) + (IF t.tag = "null" THEN 0 ELSE n)
      /\ t.tag # "null" /\ n # 0 => acc[Len(types)].map[i] = After(acc, types, off, i)
  <2> HIDE DEF types, off
  <2> QED
    BY <1>3, <1>4, <1>6, IdsNext
<1>9. n \in Nat /\ (t.tag # "unspec" => n > 0)
  BY <1>5, NrIds
<1>10. Cu' = Cu /\ i' - 1 = i /\ i' \in Nat \ {0}
  BY <1>1, <1>4 DEF Cu
<1>11. ASSUME pc' = "types", EncOK', Sequence(btf'), ArraysIndexed(btf', enc'),
              enc'.type_id_off = off, enc'.map = enc.map, enc'.has_index = enc.has_index,
              enc'.index_id = enc.index_id, Len(btf') = After(acc, types, off, i),
              enc.has_index =>
                \/ IsInt(btf', enc.index_id)
                \/ \E j \in i + 1 .. Len(types) : NamedInt(types[j]) /\ enc.map[j] = enc.index_id
       PROVE  TypesInv'
  <2>1. Predicted'
    <3> HIDE DEF types, off
    <3>1. (Cu.types)' = types /\ enc'.type_id_off = off
      BY <1>10, <1>11 DEF types
    <3>2. /\ off \in Nat
          /\ Ids(acc, types, off)
          /\ i' \in 1 .. Len(types) + 1
          /\ enc'.map = acc[Len(types)].map
          /\ Len(btf') = After(acc, types, off, i' - 1)
          /\ ~enc'.has_index => enc'.index_id = After(acc, types, off, Len(types)) + 1
          /\ enc'.has_index =>
               \/ IsInt(btf', enc'.index_id)
               \/ \E j \in i' .. Len(types) : NamedInt(types[j]) /\ enc'.map[j] = enc'.index_id
      BY <1>1, <1>4, <1>6, <1>10, <1>11
    <3> HIDE DEF types
    <3> QED
      BY <3>1, <3>2 DEF Predicted
  <2> QED
    BY <1>1, <1>7, <1>10, <1>11, <2>1 DEF TypesInv, States
<1>12. CASE t.tag \in {"null", "unspec"}
  <2>1. UNCHANGED <<pc, btf, enc>>
    BY <1>12 DEF encode_type
  <2>2. Len(btf') = After(acc, types, off, i)
    <3>1. t.tag = "unspec" => n = 0
      BY DEF tag__nr_btf_ids
    <3> HIDE DEF types, off, n
    <3> QED
      BY <1>6, <1>7, <1>8, <1>12, <2>1, <3>1
  <2>3. enc.has_index =>
          \/ IsInt(btf', enc.index_id)
          \/ \E j \in i + 1 .. Len(types) : NamedInt(types[j]) /\ enc.map[j] = enc.index_id
    <3>1. ~NamedInt(t)
      BY <1>12 DEF NamedInt
    <3>2. \A j \in i .. Len(types) : NamedInt(types[j]) => j \in i + 1 .. Len(types)
      BY <1>3, <1>4, <3>1
    <3> QED
      BY <1>6, <2>1, <3>2
  <2>4. EncOK' /\ Sequence(btf') /\ ArraysIndexed(btf', enc') /\ pc' = "types"
        /\ enc' = enc
    BY <1>1, <1>7, <2>1 DEF EncOK
  <2> QED
    BY <1>11, <2>2, <2>3, <2>4
<1>13. CASE t.tag \notin {"null", "unspec"}
  <2>1. /\ btf' = btf \o new
        /\ enc' = [enc EXCEPT !.need_index = @ \/ t.tag = "array"]
        /\ pc' = IF new = <<>> THEN "failed"
                 ELSE IF enc.map[i] # id THEN "drift" ELSE "types"
    BY <1>13, Zenon DEF encode_type
  <2>2. /\ Sequence(new)
        /\ new = <<>> \/ Len(new) = n
        /\ t.tag # "array" => NoArrays(new)
        /\ \A k \in 1 .. Len(new) : new[k].kind = "ARRAY" => new[k].index = enc.index_id
        /\ NamedInt(t) /\ PlainInt(t) => new # <<>> /\ new[1].kind = "INT" /\ new[1].name = "int"
    <3> HIDE DEF t
    <3> QED
      BY <1>5, <1>13, EncodedTag DEF NamedInt
  <2> HIDE DEF new
  <2>3. /\ Sequence(btf') /\ Len(new) \in Nat
        /\ Len(btf') = Len(btf) + Len(new)
        /\ \A k \in 1 .. Len(btf) : btf'[k] = btf[k]
        /\ \A k \in Len(btf) + 1 .. Len(btf) + Len(new) : btf'[k] = new[k - Len(btf)]
    BY <1>7, <2>1, <2>2, Concat, SequenceFacts
  <2>4. /\ EncOK'
        /\ enc'.need_index = (enc.need_index \/ t.tag = "array")
        /\ enc'.type_id_off = off /\ enc'.map = enc.map /\ enc'.has_index = enc.has_index
        /\ enc'.index_id = enc.index_id
    <3> HIDE DEF t
    <3> QED
      BY <1>7, <2>1 DEF EncOK, EncFields
  <2>5. ArraysIndexed(btf', enc')
    <3> SUFFICES ASSUME NEW k \in 1 .. Len(btf'), btf'[k].kind = "ARRAY"
                 PROVE  btf'[k].index = enc'.index_id /\ enc'.need_index
      BY DEF ArraysIndexed
    <3>1. CASE k \in 1 .. Len(btf)
      BY <1>7, <2>3, <2>4, <3>1 DEF ArraysIndexed
    <3>2. CASE k \in Len(btf) + 1 .. Len(btf) + Len(new)
      <4>1. k - Len(btf) \in 1 .. Len(new) /\ btf'[k] = new[k - Len(btf)]
        BY <1>7, <2>3, <3>2
      <4>2. t.tag = "array"
        BY <2>2, <4>1 DEF NoArrays
      <4>3. enc'.need_index
        <5> HIDE DEF t
        <5> QED
          BY <1>7, <2>1, <4>2 DEF EncOK, EncFields
      <4>4. btf'[k].index = enc'.index_id
        BY <2>2, <2>4, <4>1
      <4> QED
        BY <4>3, <4>4
    <3> QED
      BY <1>7, <2>3, <3>1, <3>2
  <2>6. CASE new = <<>>
    <3>1. pc' = "failed"
      BY <2>1, <2>6
    <3> QED
      BY <1>1, <1>7, <1>10, <2>3, <2>4, <3>1 DEF TypesInv, States
  <2>7. CASE new # <<>>
    <3> HIDE DEF types, off, n, t
    <3>1. Len(btf') = After(acc, types, off, i) /\ enc.map[i] = id
      BY <1>6, <1>7, <1>8, <1>9, <1>13, <2>2, <2>3, <2>7
    <3>2. pc' = "types"
      BY <2>1, <2>7, <3>1
    <3>3. enc.has_index =>
            \/ IsInt(btf', enc.index_id)
            \/ \E j \in i + 1 .. Len(types) : NamedInt(types[j]) /\ enc.map[j] = enc.index_id
      <4> SUFFICES ASSUME enc.has_index PROVE \/ IsInt(btf', enc.index_id)
                                              \/ \E j \in i + 1 .. Len(types) :
                                                   NamedInt(types[j]) /\ enc.map[j] = enc.index_id
        OBVIOUS
      <4>1. CASE IsInt(btf, enc.index_id)
        BY <1>7, <2>3, <4>1 DEF IsInt
      <4>2. ASSUME NEW j \in i .. Len(types), NamedInt(types[j]), enc.map[j] = enc.index_id
            PROVE  \/ IsInt(btf', enc.index_id)
                   \/ \E k \in i + 1 .. Len(types) :
                        NamedInt(types[k]) /\ enc.map[k] = enc.index_id
        <5>1. CASE j = i
          <6>1. NamedInt(t)
            BY <4>2, <5>1 DEF t
          <6>2. PlainInt(t)
            <7>1. input.cus[c].types = types /\ c \in DOMAIN input.cus /\ i \in DOMAIN input.cus[c].types
              BY <1>2, <1>3, <1>4, InputFacts DEF types, Cu
            <7> QED
              BY <7>1 DEF TypesInv, IntsArePlain, t
          <6>3. n = 1
            BY <6>1 DEF NamedInt, n, tag__nr_btf_ids
          <6>4. Len(new) = 1 /\ new[1].kind = "INT" /\ new[1].name = "int"
            BY <2>2, <2>7, <6>1, <6>2, <6>3
          <6>5. enc.index_id = Len(btf) + 1 /\ Len(btf') = Len(btf) + 1
            BY <2>3, <3>1, <4>2, <5>1, <6>4
          <6>6. btf'[Len(btf) + 1] = new[1]
            BY <1>7, <2>3, <6>4
          <6>7. IsInt(btf', enc.index_id)
            BY <1>7, <6>4, <6>5, <6>6 DEF IsInt
          <6> QED
            BY <6>7
        <5>2. CASE j # i
          <6>1. j \in i + 1 .. Len(types)
            BY <1>3, <1>4, <5>2
          <6> QED
            BY <4>2, <6>1
        <5> QED
          BY <5>1, <5>2
      <4> QED
        BY <1>6, <4>1, <4>2
    <3> QED
      BY <1>11, <2>3, <2>4, <2>5, <3>1, <3>2, <3>3
  <2> QED
    BY <2>6, <2>7
<1> QED
  BY <1>12, <1>13

\* The "int" that is added for arrays alone gets the id the arrays have.
LEMMA TypesEnd ==
  ASSUME TypesInv, types_end
  PROVE  TypesInv'
<1> DEFINE types == Cu.types
           off == enc.type_id_off
           add == enc.need_index /\ ~enc.has_index
           e == [Btf("INT", "int", 0) EXCEPT !.size = 4, !.enc = "signed"]
           tagged == [k \in DOMAIN Cu.types |->
                         [annots |-> IF Cu.types[k].tag \in {"struct", "union", "typedef"}
                                     THEN Cu.types[k].annots ELSE <<>>,
                          id |-> enc.map[k]]]
           index == IF add THEN <<e>> ELSE <<>>
<1>1. /\ pc = "types" /\ ~(i <= Len(types)) /\ pc' = "save"
      /\ btf' = btf \o index \o AnnotsOf(tagged)
      /\ enc' = [enc EXCEPT !.has_index = @ \/ add]
      /\ UNCHANGED <<input, c, i, saved, loc_states, secinfo, out, cu>>
  <2>1. pc = "types" /\ i > Len(types) /\ pc' = "save"
        /\ btf' = btf \o index \o AnnotsOf(tagged)
        /\ enc' = [enc EXCEPT !.has_index = @ \/ add]
        /\ UNCHANGED <<input, c, i, saved, loc_states, secinfo, out, cu>>
    BY Zenon DEF types_end
  <2>2. c \in 1 .. Len(input.cus) /\ input \in InputType
    BY <2>1, InputOK DEF TypesInv
  <2>3. types \in Seq(TagType) /\ Len(types) \in Nat
    BY <2>2, CuFacts
  <2> HIDE DEF types, index, tagged, add
  <2>4. ~(i <= Len(types))
    BY <2>1, <2>3 DEF TypesInv
  <2> QED
    BY <2>1, <2>4
<1>2. c \in 1 .. Len(input.cus) /\ input \in InputType
  BY <1>1, InputOK DEF TypesInv
<1>3. types \in Seq(TagType) /\ Len(types) \in Nat
  BY <1>2, CuFacts
<1>4. EncOK /\ ArraysIndexed(btf, enc) /\ Sequence(btf) /\ Len(btf) \in Nat
      /\ DOMAIN secinfo = 1 .. Len(input.sections)
  BY <1>1, SequenceFacts DEF TypesInv
<1>5. PICK acc :
        /\ i \in 1 .. Len(types) + 1
        /\ Len(btf) = After(acc, types, off, i - 1)
        /\ ~enc.has_index => enc.index_id = After(acc, types, off, Len(types)) + 1
        /\ enc.has_index =>
             \/ IsInt(btf, enc.index_id)
             \/ \E j \in i .. Len(types) : NamedInt(types[j]) /\ enc.map[j] = enc.index_id
  BY <1>1 DEF TypesInv, Predicted
<1>6. i - 1 = Len(types) /\ i .. Len(types) = {}
  <2> HIDE DEF types
  <2> QED
    BY <1>1, <1>3, <1>5
<1>7. /\ enc.has_index => IsInt(btf, enc.index_id)
      /\ ~enc.has_index => enc.index_id = Len(btf) + 1
  <2> HIDE DEF types, off
  <2> QED
    BY <1>5, <1>6
<1>8. NoArrays(AnnotsOf(tagged))
  <2>1. DOMAIN types = 1 .. Len(types) /\ \A k \in 1 .. Len(types) : types[k] \in TagType
    BY <1>3
  <2>2. PICK n \in Nat : n = Len(types)
    BY <1>3
  <2>3. \A k \in 1 .. n : Sequence(tagged[k].annots)
    <3> SUFFICES ASSUME NEW k \in 1 .. n PROVE Sequence(tagged[k].annots)
      OBVIOUS
    <3>1. tagged[k].annots = types[k].annots \/ tagged[k].annots = <<>>
      BY <2>1, <2>2
    <3> HIDE DEF tagged, types
    <3> QED
      BY <2>1, <2>2, <3>1, Annots, Empty
  <2>4. tagged = [k \in 1 .. n |-> tagged[k]]
    BY <2>1, <2>2
  <2> HIDE DEF tagged
  <2>5. Sequence(tagged) /\ Len(tagged) = n
    BY <2>4, SequenceOf
  <2> QED
    BY <2>3, <2>5, AnnotsNoArrays
<1>9. e.kind = "INT" /\ e.name = "int"
  BY DEF Btf
<1> HIDE DEF tagged, types, off, e
<1>10. Sequence(<<e>>) /\ Len(<<e>>) = 1 /\ <<e>>[1] = e
  BY One
<1>11. NoArrays(index)
  <2>1. \A k \in 1 .. Len(<<e>>) : <<e>>[k].kind # "ARRAY"
    BY <1>9, <1>10
  <2>2. NoArrays(<<e>>)
    BY <1>10, <2>1 DEF NoArrays
  <2>3. NoArrays(<<>>)
    BY Empty DEF NoArrays
  <2>4. index = <<e>> \/ index = <<>>
    BY Zenon
  <2> HIDE DEF index
  <2> QED
    BY <2>2, <2>3, <2>4
<1>12. Grows(btf, btf \o index)
  <2> HIDE DEF index
  <2> QED
    BY <1>4, <1>11, GrowsBy DEF NoArrays
<1>13. Grows(btf \o index, btf')
  <2> HIDE DEF index
  <2> QED
    BY <1>1, <1>8, <1>12, GrowsBy DEF NoArrays, Grows
<1>14. Grows(btf, btf')
  <2> HIDE DEF index
  <2> QED
    BY <1>4, <1>12, <1>13, GrowsMore
<1>15. EncOK' /\ enc'.need_index = enc.need_index /\ enc'.index_id = enc.index_id
       /\ (enc'.has_index <=> enc.has_index \/ add)
  BY <1>1, <1>4 DEF EncOK, EncFields
<1>16. add => IsInt(btf', enc.index_id)
  <2> SUFFICES ASSUME add PROVE IsInt(btf', enc.index_id)
    OBVIOUS
  <2>1. index = <<e>>
    OBVIOUS
  <2>2. enc.index_id = Len(btf) + 1
    BY <1>7
  <2> HIDE DEF index, add
  <2>3. Len(btf \o index) = Len(btf) + 1 /\ (btf \o index)[Len(btf) + 1] = e
    <3>1. Len(btf) + 1 \in Len(btf) + 1 .. Len(btf) + 1 /\ Len(btf) + 1 - Len(btf) = 1
      BY <1>4
    <3>2. PICK s : s = <<e>>
      BY Zenon
    <3> QED
      BY <1>4, <1>10, <2>1, <3>1, <3>2, Concat
  <2>4. IsInt(btf \o index, enc.index_id)
    BY <1>4, <1>9, <2>2, <2>3 DEF IsInt
  <2> QED
    BY <1>12, <1>13, <2>4, SequenceFacts DEF IsInt, Grows
<1>17. enc.has_index => IsInt(btf', enc.index_id)
  BY <1>4, <1>7, <1>14, SequenceFacts DEF IsInt, Grows
<1>18. IndexKnown(btf', enc')
  BY <1>15, <1>16, <1>17 DEF IndexKnown, EncOK
<1>19. ArraysIndexed(btf', enc')
  <2> SUFFICES ASSUME NEW k \in 1 .. Len(btf'), btf'[k].kind = "ARRAY"
               PROVE  btf'[k].index = enc'.index_id /\ enc'.need_index
    BY DEF ArraysIndexed
  <2>1. k \in 1 .. Len(btf) /\ btf'[k] = btf[k]
    <3>1. Len(btf') \in Nat
      BY <1>14, SequenceFacts DEF Grows
    <3> QED
      BY <1>4, <1>14, <3>1 DEF Grows
  <2> QED
    BY <1>4, <1>15, <2>1 DEF ArraysIndexed
<1>20. Sequence(btf')
  BY <1>14 DEF Grows
<1> QED
  BY <1>1, <1>4, <1>15, <1>18, <1>19, <1>20 DEF TypesInv, States

\* Saving functions leaves the types alone.
LEMMA SaveFunctions ==
  ASSUME TypesInv, save_functions
  PROVE  TypesInv'
<1>1. c \in 1 .. Len(input.cus) /\ input \in InputType /\ pc = "save"
  BY InputOK DEF TypesInv, save_functions
<1>2. saved' = FoldLeft(save_function, saved, Cu.functions) /\ pc' = "inlines"
      /\ UNCHANGED <<input, c, i, btf, enc, loc_states, secinfo, out, cu, ids>>
  BY DEF save_functions
<1>3. Saved(saved')
  BY <1>1, <1>2, SavedByFold DEF TypesInv
<1> QED
  BY <1>1, <1>2, <1>3 DEF TypesInv, States, EncOK

\* So does saving inline expansions.
LEMMA AddInlineExpansions ==
  ASSUME TypesInv, add_inline_expansions
  PROVE  TypesInv'
<1>1. c \in 1 .. Len(input.cus) /\ input \in InputType /\ pc = "inlines"
  BY InputOK DEF TypesInv, add_inline_expansions
<1>2. /\ \/ loc_states' = FoldLeft(btf_encoder__add_inline_expansion, loc_states, Cu.inlines)
         \/ loc_states' = loc_states
      /\ pc' = "vars"
      /\ UNCHANGED <<input, c, i, btf, enc, saved, secinfo, out, cu, ids>>
  BY Zenon DEF add_inline_expansions
<1>3. Located(loc_states')
  BY <1>1, <1>2, LocatedByFold DEF TypesInv
<1> QED
  BY <1>1, <1>2, <1>3 DEF TypesInv, States, EncOK

\* The variables of a CU come behind its types.
LEMMA EncodeCuVariables ==
  ASSUME TypesInv, btf_encoder__encode_cu_variables
  PROVE  TypesInv'
<1> DEFINE base == [btf |-> btf, secinfo |-> secinfo, err |-> FALSE]
           end == FoldLeft(encode_variable, base, Cu.variables)
<1>1. c \in 1 .. Len(input.cus) /\ input \in InputType /\ pc = "vars"
  BY InputOK DEF TypesInv, btf_encoder__encode_cu_variables
<1>2. /\ btf' = end.btf /\ secinfo' = end.secinfo
      /\ pc' \in {"failed", "cu"}
      /\ enc' = [enc EXCEPT !.map = <<>>]
      /\ c' = c + 1
      /\ UNCHANGED <<input, i, saved, loc_states, out, cu, ids>>
  BY Zenon DEF btf_encoder__encode_cu_variables
<1>3. Grows(btf, end.btf) /\ DOMAIN end.secinfo = DOMAIN secinfo
  <2>1. PICK b : b = base
    OBVIOUS
  <2> HIDE DEF base
  <2> QED
    BY <1>1, <2>1, VariablesByFold DEF TypesInv, base
<1> HIDE DEF end
<1>4. EncOK /\ ArraysIndexed(btf, enc) /\ IndexKnown(btf, enc) /\ Sequence(btf)
      /\ DOMAIN secinfo = 1 .. Len(input.sections)
  BY <1>1 DEF TypesInv
<1>5. EncOK' /\ enc'.has_index = enc.has_index /\ enc'.need_index = enc.need_index
      /\ enc'.index_id = enc.index_id
  BY <1>2, <1>4 DEF EncOK, EncFields
<1>6. ArraysIndexed(btf', enc') /\ IndexKnown(btf', enc') /\ Sequence(btf')
  BY <1>2, <1>3, <1>4, <1>5, IndexStays, Zenon DEF Grows
<1>7. c' \in Nat \ {0} /\ i' \in Nat \ {0} /\ input' \in Inputs
      /\ Saved(saved') /\ Located(loc_states')
  BY <1>2 DEF TypesInv
<1>8. DOMAIN secinfo' = 1 .. Len(input'.sections)
  BY <1>2, <1>3, <1>4
<1>9. pc' \in {"failed", "cu"}
  BY <1>2
<1>10. pc' \in States \ {"drift"}
  BY <1>9, Zenon DEF States
<1> QED
  BY <1>5, <1>6, <1>7, <1>8, <1>9, <1>10 DEF TypesInv

\* A saved function, its prototype and the types of a kfunc's arena pointers
\* come behind all types.
LEMMA AddSavedFunc ==
  ASSUME TypesInv, add_saved_func
  PROVE  TypesInv'
<1> DEFINE kfunc == saved[i].name \in DOMAIN enc.kfuncs
           flags == IF kfunc THEN enc.kfuncs[saved[i].name] ELSE {}
           given == IF conf.attributes THEN flags ELSE {}
           arena == btf__add_bpf_arena_type_tags(saved[i], given)
           annots == saved[i].annots \o (IF kfunc /\ ~conf.skip_decl_tag
                                         THEN KfuncAnnots(flags) ELSE <<>>)
           new == btf_encoder__add_func(arena.btf, arena.state, annots)
<1>1. /\ pc = "funcs" /\ i <= Len(saved)
      /\ \/ pc' = "failed" /\ UNCHANGED <<btf, i>>
         \/ btf' = new /\ i' = i + 1 /\ UNCHANGED pc
      /\ UNCHANGED <<input, c, enc, saved, loc_states, secinfo, out, cu, ids>>
  BY Zenon DEF add_saved_func
<1>2. EncOK /\ ArraysIndexed(btf, enc) /\ IndexKnown(btf, enc) /\ Sequence(btf)
      /\ DOMAIN secinfo = 1 .. Len(input.sections) /\ Saved(saved)
  BY <1>1 DEF TypesInv
<1>3. Sequence(annots)
  <2>1. i \in 1 .. Len(saved)
    BY <1>1, <1>2, SequenceFacts DEF TypesInv, Saved
  <2>2. Sequence(saved[i].annots)
    BY <1>2, <2>1 DEF Saved
  <2> DEFINE a == <<[value |-> "bpf_kfunc", idx |-> -1]>>
             b == <<[value |-> "bpf_fastcall", idx |-> -1]>>
             more == IF kfunc /\ ~conf.skip_decl_tag THEN KfuncAnnots(flags) ELSE <<>>
  <2>3. Sequence(a) /\ Sequence(b) /\ Sequence(<<>>)
    BY One, Empty
  <2>4. more \in {a \o b, a \o <<>>, <<>>}
    BY Zenon DEF KfuncAnnots
  <2> HIDE DEF a, b, more
  <2>5. Sequence(more)
    BY <2>3, <2>4, Concat, Zenon
  <2>6. Sequence(saved[i].annots \o more)
    BY <2>2, <2>5, Concat
  <2> QED
    BY <2>6 DEF more
<1>4. Grows(btf, arena.btf)
  <2> HIDE DEF given
  <2> QED
    BY <1>2, ArenaGrows
<1> HIDE DEF arena, annots
<1>5. Grows(arena.btf, new)
  <2>1. PICK func : func = Append(arena.btf \o btf_encoder__add_func_proto_for_state(arena.state),
                                  Btf("FUNC", arena.state.name,
                                      Len(arena.btf \o btf_encoder__add_func_proto_for_state(arena.state))))
    OBVIOUS
  <2>2. PICK value_ids : value_ids = <<[annots |-> annots, id |-> Len(func)]>>
    BY Zenon
  <2>3. new = func \o AnnotsOf(value_ids)
    BY <2>1, <2>2, Zenon DEF btf_encoder__add_func
  <2>4. Sequence(arena.btf)
    BY <1>4 DEF Grows
  <2>5. Grows(arena.btf, func)
    BY <2>1, <2>4, FuncGrows, Zenon
  <2>6. Sequence(value_ids) /\ Len(value_ids) = 1 /\ value_ids[1].annots = annots
    BY <2>2, One
  <2>7. \A k \in 1 .. Len(value_ids) : Sequence(value_ids[k].annots)
    BY <1>3, <2>6
  <2>8. NoArrays(AnnotsOf(value_ids))
    BY <2>6, <2>7, AnnotsNoArrays
  <2>9. Grows(func, new)
    BY <2>3, <2>5, <2>8, GrowsBy DEF Grows, NoArrays
  <2> QED
    BY <2>4, <2>5, <2>9, GrowsMore
<1> HIDE DEF new
<1>6. Grows(btf, new)
  BY <1>2, <1>4, <1>5, GrowsMore
<1>7. Grows(btf, btf')
  BY <1>1, <1>2, <1>6, GrowsSame
<1>8. ArraysIndexed(btf', enc') /\ IndexKnown(btf', enc') /\ Sequence(btf') /\ EncOK'
  BY <1>1, <1>2, <1>7, IndexStays DEF Grows, EncOK
<1>9. i' \in Nat \ {0} /\ pc' \in {"failed", "funcs"}
  BY <1>1 DEF TypesInv
<1>10. pc' \in States \ {"drift"}
  BY <1>9, Zenon DEF States
<1> QED
  BY <1>1, <1>2, <1>8, <1>9, <1>10 DEF TypesInv

\* So do the sections of locations and of variables.
LEMMA AddSections ==
  ASSUME TypesInv, add_sections
  PROVE  TypesInv'
<1>1. /\ pc = "funcs" /\ pc' \in {"empty", "write"} /\ saved' = <<>> /\ loc_states' = <<>>
      /\ UNCHANGED <<input, c, i, enc, secinfo, out, cu, ids>>
  BY DEF add_sections
<1>2. EncOK /\ ArraysIndexed(btf, enc) /\ IndexKnown(btf, enc) /\ Sequence(btf)
      /\ DOMAIN secinfo = 1 .. Len(input.sections) /\ Located(loc_states)
  BY <1>1 DEF TypesInv
<1>3. Grows(btf, btf')
  BY <1>2, SectionsGrow, InputOK
<1>4. ArraysIndexed(btf', enc') /\ IndexKnown(btf', enc') /\ Sequence(btf') /\ EncOK'
  BY <1>1, <1>2, <1>3, IndexStays, Zenon DEF Grows, EncOK
<1>5. Saved(saved') /\ Located(loc_states')
  BY <1>1, Empty DEF Saved, Located
<1>6. pc' \in States \ {"drift"}
  BY <1>1, Zenon DEF States
<1> QED
  BY <1>1, <1>2, <1>4, <1>5, <1>6 DEF TypesInv

\* A new encoder has no types.
LEMMA New ==
  ASSUME TypesInv, btf_encoder__new
  PROVE  TypesInv'
<1> DEFINE include == {k \in DOMAIN input.sections :
                         \/ "global" \in conf.vars
                         \/ "percpu" \in conf.vars /\ input.sections[k].name = "percpu"}
<1>1. /\ pc = "new" /\ pc' = "cu"
      /\ enc' = [enc EXCEPT !.include = include,
                   !.kfuncs = IF conf.tag_kfuncs THEN btf_encoder__collect_kfuncs ELSE @]
      /\ secinfo' = [k \in DOMAIN input.sections |-> <<>>]
      /\ UNCHANGED <<input, c, i, btf, saved, loc_states, out, cu, ids>>
  BY Zenon DEF btf_encoder__new
<1> HIDE DEF include
<1>2. EncOK /\ ArraysIndexed(btf, enc) /\ IndexKnown(btf, enc) /\ Sequence(btf)
  BY <1>1 DEF TypesInv
<1>3. EncOK' /\ enc'.has_index = enc.has_index /\ enc'.need_index = enc.need_index
      /\ enc'.index_id = enc.index_id
  BY <1>1, <1>2 DEF EncOK, EncFields
<1>4. ArraysIndexed(btf', enc') /\ IndexKnown(btf', enc') /\ Sequence(btf')
  BY <1>1, <1>2, <1>3, GrowsSame, IndexStays, Zenon
<1>5. DOMAIN secinfo' = 1 .. Len(input'.sections)
  BY <1>1, InputOK
<1>6. pc' \in States \ {"drift"}
  BY <1>1, Zenon DEF States
<1>7. UNCHANGED <<input, c, i, btf, saved, loc_states>> /\ pc' = "cu"
  BY <1>1
<1> QED
  BY <1>3, <1>4, <1>5, <1>6, <1>7 DEF TypesInv

\* From here on the types do not change any more.
Late == {"funcs", "write", "write base", "load", "decl tags", "inline sites", "loaded", "empty",
         "failed"}

\* Where the types are complete no CU is being encoded.
LEMMA LateFacts ==
  ASSUME NEW x \in Late
  PROVE  x \in States \ {"drift"} /\ x \notin {"new", "types", "save", "inlines", "vars"}
BY Zenon DEF Late, States

\* A step that leaves the types alone keeps the invariant.
LEMMA Finished ==
  ASSUME TypesInv, pc \notin {"new", "types", "failed"}, pc' \in Late, i' \in Nat \ {0},
         UNCHANGED <<input, c, btf, enc, saved, loc_states, secinfo>>
  PROVE  TypesInv'
<1>1. EncOK' /\ pc' \in States \ {"drift"} /\ pc' \notin {"new", "types", "save", "inlines", "vars"}
  BY LateFacts DEF TypesInv, EncOK
<1> QED
  BY <1>1 DEF TypesInv

\* Writing the sections and loading them leave the types alone.
LEMMA FinishedSteps ==
  ASSUME TypesInv,
         \/ encode \/ btf_encoder__write_raw_file \/ btf_encoder__write_elf
         \/ write_distilled_base \/ btf__load_types \/ process_decl_tags
         \/ btf__mark_inline_functions
  PROVE  TypesInv'
<1>0. i \in Nat \ {0}
  BY DEF TypesInv
<1>1. CASE encode
  <2>1. pc = "cu" /\ pc' = "funcs" /\ i' = 1
        /\ UNCHANGED <<input, c, btf, enc, saved, loc_states, secinfo>>
    BY <1>1 DEF encode
  <2>2. pc' \in Late /\ i' \in Nat \ {0} /\ pc \notin {"new", "types", "failed"}
    BY <2>1 DEF Late
  <2> QED
    BY <2>1, <2>2, Finished
<1>2. CASE btf_encoder__write_raw_file
  <2>1. pc = "write" /\ pc' \in {"failed", "load"}
        /\ UNCHANGED <<input, c, i, btf, enc, saved, loc_states, secinfo>>
    BY <1>2, Zenon DEF btf_encoder__write_raw_file
  <2>2. pc' \in Late
    BY <2>1, Zenon DEF Late
  <2> QED
    BY <1>0, <2>1, <2>2, Finished
<1>3. CASE btf_encoder__write_elf
  <2>1. pc = "write" /\ pc' \in {"write base", "failed", "load"}
        /\ UNCHANGED <<input, c, i, btf, enc, saved, loc_states, secinfo>>
    BY <1>3, Zenon DEF btf_encoder__write_elf
  <2>2. pc' \in Late
    BY <2>1, Zenon DEF Late
  <2>3. pc \notin {"new", "types", "failed"} /\ i' \in Nat \ {0}
    BY <1>0, <2>1, Zenon
  <2> QED
    BY <2>1, <2>2, <2>3, Finished, Zenon
<1>4. CASE write_distilled_base
  <2>1. pc = "write base" /\ pc' \in {"failed", "load"}
        /\ UNCHANGED <<input, c, i, btf, enc, saved, loc_states, secinfo>>
    BY <1>4, Zenon DEF write_distilled_base
  <2>2. pc' \in Late
    BY <2>1, Zenon DEF Late
  <2>3. pc \notin {"new", "types", "failed"} /\ i' \in Nat \ {0}
    BY <1>0, <2>1, Zenon
  <2> QED
    BY <2>1, <2>2, <2>3, Finished, Zenon
<1>5. CASE btf__load_types
  <2>1. pc = "load" /\ pc' = "decl tags" /\ i' = 1
        /\ UNCHANGED <<input, c, btf, enc, saved, loc_states, secinfo>>
    BY <1>5, Zenon DEF btf__load_types
  <2>2. pc' \in Late
    BY <2>1, Zenon DEF Late
  <2>4. 1 \in Nat \ {0}
    OBVIOUS
  <2>3. pc \notin {"new", "types", "failed"} /\ i' \in Nat \ {0}
    BY <2>1, <2>4, Zenon
  <2> QED
    BY <2>1, <2>2, <2>3, Finished, Zenon
<1>6. CASE process_decl_tags
  <2>1. pc = "decl tags" /\ pc' = "inline sites"
        /\ UNCHANGED <<input, c, i, btf, enc, saved, loc_states, secinfo>>
    BY <1>6, Zenon DEF process_decl_tags
  <2>2. pc' \in Late
    BY <2>1, Zenon DEF Late
  <2>3. pc \notin {"new", "types", "failed"} /\ i' \in Nat \ {0}
    BY <1>0, <2>1, Zenon
  <2> QED
    BY <2>1, <2>2, <2>3, Finished, Zenon
<1>7. CASE btf__mark_inline_functions
  <2>1. pc = "inline sites" /\ pc' = "loaded"
        /\ UNCHANGED <<input, c, i, btf, enc, saved, loc_states, secinfo>>
    BY <1>7, Zenon DEF btf__mark_inline_functions
  <2>2. pc' \in Late
    BY <2>1, Zenon DEF Late
  <2>3. pc \notin {"new", "types", "failed"} /\ i' \in Nat \ {0}
    BY <1>0, <2>1, Zenon
  <2> QED
    BY <2>1, <2>2, <2>3, Finished, Zenon
<1> QED
  BY <1>1, <1>2, <1>3, <1>4, <1>5, <1>6, <1>7

\* Every step keeps the invariant.
LEMMA TypesNext ==
  ASSUME TypesInv, IntsArePlain, [Next]_vars
  PROVE  TypesInv'
<1>1. CASE UNCHANGED vars
  <2>1. UNCHANGED <<input, pc, c, i, btf, enc, saved, loc_states, secinfo>>
    BY <1>1 DEF vars
  <2>2. EncOK' = EncOK /\ Predicted' = Predicted
    BY <2>1 DEF EncOK, Predicted, Cu
  <2> QED
    BY <2>1, <2>2 DEF TypesInv
<1>2. CASE Done
  BY <1>1, <1>2 DEF Done
<1> QED
  BY <1>1, <1>2, New, EncodeCu, EncodeType, TypesEnd, SaveFunctions, AddInlineExpansions,
     EncodeCuVariables, AddSavedFunc, AddSections, FinishedSteps DEF Next

-----------------------------------------------------------------------------
(* The theorems *)

\* The inductive invariant holds in every state.
THEOREM TypesInvariant ==
  ASSUME IntsArePlain
  PROVE  Spec => []TypesInv
<1>1. TypesInv /\ [Next]_vars => TypesInv'
  BY TypesNext
<1> QED
  BY <1>1, TypesInit, PTL DEF Spec

\* The invariant says that no id drifts and that the index of arrays is
\* "int".
LEMMA Foretold ==
  ASSUME TypesInv
  PROVE  IdsForetold
<1>1. NoDrift
  BY DEF TypesInv, NoDrift
<1>2. IndexTypeIsInt
  <2> SUFFICES ASSUME pc \in {"save", "write", "loaded"}, NEW k \in OfKind("ARRAY")
               PROVE  /\ btf[k].index \in DOMAIN btf
                      /\ btf[btf[k].index].kind = "INT" /\ btf[btf[k].index].name = "int"
    BY DEF IndexTypeIsInt
  <2>1. ArraysIndexed(btf, enc) /\ IndexKnown(btf, enc) /\ Sequence(btf)
    BY DEF TypesInv
  <2>2. k \in 1 .. Len(btf) /\ btf[k].kind = "ARRAY" /\ DOMAIN btf = 1 .. Len(btf)
    BY <2>1, SequenceFacts DEF OfKind
  <2>3. btf[k].index = enc.index_id /\ IsInt(btf, enc.index_id)
    BY <2>1, <2>2 DEF ArraysIndexed, IndexKnown
  <2> QED
    BY <2>2, <2>3 DEF IsInt
<1> QED
  BY <1>1, <1>2 DEF IdsForetold

\* For any number of CUs, tables and types: every type gets the id that
\* btf_encoder__precompute_btf_ids() predicted, the drift that
\* btf_encoder__encode_cu() tests for never happens, and every array's index
\* is the type "int", when what DWARF calls "int" is an integer that BTF has.
THEOREM TypesForetold ==
  ASSUME IntsArePlain
  PROVE  Spec => []IdsForetold
BY TypesInvariant, Foretold, PTL

\* Where the file, and where all of its sections must have been written.
AtEnd == {"load", "decl tags", "inline sites", "loaded"}
FileThere == AtEnd \cup {"write base"}

Written ==
    /\ DOMAIN out = {"file", "base"}
    /\ pc \in FileThere => out.file = "new"
    /\ pc \in AtEnd /\ conf.distilled /\ ~conf.raw => out.base = "new"

\* Nothing has to be written before "write" or after a failure.
LEMMA NotThere ==
  ASSUME NEW x \in {"new", "cu", "types", "save", "inlines", "vars", "funcs", "write", "empty",
                    "failed", "drift"}
  PROVE  x \notin FileThere /\ x \notin AtEnd
BY Zenon DEF FileThere, AtEnd

\* A step to where nothing has to be written.
LEMMA NothingWritten ==
  ASSUME Written, out' = out, pc' \notin FileThere, pc' \notin AtEnd
  PROVE  Written'
BY DEF Written

\* Loading leaves the file alone.
LEMMA WrittenStays ==
  ASSUME Written, out' = out, input' = input, pc \in AtEnd
  PROVE  Written'
<1>1. pc \in FileThere /\ conf' = conf
  BY Zenon DEF FileThere, conf
<1> QED
  BY <1>1 DEF Written

\* The encoder goes on behind a section only when it was written
\* (btf_encoder__write_elf(), btf_encoder__write_raw_file()).
LEMMA Writing ==
  ASSUME Written,
         btf_encoder__write_raw_file \/ btf_encoder__write_elf \/ write_distilled_base
  PROVE  Written'
<1>0. "load" \in AtEnd /\ "load" \in FileThere
  BY Zenon DEF AtEnd, FileThere
<1>1. CASE btf_encoder__write_raw_file
  <2>1. conf.raw /\ conf' = conf
    BY <1>1, Zenon DEF btf_encoder__write_raw_file, conf
  <2>2. \/ pc' = "failed" /\ out' \in {out, [out EXCEPT !.file = "gone"]}
        \/ pc' = "load" /\ out' = [out EXCEPT !.file = "new"]
    BY <1>1, Zenon DEF btf_encoder__write_raw_file
  <2>3. pc' = "failed" => pc' \notin FileThere /\ pc' \notin AtEnd
    BY NotThere
  <2> QED
    BY <2>1, <2>2, <2>3 DEF Written
<1>2. CASE btf_encoder__write_elf
  <2>1. PICK r \in WriteElf("file") :
          /\ out' = [out EXCEPT !.file = r.as]
          /\ pc' = IF conf.distilled /\ write_base(r) THEN "write base"
                   ELSE IF r.err THEN "failed" ELSE "load"
    BY <1>2, Zenon DEF btf_encoder__write_elf
  <2>2. conf' = conf
    BY <1>2, Zenon DEF btf_encoder__write_elf, conf
  <2>3. r \in {[err |-> FALSE, as |-> "new"], [err |-> TRUE, as |-> out.file],
               [err |-> TRUE, as |-> "torn"]}
    BY <2>1, Zenon DEF WriteElf
  <2>4. \/ r.err = FALSE /\ r.as = "new"
        \/ r.err = TRUE
    BY <2>3
  <2>5. CASE r.err = FALSE /\ r.as = "new"
    <3>1. pc' = "write base" \/ (pc' = "load" /\ ~conf.distilled)
      BY <2>1, <2>5, Zenon DEF write_base
    <3>2. pc' \notin AtEnd \/ ~conf.distilled
      BY <3>1, Zenon DEF AtEnd
    <3>3. out'.file = "new" /\ DOMAIN out' = {"file", "base"}
      BY <2>1, <2>5, Zenon DEF Written
    <3> QED
      BY <2>2, <3>2, <3>3 DEF Written
  <2>6. CASE r.err = TRUE
    <3>1. pc' = "failed"
      BY <2>1, <2>6, Zenon DEF write_base
    <3>2. out' = [out EXCEPT !.file = r.as]
      BY <2>1, Zenon
    <3>3. DOMAIN out' = {"file", "base"}
      BY <3>2 DEF Written
    <3> QED
      BY <3>1, <3>3, NotThere DEF Written
  <2> QED
    BY <2>4, <2>5, <2>6, Zenon
<1>3. CASE write_distilled_base
  <2>1. PICK r \in WriteElf("base") :
          /\ out' = [out EXCEPT !.base = r.as]
          /\ pc' = IF r.err THEN "failed" ELSE "load"
    BY <1>3, Zenon DEF write_distilled_base
  <2>2. pc \in FileThere
    BY <1>3, Zenon DEF write_distilled_base, FileThere
  <2>3. r \in {[err |-> FALSE, as |-> "new"], [err |-> TRUE, as |-> out.base],
               [err |-> TRUE, as |-> "torn"]}
    BY <2>1, Zenon DEF WriteElf
  <2>4. \/ r.err = FALSE /\ r.as = "new"
        \/ r.err = TRUE
    BY <2>3
  <2>5. out.file = "new" /\ DOMAIN out = {"file", "base"}
    BY <2>2 DEF Written
  <2>6. out'.file = "new" /\ DOMAIN out' = {"file", "base"} /\ out'.base = r.as
    BY <2>1, <2>5
  <2>7. pc' = "failed" \/ (pc' = "load" /\ out'.base = "new")
    BY <2>1, <2>4, <2>6
  <2> QED
    BY <2>6, <2>7, NotThere DEF Written
<1> QED
  BY <1>1, <1>2, <1>3

\* Every step keeps it.
LEMMA WrittenNext ==
  ASSUME Written, [Next]_vars
  PROVE  Written'
<1>1. CASE UNCHANGED vars
  <2>1. out' = out /\ pc' = pc /\ conf' = conf
    BY <1>1 DEF vars, conf
  <2> QED
    BY <2>1 DEF Written
<1>2. CASE Done
  BY <1>1, <1>2 DEF Done
<1>3. CASE btf_encoder__new \/ encode_cu \/ types_end \/ save_functions \/ add_inline_expansions
           \/ encode
  <2>1. out' = out /\ pc' \in {"cu", "types", "save", "inlines", "vars", "funcs"}
    BY <1>3, Zenon DEF btf_encoder__new, encode_cu, types_end, save_functions,
                       add_inline_expansions, encode
  <2> QED
    BY <2>1, NotThere, NothingWritten
<1>4. CASE encode_type
  <2>1. out' = out /\ pc = "types" /\ (pc' = pc \/ pc' \in {"failed", "drift", "types"})
    BY <1>4, Zenon DEF encode_type
  <2> QED
    BY <2>1, NotThere, NothingWritten
<1>5. CASE btf_encoder__encode_cu_variables
  <2>1. out' = out /\ pc' \in {"failed", "cu"}
    BY <1>5, Zenon DEF btf_encoder__encode_cu_variables
  <2> QED
    BY <2>1, NotThere, NothingWritten
<1>6. CASE add_saved_func \/ add_sections
  <2>1. out' = out /\ pc' \in {"failed", "funcs", "empty", "write"}
    BY <1>6, Zenon DEF add_saved_func, add_sections
  <2> QED
    BY <2>1, NotThere, NothingWritten
<1>7. CASE btf__load_types \/ process_decl_tags \/ btf__mark_inline_functions
  <2>1. out' = out /\ input' = input /\ pc \in AtEnd
    BY <1>7, Zenon DEF btf__load_types, process_decl_tags, btf__mark_inline_functions, AtEnd
  <2> QED
    BY <2>1, WrittenStays
<1> QED
  BY <1>1, <1>2, <1>3, <1>4, <1>5, <1>6, <1>7, Writing DEF Next

\* An encoding that succeeds has written .BTF, and .BTF.base when the base is
\* distilled: no error of the first of the two writes is lost.
THEOREM SectionsWritten == Spec => []SuccessMeansWritten
<1>1. Init => Written
  <2> SUFFICES ASSUME Init PROVE Written
    OBVIOUS
  <2>1. pc = "new" /\ out = [file |-> "old", base |-> "old"]
    BY DEF Init
  <2> QED
    BY <2>1, NotThere DEF Written
<1>2. Written /\ [Next]_vars => Written'
  BY WrittenNext
<1>3. Written => SuccessMeansWritten
  <2>1. {"load", "loaded"} \subseteq AtEnd /\ AtEnd \subseteq FileThere
    BY Zenon DEF AtEnd, FileThere
  <2> QED
    BY <2>1 DEF Written, SuccessMeansWritten
<1> QED
  BY <1>1, <1>2, <1>3, PTL DEF Spec

=============================================================================
