------------------------------ MODULE FoldLemmas -----------------------------
(***************************************************************************)
(* What FoldLeft() of the community modules does, for any operator op: the *)
(* loops of the code that the models state as folds can be reasoned about  *)
(* one iteration at a time.  Every proof about a fold takes an instance of *)
(* this module with the operator for op.                                   *)
(***************************************************************************)
EXTENDS Integers, SequencesExt, WellFoundedInduction, TLAPS

CONSTANT op(_, _)

Fold(base, s) == FoldLeft(op, base, s)

\* Induction over the naturals for a set: it has 0 and, with n, n + 1.
LEMMA NatSetInduction ==
  ASSUME NEW S, 0 \in S, \A n \in Nat : n \in S => n + 1 \in S
  PROVE  Nat \subseteq S
<1> DEFINE T == Nat \ S
<1> SUFFICES ASSUME T # {} PROVE FALSE
  OBVIOUS
<1>1. PICK m \in T : \A x \in T : <<x, m>> \notin OpToRel(<, Nat)
  BY NatLessThanWellFounded, WFMin
<1>2. \A x \in T : ~ (x < m)
  BY <1>1 DEF OpToRel
<1>3. m # 0 /\ m - 1 \in Nat /\ m - 1 < m /\ m - 1 \notin T
  BY <1>2
<1> QED BY <1>3

\* A set of naturals that is not empty has a least one.
LEMMA LeastIn ==
  ASSUME NEW T \in SUBSET Nat, T # {}
  PROVE  \E x \in T : \A y \in T : x <= y
<1>1. PICK m \in T : \A x \in T : <<x, m>> \notin OpToRel(<, Nat)
  BY NatLessThanWellFounded, WFMin
<1>2. \A x \in T : ~ (x < m)
  BY <1>1 DEF OpToRel
<1> QED
  BY <1>2

Highest(T) == CHOOSE x \in T : \A y \in T : x >= y
Iter(g, base, s, n) ==
  g = [T \in SUBSET (1 .. n) |->
         IF T = {} THEN base ELSE op(g[T \ {Highest(T)}], s[Highest(T)])]

\* A set of numbers that is not empty has a highest one.  FoldLeft() goes
\* through the indexes of a sequence from the highest down.
LEMMA HighestIn ==
  ASSUME NEW n \in Nat, NEW T \in SUBSET (1 .. n), T # {}
  PROVE  Highest(T) \in T /\ \A y \in T : Highest(T) >= y
<1> DEFINE P == {m \in Nat : \A U \in SUBSET (1 .. m) : U # {} => \E x \in U : \A y \in U : x >= y}
<1>1. 0 \in P
  <2>1. \A U \in SUBSET (1 .. 0) : U = {}
    OBVIOUS
  <2> QED
    BY <2>1
<1>2. ASSUME NEW m \in Nat, m \in P PROVE m + 1 \in P
  <2> SUFFICES ASSUME NEW U \in SUBSET (1 .. m + 1), U # {}
               PROVE  \E x \in U : \A y \in U : x >= y
    OBVIOUS
  <2>1. CASE m + 1 \in U
    BY <2>1
  <2>2. CASE m + 1 \notin U
    <3>1. U \in SUBSET (1 .. m)
      BY <2>2
    <3> QED
      BY <3>1, <1>2
  <2> QED
    BY <2>1, <2>2
<1>3. n \in P
  <2> HIDE DEF P
  <2> QED
    BY <1>1, <1>2, NatSetInduction
<1>4. \E x \in T : \A y \in T : x >= y
  BY <1>3
<1> QED
  BY <1>4 DEF Highest

\* The recursive function that FoldLeft() is defined by exists, built one
\* index at a time.
LEMMA IterExists ==
  ASSUME NEW base, NEW s, NEW n \in Nat
  PROVE  \E g : Iter(g, base, s, n)
<1> DEFINE P == {m \in Nat : \E g : Iter(g, base, s, m)}
<1>1. 0 \in P
  <2> DEFINE h == [T \in SUBSET (1 .. 0) |-> base]
  <2>1. \A T \in SUBSET (1 .. 0) : T = {}
    OBVIOUS
  <2>2. Iter(h, base, s, 0)
    BY <2>1 DEF Iter
  <2>3. \E g : Iter(g, base, s, 0)
    <3> HIDE DEF h
    <3> QED
      BY <2>2
  <2> QED
    BY <2>3
<1>2. ASSUME NEW m \in Nat, m \in P PROVE m + 1 \in P
  <2>1. PICK g : Iter(g, base, s, m)
    BY <1>2
  <2> DEFINE h == [T \in SUBSET (1 .. m + 1) |->
                     IF T = {} THEN base
                     ELSE op(g[T \ {Highest(T)}], s[Highest(T)])]
  <2>2. ASSUME NEW T \in SUBSET (1 .. m + 1), T # {}
        PROVE  T \ {Highest(T)} \in SUBSET (1 .. m)
    <3> HIDE DEF h, P
    <3>1. m + 1 \in Nat
      OBVIOUS
    <3>2. Highest(T) \in T /\ \A y \in T : Highest(T) >= y
      BY <2>2, <3>1, HighestIn
    <3>3. ASSUME NEW y \in T \ {Highest(T)} PROVE y \in 1 .. m
      <4>1. y \in 1 .. m + 1 /\ Highest(T) \in 1 .. m + 1 /\ y # Highest(T) /\ Highest(T) >= y
        BY <3>2
      <4> QED
        BY <4>1
    <3> QED
      BY <3>3
  <2>3. ASSUME NEW T \in SUBSET (1 .. m)
        PROVE  h[T] = g[T]
    <3>1. T \in SUBSET (1 .. m + 1)
      OBVIOUS
    <3>2. g[T] = IF T = {} THEN base ELSE op(g[T \ {Highest(T)}], s[Highest(T)])
      BY <2>1, Zenon DEF Iter
    <3> QED
      BY <3>1, <3>2
  <2>4. ASSUME NEW T \in SUBSET (1 .. m + 1)
        PROVE  h[T] = IF T = {} THEN base ELSE op(h[T \ {Highest(T)}], s[Highest(T)])
    <3>1. CASE T = {}
      BY <3>1
    <3>2. CASE T # {}
      <4>1. h[T \ {Highest(T)}] = g[T \ {Highest(T)}]
        <5> HIDE DEF h
        <5> QED
          BY <2>2, <2>3, <3>2
      <4>2. h[T] = op(g[T \ {Highest(T)}], s[Highest(T)])
        BY <3>2
      <4> QED
        BY <3>2, <4>1, <4>2, Zenon
    <3> QED
      BY <3>1, <3>2
  <2>5. Iter(h, base, s, m + 1)
    <3>1. DOMAIN h = SUBSET (1 .. m + 1)
      OBVIOUS
    <3>2. h = [T \in SUBSET (1 .. m + 1) |-> h[T]]
      OBVIOUS
    <3> HIDE DEF h
    <3>3. h = [T \in SUBSET (1 .. m + 1) |->
                 IF T = {} THEN base ELSE op(h[T \ {Highest(T)}], s[Highest(T)])]
      BY <2>4, <3>2, Zenon
    <3> QED
      BY <3>3 DEF Iter
  <2>6. \E f : Iter(f, base, s, m + 1)
    <3> HIDE DEF h
    <3> QED
      BY <2>5
  <2> QED
    BY <2>6
<1> HIDE DEF P
<1>3. n \in P
  BY <1>1, <1>2, NatSetInduction
<1> QED
  BY <1>3 DEF P

Loop(acc, base, s) ==
    /\ DOMAIN acc = 0 .. Len(s)
    /\ acc[0] = base
    /\ \A k \in 1 .. Len(s) : acc[k] = op(acc[k - 1], s[k])

\* FoldLeft() over s is the state of a loop behind the last element: each
\* state comes from the one before it by one call of op.
THEOREM FoldLeftLoop ==
  ASSUME NEW base, NEW S, NEW s \in Seq(S)
  PROVE  \E acc : Loop(acc, base, s) /\ Fold(base, s) = acc[Len(s)]
<1> DEFINE n == Len(s)
<1>0. n \in Nat /\ DOMAIN s = 1 .. n
  OBVIOUS
<1>1. Fold(base, s) = (CHOOSE g : Iter(g, base, s, n))[1 .. n]
  BY <1>0 DEF Fold, FoldLeft, MapThenFoldSet, Max, Iter, Highest
<1> HIDE DEF n
<1>2. PICK g : g = (CHOOSE h : Iter(h, base, s, n))
  OBVIOUS
<1>3. Iter(g, base, s, n)
  BY <1>0, <1>2, IterExists
<1> DEFINE acc == [k \in 0 .. n |-> g[1 .. k]]
<1>4. \A T \in SUBSET (1 .. n) :
        g[T] = IF T = {} THEN base ELSE op(g[T \ {Highest(T)}], s[Highest(T)])
  BY <1>3, Zenon DEF Iter
<1>5. acc[0] = base
  <2>1. 1 .. 0 = {}
    OBVIOUS
  <2>2. {} \in SUBSET (1 .. n)
    OBVIOUS
  <2>3. g[{}] = base
    BY <1>4, <2>2
  <2> QED
    BY <1>0, <2>1, <2>3
<1>6. ASSUME NEW k \in 1 .. n
      PROVE  acc[k] = op(acc[k - 1], s[k])
  <2>1. 1 .. k \in SUBSET (1 .. n) /\ k \in 1 .. k /\ k \in Nat
    BY <1>0
  <2>2. Highest(1 .. k) = k
    <3>1. Highest(1 .. k) \in 1 .. k /\ \A y \in 1 .. k : Highest(1 .. k) >= y
      BY <2>1, HighestIn
    <3> QED
      BY <2>1, <3>1
  <2>3. (1 .. k) \ {k} = 1 .. k - 1
    BY <2>1
  <2>4. g[1 .. k] = op(g[1 .. k - 1], s[k])
    <3>1. 1 .. k # {}
      BY <2>1
    <3> QED
      BY <1>4, <2>1, <2>2, <2>3, <3>1
  <2>5. acc[k] = g[1 .. k] /\ acc[k - 1] = g[1 .. k - 1]
    BY <1>0, <2>1
  <2> QED
    BY <2>4, <2>5
<1>7. Fold(base, s) = acc[n]
  BY <1>0, <1>1, <1>2
<1>8. DOMAIN acc = 0 .. n
  OBVIOUS
<1> HIDE DEF acc
<1>9. Loop(acc, base, s)
  BY <1>5, <1>6, <1>8 DEF n, Loop
<1> QED
  BY <1>7, <1>9 DEF n

Universe(U, base, s) ==
    /\ base \in U
    /\ \A P \in SUBSET U :
         /\ base \in P
         /\ \A k \in 1 .. Len(s) : \A a \in P : op(a, s[k]) \in U => op(a, s[k]) \in P
         => Fold(base, s) \in P

\* What holds of base and stays true in a step over an element of s holds of
\* the result of FoldLeft(): it is in every P that has base and is closed under
\* the steps that stay in U.
THEOREM FoldLeftKeeps ==
  ASSUME NEW base, NEW S, NEW s \in Seq(S)
  PROVE  \E U : Universe(U, base, s)
<1>1. PICK acc : Loop(acc, base, s) /\ Fold(base, s) = acc[Len(s)]
  BY FoldLeftLoop
<1>2. Len(s) \in Nat
  OBVIOUS
<1> DEFINE U == {acc[k] : k \in 0 .. Len(s)}
<1>3. base \in U
  BY <1>1, <1>2 DEF Loop
<1>4. ASSUME NEW P \in SUBSET U, base \in P,
             \A k \in 1 .. Len(s) : \A a \in P : op(a, s[k]) \in U => op(a, s[k]) \in P
      PROVE  Fold(base, s) \in P
  <2> DEFINE T == {n \in Nat : n \in 0 .. Len(s) => acc[n] \in P}
  <2>1. 0 \in T
    BY <1>1, <1>4 DEF Loop
  <2>2. ASSUME NEW n \in Nat, n \in T PROVE n + 1 \in T
    <3> SUFFICES ASSUME n + 1 \in 0 .. Len(s) PROVE acc[n + 1] \in P
      OBVIOUS
    <3>1. n \in 0 .. Len(s) /\ n + 1 \in 1 .. Len(s) /\ n + 1 - 1 = n
      BY <1>2
    <3>2. acc[n] \in P
      BY <2>2, <3>1
    <3>3. acc[n + 1] = op(acc[n], s[n + 1])
      BY <1>1, <3>1 DEF Loop
    <3>4. acc[n + 1] \in U
      BY <3>1
    <3> QED
      BY <1>4, <3>1, <3>2, <3>3, <3>4
  <2>3. Len(s) \in T
    <3> HIDE DEF T
    <3> QED
      BY <1>2, <2>1, <2>2, NatSetInduction
  <2> QED
    BY <1>1, <1>2, <2>3
<1> HIDE DEF U
<1>5. Universe(U, base, s)
  BY <1>3, <1>4 DEF Universe
<1> QED
  BY <1>5

-----------------------------------------------------------------------------
(* FlattenSeq() *)

Flat(f, ss, n) == f = [k \in 1 .. n |-> IF k = 1 THEN ss[k] ELSE f[k - 1] \o ss[k]]

\* One step of FlattenSeq().
LEMMA FlatAt ==
  ASSUME NEW f, NEW ss, NEW n, Flat(f, ss, n), NEW k \in 1 .. n
  PROVE  f[k] = IF k = 1 THEN ss[k] ELSE f[k - 1] \o ss[k]
BY Zenon DEF Flat

\* The recursive function that FlattenSeq() is defined by exists.
LEMMA FlatExists ==
  ASSUME NEW ss, NEW n \in Nat
  PROVE  \E f : Flat(f, ss, n)
<1> DEFINE T == {m \in Nat : \E f : Flat(f, ss, m)}
<1>1. 0 \in T
  <2> DEFINE f == [k \in 1 .. 0 |-> ss[k]]
  <2>1. Flat(f, ss, 0)
    BY DEF Flat
  <2>2. \E g : Flat(g, ss, 0)
    <3> HIDE DEF f
    <3> QED
      BY <2>1
  <2> QED
    BY <2>2
<1>2. ASSUME NEW m \in Nat, m \in T PROVE m + 1 \in T
  <2>1. PICK f : Flat(f, ss, m)
    BY <1>2
  <2> DEFINE h == [k \in 1 .. m + 1 |->
                     IF k <= m THEN f[k] ELSE IF k = 1 THEN ss[k] ELSE f[m] \o ss[k]]
  <2>2. h = [k \in 1 .. m + 1 |-> IF k = 1 THEN ss[k] ELSE h[k - 1] \o ss[k]]
    <3> SUFFICES ASSUME NEW k \in 1 .. m + 1
                 PROVE  h[k] = IF k = 1 THEN ss[k] ELSE h[k - 1] \o ss[k]
      OBVIOUS
    <3>1. CASE k <= m
      <4>1. f[k] = IF k = 1 THEN ss[k] ELSE f[k - 1] \o ss[k]
        BY <2>1, <3>1, FlatAt
      <4> QED
        BY <3>1, <4>1
    <3>2. CASE k = m + 1
      BY <3>2
    <3> QED
      BY <3>1, <3>2
  <2>3. \E g : Flat(g, ss, m + 1)
    <3>1. Flat(h, ss, m + 1)
      BY <2>2 DEF Flat
    <3> HIDE DEF h
    <3> QED
      BY <3>1
  <2> QED
    BY <2>3
<1> HIDE DEF T
<1>3. n \in T
  BY <1>1, <1>2, NatSetInduction
<1> QED
  BY <1>3 DEF T

\* FlattenSeq() of sequences, one after the other.
THEOREM FlattenSeqLoop ==
  ASSUME NEW S, NEW ss \in Seq(Seq(S))
  PROVE  \E g : /\ g[0] = <<>> /\ FlattenSeq(ss) = g[Len(ss)]
                /\ \A k \in 0 .. Len(ss) : g[k] \in Seq(S)
                /\ \A k \in 1 .. Len(ss) : g[k] = g[k - 1] \o ss[k]
<1>1. Len(ss) \in Nat /\ \A k \in 1 .. Len(ss) : ss[k] \in Seq(S)
  OBVIOUS
<1> DEFINE f == CHOOSE h : Flat(h, ss, Len(ss))
           g == [k \in 0 .. Len(ss) |-> IF k = 0 THEN <<>> ELSE f[k]]
<1>2. Flat(f, ss, Len(ss))
  BY <1>1, FlatExists
<1>3. FlattenSeq(ss) = IF Len(ss) = 0 THEN ss ELSE f[Len(ss)]
  BY DEF FlattenSeq, Flat
<1>4. Len(ss) = 0 => ss = <<>>
  OBVIOUS
<1> HIDE DEF f
<1>5. g[0] = <<>> /\ FlattenSeq(ss) = g[Len(ss)]
  BY <1>1, <1>3, <1>4
<1>6. \A k \in 1 .. Len(ss) : g[k] = g[k - 1] \o ss[k]
  <2> SUFFICES ASSUME NEW k \in 1 .. Len(ss) PROVE g[k] = g[k - 1] \o ss[k]
    OBVIOUS
  <2>1. f[k] = IF k = 1 THEN ss[k] ELSE f[k - 1] \o ss[k]
    BY <1>1, <1>2, FlatAt
  <2>2. g[k] = f[k] /\ (k = 1 => g[k - 1] = <<>>) /\ (k # 1 => g[k - 1] = f[k - 1])
    BY <1>1
  <2>3. ss[k] \in Seq(S)
    BY <1>1
  <2> HIDE DEF g
  <2>4. <<>> \o ss[k] = ss[k]
    BY <2>3
  <2> QED
    BY <2>1, <2>2, <2>4
<1>7. PICK h : /\ h[0] = <<>> /\ FlattenSeq(ss) = h[Len(ss)]
               /\ \A k \in 1 .. Len(ss) : h[k] = h[k - 1] \o ss[k]
  <2> HIDE DEF g
  <2> QED
    BY <1>5, <1>6
<1> HIDE DEF g
<1> DEFINE T == {m \in Nat : m \in 0 .. Len(ss) => h[m] \in Seq(S)}
<1>8. 0 \in T
  <2>1. <<>> \in Seq(S)
    OBVIOUS
  <2> QED
    BY <1>7, <2>1
<1>9. ASSUME NEW m \in Nat, m \in T PROVE m + 1 \in T
  <2> SUFFICES ASSUME m + 1 \in 0 .. Len(ss) PROVE h[m + 1] \in Seq(S)
    OBVIOUS
  <2>1. m + 1 \in 1 .. Len(ss) /\ m + 1 - 1 = m
    BY <1>1
  <2>2. h[m + 1] = h[m] \o ss[m + 1]
    <3>1. PICK j : j = m + 1
      OBVIOUS
    <3>2. j \in 1 .. Len(ss) /\ j - 1 = m
      BY <2>1, <3>1
    <3>3. h[j] = h[j - 1] \o ss[j]
      BY <1>7, <3>2, Zenon
    <3> QED
      BY <3>1, <3>2, <3>3
  <2>3. h[m] \in Seq(S) /\ ss[m + 1] \in Seq(S)
    BY <1>1, <1>9, <2>1
  <2> QED
    BY <2>1, <2>2, <2>3
<1>10. Nat \subseteq T
  <2> HIDE DEF T
  <2> QED
    BY <1>8, <1>9, NatSetInduction
<1>11. \A k \in 0 .. Len(ss) : h[k] \in Seq(S)
  BY <1>1, <1>10
<1> QED
  BY <1>7, <1>11, Zenon

\* FlattenSeq() of sequences over S is a sequence over S.
THEOREM FlattenSeqIn ==
  ASSUME NEW S, NEW ss \in Seq(Seq(S))
  PROVE  FlattenSeq(ss) \in Seq(S)
<1>1. PICK g : FlattenSeq(ss) = g[Len(ss)] /\ \A k \in 0 .. Len(ss) : g[k] \in Seq(S)
  BY FlattenSeqLoop
<1>2. Len(ss) \in 0 .. Len(ss)
  OBVIOUS
<1> QED
  BY <1>1, <1>2

=============================================================================
