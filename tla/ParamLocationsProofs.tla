------------------------- MODULE ParamLocationsProofs -------------------------
(***************************************************************************)
(* Two results about every list of parameters on every machine.  What is   *)
(* told at a call site of where a parameter is, whole or a piece of it, is *)
(* what the first expression of its DWARF location means, unless that      *)
(* calculates the value in several operations; and the member it may be    *)
(* replaced with is the one of which there is a piece.  And no fault is    *)
(* found with a function that is called as it was declared, while of one   *)
(* that is known to be changed just the parameters that are still passed   *)
(* go into BTF.                                                            *)
(* The loops of the model are folds; what they go through is taken from    *)
(* FoldLemmas.                                                             *)
(***************************************************************************)
EXTENDS ParamLocations, FiniteSetTheorems, TLAPS

\* The loops of Places(), parameter__multi_exprs() and parameter__decode_location().
Placing == INSTANCE FoldLemmas WITH op <- Place
Piecing == INSTANCE FoldLemmas WITH op <- Piecewise
Decoding == INSTANCE FoldLemmas WITH op <- DecodeLater

\* The two loops of function__analyze_parameter_locations().
Judging == INSTANCE FoldLemmas WITH op <- JudgeNext
Matching == INSTANCE FoldLemmas WITH op <- MatchNext

\* The sizes that types have.
LEMMA Sizes ==
  /\ SizeOf["long"] = 8 /\ SizeOf["int128"] = 16 /\ SizeOf["small"] = 8
  /\ SizeOf["pair"] = 16 /\ SizeOf["big"] = 24
BY DEF SizeOf

\* An argument takes one register or two, two only where that is allowed.
LEMMA WordsOfType ==
  ASSUME machine \in Machines, NEW type \in Types
  PROVE  /\ Words(type) \in {1, 2}
         /\ Words(type) = 2 => SizeOf[type] = 16 /\ arch__agg_use_two_regs
<1>1. machine \in {"x86_64", "aarch64", "s390"}
  BY MachinesAssumption DEF AllMachines
<1>2. /\ 8 \div 8 = 1 /\ 16 \div 8 = 2
  OBVIOUS
<1>3. SizeOf[type] \in {8, 16, 24}
  BY Sizes DEF Types
<1>4. largest_in_regs \in {8, 16} /\ (largest_in_regs = 16 => arch__agg_use_two_regs)
  BY DEF largest_in_regs, addr_size
<1> QED
  BY <1>2, <1>3, <1>4 DEF Words, addr_size

\* The first register for an argument, and whether those it takes are there.
First(next, type) ==
    IF arch__arg_align_two_regs /\ type = "int128" THEN next + (next % 2) ELSE next
Fits(next, type) ==
    /\ type # "none" /\ (SizeOf[type] > largest_in_regs => ByReference)
    /\ First(next, type) + Words(type) <= arch__nr_register_params

\* One more argument: the registers it is in, and the next one after it.
Step(next, after, type, regs) ==
    /\ Fits(next, type) => /\ after = First(next, type) + Words(type)
                           /\ regs = Argument(Words(type), First(next, type))
    /\ ~Fits(next, type) => regs = <<>>
    /\ type = "none" => after = next

\* What Place() does to the registers of the arguments before.
Placed(next, regs, type) ==
    \E m \in Nat : \E r \in Seq(Nat) :
        /\ Place([next |-> next, regs |-> regs], type) = [next |-> m, regs |-> Append(regs, r)]
        /\ Step(next, m, type, r)

\* The first register is a number.
LEMMA FirstIsNat ==
  ASSUME NEW next \in Nat, NEW type
  PROVE  First(next, type) \in Nat
<1>1. next % 2 \in Nat
  OBVIOUS
<1> QED
  BY <1>1 DEF First

\* The place that Place() gives to an argument.
LEMMA PlacedOne ==
  ASSUME machine \in Machines, NEW type \in Types \cup {"none"},
         NEW next \in Nat, NEW regs
  PROVE  Placed(next, regs, type)
<1> USE DEF Placed
<1> DEFINE acc == [next |-> next, regs |-> regs]
           nr == arch__nr_register_params
           first == First(next, type)
<1>1. nr \in Nat
  BY MachinesAssumption DEF AllMachines, arch__nr_register_params
<1>2. first \in Nat
  BY FirstIsNat
<1>3. CASE type = "none" \/ (SizeOf[type] > largest_in_regs /\ ~ByReference)
  <2>1. Place(acc, type) = [next |-> next, regs |-> Append(regs, <<>>)]
    BY <1>3 DEF Place
  <2>2. Step(next, next, type, <<>>)
    BY <1>3 DEF Step, Fits
  <2>3. <<>> \in Seq(Nat)
    OBVIOUS
  <2> QED
    BY <2>1, <2>2, <2>3
<1>4. CASE ~(type = "none" \/ (SizeOf[type] > largest_in_regs /\ ~ByReference))
  <2>1. Words(type) \in {1, 2}
    BY <1>4, WordsOfType
  <2>2. CASE first + Words(type) <= nr
    <3>1. Place(acc, type) = [next |-> first + Words(type),
                              regs |-> Append(regs, Argument(Words(type), first))]
      BY <1>4, <2>2 DEF Place, First
    <3>2. first + Words(type) \in Nat
      BY <1>2, <2>1
    <3>3. Step(next, first + Words(type), type, Argument(Words(type), first))
      BY <1>4, <2>2 DEF Step, Fits
    <3> HIDE DEF first
    <3>4. \A w \in 1 .. Words(type) : first + w - 1 \in Nat
      BY <1>2, <2>1
    <3>5. Argument(Words(type), first) \in Seq(Nat)
      BY <2>1, <3>4 DEF Argument
    <3> QED
      BY <3>1, <3>2, <3>3, <3>5
  <2>3. CASE ~(first + Words(type) <= nr)
    <3>1. Place(acc, type) = [next |-> IF NoBackfill THEN nr ELSE next, regs |-> Append(regs, <<>>)]
      BY <1>4, <2>3 DEF Place, First
    <3>2. <<>> \in Seq(Nat) /\ (IF NoBackfill THEN nr ELSE next) \in Nat
      BY <1>1
    <3>3. ~Fits(next, type) /\ type # "none"
      BY <1>4, <2>3 DEF Fits
    <3>4. Step(next, IF NoBackfill THEN nr ELSE next, type, <<>>)
      BY <3>3 DEF Step
    <3> QED
      BY <3>1, <3>2, <3>4
  <2> QED
    BY <2>2, <2>3
<1> QED
  BY <1>3, <1>4

\* The counter of registers after each argument.
Counts(next, types, regs) ==
    /\ next[0] = 0
    /\ \A k \in 0 .. Len(types) : next[k] \in Nat
    /\ \A k \in 1 .. Len(types) : Step(next[k - 1], next[k], types[k], regs[k])

\* Places() counts the registers that the arguments take.
LEMMA PlacesCount ==
  ASSUME machine \in Machines, NEW types \in Seq(Types \cup {"none"})
  PROVE  /\ \E next : Counts(next, types, Places(types))
         /\ Places(types) \in Seq(Seq(Nat)) /\ Len(Places(types)) = Len(types)
<1> DEFINE base == [next |-> 0, regs |-> <<>>]
           n == Len(types)
<1>1. PICK acc : Placing!Loop(acc, base, types) /\ Placing!Fold(base, types) = acc[n]
  BY Placing!FoldLeftLoop
<1>2. Places(types) = acc[n].regs
  <2>1. Placing!Fold(base, types) = FoldLeft(Place, base, types)
    BY DEF Placing!Fold, FoldLeft, MapThenFoldSet, Max, Placing!FoldLeft, Placing!MapThenFoldSet, Placing!Max
  <2> QED
    BY <1>1, <2>1 DEF Places
<1>3. n \in Nat
  OBVIOUS
<1> DEFINE Good(j) == /\ acc[j] = [next |-> acc[j].next, regs |-> acc[j].regs]
                      /\ acc[j].next \in Nat
                      /\ acc[j].regs \in Seq(Seq(Nat)) /\ Len(acc[j].regs) = j
                      /\ \A x \in 1 .. j : Step(acc[x - 1].next, acc[x].next, types[x], acc[j].regs[x])
           T == {j \in Nat : j <= n => Good(j)}
<1>4. 0 \in T
  <2>1. acc[0] = base
    BY <1>1, <1>3 DEF Placing!Loop
  <2>2. <<>> \in Seq(Seq(Nat)) /\ Len(<<>>) = 0 /\ 0 \in Nat /\ \A x : x \notin 1 .. 0
    OBVIOUS
  <2>3. base.next = 0 /\ base.regs = <<>> /\ base = [next |-> base.next, regs |-> base.regs]
    OBVIOUS
  <2> HIDE DEF base
  <2>4. Good(0)
    BY <2>1, <2>2, <2>3
  <2> HIDE DEF Good
  <2> QED
    BY <2>4
<1>5. ASSUME NEW j \in Nat, j \in T PROVE j + 1 \in T
  <2> SUFFICES ASSUME j + 1 <= n PROVE Good(j + 1)
    <3> HIDE DEF Good, n
    <3> QED
      BY <1>5
  <2>1. Good(j)
    <3> HIDE DEF Good
    <3> QED
      BY <1>3, <1>5
  <2>2. j + 1 \in 1 .. n /\ j + 1 - 1 = j
    BY <1>3
  <2>3. acc[j + 1] = Place(acc[j], types[j + 1])
    BY <1>1, <2>2 DEF Placing!Loop
  <2>4. types[j + 1] \in Types \cup {"none"}
    BY <2>2
  <2>5. PICK m, regs, t : m = acc[j].next /\ regs = acc[j].regs /\ t = types[j + 1]
    OBVIOUS
  <2>6. /\ acc[j] = [next |-> m, regs |-> regs] /\ m \in Nat
        /\ regs \in Seq(Seq(Nat)) /\ Len(regs) = j
        /\ \A x \in 1 .. j : Step(acc[x - 1].next, acc[x].next, types[x], regs[x])
    BY <2>1, <2>5
  <2> HIDE DEF Good, T, base, n
  <2>7. Placed(m, regs, t)
    BY <2>4, <2>5, <2>6, PlacedOne
  <2>8. PICK m2 \in Nat : \E r \in Seq(Nat) :
            /\ acc[j + 1] = [next |-> m2, regs |-> Append(regs, r)]
            /\ Step(m, m2, t, r)
    BY <2>3, <2>5, <2>6, <2>7 DEF Placed
  <2>9. PICK r \in Seq(Nat) : /\ acc[j + 1] = [next |-> m2, regs |-> Append(regs, r)]
                              /\ Step(m, m2, t, r)
    BY <2>8
  <2>10. PICK regs2 : regs2 = Append(regs, r)
    OBVIOUS
  <2>11. /\ regs2 \in Seq(Seq(Nat)) /\ Len(regs2) = j + 1
         /\ regs2[j + 1] = r /\ \A x \in 1 .. j : regs2[x] = regs[x]
    BY <2>6, <2>10
  <2>12. acc[j + 1].next = m2 /\ acc[j + 1].regs = regs2
    BY <2>9, <2>10
  <2>13. Step(acc[j + 1 - 1].next, acc[j + 1].next, types[j + 1], regs2[j + 1])
    BY <2>2, <2>5, <2>9, <2>11, <2>12
  <2>14. ASSUME NEW x \in 1 .. j + 1
         PROVE  Step(acc[x - 1].next, acc[x].next, types[x], regs2[x])
    <3>1. CASE x = j + 1
      BY <2>13, <3>1
    <3>2. CASE x # j + 1
      <4>1. x \in 1 .. j
        BY <3>2
      <4> QED
        BY <2>6, <2>11, <4>1
    <3> QED
      BY <3>1, <3>2
  <2>15. acc[j + 1] = [next |-> acc[j + 1].next, regs |-> acc[j + 1].regs]
    BY <2>9
  <2> QED
    BY <2>11, <2>12, <2>14, <2>15, Zenon DEF Good
<1>6. \A j \in 0 .. n : Good(j)
  <2> HIDE DEF Good
  <2>1. Nat \subseteq T
    <3> HIDE DEF T
    <3> QED
      BY <1>4, <1>5, Placing!NatSetInduction
  <2> QED
    BY <1>3, <2>1
<1> DEFINE next == [j \in 0 .. n |-> acc[j].next]
<1>7. acc[0] = base /\ base.next = 0 /\ 0 \in 0 .. n /\ n \in 0 .. n
  BY <1>1, <1>3 DEF Placing!Loop
<1>8. \A k \in 0 .. n : next[k] \in Nat
  BY <1>6
<1>9. ASSUME NEW k \in 1 .. n PROVE Step(next[k - 1], next[k], types[k], Places(types)[k])
  <2>1. k \in 0 .. n /\ k - 1 \in 0 .. n
    BY <1>3
  <2>2. next[k] = acc[k].next /\ next[k - 1] = acc[k - 1].next
    BY <2>1
  <2>3. Step(acc[k - 1].next, acc[k].next, types[k], acc[n].regs[k])
    BY <1>6, <1>7
  <2> HIDE DEF next
  <2> QED
    BY <1>2, <2>2, <2>3
<1>10. Counts(next, types, Places(types))
  <2>1. next[0] = 0
    BY <1>7
  <2> HIDE DEF next
  <2> QED
    BY <1>8, <1>9, <2>1 DEF Counts
<1>11. Places(types) \in Seq(Seq(Nat)) /\ Len(Places(types)) = Len(types)
  BY <1>2, <1>6, <1>7
<1> QED
  BY <1>10, <1>11

\* Where an argument of a type may be.
InPlace(type, regs) ==
    \/ regs = <<>>
    \/ type # "none" /\ regs \in Seq(Nat) /\ Len(regs) = Words(type)

\* Each argument is where one of its type may be.
LEMMA PlacesAreInPlace ==
  ASSUME machine \in Machines, NEW types \in Seq(Types \cup {"none"}),
         NEW k \in DOMAIN types
  PROVE  InPlace(types[k], Places(types)[k])
<1>1. PICK next : Counts(next, types, Places(types))
  BY PlacesCount
<1>2. Places(types) \in Seq(Seq(Nat)) /\ Len(Places(types)) = Len(types)
  BY PlacesCount
<1>3. PICK t, r, m : t = types[k] /\ r = Places(types)[k] /\ m = next[k - 1]
  OBVIOUS
<1>4. k \in 1 .. Len(types) /\ t \in Types \cup {"none"} /\ r \in Seq(Nat)
  BY <1>2, <1>3
<1>5. Step(m, next[k], t, r)
  BY <1>1, <1>3, <1>4 DEF Counts
<1>6. CASE Fits(m, t)
  <2>1. r = Argument(Words(t), First(m, t)) /\ t # "none" /\ t \in Types
    BY <1>4, <1>5, <1>6 DEF Step, Fits
  <2>2. Words(t) \in {1, 2}
    BY <2>1, WordsOfType
  <2>3. DOMAIN r = 1 .. Words(t)
    BY <2>1 DEF Argument
  <2>4. Len(r) = Words(t)
    BY <1>4, <2>2, <2>3
  <2> QED
    BY <1>3, <1>4, <2>1, <2>4 DEF InPlace
<1>7. CASE ~Fits(m, t)
  BY <1>3, <1>5, <1>7 DEF Step, InPlace
<1> QED
  BY <1>6, <1>7

\* So is what is passed for a parameter.
LEMMA RealPlaceIsInPlace ==
  ASSUME machine \in Machines, source \in Sources, NEW k \in DOMAIN source
  PROVE  InPlace(Passed(source[k]), RealPlace(k))
<1> DEFINE types == [j \in DOMAIN source |-> Passed(source[j])]
           Parameter == [type : Types, fate : STRING]
<1>1. source \in Seq(Parameter)
  BY SourcesAssumption
<1>2. \A j \in DOMAIN source : source[j].type \in Types
  <2>1. \A j \in DOMAIN source : source[j] \in Parameter
    <3> HIDE DEF Parameter
    <3> QED
      BY <1>1
  <2> QED
    BY <2>1
<1> HIDE DEF Parameter
<1>3. \A j \in DOMAIN source : Passed(source[j]) \in Types \cup {"none"}
  BY <1>2 DEF Passed, Types
<1>4. types \in Seq(Types \cup {"none"}) /\ DOMAIN types = DOMAIN source
  BY <1>1, <1>3
<1>5. types[k] = Passed(source[k])
  OBVIOUS
<1>6. RealPlace(k) = Places(types)[k]
  BY DEF RealPlace
<1> HIDE DEF types
<1> QED
  BY <1>4, <1>5, <1>6, PlacesAreInPlace

-----------------------------------------------------------------------------
(* One expression                                                          *)

\* The expressions that say where the whole of a parameter of a type is.
Explicit(m, type, e) ==
    \/ e = <<Fbreg>>
    \/ type = "long" /\ e = <<op("lit", -1, 1), StackValue>>
    \/ \E r \in Nat :
          \/ e = <<Reg(r)>>
          \/ e = <<Breg(r, 0)>>
          \/ e = <<op("entry", r, 0), StackValue>>
          \/ e = <<Breg(r, 8), StackValue>>
          \/ e = <<Breg(r, 8), op("deref", -1, 0), StackValue>>
    \/ \E r \in Nat : \E r2 \in Nat :
          /\ SizeOf[type] = 16 /\ m # "s390"
          /\ e = <<Reg(r), Piece(8), Reg(r2), Piece(8)>>

\* The fields of a parameter that add_loc_param() reads, and the one that
\* parameter__finish_piece_decode() sets.
ToldFrom == {"size", "has_const", "loc_reg", "loc_reg2", "loc_offset", "loc_deref",
             "loc_stack", "loc_const", "loc_value"}
Tells(p, what) == ToldFrom \subseteq DOMAIN p /\ add_loc_param(p) \in {<<>>} \cup what

\* The last element and what is before it.
LEMMA LastOfTwo ==
  ASSUME NEW a, NEW b
  PROVE  Last(<<a, b>>) = b /\ Front(<<a, b>>) = <<a>>
<1> DEFINE s == <<a, b>>
<1>1. s \in Seq({a, b}) /\ Len(s) = 2 /\ s[1] = a /\ s[2] = b
  OBVIOUS
<1> HIDE DEF s
<1>2. Front(s) \in Seq({a, b}) /\ Len(Front(s)) = 1 /\ Front(s)[1] = a
  BY <1>1 DEF Front
<1> QED
  BY <1>1, <1>2 DEF s, Last

\* The same of three.
LEMMA LastOfThree ==
  ASSUME NEW a, NEW b, NEW c
  PROVE  Last(<<a, b, c>>) = c /\ Front(<<a, b, c>>) = <<a, b>>
<1> DEFINE s == <<a, b, c>>
<1>1. s \in Seq({a, b, c}) /\ Len(s) = 3 /\ s[1] = a /\ s[2] = b /\ s[3] = c
  OBVIOUS
<1> HIDE DEF s
<1>2. Front(s) \in Seq({a, b, c}) /\ Len(Front(s)) = 2 /\ Front(s)[1] = a /\ Front(s)[2] = b
  BY <1>1 DEF Front
<1> QED
  BY <1>1, <1>2 DEF s, Last

\* An expression of one operation, of one that computes a value, and of one
\* that computes where the value is.
LEMMA DecodeSingle ==
  ASSUME NEW p, NEW first_loc, NEW o, o.atom \notin {"stack_value", "deref"}
  PROVE  /\ DecodeExpr(p, first_loc, <<o>>) = SingleExpr(p, first_loc, o, FALSE, FALSE)
         /\ DecodeExpr(p, first_loc, <<o, StackValue>>) = SingleExpr(p, first_loc, o, TRUE, FALSE)
         /\ DecodeExpr(p, first_loc, <<o, op("deref", -1, 0), StackValue>>)
              = SingleExpr(p, first_loc, o, TRUE, TRUE)
<1>1. StackValue.atom = "stack_value" /\ op("deref", -1, 0).atom = "deref"
  BY DEF StackValue, op
<1>2. PICK sv, deref : sv = StackValue /\ deref = op("deref", -1, 0)
  OBVIOUS
<1>3. sv.atom = "stack_value" /\ deref.atom = "deref"
  BY <1>1, <1>2
<1>4. \A a : <<a>> # <<>> /\ ~(Len(<<a>>) > 1) /\ <<a>>[1] = a
  OBVIOUS
<1>5. \A a, b : <<a, b>> # <<>>
  OBVIOUS
<1>6. DecodeExpr(p, first_loc, <<o>>) = SingleExpr(p, first_loc, o, FALSE, FALSE)
  <2>1. PICK one : one = <<o>>
    OBVIOUS
  <2>2. one # <<>> /\ ~(Len(one) > 1) /\ one[1] = o /\ Last(one) = o
    BY <1>4, <2>1 DEF Last
  <2>3. DecodeExpr(p, first_loc, one) = SingleExpr(p, first_loc, o, FALSE, FALSE)
    BY <2>2 DEF DecodeExpr
  <2> QED
    BY <2>1, <2>3
<1>7. DecodeExpr(p, first_loc, <<o, sv>>) = SingleExpr(p, first_loc, o, TRUE, FALSE)
  <2>1. PICK one, two : one = <<o>> /\ two = <<o, sv>>
    OBVIOUS
  <2>2. one # <<>> /\ ~(Len(one) > 1) /\ one[1] = o /\ Last(one) = o
    BY <1>4, <2>1 DEF Last
  <2>3. Last(two) = sv /\ Front(two) = one
    BY <2>1, LastOfTwo
  <2>4. DecodeExpr(p, first_loc, two) = SingleExpr(p, first_loc, o, TRUE, FALSE)
    BY <1>3, <2>2, <2>3 DEF DecodeExpr
  <2> QED
    BY <2>1, <2>4
<1>8. DecodeExpr(p, first_loc, <<o, deref, sv>>) = SingleExpr(p, first_loc, o, TRUE, TRUE)
  <2>1. PICK one, two, three : one = <<o>> /\ two = <<o, deref>> /\ three = <<o, deref, sv>>
    OBVIOUS
  <2>2. one # <<>> /\ ~(Len(one) > 1) /\ one[1] = o /\ two # <<>>
    BY <1>4, <1>5, <2>1
  <2>3. Last(two) = deref /\ Front(two) = one
    BY <2>1, LastOfTwo
  <2>4. Last(three) = sv /\ Front(three) = two
    BY <2>1, LastOfThree
  <2>5. DecodeExpr(p, first_loc, three) = SingleExpr(p, first_loc, o, TRUE, TRUE)
    BY <1>3, <2>2, <2>3, <2>4 DEF DecodeExpr
  <2> QED
    BY <2>1, <2>5
<1> QED
  BY <1>2, <1>6, <1>7, <1>8

\* A parameter before its location is decoded.
LEMMA FreshFields ==
  ASSUME NEW d
  PROVE  LET p == NewParameter(d)
         IN /\ ToldFrom \subseteq DOMAIN p
            /\ p.size = SizeOf[d.type] /\ p.has_const = d.const
            /\ p.loc_reg = NoReg /\ p.loc_reg2 = NoReg
            /\ p.loc_stack = FALSE /\ p.loc_const = FALSE
            /\ p.loc_value = IF d.const THEN 1 ELSE 0
BY DEF NewParameter, ToldFrom

\* What add_loc_param() tells, by what was recorded.
LEMMA ToldForms ==
  ASSUME NEW q, ToldFrom \subseteq DOMAIN q
  PROVE  /\ (q.loc_const \/ q.has_const) /\ ~(q.size > addr_size)
              => Tells(q, {<<"const", -1, q.loc_value>>})
         /\ ~q.loc_const /\ ~q.has_const /\ q.loc_reg # NoReg /\ q.loc_reg2 # NoReg
              => Tells(q, {<<"pair", q.loc_reg, q.loc_reg2>>})
         /\ ~q.loc_const /\ ~q.has_const /\ q.loc_reg # NoReg /\ q.loc_reg2 = NoReg
              => Tells(q, {<<IF q.loc_deref THEN "memory" ELSE "value", q.loc_reg, q.loc_offset>>})
         /\ ~q.loc_const /\ ~q.has_const /\ q.loc_reg = NoReg /\ q.loc_stack
              => Tells(q, {<<IF q.loc_deref THEN "memory" ELSE "value", -1, q.loc_offset>>})
         /\ ~q.loc_const /\ ~q.has_const /\ q.loc_reg = NoReg /\ ~q.loc_stack
              => add_loc_param(q) = <<>> /\ \A what : Tells(q, what)
<1>1. SUFFICES
         /\ (q.loc_const \/ q.has_const) /\ ~(q.size > addr_size)
              => add_loc_param(q) = <<"const", -1, q.loc_value>>
         /\ ~q.loc_const /\ ~q.has_const /\ q.loc_reg # NoReg /\ q.loc_reg2 # NoReg
              => add_loc_param(q) = <<"pair", q.loc_reg, q.loc_reg2>>
         /\ ~q.loc_const /\ ~q.has_const /\ q.loc_reg # NoReg /\ q.loc_reg2 = NoReg
              => add_loc_param(q) =
                   <<IF q.loc_deref THEN "memory" ELSE "value", q.loc_reg, q.loc_offset>>
         /\ ~q.loc_const /\ ~q.has_const /\ q.loc_reg = NoReg /\ q.loc_stack
              => add_loc_param(q) =
                   <<IF q.loc_deref THEN "memory" ELSE "value", -1, q.loc_offset>>
         /\ ~q.loc_const /\ ~q.has_const /\ q.loc_reg = NoReg /\ ~q.loc_stack
              => add_loc_param(q) = <<>>
  BY DEF Tells
<1>3. CASE q.loc_const \/ q.has_const
  BY <1>3, Zenon DEF add_loc_param
<1>4. CASE ~q.loc_const /\ ~q.has_const /\ q.loc_reg # NoReg
  BY <1>4, Zenon DEF add_loc_param
<1>5. CASE ~q.loc_const /\ ~q.has_const /\ q.loc_reg = NoReg
  BY <1>5, Zenon DEF add_loc_param
<1> QED
  BY <1>3, <1>4, <1>5

\* What an expression means, and where its pieces are, by its operations.
LEMMA MeaningByAtoms ==
  ASSUME NEW e, NEW atoms, atoms = Atoms(e)
  PROVE  /\ atoms = <<"reg">> => Meaning(e) = {<<"value", e[1].reg, 0>>}
         /\ atoms = <<"reg", "piece">> => Meaning(e) = {<<"value", e[1].reg, 0>>}
         /\ atoms = <<"entry", "stack_value">> => Meaning(e) = {<<"value", e[1].reg, 0>>}
         /\ atoms = <<"piece", "reg", "piece">> => Meaning(e) = {<<"value", e[2].reg, 0>>}
         /\ atoms = <<"reg", "piece", "reg", "piece">>
              => Meaning(e) = {<<"pair", e[1].reg, e[3].reg>>}
         /\ atoms = <<"lit", "stack_value">> => Meaning(e) = {<<"const", -1, e[1].n>>}
         /\ atoms = <<"breg", "stack_value">> => Meaning(e) = {<<"value", e[1].reg, e[1].n>>}
         /\ atoms = <<"breg">> => Meaning(e) = {<<"memory", e[1].reg, e[1].n>>}
         /\ atoms = <<"fbreg">> => Meaning(e) = {<<"memory", e[1].reg, e[1].n>>}
         /\ atoms = <<"breg", "deref", "stack_value">>
              => Meaning(e) = {<<"memory", e[1].reg, e[1].n>>}
BY DEF Meaning

\* Where the pieces are that an expression names, by its operations.
LEMMA PiecesByAtoms ==
  ASSUME NEW e, NEW atoms, atoms = Atoms(e)
  PROVE  /\ atoms = <<"reg", "piece">> => PieceOffsets(e) = {0}
         /\ atoms = <<"fbreg", "piece">> => PieceOffsets(e) = {0}
         /\ atoms = <<"piece", "reg", "piece">> => PieceOffsets(e) = {e[1].n}
         /\ atoms = <<"piece", "fbreg", "piece">> => PieceOffsets(e) = {e[1].n}
         /\ atoms = <<"reg", "piece", "reg", "piece">> => PieceOffsets(e) = {0, e[2].n}
         /\ atoms \in {<<"reg">>, <<"breg">>, <<"fbreg">>, <<"entry", "stack_value">>,
                       <<"lit", "stack_value">>, <<"breg", "stack_value">>,
                       <<"breg", "deref", "stack_value">>} => PieceOffsets(e) = {}
BY DEF PieceOffsets

\* A parameter on the stack.
LEMMA SingleFbreg ==
  ASSUME NEW d, d.type \in Types, d.const = FALSE
  PROVE  Tells(DecodeExpr(NewParameter(d), TRUE, <<Fbreg>>), Meaning(<<Fbreg>>))
<1> DEFINE p == NewParameter(d)
           e == <<Fbreg>>
<1>1. DecodeExpr(p, TRUE, e) = SingleExpr(p, TRUE, Fbreg, FALSE, FALSE)
  <2>1. Fbreg.atom \notin {"stack_value", "deref"}
    BY DEF Fbreg, op
  <2> QED
    BY <2>1, DecodeSingle
<1>2. Meaning(e) = {<<"memory", -1, 16>>}
  <2>1. Atoms(e) = <<"fbreg">> /\ e[1].reg = -1 /\ e[1].n = 16
    BY DEF Atoms, Fbreg, op
  <2> QED
    BY <2>1, MeaningByAtoms
<1>3. /\ ToldFrom \subseteq DOMAIN p /\ p.has_const = FALSE /\ p.loc_reg = NoReg
      /\ p.loc_stack = FALSE /\ p.loc_const = FALSE
  BY FreshFields
<1> HIDE DEF p, e
<1>4. CASE parameter__loc_size(p) # 0
  <2> DEFINE q == [p EXCEPT !.loc_stack = TRUE, !.loc_offset = 16, !.loc_deref = TRUE]
  <2>1. SingleExpr(p, TRUE, Fbreg, FALSE, FALSE) = q
    BY <1>4 DEF SingleExpr, Fbreg, op, Deref
  <2>2. /\ ToldFrom \subseteq DOMAIN q /\ q.has_const = FALSE /\ q.loc_reg = NoReg
        /\ q.loc_stack = TRUE /\ q.loc_const = FALSE /\ q.loc_offset = 16 /\ q.loc_deref = TRUE
    BY <1>3 DEF ToldFrom
  <2> HIDE DEF q
  <2>3. Tells(q, {<<"memory", -1, 16>>})
    BY <2>2, ToldForms
  <2> QED
    BY <1>1, <1>2, <2>1, <2>3 DEF p, e
<1>5. CASE parameter__loc_size(p) = 0
  <2>1. SingleExpr(p, TRUE, Fbreg, FALSE, FALSE) = p
    BY <1>5 DEF SingleExpr, Fbreg, op
  <2>2. Tells(p, Meaning(e))
    BY <1>3, ToldForms
  <2> QED
    BY <1>1, <2>1, <2>2 DEF p, e
<1> QED
  BY <1>4, <1>5

\* What is told when a register is recorded first.
LEMMA RegisterTold ==
  ASSUME NEW d, d.type \in Types, d.const = FALSE,
         NEW r \in Nat, NEW offset, NEW deref \in BOOLEAN,
         NEW kind, kind = IF deref THEN "memory" ELSE "value"
  PROVE  Tells(parameter__record_loc_reg(NewParameter(d), r, offset, deref),
               {<<kind, r, offset>>})
<1> DEFINE p == NewParameter(d)
<1>1. r # NoReg
  BY DEF NoReg
<1>2. /\ ToldFrom \subseteq DOMAIN p /\ p.has_const = FALSE /\ p.loc_reg = NoReg
      /\ p.loc_reg2 = NoReg /\ p.loc_stack = FALSE /\ p.loc_const = FALSE
  BY FreshFields
<1> HIDE DEF p
<1>3. CASE parameter__loc_size(p) # 0
  <2> DEFINE q == [p EXCEPT !.loc_reg = r, !.loc_offset = offset, !.loc_deref = deref]
  <2>1. parameter__record_loc_reg(p, r, offset, deref) = q
    BY <1>2, <1>3 DEF parameter__record_loc_reg
  <2>2. /\ ToldFrom \subseteq DOMAIN q /\ q.has_const = FALSE /\ q.loc_reg = r
        /\ q.loc_reg2 = NoReg /\ q.loc_const = FALSE /\ q.loc_offset = offset
        /\ q.loc_deref = deref
    BY <1>2 DEF ToldFrom
  <2> HIDE DEF q
  <2>3. Tells(q, {<<IF q.loc_deref THEN "memory" ELSE "value", q.loc_reg, q.loc_offset>>})
    BY <1>1, <2>2, ToldForms
  <2>4. Tells(q, {<<kind, r, offset>>})
    BY <2>2, <2>3
  <2> QED
    BY <2>1, <2>4 DEF p
<1>4. CASE parameter__loc_size(p) = 0
  <2>1. parameter__record_loc_reg(p, r, offset, deref) = p
    BY <1>4 DEF parameter__record_loc_reg
  <2>2. \A what : Tells(p, what)
    BY <1>2, ToldForms
  <2> QED
    BY <2>1, <2>2 DEF p
<1> QED
  BY <1>3, <1>4

\* A parameter that is a constant.
LEMMA SingleLit ==
  ASSUME NEW d, d.type = "long", d.const = FALSE
  PROVE  LET e == <<op("lit", -1, 1), StackValue>>
         IN Tells(DecodeExpr(NewParameter(d), TRUE, e), Meaning(e))
<1> DEFINE p == NewParameter(d)
           lit == op("lit", -1, 1)
           e == <<lit, StackValue>>
<1>1. DecodeExpr(p, TRUE, e) = SingleExpr(p, TRUE, lit, TRUE, FALSE)
  <2>1. lit.atom \notin {"stack_value", "deref"}
    BY DEF op
  <2> QED
    BY <2>1, DecodeSingle
<1>2. Meaning(e) = {<<"const", -1, 1>>}
  <2>1. Atoms(e) = <<"lit", "stack_value">> /\ e[1].n = 1
    BY DEF Atoms, StackValue, op
  <2> QED
    BY <2>1, MeaningByAtoms
<1>3. /\ ToldFrom \subseteq DOMAIN p /\ p.size = 8
  BY FreshFields, Sizes
<1> HIDE DEF p, e
<1> DEFINE q == [p EXCEPT !.loc_const = TRUE, !.loc_value = 1]
<1>4. SingleExpr(p, TRUE, lit, TRUE, FALSE) = q
  BY <1>3 DEF SingleExpr, op, parameter__record_loc_const, parameter__loc_size
<1>5. /\ ToldFrom \subseteq DOMAIN q /\ ~(q.size > addr_size) /\ q.loc_const = TRUE
      /\ q.loc_value = 1
  BY <1>3 DEF ToldFrom, addr_size
<1> HIDE DEF q
<1>6. Tells(q, {<<"const", -1, 1>>})
  BY <1>5, ToldForms
<1> QED
  BY <1>1, <1>2, <1>4, <1>6 DEF p, e

\* A parameter in one register, pointed to by one, or computed from one.
LEMMA SingleRegister ==
  ASSUME NEW d, d.type \in Types, d.const = FALSE, NEW r \in Nat
  PROVE  /\ LET e == <<Reg(r)>>
            IN Tells(DecodeExpr(NewParameter(d), TRUE, e), Meaning(e))
         /\ LET e == <<Breg(r, 0)>>
            IN Tells(DecodeExpr(NewParameter(d), TRUE, e), Meaning(e))
         /\ LET e == <<op("entry", r, 0), StackValue>>
            IN Tells(DecodeExpr(NewParameter(d), TRUE, e), Meaning(e))
         /\ LET e == <<Breg(r, 8), StackValue>>
            IN Tells(DecodeExpr(NewParameter(d), TRUE, e), Meaning(e))
         /\ LET e == <<Breg(r, 8), op("deref", -1, 0), StackValue>>
            IN Tells(DecodeExpr(NewParameter(d), TRUE, e), Meaning(e))
<1> DEFINE p == NewParameter(d)
<1>1. LET e == <<Reg(r)>> IN Tells(DecodeExpr(p, TRUE, e), Meaning(e))
  <2> DEFINE e == <<Reg(r)>>
  <2>1. DecodeExpr(p, TRUE, e) = SingleExpr(p, TRUE, Reg(r), FALSE, FALSE)
    <3>1. Reg(r).atom \notin {"stack_value", "deref"}
      BY DEF Reg, op
    <3> QED
      BY <3>1, DecodeSingle
  <2>2. SingleExpr(p, TRUE, Reg(r), FALSE, FALSE) = parameter__record_loc_reg(p, r, 0, FALSE)
    BY DEF SingleExpr, Reg, op
  <2>3. Meaning(e) = {<<"value", r, 0>>}
    <3>1. Atoms(e) = <<"reg">> /\ e[1].reg = r
      BY DEF Atoms, Reg, op
    <3> QED
      BY <3>1, MeaningByAtoms
  <2> HIDE DEF e, p
  <2> QED
    BY <2>1, <2>2, <2>3, RegisterTold DEF p, e
<1>2. LET e == <<Breg(r, 0)>> IN Tells(DecodeExpr(p, TRUE, e), Meaning(e))
  <2> DEFINE e == <<Breg(r, 0)>>
  <2>1. DecodeExpr(p, TRUE, e) = SingleExpr(p, TRUE, Breg(r, 0), FALSE, FALSE)
    <3>1. Breg(r, 0).atom \notin {"stack_value", "deref"}
      BY DEF Breg, op
    <3> QED
      BY <3>1, DecodeSingle
  <2>2. SingleExpr(p, TRUE, Breg(r, 0), FALSE, FALSE) = parameter__record_loc_reg(p, r, 0, TRUE)
    BY DEF SingleExpr, Breg, op, Deref
  <2>3. Meaning(e) = {<<"memory", r, 0>>}
    <3>1. Atoms(e) = <<"breg">> /\ e[1].reg = r /\ e[1].n = 0
      BY DEF Atoms, Breg, op
    <3> QED
      BY <3>1, MeaningByAtoms
  <2> HIDE DEF e, p
  <2> QED
    BY <2>1, <2>2, <2>3, RegisterTold DEF p, e
<1>3. LET e == <<op("entry", r, 0), StackValue>> IN Tells(DecodeExpr(p, TRUE, e), Meaning(e))
  <2> DEFINE o == op("entry", r, 0)
             e == <<o, StackValue>>
  <2>1. DecodeExpr(p, TRUE, e) = SingleExpr(p, TRUE, o, TRUE, FALSE)
    <3>1. o.atom \notin {"stack_value", "deref"}
      BY DEF op
    <3> QED
      BY <3>1, DecodeSingle
  <2>2. SingleExpr(p, TRUE, o, TRUE, FALSE) = parameter__record_loc_reg(p, r, 0, FALSE)
    BY DEF SingleExpr, op
  <2>3. Meaning(e) = {<<"value", r, 0>>}
    <3>1. Atoms(e) = <<"entry", "stack_value">> /\ e[1].reg = r
      BY DEF Atoms, StackValue, op
    <3> QED
      BY <3>1, MeaningByAtoms
  <2> HIDE DEF e, p
  <2> QED
    BY <2>1, <2>2, <2>3, RegisterTold DEF p, e
<1>4. LET e == <<Breg(r, 8), StackValue>> IN Tells(DecodeExpr(p, TRUE, e), Meaning(e))
  <2> DEFINE o == Breg(r, 8)
             e == <<o, StackValue>>
  <2>1. DecodeExpr(p, TRUE, e) = SingleExpr(p, TRUE, o, TRUE, FALSE)
    <3>1. o.atom \notin {"stack_value", "deref"}
      BY DEF Breg, op
    <3> QED
      BY <3>1, DecodeSingle
  <2>2. SingleExpr(p, TRUE, o, TRUE, FALSE) = parameter__record_loc_reg(p, r, 8, FALSE)
    BY DEF SingleExpr, Breg, op, Deref
  <2>3. Meaning(e) = {<<"value", r, 8>>}
    <3>1. Atoms(e) = <<"breg", "stack_value">> /\ e[1].reg = r /\ e[1].n = 8
      BY DEF Atoms, Breg, StackValue, op
    <3> QED
      BY <3>1, MeaningByAtoms
  <2> HIDE DEF e, p
  <2>4. Tells(parameter__record_loc_reg(p, r, 8, FALSE), {<<"value", r, 8>>})
    BY RegisterTold DEF p
  <2>5. Tells(DecodeExpr(p, TRUE, e), Meaning(e))
    BY <2>1, <2>2, <2>3, <2>4
  <2> QED
    BY <2>5 DEF e
<1>5. LET e == <<Breg(r, 8), op("deref", -1, 0), StackValue>>
      IN Tells(DecodeExpr(p, TRUE, e), Meaning(e))
  <2> DEFINE o == Breg(r, 8)
             deref == op("deref", -1, 0)
             e == <<o, deref, StackValue>>
  <2>1. DecodeExpr(p, TRUE, e) = SingleExpr(p, TRUE, o, TRUE, TRUE)
    <3>1. o.atom \notin {"stack_value", "deref"}
      BY DEF Breg, op
    <3> QED
      BY <3>1, DecodeSingle
  <2>2. SingleExpr(p, TRUE, o, TRUE, TRUE) = parameter__record_loc_reg(p, r, 8, TRUE)
    BY DEF SingleExpr, Breg, op, Deref
  <2>3. Meaning(e) = {<<"memory", r, 8>>}
    <3>1. /\ Atoms(e) = <<"breg", "deref", "stack_value">>
          /\ e[1].reg = r /\ e[1].n = 8
      BY DEF Atoms, Breg, StackValue, op
    <3> QED
      BY <3>1, MeaningByAtoms
  <2> HIDE DEF e, p
  <2>4. Tells(parameter__record_loc_reg(p, r, 8, TRUE), {<<"memory", r, 8>>})
    BY RegisterTold DEF p
  <2>5. Tells(DecodeExpr(p, TRUE, e), Meaning(e))
    BY <2>1, <2>2, <2>3, <2>4
  <2> QED
    BY <2>5 DEF e
<1> QED
  BY <1>1, <1>2, <1>3, <1>4, <1>5

\* A second register of two.
LEMMA AppendSecond ==
  ASSUME NEW r \in Nat, NEW r2 \in Nat
  PROVE  Append(<<r>>, r2) = <<r, r2>>
<1>1. PICK s, j : s = <<r>> /\ j = 1
  OBVIOUS
<1>2. s \in Seq(Nat) /\ Len(s) = j /\ s[j] = r
  BY <1>1
<1>3. /\ Append(s, r2) \in Seq(Nat) /\ Len(Append(s, r2)) = j + 1
      /\ Append(s, r2)[j + 1] = r2 /\ \A x \in 1 .. j : Append(s, r2)[x] = s[x]
  BY <1>2
<1>4. PICK t : t = Append(s, r2)
  OBVIOUS
<1>5. t \in Seq(Nat) /\ Len(t) = 2 /\ t[1] = r /\ t[2] = r2
  BY <1>1, <1>2, <1>3, <1>4
<1>6. t = <<r, r2>>
  BY <1>5
<1> QED
  BY <1>1, <1>4, <1>6

\* One operation of an expression of pieces.
LEMMA PieceOfRegister ==
  ASSUME NEW acc, NEW o, o.atom = "piece", o.n = 8, acc.last = "reg", acc.regs_only
  PROVE  LET next == Piecewise(acc, o)
         IN /\ next.p = Field(acc.p, acc.off) /\ next.off = acc.off + 8 /\ next.regs = acc.regs
            /\ next.last = "piece" /\ next.size = acc.size + 8 /\ next.regs_only
BY DEF Piecewise

\* The register of the piece that follows.
LEMMA RegisterOfPieces ==
  ASSUME NEW acc, NEW o, o.atom = "reg", acc.regs_only
  PROVE  LET next == Piecewise(acc, o)
         IN /\ next.p = IF acc.off < addr_size \/ acc.p.loc_reg = NoReg
                        THEN parameter__record_loc_reg(acc.p, o.reg, 0, FALSE) ELSE acc.p
            /\ next.off = acc.off /\ next.regs = Append(acc.regs, o.reg)
            /\ next.last = "reg" /\ next.size = acc.size /\ next.regs_only
BY DEF Piecewise

\* What is recorded of a parameter that is in two registers.
TwoPieces(p, r, r2) ==
    LET p1 == [p EXCEPT !.loc_reg = r, !.loc_offset = 0, !.loc_deref = FALSE]
        p2 == [p1 EXCEPT !.first = @ \cup {0}]
        p4 == [p2 EXCEPT !.second = @ \cup {8 - addr_size}]
    IN parameter__record_loc_reg_pair(p4, r, r2)

\* Decoding two pieces, each in a register.
LEMMA PiecesDecoded ==
  ASSUME arch__agg_use_two_regs, NEW d, SizeOf[d.type] = 16,
         NEW r \in Nat, NEW r2 \in Nat
  PROVE  LET e == <<Reg(r), Piece(8), Reg(r2), Piece(8)>>
         IN DecodeExpr(NewParameter(d), TRUE, e) = TwoPieces(NewParameter(d), r, r2)
<1> DEFINE p == NewParameter(d)
           e == <<Reg(r), Piece(8), Reg(r2), Piece(8)>>
           base == [p |-> p, off |-> 0, regs |-> <<>>, size |-> 0,
                    regs_only |-> TRUE, last |-> "none"]
<1>1. /\ ToldFrom \subseteq DOMAIN p /\ p.size = 16 /\ p.loc_reg = NoReg
      /\ p.loc_reg2 = NoReg
  BY FreshFields
<1>2. "first" \in DOMAIN p /\ "second" \in DOMAIN p
  BY DEF NewParameter
<1>3. PICK a, b, c : /\ a = Reg(r) /\ b = Piece(8) /\ c = Reg(r2)
                     /\ a.atom = "reg" /\ a.reg = r /\ b.atom = "piece" /\ b.n = 8
                     /\ c.atom = "reg" /\ c.reg = r2
  <2>1. /\ Reg(r).atom = "reg" /\ Reg(r).reg = r /\ Piece(8).atom = "piece" /\ Piece(8).n = 8
        /\ Reg(r2).atom = "reg" /\ Reg(r2).reg = r2
    BY DEF Reg, Piece, op
  <2> QED
    BY <2>1
<1>4. e = <<a, b, c, b>>
  BY <1>3
<1> HIDE DEF p, e
<1>5. /\ e \in Seq({a, b, c}) /\ Len(e) = 4 /\ e # <<>>
      /\ e[1] = a /\ e[2] = b /\ e[3] = c /\ e[4] = b
  BY <1>4
<1>6. DecodeExpr(p, TRUE, e) = Pieces(p, TRUE, e)
  <2>1. Last(e).atom = "piece"
    BY <1>3, <1>5 DEF Last
  <2>2. Len(e) > 1 /\ p.size > addr_size
    BY <1>1, <1>5 DEF addr_size
  <2>3. DecodeExpr(p, TRUE, e) = parameter__multi_exprs(p, TRUE, e)
    BY <1>5, <2>1, <2>2 DEF DecodeExpr
  <2>4. parameter__multi_exprs(p, TRUE, e) = Pieces(p, TRUE, e)
    BY <1>3, <1>5, <2>2 DEF parameter__multi_exprs
  <2> QED
    BY <2>3, <2>4
<1>7. PICK acc : Piecing!Loop(acc, base, e) /\ Piecing!Fold(base, e) = acc[4]
  BY <1>5, Piecing!FoldLeftLoop
<1>8. FoldLeft(Piecewise, base, e) = acc[4]
  <2>1. Piecing!Fold(base, e) = FoldLeft(Piecewise, base, e)
    BY DEF Piecing!Fold, FoldLeft, MapThenFoldSet, Max, Piecing!FoldLeft, Piecing!MapThenFoldSet, Piecing!Max
  <2> QED
    BY <1>7, <2>1
<1>9. /\ acc[0] = base
      /\ acc[1] = Piecewise(acc[0], a) /\ acc[2] = Piecewise(acc[1], b)
      /\ acc[3] = Piecewise(acc[2], c) /\ acc[4] = Piecewise(acc[3], b)
  <2>1. /\ 1 \in 1 .. 4 /\ 2 \in 1 .. 4 /\ 3 \in 1 .. 4 /\ 4 \in 1 .. 4
        /\ 1 - 1 = 0 /\ 2 - 1 = 1 /\ 3 - 1 = 2 /\ 4 - 1 = 3
    OBVIOUS
  <2>2. acc[0] = base /\ \A k \in 1 .. 4 : acc[k] = Piecewise(acc[k - 1], e[k])
    BY <1>5, <1>7 DEF Piecing!Loop
  <2>3. acc[1] = Piecewise(acc[1 - 1], e[1]) /\ acc[2] = Piecewise(acc[2 - 1], e[2])
    BY <2>1, <2>2
  <2>4. acc[3] = Piecewise(acc[3 - 1], e[3]) /\ acc[4] = Piecewise(acc[4 - 1], e[4])
    BY <2>1, <2>2
  <2> QED
    BY <1>5, <2>1, <2>2, <2>3, <2>4
<1> DEFINE p1 == [p EXCEPT !.loc_reg = r, !.loc_offset = 0, !.loc_deref = FALSE]
           p2 == [p1 EXCEPT !.first = @ \cup {0}]
           p4 == [p2 EXCEPT !.second = @ \cup {8 - addr_size}]
<1> DEFINE Is(k, q, off, regs, size, last) ==
              /\ acc[k].p = q /\ acc[k].off = off /\ acc[k].regs = regs /\ acc[k].size = size
              /\ acc[k].regs_only /\ acc[k].last = last
<1>10. Is(1, p1, 0, <<r>>, 0, "reg")
  <2>1. parameter__record_loc_reg(p, r, 0, FALSE) = p1
    BY <1>1 DEF parameter__record_loc_reg, parameter__loc_size
  <2>2. /\ base.off < addr_size /\ base.off = 0 /\ base.p = p /\ base.size = 0
        /\ Append(base.regs, r) = <<r>> /\ base.regs_only
    BY DEF addr_size
  <2> HIDE DEF p1, p2, p4, base
  <2>3. PICK x : x = base
    OBVIOUS
  <2>4. LET next == Piecewise(x, a)
        IN /\ next.p = IF x.off < addr_size \/ x.p.loc_reg = NoReg
                        THEN parameter__record_loc_reg(x.p, a.reg, 0, FALSE) ELSE x.p
           /\ next.off = x.off /\ next.regs = Append(x.regs, a.reg)
           /\ next.last = "reg" /\ next.size = x.size /\ next.regs_only
    <3>1. a.atom = "reg" /\ x.regs_only
      BY <1>3, <2>2, <2>3
    <3> QED
      BY <3>1, RegisterOfPieces
  <2> QED
    BY <1>3, <1>9, <2>1, <2>2, <2>3, <2>4
<1>11. Is(2, p2, 8, <<r>>, 8, "piece")
  <2>1. Field(p1, 0) = p2
    BY DEF Field, addr_size
  <2>2. PICK x : x = acc[1]
    OBVIOUS
  <2> HIDE DEF p1, p2, p4, base
  <2>3. LET next == Piecewise(x, b)
        IN /\ next.p = Field(x.p, x.off) /\ next.off = x.off + 8 /\ next.regs = x.regs
           /\ next.last = "piece" /\ next.size = x.size + 8 /\ next.regs_only
    BY <1>3, <1>10, <2>2, PieceOfRegister
  <2>4. x.off + 8 = 8 /\ x.size + 8 = 8
    BY <1>10, <2>2
  <2> QED
    BY <1>9, <1>10, <2>1, <2>2, <2>3, <2>4
<1>12. Is(3, p2, 8, <<r, r2>>, 8, "reg")
  <2>1. p1.loc_reg = r
    BY <1>1 DEF ToldFrom
  <2>2. p2.loc_reg # NoReg
    <3> HIDE DEF p1
    <3> QED
      BY <2>1 DEF NoReg
  <2>3. ~(8 < addr_size)
    BY DEF addr_size
  <2>4. Append(<<r>>, r2) = <<r, r2>>
    BY AppendSecond
  <2>5. PICK x : x = acc[2]
    OBVIOUS
  <2> HIDE DEF p1, p2, p4, base
  <2>6. LET next == Piecewise(x, c)
        IN /\ next.p = IF x.off < addr_size \/ x.p.loc_reg = NoReg
                        THEN parameter__record_loc_reg(x.p, c.reg, 0, FALSE) ELSE x.p
           /\ next.off = x.off /\ next.regs = Append(x.regs, c.reg)
           /\ next.last = "reg" /\ next.size = x.size /\ next.regs_only
    <3>1. c.atom = "reg" /\ x.regs_only
      BY <1>3, <1>11, <2>5
    <3> QED
      BY <3>1, RegisterOfPieces
  <2> QED
    BY <1>3, <1>9, <1>11, <2>2, <2>3, <2>4, <2>5, <2>6
<1>13. Is(4, p4, 16, <<r, r2>>, 16, "piece")
  <2>1. Field(p2, 8) = p4
    BY DEF Field, addr_size
  <2>2. PICK x : x = acc[3]
    OBVIOUS
  <2> HIDE DEF p1, p2, p4, base
  <2>3. LET next == Piecewise(x, b)
        IN /\ next.p = Field(x.p, x.off) /\ next.off = x.off + 8 /\ next.regs = x.regs
           /\ next.last = "piece" /\ next.size = x.size + 8 /\ next.regs_only
    BY <1>3, <1>12, <2>2, PieceOfRegister
  <2>4. x.off + 8 = 16 /\ x.size + 8 = 16
    BY <1>12, <2>2
  <2> QED
    BY <1>9, <1>12, <2>1, <2>2, <2>3, <2>4
<1> DEFINE q == parameter__record_loc_reg_pair(p4, r, r2)
<1>14. q = TwoPieces(p, r, r2)
  BY DEF TwoPieces
<1> HIDE DEF p4
<1>15. Pieces(p, TRUE, e) = q
  <2>1. Len(<<r, r2>>) = 2 /\ <<r, r2>>[1] = r /\ <<r, r2>>[2] = r2
    OBVIOUS
  <2>2. PICK all : all = FoldLeft(Piecewise, base, e)
    OBVIOUS
  <2>3. /\ all.p = p4 /\ all.regs = <<r, r2>> /\ all.size = 16 /\ all.regs_only
    BY <1>8, <1>13, <2>2
  <2>4. all.size = p.size
    BY <1>1, <2>3
  <2> QED
    BY <2>1, <2>2, <2>3, <2>4 DEF Pieces
<1> QED
  BY <1>6, <1>14, <1>15 DEF p, e

\* The value is in two registers.
LEMMA PiecesTold ==
  ASSUME machine \in Machines, arch__agg_use_two_regs,
         NEW d, d.type \in Types, SizeOf[d.type] = 16, d.const = FALSE,
         NEW r \in Nat, NEW r2 \in Nat
  PROVE  LET e == <<Reg(r), Piece(8), Reg(r2), Piece(8)>>
         IN Tells(DecodeExpr(NewParameter(d), TRUE, e), Meaning(e))
<1> DEFINE p == NewParameter(d)
           e == <<Reg(r), Piece(8), Reg(r2), Piece(8)>>
           p1 == [p EXCEPT !.loc_reg = r, !.loc_offset = 0, !.loc_deref = FALSE]
           p2 == [p1 EXCEPT !.first = @ \cup {0}]
           p4 == [p2 EXCEPT !.second = @ \cup {8 - addr_size}]
           q == TwoPieces(p, r, r2)
<1>1. /\ ToldFrom \subseteq DOMAIN p /\ p.size = 16 /\ p.has_const = FALSE
      /\ p.loc_const = FALSE
  BY FreshFields
<1>2. /\ Reg(r).atom = "reg" /\ Reg(r).reg = r /\ Piece(8).atom = "piece"
      /\ Reg(r2).atom = "reg" /\ Reg(r2).reg = r2
  BY DEF Reg, Piece, op
<1>3. DecodeExpr(p, TRUE, e) = q
  BY PiecesDecoded
<1> HIDE DEF p, e
<1>4. /\ ToldFrom \subseteq DOMAIN p4 /\ p4.size = 16 /\ p4.has_const = FALSE
       /\ p4.loc_const = FALSE
  <2>1. /\ DOMAIN p1 = DOMAIN p /\ p1.size = 16 /\ p1.has_const = FALSE /\ p1.loc_const = FALSE
    BY <1>1 DEF ToldFrom
  <2> HIDE DEF p1
  <2>2. /\ DOMAIN p2 = DOMAIN p /\ p2.size = 16 /\ p2.has_const = FALSE /\ p2.loc_const = FALSE
    BY <1>1, <2>1 DEF ToldFrom
  <2> HIDE DEF p2
  <2>3. /\ DOMAIN p4 = DOMAIN p /\ p4.size = 16 /\ p4.has_const = FALSE /\ p4.loc_const = FALSE
    BY <1>1, <2>2 DEF ToldFrom
  <2> QED
    BY <1>1, <2>3
<1>5. q = parameter__record_loc_reg_pair(p4, r, r2)
  BY DEF TwoPieces
<1> HIDE DEF p4, q
<1>6. /\ ToldFrom \subseteq DOMAIN q /\ q.has_const = FALSE /\ q.loc_const = FALSE
      /\ q.loc_reg = r /\ q.loc_reg2 = r2 /\ r # NoReg /\ r2 # NoReg
  BY <1>4, <1>5 DEF ToldFrom, parameter__record_loc_reg_pair, NoReg
<1>7. Tells(q, {<<"pair", r, r2>>})
  BY <1>6, ToldForms
<1>8. Meaning(e) = {<<"pair", r, r2>>}
  <2>1. /\ Atoms(e) = <<"reg", "piece", "reg", "piece">>
        /\ e[1].reg = r /\ e[3].reg = r2
    BY DEF e, Atoms, Reg, Piece, op
  <2> QED
    BY <2>1, MeaningByAtoms
<1> QED
  BY <1>3, <1>7, <1>8 DEF p, e

\* What is told of a location is what it means.
LEMMA ExplicitTold ==
  ASSUME machine \in Machines, NEW d, d.type \in Types, d.const = FALSE,
         NEW e, Explicit(machine, d.type, e)
  PROVE  Tells(DecodeExpr(NewParameter(d), TRUE, e), Meaning(e))
<1>1. CASE e = <<Fbreg>>
  BY <1>1, SingleFbreg
<1>2. CASE d.type = "long" /\ e = <<op("lit", -1, 1), StackValue>>
  BY <1>2, SingleLit
<1>3. ASSUME NEW r \in Nat, e = <<Reg(r)>>
      PROVE  Tells(DecodeExpr(NewParameter(d), TRUE, e), Meaning(e))
  BY <1>3, SingleRegister
<1>4. ASSUME NEW r \in Nat, e = <<Breg(r, 0)>>
      PROVE  Tells(DecodeExpr(NewParameter(d), TRUE, e), Meaning(e))
  BY <1>4, SingleRegister
<1>5. ASSUME NEW r \in Nat, e = <<op("entry", r, 0), StackValue>>
      PROVE  Tells(DecodeExpr(NewParameter(d), TRUE, e), Meaning(e))
  BY <1>5, SingleRegister
<1>6. ASSUME NEW r \in Nat, e = <<Breg(r, 8), StackValue>>
      PROVE  Tells(DecodeExpr(NewParameter(d), TRUE, e), Meaning(e))
  BY <1>6, SingleRegister
<1>7. ASSUME NEW r \in Nat, e = <<Breg(r, 8), op("deref", -1, 0), StackValue>>
      PROVE  Tells(DecodeExpr(NewParameter(d), TRUE, e), Meaning(e))
  BY <1>7, SingleRegister
<1>8. ASSUME NEW r \in Nat, NEW r2 \in Nat, SizeOf[d.type] = 16, machine # "s390",
             e = <<Reg(r), Piece(8), Reg(r2), Piece(8)>>
      PROVE  Tells(DecodeExpr(NewParameter(d), TRUE, e), Meaning(e))
  BY <1>8, PiecesTold DEF arch__agg_use_two_regs
<1> QED
  BY <1>1, <1>2, <1>3, <1>4, <1>5, <1>6, <1>7, <1>8, Zenon DEF Explicit

-----------------------------------------------------------------------------
(* An expression of pieces                                                 *)

\* The fields of a parameter that parameter__finish_piece_decode() reads or sets.
PieceFields == {"first", "second", "member", "type"}

\* Where the pieces of a value are that were found in its location.
FieldsOf(p) == p.first \cup {addr_size + off : off \in p.second}
Named(p, d, fields) ==
    /\ PieceFields \subseteq DOMAIN p
    /\ p.type = d.type /\ p.member = NoMember /\ FieldsOf(p) = fields

\* At first there are none.
LEMMA FreshNamed ==
  ASSUME NEW d
  PROVE  Named(NewParameter(d), d, {})
<1> DEFINE p == NewParameter(d)
<1>1. /\ PieceFields \subseteq DOMAIN p /\ p.type = d.type /\ p.member = NoMember
      /\ p.first = {} /\ p.second = {}
  BY DEF NewParameter, PieceFields
<1> HIDE DEF p
<1>2. FieldsOf(p) = {}
  BY <1>1 DEF FieldsOf
<1> QED
  BY <1>1, <1>2 DEF Named, p

\* A register or a constant that is recorded leaves them alone.
LEMMA RecordNames ==
  ASSUME NEW p, NEW d, NEW fields, Named(p, d, fields)
  PROVE  /\ \A r, offset, deref : Named(parameter__record_loc_reg(p, r, offset, deref), d, fields)
         /\ \A v : Named(parameter__record_loc_const(p, v), d, fields)
         /\ \A first_loc, o, value, deref :
                Named(SingleExpr(p, first_loc, o, value, deref), d, fields)
<1>1. ASSUME NEW q, DOMAIN q = DOMAIN p, q.first = p.first, q.second = p.second,
             q.member = p.member, q.type = p.type
      PROVE  Named(q, d, fields)
  BY <1>1 DEF Named, FieldsOf
<1>2. PieceFields \subseteq DOMAIN p
  BY DEF Named
<1>3. \A r, offset, deref : Named(parameter__record_loc_reg(p, r, offset, deref), d, fields)
  <2> TAKE r, offset, deref
  <2> DEFINE q == [p EXCEPT !.loc_reg = r, !.loc_offset = offset, !.loc_deref = deref]
  <2>1. /\ DOMAIN q = DOMAIN p /\ q.first = p.first /\ q.second = p.second
        /\ q.member = p.member /\ q.type = p.type
    BY <1>2 DEF PieceFields
  <2> HIDE DEF q
  <2>2. Named(q, d, fields)
    BY <1>1, <2>1
  <2>3. parameter__record_loc_reg(p, r, offset, deref) \in {p, q}
    BY DEF parameter__record_loc_reg, q
  <2> QED
    BY <2>2, <2>3
<1>4. \A v : Named(parameter__record_loc_const(p, v), d, fields)
  <2> TAKE v
  <2> DEFINE q == [p EXCEPT !.loc_const = TRUE, !.loc_value = v]
  <2>1. /\ DOMAIN q = DOMAIN p /\ q.first = p.first /\ q.second = p.second
        /\ q.member = p.member /\ q.type = p.type
    BY <1>2 DEF PieceFields
  <2> HIDE DEF q
  <2>2. Named(q, d, fields)
    BY <1>1, <2>1
  <2>3. parameter__record_loc_const(p, v) \in {p, q}
    BY DEF parameter__record_loc_const, q
  <2> QED
    BY <2>2, <2>3
<1>5. \A first_loc, o, value, deref :
          Named(SingleExpr(p, first_loc, o, value, deref), d, fields)
  <2> TAKE first_loc, o, value, deref
  <2> DEFINE n == o.n
             dr == Deref(value, deref)
             q == [p EXCEPT !.loc_stack = TRUE, !.loc_offset = n, !.loc_deref = dr]
  <2>1. /\ DOMAIN q = DOMAIN p /\ q.first = p.first /\ q.second = p.second
        /\ q.member = p.member /\ q.type = p.type
    BY <1>2 DEF PieceFields
  <2> HIDE DEF q, n, dr
  <2>2. Named(q, d, fields)
    BY <1>1, <2>1
  <2>3. \/ SingleExpr(p, first_loc, o, value, deref) \in {p, q}
        \/ \E r, offset, dr2 : SingleExpr(p, first_loc, o, value, deref)
                                 = parameter__record_loc_reg(p, r, offset, dr2)
        \/ \E v : SingleExpr(p, first_loc, o, value, deref) = parameter__record_loc_const(p, v)
    BY DEF SingleExpr, q, n, dr
  <2> QED
    BY <1>3, <1>4, <2>2, <2>3
<1> QED
  BY <1>3, <1>4, <1>5

\* A piece is one more, and is not told at a call site.
LEMMA FieldNames ==
  ASSUME NEW p, NEW d, Named(p, d, {})
  PROVE  /\ Named(Field(p, 0), d, {0}) /\ Named(Field(p, 8), d, {8})
         /\ \A off, what : Tells(p, what) => Tells(Field(p, off), what)
<1>1. /\ PieceFields \subseteq DOMAIN p /\ p.type = d.type /\ p.member = NoMember
      /\ FieldsOf(p) = {}
  BY DEF Named
<1>2. p.first = {} /\ p.second = {}
  BY <1>1 DEF FieldsOf
<1>3. Named(Field(p, 0), d, {0})
  <2> DEFINE q == [p EXCEPT !.first = @ \cup {0}]
  <2>1. Field(p, 0) = q
    BY DEF Field, addr_size
  <2>2. /\ PieceFields \subseteq DOMAIN q /\ q.type = d.type /\ q.member = NoMember
        /\ q.first = {0} /\ q.second = {}
    BY <1>1, <1>2 DEF PieceFields
  <2> HIDE DEF q
  <2>3. FieldsOf(q) = {0}
    BY <2>2 DEF FieldsOf
  <2> QED
    BY <2>1, <2>2, <2>3 DEF Named
<1>4. Named(Field(p, 8), d, {8})
  <2> DEFINE q == [p EXCEPT !.second = @ \cup {0}]
  <2>1. Field(p, 8) = q
    BY DEF Field, addr_size
  <2>2. /\ PieceFields \subseteq DOMAIN q /\ q.type = d.type /\ q.member = NoMember
        /\ q.first = {} /\ q.second = {0}
    BY <1>1, <1>2 DEF PieceFields
  <2> HIDE DEF q
  <2>3. FieldsOf(q) = {8}
    BY <2>2 DEF FieldsOf, addr_size
  <2> QED
    BY <2>1, <2>2, <2>3 DEF Named
<1>5. ASSUME NEW off, NEW what, Tells(p, what) PROVE Tells(Field(p, off), what)
  <2>1. PICK q : q = Field(p, off)
    OBVIOUS
  <2>2. /\ DOMAIN q = DOMAIN p
        /\ q.size = p.size /\ q.has_const = p.has_const /\ q.loc_reg = p.loc_reg
        /\ q.loc_reg2 = p.loc_reg2 /\ q.loc_offset = p.loc_offset /\ q.loc_deref = p.loc_deref
        /\ q.loc_stack = p.loc_stack /\ q.loc_const = p.loc_const /\ q.loc_value = p.loc_value
    BY <1>5, <2>1 DEF Field, Tells, ToldFrom
  <2>3. add_loc_param(q) = add_loc_param(p)
    BY <2>2, Zenon DEF add_loc_param
  <2> QED
    BY <1>5, <2>1, <2>2, <2>3 DEF Tells
<1> QED
  BY <1>3, <1>4, <1>5

\* What is known while the operations of an expression are gone through.
At(acc, p, off, regs, last) ==
    /\ {"p", "off", "regs", "size", "regs_only", "last"} \subseteq DOMAIN acc
    /\ acc.p = p /\ acc.off = off /\ acc.regs = regs /\ acc.last = last

\* One more piece, register, or place in the frame.
LEMMA PieceStep ==
  ASSUME NEW acc, NEW p, NEW off, NEW regs, NEW last, At(acc, p, off, regs, last), NEW o
  PROVE  /\ o.atom = "piece" =>
              At(Piecewise(acc, o), IF last = "none" THEN p ELSE Field(p, off),
                 off + o.n, regs, "piece")
         /\ o.atom = "reg" =>
              At(Piecewise(acc, o), IF off < addr_size \/ p.loc_reg = NoReg
                                    THEN parameter__record_loc_reg(p, o.reg, 0, FALSE) ELSE p,
                 off, Append(regs, o.reg), "reg")
         /\ o.atom = "fbreg" => At(Piecewise(acc, o), p, off, regs, "fbreg")
<1>1. CASE o.atom = "piece"
  <2>1. PICK q : q = IF last = "none" THEN p ELSE Field(p, off)
    OBVIOUS
  <2>2. At(Piecewise(acc, o), q, off + o.n, regs, "piece")
    BY <1>1, <2>1 DEF Piecewise, At
  <2> QED
    BY <1>1, <2>1, <2>2
<1>2. CASE o.atom = "reg"
  <2>1. PICK q : q = IF off < addr_size \/ p.loc_reg = NoReg
                     THEN parameter__record_loc_reg(p, o.reg, 0, FALSE) ELSE p
    OBVIOUS
  <2>2. At(Piecewise(acc, o), q, off, Append(regs, o.reg), "reg")
    BY <1>2, <2>1 DEF Piecewise, At
  <2> QED
    BY <1>2, <2>1, <2>2
<1>3. CASE o.atom = "fbreg"
  <2>1. Piecewise(acc, o) = [acc EXCEPT !.regs_only = FALSE, !.last = "fbreg"]
    BY <1>3 DEF Piecewise
  <2>2. At(Piecewise(acc, o), p, off, regs, "fbreg")
    BY <2>1 DEF At
  <2> QED
    BY <1>3, <2>2
<1>4. CASE o.atom \notin {"piece", "reg", "fbreg"}
  BY <1>4
<1> QED
  BY <1>1, <1>2, <1>3, <1>4

\* The loop of parameter__multi_exprs() over two operations, or three.
AllPieces(base, expr) == FoldLeft(Piecewise, base, expr)

LEMMA PiecesLoop ==
  ASSUME NEW base, NEW s, NEW S, s \in Seq(S)
  PROVE  Piecing!Fold(base, s) = AllPieces(base, s)
BY DEF AllPieces, Piecing!Fold, FoldLeft, MapThenFoldSet, Max, Piecing!FoldLeft, Piecing!MapThenFoldSet, Piecing!Max

LEMMA PiecesOfTwo ==
  ASSUME NEW base, NEW a, NEW b, NEW s, s = <<a, b>>
  PROVE  AllPieces(base, s) = Piecewise(Piecewise(base, a), b)
<1>1. s \in Seq({a, b}) /\ Len(s) = 2 /\ s[1] = a /\ s[2] = b
  OBVIOUS
<1>2. PICK acc : Piecing!Loop(acc, base, s) /\ Piecing!Fold(base, s) = acc[2]
  BY <1>1, Piecing!FoldLeftLoop
<1>3. 1 \in 1 .. 2 /\ 2 \in 1 .. 2 /\ 1 - 1 = 0 /\ 2 - 1 = 1
  OBVIOUS
<1>4. acc[0] = base /\ \A k \in 1 .. 2 : acc[k] = Piecewise(acc[k - 1], s[k])
  BY <1>1, <1>2 DEF Piecing!Loop
<1>5. acc[1] = Piecewise(acc[1 - 1], s[1]) /\ acc[2] = Piecewise(acc[2 - 1], s[2])
  BY <1>3, <1>4
<1>6. acc[1] = Piecewise(base, a) /\ acc[2] = Piecewise(acc[1], b)
  BY <1>1, <1>3, <1>4, <1>5
<1>7. AllPieces(base, s) = acc[2]
  BY <1>1, <1>2, PiecesLoop
<1> QED
  BY <1>6, <1>7

LEMMA PiecesOfThree ==
  ASSUME NEW base, NEW a, NEW b, NEW c, NEW s, s = <<a, b, c>>
  PROVE  AllPieces(base, s) = Piecewise(Piecewise(Piecewise(base, a), b), c)
<1>1. s \in Seq({a, b, c}) /\ Len(s) = 3 /\ s[1] = a /\ s[2] = b /\ s[3] = c
  OBVIOUS
<1>2. PICK acc : Piecing!Loop(acc, base, s) /\ Piecing!Fold(base, s) = acc[3]
  BY <1>1, Piecing!FoldLeftLoop
<1>3. /\ 1 \in 1 .. 3 /\ 2 \in 1 .. 3 /\ 3 \in 1 .. 3
      /\ 1 - 1 = 0 /\ 2 - 1 = 1 /\ 3 - 1 = 2
  OBVIOUS
<1>4. acc[0] = base /\ \A k \in 1 .. 3 : acc[k] = Piecewise(acc[k - 1], s[k])
  BY <1>1, <1>2 DEF Piecing!Loop
<1>5. /\ acc[1] = Piecewise(acc[1 - 1], s[1]) /\ acc[2] = Piecewise(acc[2 - 1], s[2])
      /\ acc[3] = Piecewise(acc[3 - 1], s[3])
  BY <1>3, <1>4
<1>6. acc[1] = Piecewise(base, a) /\ acc[2] = Piecewise(acc[1], b) /\ acc[3] = Piecewise(acc[2], c)
  BY <1>1, <1>3, <1>4, <1>5
<1>7. AllPieces(base, s) = acc[3]
  BY <1>1, <1>2, PiecesLoop
<1> QED
  BY <1>6, <1>7

\* The operation that says where a piece is.
Holds(it) == it = Fbreg \/ \E r \in Nat : it = Reg(r)

\* What is recorded of a piece when no other is known.
Recorded(p, it) ==
    IF it.atom = "reg" THEN parameter__record_loc_reg(p, it.reg, 0, FALSE) ELSE p

\* One piece, the first one or the second one of a pair in two registers.
LEMMA OnePiece ==
  ASSUME arch__agg_use_two_regs, NEW d, d.type = "pair", NEW it, Holds(it)
  PROVE  LET p == NewParameter(d)
         IN /\ DecodeExpr(p, TRUE, <<it, Piece(8)>>) = Field(Recorded(p, it), 0)
            /\ DecodeExpr(p, TRUE, <<Piece(8), it, Piece(8)>>) = Field(Recorded(p, it), 8)
<1> DEFINE p == NewParameter(d)
           base == [p |-> p, off |-> 0, regs |-> <<>>, size |-> 0,
                    regs_only |-> TRUE, last |-> "none"]
<1>1. p.loc_reg = NoReg /\ p.size > addr_size
  <2>1. p.size = SizeOf["pair"] /\ p.loc_reg = NoReg
    BY FreshFields
  <2> HIDE DEF p
  <2> QED
    BY <2>1, Sizes DEF addr_size
<1>2. PICK pc8 : pc8 = Piece(8) /\ pc8.atom = "piece" /\ pc8.n = 8
  <2>1. Piece(8).atom = "piece" /\ Piece(8).n = 8
    BY DEF Piece, op
  <2> QED
    BY <2>1
<1>3. it.atom \in {"reg", "fbreg"}
  BY DEF Holds, Fbreg, Reg, op
<1>4. At(base, p, 0, <<>>, "none")
  BY DEF At
<1> HIDE DEF p
<1>5. ASSUME NEW q, NEW off, NEW regs, NEW e, e # <<>>, Len(e) > 1,
             Last(e).atom = "piece", e[1].atom # "lit", Len(regs) # 2,
             At(AllPieces(base, e), q, off, regs, "piece")
      PROVE  DecodeExpr(p, TRUE, e) = q
  <2>1. DecodeExpr(p, TRUE, e) = parameter__multi_exprs(p, TRUE, e)
    BY <1>5 DEF DecodeExpr
  <2>2. parameter__multi_exprs(p, TRUE, e) = Pieces(p, TRUE, e)
    BY <1>1, <1>5 DEF parameter__multi_exprs
  <2>3. PICK all : all = AllPieces(base, e)
    OBVIOUS
  <2>4. all.p = q /\ Len(all.regs) # 2
    BY <1>5, <2>3 DEF At
  <2>5. Pieces(p, TRUE, e) = q
    BY <2>3, <2>4 DEF Pieces, AllPieces, base
  <2> QED
    BY <2>1, <2>2, <2>5
<1> HIDE DEF base
<1>6. ASSUME NEW acc, NEW off, off \in {0, 8}, NEW last, At(acc, p, off, <<>>, last)
      PROVE  \E regs, last2 : /\ At(Piecewise(acc, it), Recorded(p, it), off, regs, last2)
                              /\ Len(regs) # 2 /\ last2 # "none"
  <2>1. CASE it.atom = "reg"
    <3>1. At(Piecewise(acc, it), parameter__record_loc_reg(p, it.reg, 0, FALSE), off,
             Append(<<>>, it.reg), "reg")
      BY <1>1, <1>6, <2>1, PieceStep
    <3>2. PICK regs : regs = Append(<<>>, it.reg)
      OBVIOUS
    <3>3. Len(regs) # 2
      BY <3>2
    <3>4. Recorded(p, it) = parameter__record_loc_reg(p, it.reg, 0, FALSE)
      BY <2>1 DEF Recorded
    <3> QED
      BY <3>1, <3>2, <3>3, <3>4
  <2>2. CASE it.atom = "fbreg"
    <3>1. At(Piecewise(acc, it), p, off, <<>>, "fbreg")
      BY <1>6, <2>2, PieceStep
    <3>2. Recorded(p, it) = p
      BY <2>2 DEF Recorded
    <3>3. Len(<<>>) # 2
      OBVIOUS
    <3> QED
      BY <3>1, <3>2, <3>3
  <2> QED
    BY <1>3, <2>1, <2>2
<1>7. DecodeExpr(p, TRUE, <<it, pc8>>) = Field(Recorded(p, it), 0)
  <2>1. PICK e : e = <<it, pc8>>
    OBVIOUS
  <2>2. e # <<>> /\ Len(e) > 1 /\ Last(e).atom = "piece" /\ e[1].atom # "lit"
    <3>1. Last(e) = pc8 /\ e # <<>> /\ Len(e) = 2 /\ e[1] = it
      BY <2>1, LastOfTwo
    <3> QED
      BY <1>2, <1>3, <3>1
  <2>3. PICK a1 : a1 = Piecewise(base, it)
    OBVIOUS
  <2>4. PICK regs, last2 : /\ At(a1, Recorded(p, it), 0, regs, last2)
                           /\ Len(regs) # 2 /\ last2 # "none"
    BY <1>4, <1>6, <2>3
  <2>5. At(Piecewise(a1, pc8), Field(Recorded(p, it), 0), 0 + 8, regs, "piece")
    BY <1>2, <2>4, PieceStep
  <2>6. AllPieces(base, e) = Piecewise(a1, pc8)
    BY <2>1, <2>3, PiecesOfTwo
  <2>7. DecodeExpr(p, TRUE, e) = Field(Recorded(p, it), 0)
    BY <1>5, <2>2, <2>4, <2>5, <2>6
  <2> QED
    BY <2>1, <2>7
<1>8. DecodeExpr(p, TRUE, <<pc8, it, pc8>>) = Field(Recorded(p, it), 8)
  <2>1. PICK e : e = <<pc8, it, pc8>>
    OBVIOUS
  <2>2. e # <<>> /\ Len(e) > 1 /\ Last(e).atom = "piece" /\ e[1].atom # "lit"
    <3>1. Last(e) = pc8 /\ e # <<>> /\ Len(e) = 3 /\ e[1] = pc8
      BY <2>1, LastOfThree
    <3> QED
      BY <1>2, <3>1
  <2>3. PICK a1, a2 : a1 = Piecewise(base, pc8) /\ a2 = Piecewise(a1, it)
    OBVIOUS
  <2>4. At(a1, p, 8, <<>>, "piece")
    <3>1. At(a1, p, 0 + pc8.n, <<>>, "piece")
      BY <1>2, <1>4, <2>3, PieceStep
    <3> QED
      BY <1>2, <3>1
  <2>5. PICK regs, last2 : /\ At(a2, Recorded(p, it), 8, regs, last2)
                           /\ Len(regs) # 2 /\ last2 # "none"
    BY <1>6, <2>3, <2>4
  <2>6. At(Piecewise(a2, pc8), Field(Recorded(p, it), 8), 8 + 8, regs, "piece")
    BY <1>2, <2>5, PieceStep
  <2>7. AllPieces(base, e) = Piecewise(a2, pc8)
    BY <2>1, <2>3, PiecesOfThree
  <2>8. DecodeExpr(p, TRUE, e) = Field(Recorded(p, it), 8)
    BY <1>5, <2>2, <2>5, <2>6, <2>7
  <2> QED
    BY <2>1, <2>8
<1> QED
  BY <1>2, <1>7, <1>8 DEF p

\* What is made of the first expression of a location: a piece of a pair that may be
\* in two registers is a candidate, and otherwise the pieces are those that the
\* expression names or none is known.
Decoded(q, d, e) ==
    /\ Tells(q, Meaning(e))
    /\ \/ /\ Named(q, d, PieceOffsets(e))
          /\ \/ PieceOffsets(e) \in {{}, {0, 8}}
             \/ PieceOffsets(e) \in {{0}, {8}} /\ d.type = "pair"
       \/ Named(q, d, {}) /\ ~(d.type = "pair" /\ arch__agg_use_two_regs)

\* An expression of one operation names no pieces.
LEMMA SingleNames ==
  ASSUME NEW d, NEW o, o.atom \notin {"stack_value", "deref"},
         NEW e, e \in {<<o>>, <<o, StackValue>>, <<o, op("deref", -1, 0), StackValue>>}
  PROVE  Named(DecodeExpr(NewParameter(d), TRUE, e), d, {})
<1>1. PICK p : p = NewParameter(d)
  OBVIOUS
<1>2. Named(p, d, {})
  BY <1>1, FreshNamed
<1>3. \A value, deref : Named(SingleExpr(p, TRUE, o, value, deref), d, {})
  BY <1>2, RecordNames
<1>4. \/ DecodeExpr(p, TRUE, e) = SingleExpr(p, TRUE, o, FALSE, FALSE)
      \/ DecodeExpr(p, TRUE, e) = SingleExpr(p, TRUE, o, TRUE, FALSE)
      \/ DecodeExpr(p, TRUE, e) = SingleExpr(p, TRUE, o, TRUE, TRUE)
  BY DecodeSingle
<1> QED
  BY <1>1, <1>3, <1>4

\* Two registers are two pieces.
LEMMA TwoPiecesNamed ==
  ASSUME NEW d, NEW r \in Nat, NEW r2 \in Nat
  PROVE  Named(TwoPieces(NewParameter(d), r, r2), d, {0, 8})
<1> DEFINE p == NewParameter(d)
           p1 == [p EXCEPT !.loc_reg = r, !.loc_offset = 0, !.loc_deref = FALSE]
           p2 == [p1 EXCEPT !.first = @ \cup {0}]
           p4 == [p2 EXCEPT !.second = @ \cup {8 - addr_size}]
           q == [p4 EXCEPT !.loc_reg = r, !.loc_reg2 = r2, !.loc_offset = 0, !.loc_deref = FALSE]
<1>1. TwoPieces(p, r, r2) = q
  BY DEF TwoPieces, parameter__record_loc_reg_pair
<1>2. /\ PieceFields \subseteq DOMAIN p /\ p.type = d.type /\ p.member = NoMember
      /\ p.first = {} /\ p.second = {}
  BY DEF NewParameter, PieceFields
<1> HIDE DEF p
<1>3. /\ DOMAIN p1 = DOMAIN p /\ p1.type = d.type /\ p1.member = NoMember
      /\ p1.first = {} /\ p1.second = {}
  BY <1>2 DEF PieceFields
<1> HIDE DEF p1
<1>4. /\ DOMAIN p2 = DOMAIN p /\ p2.type = d.type /\ p2.member = NoMember
      /\ p2.first = {0} /\ p2.second = {}
  BY <1>2, <1>3 DEF PieceFields
<1> HIDE DEF p2
<1>5. /\ DOMAIN p4 = DOMAIN p /\ p4.type = d.type /\ p4.member = NoMember
      /\ p4.first = {0} /\ p4.second = {0}
  BY <1>2, <1>4 DEF PieceFields, addr_size
<1> HIDE DEF p4
<1>6. /\ PieceFields \subseteq DOMAIN q /\ q.type = d.type /\ q.member = NoMember
      /\ q.first = {0} /\ q.second = {0}
  BY <1>2, <1>5 DEF PieceFields
<1> HIDE DEF q
<1>7. FieldsOf(q) = {0, 8}
  BY <1>6 DEF FieldsOf, addr_size
<1> QED
  BY <1>1, <1>6, <1>7 DEF Named, p

\* An expression that says where the whole of a parameter is.
LEMMA ExplicitDecoded ==
  ASSUME machine \in Machines, NEW d, d.type \in Types, d.const = FALSE,
         NEW e, Explicit(machine, d.type, e)
  PROVE  Decoded(DecodeExpr(NewParameter(d), TRUE, e), d, e)
<1>1. PICK q : q = DecodeExpr(NewParameter(d), TRUE, e)
  OBVIOUS
<1> SUFFICES Decoded(q, d, e)
  BY <1>1
<1>2. Tells(q, Meaning(e))
  BY <1>1, ExplicitTold
<1>3. ASSUME NEW o, o.atom \in {"reg", "breg", "fbreg", "entry", "lit"},
             e \in {<<o>>, <<o, StackValue>>, <<o, op("deref", -1, 0), StackValue>>},
             PieceOffsets(e) = {}
      PROVE  Decoded(q, d, e)
  <2>1. o.atom \notin {"stack_value", "deref"}
    BY <1>3
  <2>2. Named(q, d, {})
    BY <1>1, <1>3, <2>1, SingleNames
  <2> QED
    BY <1>2, <1>3, <2>2 DEF Decoded
<1>4. CASE e = <<Fbreg>>
  <2>1. Atoms(e) = <<"fbreg">> /\ Fbreg.atom = "fbreg"
    BY <1>4 DEF Atoms, Fbreg, op
  <2>2. PieceOffsets(e) = {}
    BY <2>1, PiecesByAtoms
  <2> QED
    BY <1>3, <1>4, <2>1, <2>2
<1>5. CASE e = <<op("lit", -1, 1), StackValue>>
  <2>1. Atoms(e) = <<"lit", "stack_value">> /\ op("lit", -1, 1).atom = "lit"
    BY <1>5 DEF Atoms, StackValue, op
  <2>2. PieceOffsets(e) = {}
    BY <2>1, PiecesByAtoms
  <2> QED
    BY <1>3, <1>5, <2>1, <2>2
<1>6. ASSUME NEW r \in Nat, e = <<Reg(r)>> PROVE Decoded(q, d, e)
  <2>1. Atoms(e) = <<"reg">> /\ Reg(r).atom = "reg"
    BY <1>6 DEF Atoms, Reg, op
  <2>2. PieceOffsets(e) = {}
    BY <2>1, PiecesByAtoms
  <2> QED
    BY <1>3, <1>6, <2>1, <2>2
<1>7. ASSUME NEW r \in Nat, e = <<Breg(r, 0)>> PROVE Decoded(q, d, e)
  <2>1. Atoms(e) = <<"breg">> /\ Breg(r, 0).atom = "breg"
    BY <1>7 DEF Atoms, Breg, op
  <2>2. PieceOffsets(e) = {}
    BY <2>1, PiecesByAtoms
  <2> QED
    BY <1>3, <1>7, <2>1, <2>2
<1>8. ASSUME NEW r \in Nat, e = <<op("entry", r, 0), StackValue>> PROVE Decoded(q, d, e)
  <2>1. Atoms(e) = <<"entry", "stack_value">> /\ op("entry", r, 0).atom = "entry"
    BY <1>8 DEF Atoms, StackValue, op
  <2>2. PieceOffsets(e) = {}
    BY <2>1, PiecesByAtoms
  <2> QED
    BY <1>3, <1>8, <2>1, <2>2
<1>9. ASSUME NEW r \in Nat, e = <<Breg(r, 8), StackValue>> PROVE Decoded(q, d, e)
  <2>1. Atoms(e) = <<"breg", "stack_value">> /\ Breg(r, 8).atom = "breg"
    BY <1>9 DEF Atoms, StackValue, Breg, op
  <2>2. PieceOffsets(e) = {}
    BY <2>1, PiecesByAtoms
  <2> QED
    BY <1>3, <1>9, <2>1, <2>2
<1>10. ASSUME NEW r \in Nat, e = <<Breg(r, 8), op("deref", -1, 0), StackValue>>
       PROVE  Decoded(q, d, e)
  <2>1. Atoms(e) = <<"breg", "deref", "stack_value">> /\ Breg(r, 8).atom = "breg"
    BY <1>10 DEF Atoms, StackValue, Breg, op
  <2>2. PieceOffsets(e) = {}
    BY <2>1, PiecesByAtoms
  <2> QED
    BY <1>3, <1>10, <2>1, <2>2
<1>11. ASSUME NEW r \in Nat, NEW r2 \in Nat, SizeOf[d.type] = 16, machine # "s390",
              e = <<Reg(r), Piece(8), Reg(r2), Piece(8)>>
       PROVE  Decoded(q, d, e)
  <2>1. Atoms(e) = <<"reg", "piece", "reg", "piece">> /\ e[2].n = 8
    BY <1>11 DEF Atoms, Reg, Piece, op
  <2>2. PieceOffsets(e) = {0, 8}
    BY <2>1, PiecesByAtoms
  <2>3. q = TwoPieces(NewParameter(d), r, r2)
    BY <1>1, <1>11, PiecesDecoded DEF arch__agg_use_two_regs
  <2>4. Named(q, d, {0, 8})
    BY <2>3, TwoPiecesNamed
  <2> QED
    BY <1>2, <2>2, <2>4 DEF Decoded
<1> QED
  BY <1>1, <1>4, <1>5, <1>6, <1>7, <1>8, <1>9, <1>10, <1>11, Zenon DEF Explicit

\* The expressions of one piece that the compilers write.
OnePieceOf(type, e) ==
    \/ type = "small" /\ \E r \in Nat : e = <<Reg(r), Piece(4)>>
    \/ type = "pair" /\ \E it : Holds(it) /\ e \in {<<it, Piece(8)>>, <<Piece(8), it, Piece(8)>>}

\* What is recorded of a piece tells where the piece is, or nothing.
LEMMA RecordedTells ==
  ASSUME NEW d, d.type \in Types, d.const = FALSE, NEW it, Holds(it),
         NEW q, q = Recorded(NewParameter(d), it)
  PROVE  /\ Named(q, d, {})
         /\ it = Fbreg => \A what : Tells(q, what)
         /\ \A r \in Nat : it = Reg(r) => Tells(q, {<<"value", r, 0>>})
<1>1. PICK p : p = NewParameter(d)
  OBVIOUS
<1>2. Named(p, d, {})
  BY <1>1, FreshNamed
<1>3. CASE it = Fbreg
  <2>1. it.atom = "fbreg"
    BY <1>3 DEF Fbreg, op
  <2>2. q = p
    BY <1>1, <2>1 DEF Recorded
  <2>3. \A what : Tells(p, what)
    BY <1>1, FreshFields, ToldForms
  <2>4. \A r \in Nat : it # Reg(r)
    BY <1>3 DEF Fbreg, Reg, op
  <2> QED
    BY <1>2, <2>2, <2>3, <2>4
<1>4. ASSUME NEW r \in Nat, it = Reg(r)
      PROVE  Named(q, d, {}) /\ it # Fbreg /\ Tells(q, {<<"value", r, 0>>})
  <2>1. it.atom = "reg" /\ it.reg = r /\ it # Fbreg
    BY <1>4 DEF Fbreg, Reg, op
  <2>2. q = parameter__record_loc_reg(p, r, 0, FALSE)
    BY <1>1, <2>1 DEF Recorded
  <2>3. Named(q, d, {})
    BY <1>2, <2>2, RecordNames
  <2>4. Tells(parameter__record_loc_reg(p, r, 0, FALSE), {<<"value", r, 0>>})
    BY <1>1, RegisterTold
  <2> QED
    BY <2>1, <2>2, <2>3, <2>4
<1>5. it = Fbreg \/ \E r \in Nat : it = Reg(r)
  BY DEF Holds
<1> QED
  BY <1>3, <1>4, <1>5

\* What an expression of one piece means.
LEMMA MeaningOfPiece ==
  ASSUME NEW it, Holds(it), NEW e
  PROVE  /\ e = <<it, Piece(8)>> => PieceOffsets(e) = {0}
         /\ e = <<Piece(8), it, Piece(8)>> => PieceOffsets(e) = {8}
         /\ \A r \in Nat : /\ it = Reg(r)
                           /\ e \in {<<it, Piece(4)>>, <<it, Piece(8)>>, <<Piece(8), it, Piece(8)>>}
                           => Meaning(e) = {<<"value", r, 0>>}
<1>1. it.atom = "fbreg" \/ it.atom = "reg"
  BY DEF Holds, Fbreg, Reg, op
<1>2. \A n : Piece(n).atom = "piece" /\ Piece(n).n = n
  BY DEF Piece, op
<1>3. ASSUME e = <<it, Piece(8)>> PROVE PieceOffsets(e) = {0}
  <2>1. Atoms(e) = <<it.atom, "piece">>
    BY <1>2, <1>3 DEF Atoms
  <2> QED
    BY <1>1, <2>1, PiecesByAtoms
<1>4. ASSUME e = <<Piece(8), it, Piece(8)>> PROVE PieceOffsets(e) = {8}
  <2>1. Atoms(e) = <<"piece", it.atom, "piece">> /\ e[1].n = 8
    BY <1>2, <1>4 DEF Atoms
  <2> QED
    BY <1>1, <2>1, PiecesByAtoms
<1>5. ASSUME NEW r \in Nat, it = Reg(r),
             e \in {<<it, Piece(4)>>, <<it, Piece(8)>>, <<Piece(8), it, Piece(8)>>}
      PROVE  Meaning(e) = {<<"value", r, 0>>}
  <2>1. it.atom = "reg" /\ it.reg = r
    BY <1>5 DEF Reg, op
  <2>2. CASE e \in {<<it, Piece(4)>>, <<it, Piece(8)>>}
    <3>1. Atoms(e) = <<"reg", "piece">> /\ e[1].reg = r
      BY <1>2, <2>1, <2>2 DEF Atoms
    <3> QED
      BY <3>1, MeaningByAtoms
  <2>3. CASE e = <<Piece(8), it, Piece(8)>>
    <3>1. Atoms(e) = <<"piece", "reg", "piece">> /\ e[2].reg = r
      BY <1>2, <2>1, <2>3 DEF Atoms
    <3> QED
      BY <3>1, MeaningByAtoms
  <2> QED
    BY <1>5, <2>2, <2>3
<1> QED
  BY <1>3, <1>4, <1>5

\* Only the first expression of a list says where the parameter is at the start;
\* that it is on the stack later is not recorded.
LEMMA LaterFbreg ==
  ASSUME NEW p
  PROVE  DecodeLater(p, <<Fbreg>>) = p
<1>1. Fbreg.atom = "fbreg"
  BY DEF Fbreg, op
<1>2. DecodeExpr(p, FALSE, <<Fbreg>>) = SingleExpr(p, FALSE, Fbreg, FALSE, FALSE)
  BY <1>1, DecodeSingle
<1>3. SingleExpr(p, FALSE, Fbreg, FALSE, FALSE) = p
  BY <1>1 DEF SingleExpr
<1> QED
  BY <1>2, <1>3 DEF DecodeLater

\* What follows the first expression of a list changes nothing.
LEMMA LaterLists ==
  ASSUME NEW p
  PROVE  /\ FoldLeft(DecodeLater, p, <<>>) = p
         /\ FoldLeft(DecodeLater, p, <<<<Fbreg>>>>) = p
<1>1. ASSUME NEW s, NEW S, s \in Seq(S) PROVE Decoding!Fold(p, s) = FoldLeft(DecodeLater, p, s)
  BY DEF Decoding!Fold, FoldLeft, MapThenFoldSet, Max, Decoding!FoldLeft, Decoding!MapThenFoldSet, Decoding!Max
<1>2. FoldLeft(DecodeLater, p, <<>>) = p
  <2>1. <<>> \in Seq({}) /\ Len(<<>>) = 0
    OBVIOUS
  <2>2. PICK acc : Decoding!Loop(acc, p, <<>>) /\ Decoding!Fold(p, <<>>) = acc[0]
    BY <2>1, Decoding!FoldLeftLoop
  <2>3. acc[0] = p
    BY <2>2 DEF Decoding!Loop
  <2> QED
    BY <1>1, <2>1, <2>2, <2>3
<1>3. FoldLeft(DecodeLater, p, <<<<Fbreg>>>>) = p
  <2>1. PICK f, s : f = <<Fbreg>> /\ s = <<f>>
    OBVIOUS
  <2>2. s \in Seq({f}) /\ Len(s) = 1 /\ s[1] = f
    BY <2>1
  <2>3. PICK acc : Decoding!Loop(acc, p, s) /\ Decoding!Fold(p, s) = acc[1]
    BY <2>2, Decoding!FoldLeftLoop
  <2>4. 1 \in 1 .. 1 /\ 1 - 1 = 0
    OBVIOUS
  <2>5. acc[0] = p /\ acc[1] = DecodeLater(acc[0], f)
    BY <2>2, <2>3, <2>4 DEF Decoding!Loop
  <2>6. DecodeLater(p, f) = p
    BY <2>1, LaterFbreg
  <2> QED
    BY <1>1, <2>1, <2>2, <2>3, <2>5, <2>6
<1> QED
  BY <1>2, <1>3

\* The member that is used, if it is only one, does not change what is told.
LEMMA FinishedTells ==
  ASSUME NEW p, ToldFrom \subseteq DOMAIN p
  PROVE  add_loc_param(parameter__finish_piece_decode(p)) = add_loc_param(p)
<1>1. ASSUME NEW x PROVE add_loc_param([p EXCEPT !.member = x]) = add_loc_param(p)
  <2> DEFINE q == [p EXCEPT !.member = x]
  <2>1. /\ q.size = p.size /\ q.has_const = p.has_const /\ q.loc_reg = p.loc_reg
        /\ q.loc_reg2 = p.loc_reg2 /\ q.loc_offset = p.loc_offset /\ q.loc_deref = p.loc_deref
        /\ q.loc_stack = p.loc_stack /\ q.loc_const = p.loc_const /\ q.loc_value = p.loc_value
    BY DEF ToldFrom
  <2> HIDE DEF q
  <2>2. add_loc_param(q) = add_loc_param(p)
    BY <2>1, Zenon DEF add_loc_param
  <2> QED
    BY <2>2 DEF q
<1>2. \/ parameter__finish_piece_decode(p) = p
      \/ \E x : parameter__finish_piece_decode(p) = [p EXCEPT !.member = x]
  BY DEF parameter__finish_piece_decode
<1> QED
  BY <1>1, <1>2

\* Where only one register is used, the first operation counts.
LEMMA HeadDecoded ==
  ASSUME NEW p, ~(p.size > addr_size /\ arch__agg_use_two_regs), NEW it, Holds(it), NEW n, NEW e
  PROVE  /\ e = <<it, Piece(n)>> => DecodeExpr(p, TRUE, e) = Recorded(p, it)
         /\ e = <<Piece(8), it, Piece(8)>> => DecodeExpr(p, TRUE, e) = p
<1>1. it.atom = "fbreg" \/ it.atom = "reg"
  BY DEF Holds, Fbreg, Reg, op
<1>2. PICK a, b : a = Piece(n) /\ a.atom = "piece" /\ b = Piece(8) /\ b.atom = "piece"
  <2>1. Piece(n).atom = "piece" /\ Piece(8).atom = "piece"
    BY DEF Piece, op
  <2> QED
    BY <2>1
<1>3. ASSUME Len(e) > 1, e # <<>>, Last(e).atom = "piece"
      PROVE  DecodeExpr(p, TRUE, e) = parameter__multi_exprs(p, TRUE, e)
  BY <1>3 DEF DecodeExpr
<1>4. ASSUME e = <<it, a>> PROVE DecodeExpr(p, TRUE, e) = Recorded(p, it)
  <2>1. e # <<>> /\ Len(e) > 1 /\ e[1] = it /\ Last(e) = a
    BY <1>4, LastOfTwo
  <2>2. parameter__multi_exprs(p, TRUE, e) = Recorded(p, it)
    BY <1>1, <2>1, Zenon DEF parameter__multi_exprs, Recorded
  <2> QED
    BY <1>2, <1>3, <2>1, <2>2
<1>5. ASSUME e = <<b, it, b>> PROVE DecodeExpr(p, TRUE, e) = p
  <2>1. e # <<>> /\ Len(e) > 1 /\ e[1] = b /\ Last(e) = b
    BY <1>5, LastOfThree
  <2>2. parameter__multi_exprs(p, TRUE, e) = p
    BY <1>2, <2>1, Zenon DEF parameter__multi_exprs
  <2> QED
    BY <1>2, <1>3, <2>1, <2>2
<1> QED
  BY <1>2, <1>4, <1>5

\* An expression of one piece.
LEMMA OnePieceDecoded ==
  ASSUME machine \in Machines, NEW d, d.type \in Types, d.const = FALSE,
         NEW e, OnePieceOf(d.type, e)
  PROVE  Decoded(DecodeExpr(NewParameter(d), TRUE, e), d, e)
<1>1. PICK p, q : p = NewParameter(d) /\ q = DecodeExpr(p, TRUE, e)
  OBVIOUS
<1> SUFFICES Decoded(q, d, e)
  BY <1>1
<1>2. p.size = SizeOf[d.type]
  BY <1>1, FreshFields
<1>3. Named(p, d, {}) /\ \A what : Tells(p, what)
  BY <1>1, FreshNamed, FreshFields, ToldForms
<1>4. ASSUME NEW it, Holds(it), NEW x, x = Recorded(p, it),
             e \in {<<it, Piece(4)>>, <<it, Piece(8)>>, <<Piece(8), it, Piece(8)>>}
      PROVE  Named(x, d, {}) /\ Tells(x, Meaning(e))
  <2>1. CASE it = Fbreg
    BY <1>1, <1>4, <2>1, RecordedTells
  <2>2. ASSUME NEW r \in Nat, it = Reg(r) PROVE Named(x, d, {}) /\ Tells(x, Meaning(e))
    <3>1. Named(x, d, {}) /\ Tells(x, {<<"value", r, 0>>})
      BY <1>1, <1>4, <2>2, RecordedTells
    <3>2. Meaning(e) = {<<"value", r, 0>>}
      BY <1>4, <2>2, MeaningOfPiece
    <3> QED
      BY <3>1, <3>2
  <2> QED
    BY <1>4, <2>1, <2>2 DEF Holds
<1>5. CASE d.type = "pair" /\ arch__agg_use_two_regs
  <2>1. PICK it : Holds(it) /\ e \in {<<it, Piece(8)>>, <<Piece(8), it, Piece(8)>>}
    BY <1>5, Zenon DEF OnePieceOf
  <2>2. PICK x : x = Recorded(p, it)
    OBVIOUS
  <2>3. Named(x, d, {}) /\ Tells(x, Meaning(e))
    BY <1>4, <2>1, <2>2
  <2>4. /\ DecodeExpr(p, TRUE, <<it, Piece(8)>>) = Field(x, 0)
        /\ DecodeExpr(p, TRUE, <<Piece(8), it, Piece(8)>>) = Field(x, 8)
    BY <1>1, <1>5, <2>1, <2>2, OnePiece
  <2>5. /\ Named(Field(x, 0), d, {0}) /\ Named(Field(x, 8), d, {8})
        /\ Tells(Field(x, 0), Meaning(e)) /\ Tells(Field(x, 8), Meaning(e))
    BY <2>3, FieldNames
  <2>6. CASE e = <<it, Piece(8)>>
    <3>1. PieceOffsets(e) = {0}
      BY <2>1, <2>6, MeaningOfPiece
    <3>2. q = Field(x, 0)
      BY <1>1, <2>4, <2>6
    <3> QED
      BY <1>5, <2>5, <3>1, <3>2 DEF Decoded
  <2>7. CASE e = <<Piece(8), it, Piece(8)>>
    <3>1. PieceOffsets(e) = {8}
      BY <2>1, <2>7, MeaningOfPiece
    <3>2. q = Field(x, 8)
      BY <1>1, <2>4, <2>7
    <3> QED
      BY <1>5, <2>5, <3>1, <3>2 DEF Decoded
  <2> QED
    BY <2>1, <2>6, <2>7
<1>6. CASE ~(d.type = "pair" /\ arch__agg_use_two_regs)
  <2>1. ~(p.size > addr_size /\ arch__agg_use_two_regs)
    <3>1. CASE d.type = "small"
      BY <1>2, <3>1, Sizes DEF addr_size
    <3>2. CASE d.type = "pair"
      BY <1>6, <3>2
    <3> QED
      BY <3>1, <3>2 DEF OnePieceOf
  <2>2. PICK it, n : /\ Holds(it) /\ n \in {4, 8}
                     /\ e \in {<<it, Piece(n)>>, <<Piece(8), it, Piece(8)>>}
    <3>1. CASE d.type = "small"
      BY <3>1, Zenon DEF OnePieceOf, Holds
    <3>2. CASE d.type = "pair"
      BY <3>2, Zenon DEF OnePieceOf
    <3> QED
      BY <3>1, <3>2 DEF OnePieceOf
  <2>3. q = Recorded(p, it) \/ q = p
    <3>1. /\ e = <<it, Piece(n)>> => DecodeExpr(p, TRUE, e) = Recorded(p, it)
          /\ e = <<Piece(8), it, Piece(8)>> => DecodeExpr(p, TRUE, e) = p
      BY <2>1, <2>2, HeadDecoded
    <3>2. e = <<it, Piece(n)>> \/ e = <<Piece(8), it, Piece(8)>>
      BY <2>2
    <3> QED
      BY <1>1, <3>1, <3>2
  <2>4. Named(q, d, {}) /\ Tells(q, Meaning(e))
    BY <1>3, <1>4, <2>2, <2>3
  <2> QED
    BY <1>6, <2>4 DEF Decoded
<1> QED
  BY <1>5, <1>6

\* The sizes of the sets of pieces.
LEMMA PieceCounts ==
  /\ Cardinality({}) = 0 /\ \A x : Cardinality({x}) = 1 /\ Cardinality({0, 8}) = 2
<1>1. \A x : Cardinality({x}) = 1 /\ IsFiniteSet({x})
  BY FS_Singleton
<1>2. Cardinality({0, 8}) = 2
  <2>1. 8 \notin {0} /\ {0} \cup {8} = {0, 8}
    OBVIOUS
  <2>2. Cardinality({0} \cup {8}) = Cardinality({0}) + 1
    BY <1>1, <2>1, FS_AddElement
  <2> QED
    BY <1>1, <2>1, <2>2
<1> QED
  BY <1>1, <1>2, FS_EmptySet

\* What is said of the parameter in the end, and the member it may be replaced with.
Says(f, d, e) ==
    /\ add_loc_param(f) \in {<<>>} \cup Meaning(e)
    /\ f.member # NoMember => PieceOffsets(e) = {f.member}
    /\ d.type = "pair" /\ arch__agg_use_two_regs =>
          \A off \in {0, addr_size} : PieceOffsets(e) = {off} => f.member = off

LEMMA FinishedSays ==
  ASSUME NEW d, NEW e, NEW q, Decoded(q, d, e)
  PROVE  Says(parameter__finish_piece_decode(q), d, e)
<1>1. PICK f : f = parameter__finish_piece_decode(q)
  OBVIOUS
<1>2. add_loc_param(f) \in {<<>>} \cup Meaning(e)
  BY <1>1, FinishedTells DEF Decoded, Tells
<1>3. ASSUME NEW fields, Named(q, d, fields), fields \in {{}, {0, 8}} PROVE f.member = NoMember
  <2>1. FieldsOf(q) = fields /\ Cardinality(fields) # 1 /\ q.member = NoMember
    BY <1>3, PieceCounts DEF Named
  <2> QED
    BY <1>1, <2>1 DEF parameter__finish_piece_decode, FieldsOf
<1>4. ASSUME NEW off \in {0, 8}, Named(q, d, {off}), d.type = "pair" PROVE f.member = off
  <2>1. FieldsOf(q) = {off} /\ Cardinality({off}) = 1 /\ q.type = "pair" /\ "member" \in DOMAIN q
    BY <1>4, PieceCounts DEF Named, PieceFields
  <2>2. {off} \subseteq MemberOffsets["pair"]
    BY DEF MemberOffsets
  <2>3. (CHOOSE x \in {off} : TRUE) = off
    OBVIOUS
  <2>4. f = [q EXCEPT !.member = CHOOSE x \in FieldsOf(q) : TRUE]
    BY <1>1, <2>1, <2>2 DEF parameter__finish_piece_decode, FieldsOf
  <2> QED
    BY <2>1, <2>3, <2>4
<1>5. \A off : {off} # {} /\ {off} # {0, 8}
  OBVIOUS
<1>6. CASE Named(q, d, PieceOffsets(e)) /\ PieceOffsets(e) \in {{}, {0, 8}}
  <2>1. f.member = NoMember
    BY <1>3, <1>6
  <2> QED
    BY <1>1, <1>2, <1>5, <1>6, <2>1 DEF Says
<1>7. CASE Named(q, d, PieceOffsets(e)) /\ PieceOffsets(e) \in {{0}, {8}} /\ d.type = "pair"
  <2>1. PICK off \in {0, 8} : PieceOffsets(e) = {off}
    BY <1>7
  <2>2. f.member = off
    BY <1>4, <1>7, <2>1
  <2> QED
    BY <1>1, <1>2, <2>1, <2>2 DEF Says
<1>8. CASE Named(q, d, {}) /\ ~(d.type = "pair" /\ arch__agg_use_two_regs)
  <2>1. f.member = NoMember
    BY <1>3, <1>8
  <2> QED
    BY <1>1, <1>2, <1>8, <2>1 DEF Says
<1> QED
  BY <1>6, <1>7, <1>8 DEF Decoded

\* A list that says where the parameter is from the start.
Begins(list, e) == list \in {<<e>>, <<e, <<Fbreg>>>>}

\* Only the first expression of such a list counts.
LEMMA WholeDecoded ==
  ASSUME NEW d, NEW e, Begins(d.loc, e)
  PROVE  /\ d.loc # <<>>
         /\ parameter__new(d) = parameter__finish_piece_decode(DecodeExpr(NewParameter(d), TRUE, e))
<1> DEFINE p == DecodeExpr(NewParameter(d), TRUE, e)
<1>1. d.loc # <<>> /\ Head(d.loc) = e /\ Tail(d.loc) \in {<<>>, <<<<Fbreg>>>>}
  <2>1. PICK f : f = <<Fbreg>>
    OBVIOUS
  <2>2. CASE d.loc = <<e>>
    BY <2>2
  <2>3. CASE d.loc = <<e, f>>
    BY <2>1, <2>3
  <2> QED
    BY <2>1, <2>2, <2>3 DEF Begins
<1> HIDE DEF p
<1>2. FoldLeft(DecodeLater, p, Tail(d.loc)) = p
  BY <1>1, LaterLists
<1> QED
  BY <1>1, <1>2 DEF parameter__new, parameter__decode_location, p

\* The expressions that parameter__decode_location() tells the meaning of.
Sound(m, type, e) == Explicit(m, type, e) \/ OnePieceOf(type, e)

\* What is said of a parameter whose location begins with such an expression.
LEMMA FirstSaid ==
  ASSUME machine \in Machines, NEW d, d.type \in Types, d.const = FALSE,
         NEW e, Sound(machine, d.type, e), Begins(d.loc, e)
  PROVE  Says(parameter__new(d), d, e)
<1>1. PICK q : q = DecodeExpr(NewParameter(d), TRUE, e)
  OBVIOUS
<1>2. Decoded(q, d, e)
  BY <1>1, ExplicitDecoded, OnePieceDecoded DEF Sound
<1>3. parameter__new(d) = parameter__finish_piece_decode(q)
  BY <1>1, WholeDecoded
<1> QED
  BY <1>2, <1>3, FinishedSays

\* What is told of a parameter without a location.
LEMMA NothingTold ==
  ASSUME NEW d, d.type \in Types, d.const \in BOOLEAN, d.const => d.type = "long", d.loc = <<>>
  PROVE  add_loc_param(parameter__new(d)) = IF d.const THEN <<"const", -1, 1>> ELSE <<>>
<1> DEFINE p == NewParameter(d)
<1>1. /\ ToldFrom \subseteq DOMAIN p
      /\ p.size = SizeOf[d.type] /\ p.has_const = d.const
      /\ p.loc_reg = NoReg /\ p.loc_stack = FALSE /\ p.loc_const = FALSE
      /\ p.loc_value = IF d.const THEN 1 ELSE 0
  BY FreshFields
<1>2. parameter__new(d) = parameter__finish_piece_decode(p)
  BY DEF parameter__new, parameter__decode_location
<1> HIDE DEF p
<1>3. CASE d.const
  <2>1. ~(p.size > addr_size) /\ p.loc_value = 1 /\ p.has_const
    BY <1>1, <1>3, Sizes DEF addr_size
  <2>2. add_loc_param(p) = <<"const", -1, 1>>
    BY <2>1, Zenon DEF add_loc_param
  <2> QED
    BY <1>1, <1>2, <1>3, <2>2, FinishedTells
<1>4. CASE ~d.const
  <2>1. add_loc_param(p) = <<>>
    BY <1>1, <1>4, ToldForms
  <2> QED
    BY <1>1, <1>2, <1>4, <2>1, FinishedTells
<1> QED
  BY <1>3, <1>4

-----------------------------------------------------------------------------
(* What the compilers write                                                *)

\* A DIE whose location begins with an expression that is told, or calculates
\* the value, if it has one.
Located(m, d) ==
    /\ d.type \in Types /\ d.const \in BOOLEAN /\ (d.const => d.type = "long")
    /\ \/ d.loc = <<>>
       \/ d.const = FALSE /\ \E e : Sound(m, d.type, e) /\ Begins(d.loc, e)
       \/ d.loc # <<>> /\ Computed(d.loc[1])

\* The parameters of a source.
LEMMA SourceTypes ==
  ASSUME source \in Sources, NEW k \in DOMAIN source
  PROVE  source[k].type \in Types /\ source[k].fate \in Fates(source[k].type)
<1> DEFINE Parameter == [type : Types, fate : STRING]
<1>1. source \in Seq(Parameter)
  BY SourcesAssumption
<1>2. source[k] \in Parameter
  <2> HIDE DEF Parameter
  <2> QED
    BY <1>1
<1> QED
  BY <1>2, SourcesAssumption

\* What is passed has a register, if it is not on the stack.
LEMMA InRegister ==
  ASSUME machine \in Machines, source \in Sources, NEW k \in DOMAIN source,
         source[k].fate \in Whole
  PROVE  /\ RealPlace(k) = <<>> \/ Len(RealPlace(k)) \in {1, 2}
         /\ RealPlace(k) # <<>> => RealPlace(k)[1] \in Nat
         /\ Len(RealPlace(k)) = 2 /\ RealPlace(k) # <<>> =>
              RealPlace(k)[2] \in Nat /\ SizeOf[source[k].type] = 16 /\ machine # "s390"
<1> DEFINE regs == RealPlace(k)
           type == source[k].type
<1>1. Passed(source[k]) = type
  BY DEF Passed
<1>2. InPlace(type, regs)
  BY <1>1, RealPlaceIsInPlace
<1>3. type \in Types
  BY SourceTypes
<1> HIDE DEF regs, type
<1>4. Words(type) \in {1, 2} /\ (Words(type) = 2 => SizeOf[type] = 16 /\ machine # "s390")
  BY <1>3, WordsOfType DEF arch__agg_use_two_regs
<1>5. regs # <<>> => regs \in Seq(Nat) /\ Len(regs) = Words(type)
  BY <1>2 DEF InPlace
<1>6. /\ regs = <<>> \/ Len(regs) \in {1, 2}
      /\ regs # <<>> => regs[1] \in Nat
      /\ Len(regs) = 2 /\ regs # <<>> =>
              regs[2] \in Nat /\ SizeOf[type] = 16 /\ machine # "s390"
  <2>1. CASE regs = <<>>
    BY <2>1
  <2>2. CASE regs # <<>>
    <3>1. regs \in Seq(Nat) /\ Len(regs) \in {1, 2}
      BY <1>4, <1>5, <2>2
    <3>2. regs[1] \in Nat /\ (Len(regs) = 2 => regs[2] \in Nat)
      BY <3>1
    <3> QED
      BY <1>4, <1>5, <2>2, <3>1, <3>2
  <2> QED
    BY <2>1, <2>2
<1> QED
  BY <1>6 DEF regs, type

\* The location of a whole parameter, wherever the convention puts it.
LEMMA WholeIsExplicit ==
  ASSUME machine \in Machines, source \in Sources, NEW k \in DOMAIN source,
         source[k].fate \in Whole
  PROVE  Explicit(machine, source[k].type, WholeLocation(source[k].type, RealPlace(k)))
<1> DEFINE regs == RealPlace(k)
           type == source[k].type
<1>1. CASE regs = <<>>
  BY <1>1 DEF WholeLocation, Explicit
<1>2. CASE regs # <<>> /\ Len(regs) = 2
  <2>1. WholeLocation(type, regs) = <<Reg(regs[1]), Piece(8), Reg(regs[2]), Piece(8)>>
    BY <1>2 DEF WholeLocation
  <2>2. regs[1] \in Nat /\ regs[2] \in Nat /\ SizeOf[type] = 16 /\ machine # "s390"
    BY <1>2, InRegister
  <2> QED
    BY <2>1, <2>2, Zenon DEF Explicit
<1>3. CASE regs # <<>> /\ Len(regs) # 2
  <2>1. \/ WholeLocation(type, regs) = <<Breg(regs[1], 0)>>
        \/ WholeLocation(type, regs) = <<Reg(regs[1])>>
    BY <1>3 DEF WholeLocation
  <2>2. regs[1] \in Nat
    BY <1>3, InRegister
  <2> QED
    BY <2>1, <2>2, Zenon DEF Explicit
<1> QED
  BY <1>1, <1>2, <1>3

\* The parameter another one follows from is in a register.
LEMMA BaseRegister ==
  ASSUME machine \in Machines, source \in Sources, NEW k \in DOMAIN source, Bases(k) # {}
  PROVE  \E r \in Nat : Base(k) = Breg(r, 8)
<1>1. PICK j : j = CHOOSE i \in Bases(k) : TRUE
  OBVIOUS
<1>2. j \in Bases(k)
  BY <1>1
<1>3. j \in DOMAIN source /\ source[j].fate \in Whole /\ RealPlace(j) # <<>>
  BY <1>2 DEF Bases
<1>4. RealPlace(j)[1] \in Nat
  BY <1>3, InRegister
<1>5. Base(k) = Breg(RealPlace(j)[1], 8)
  BY <1>1 DEF Base
<1> QED
  BY <1>4, <1>5

\* One long of a pair that is passed has a register, if it is not on the stack.
LEMMA PartInRegister ==
  ASSUME machine \in Machines, source \in Sources, NEW k \in DOMAIN source,
         source[k].fate \in Part
  PROVE  RealPlace(k) # <<>> => RealPlace(k)[1] \in Nat
<1>1. Passed(source[k]) = "long"
  BY DEF Passed, Part, Whole
<1>2. InPlace("long", RealPlace(k))
  BY <1>1, RealPlaceIsInPlace
<1>3. PICK regs, n : regs = RealPlace(k) /\ n = Words("long")
  OBVIOUS
<1>4. n \in {1, 2} /\ (regs # <<>> => regs \in Seq(Nat) /\ Len(regs) = n)
  BY <1>2, <1>3, WordsOfType DEF InPlace, Types
<1> QED
  BY <1>3, <1>4

\* A list of one expression, or of one and a place in the frame after it.
LEMMA BeginsLists ==
  ASSUME NEW e
  PROVE  Begins(<<e>>, e) /\ Begins(<<e, <<Fbreg>>>>, e)
BY DEF Begins

\* A value that is calculated.
LEMMA SumIsComputed ==
  ASSUME NEW a, NEW b, NEW c, c.atom \in {"plus", "minus"}
  PROVE  Computed(<<a, b, c, StackValue>>)
<1>1. PICK e : e = <<a, b, c, StackValue>>
  OBVIOUS
<1>2. 3 \in DOMAIN e /\ e[3] = c
  BY <1>1
<1>3. 3 \in DOMAIN Atoms(e) /\ Atoms(e)[3] = c.atom
  BY <1>2 DEF Atoms
<1>4. c.atom \in ToSet(Atoms(e))
  BY <1>3 DEF ToSet
<1> QED
  BY <1>1, <1>4 DEF Computed

\* The DIE of every parameter, whatever became of it.
LEMMA DieLocated ==
  ASSUME machine \in Machines, source \in Sources, NEW k \in DOMAIN source,
         source[k].fate \in Derived => Bases(k) # {}
  PROVE  Located(machine, Die(k))
<1> DEFINE p == source[k]
           regs == RealPlace(k)
           d == Die(k)
<1> SUFFICES Located(machine, d)
  OBVIOUS
<1>1. p.type \in Types /\ p.fate \in Fates(p.type)
  BY SourceTypes
<1>2. /\ d.idx = k /\ d.type = p.type /\ d.const = (p.fate = "attr") /\ d.loc = Location(k)
  BY DEF Die
<1>3. d.type \in Types /\ d.const \in BOOLEAN /\ (d.const => d.type = "long")
  <2>1. p.fate = "attr" => p.type = "long"
    BY <1>1 DEF Fates, Derived
  <2> HIDE DEF d, p
  <2> QED
    BY <1>1, <1>2, <2>1
<1> HIDE DEF d
<1>4. ASSUME p.fate # "attr", NEW e, Sound(machine, p.type, e), Begins(Location(k), e)
      PROVE  Located(machine, d)
  <2>1. d.const = FALSE /\ Sound(machine, d.type, e) /\ Begins(d.loc, e)
    BY <1>2, <1>4
  <2> QED
    BY <1>3, <2>1, Zenon DEF Located
<1>5. ASSUME NEW e, Location(k) = <<e>>, Computed(e) PROVE Located(machine, d)
  <2>1. d.loc # <<>> /\ d.loc[1] = e
    BY <1>2, <1>5
  <2> QED
    BY <1>3, <1>5, <2>1, Zenon DEF Located
<1>6. ASSUME Location(k) = <<>> PROVE Located(machine, d)
  BY <1>2, <1>3, <1>6 DEF Located
<1>7. CASE p.fate = "used"
  <2>1. Location(k) = <<WholeLocation(p.type, regs), <<Fbreg>>>>
    BY <1>7 DEF Location, Part
  <2>2. Explicit(machine, p.type, WholeLocation(p.type, regs))
    BY <1>7, WholeIsExplicit DEF Whole
  <2>3. Begins(Location(k), WholeLocation(p.type, regs))
    BY <2>1, BeginsLists
  <2> QED
    BY <1>4, <1>7, <2>2, <2>3 DEF Sound
<1>8. CASE p.fate = "late" /\ regs # <<>>
  <2>1. Location(k) = <<<<op("entry", regs[1], 0), StackValue>>>>
    BY <1>8 DEF Location, Part
  <2>2. regs[1] \in Nat
    BY <1>8, InRegister DEF Whole
  <2>3. Explicit(machine, p.type, <<op("entry", regs[1], 0), StackValue>>)
    BY <2>2, Zenon DEF Explicit
  <2>4. Begins(Location(k), <<op("entry", regs[1], 0), StackValue>>)
    BY <2>1, BeginsLists
  <2> QED
    BY <1>4, <1>8, <2>3, <2>4 DEF Sound
<1>9. CASE p.fate = "late" /\ regs = <<>>
  <2>1. Location(k) = <<<<Fbreg>>>>
    BY <1>9 DEF Location, Part
  <2>2. Explicit(machine, p.type, <<Fbreg>>)
    BY DEF Explicit
  <2>3. Begins(Location(k), <<Fbreg>>)
    BY <2>1, BeginsLists
  <2> QED
    BY <1>4, <1>9, <2>2, <2>3 DEF Sound
<1>10. CASE p.fate = "const"
  <2>1. Location(k) = <<<<op("lit", -1, 1), StackValue>>>>
    BY <1>10 DEF Location, Part
  <2>2. p.type = "long"
    BY <1>1, <1>10 DEF Fates, Derived
  <2>3. Explicit(machine, p.type, <<op("lit", -1, 1), StackValue>>)
    BY <2>2, Zenon DEF Explicit
  <2>4. Begins(Location(k), <<op("lit", -1, 1), StackValue>>)
    BY <2>1, BeginsLists
  <2> QED
    BY <1>4, <1>10, <2>3, <2>4 DEF Sound
<1>11. CASE p.fate = "derived"
  <2>1. Location(k) = <<<<Base(k), StackValue>>>>
    BY <1>11 DEF Location, Part
  <2>2. PICK r \in Nat : Base(k) = Breg(r, 8)
    BY <1>11, BaseRegister DEF Derived
  <2>3. Explicit(machine, p.type, <<Base(k), StackValue>>)
    BY <2>2, Zenon DEF Explicit
  <2>4. Begins(Location(k), <<Base(k), StackValue>>)
    BY <2>1, BeginsLists
  <2> QED
    BY <1>4, <1>11, <2>3, <2>4 DEF Sound
<1>12. CASE p.fate = "loaded"
  <2>1. Location(k) = <<<<Base(k), op("deref", -1, 0), StackValue>>>>
    BY <1>12 DEF Location, Part
  <2>2. PICK r \in Nat : Base(k) = Breg(r, 8)
    BY <1>12, BaseRegister DEF Derived
  <2>3. Explicit(machine, p.type, <<Base(k), op("deref", -1, 0), StackValue>>)
    BY <2>2, Zenon DEF Explicit
  <2>4. Begins(Location(k), <<Base(k), op("deref", -1, 0), StackValue>>)
    BY <2>1, BeginsLists
  <2> QED
    BY <1>4, <1>12, <2>3, <2>4 DEF Sound
<1>13. CASE p.fate = "sum"
  <2>1. Location(k) = <<<<Base(k), op("lit", -1, 1), op("plus", -1, 0), StackValue>>>>
    BY <1>13 DEF Location, Part
  <2>2. op("plus", -1, 0).atom = "plus"
    BY DEF op
  <2>3. Computed(<<Base(k), op("lit", -1, 1), op("plus", -1, 0), StackValue>>)
    BY <2>2, SumIsComputed
  <2> QED
    BY <1>5, <2>1, <2>3
<1>14. CASE p.fate = "difference"
  <2>1. Location(k) = <<<<op("lit", -1, 1), Base(k), op("minus", -1, 0), StackValue>>>>
    BY <1>14 DEF Location, Part
  <2>2. op("minus", -1, 0).atom = "minus"
    BY DEF op
  <2>3. Computed(<<op("lit", -1, 1), Base(k), op("minus", -1, 0), StackValue>>)
    BY <2>2, SumIsComputed
  <2> QED
    BY <1>5, <2>1, <2>3
<1>15. CASE p.fate \in {"first", "second"} /\ (regs = <<>> \/ Len(regs) * 8 < SizeOf[p.type])
  <2>1. Location(k) = <<WholeLocation(p.type, regs)>>
    <3> HIDE DEF p, regs
    <3>1. Len(regs) * 8 < SizeOf[p.type]
      <4>1. Len(<<>>) * 8 = 0
        OBVIOUS
      <4>2. SizeOf[p.type] \in {8, 16, 24}
        BY <1>1, Sizes DEF Types
      <4> QED
        BY <1>15, <4>1, <4>2
    <3>2. CASE p.fate = "first"
      BY <3>1, <3>2 DEF Location, Part, p, regs
    <3>3. CASE p.fate = "second"
      BY <3>1, <3>3 DEF Location, Part, p, regs
    <3> QED
      BY <1>15, <3>2, <3>3
  <2>2. Explicit(machine, p.type, WholeLocation(p.type, regs))
    BY <1>15, WholeIsExplicit DEF Whole
  <2>3. Begins(Location(k), WholeLocation(p.type, regs))
    BY <2>1, BeginsLists
  <2> QED
    BY <1>4, <1>15, <2>2, <2>3 DEF Sound
<1>16. CASE /\ p.fate \in {"first", "second"}
            /\ ~(regs = <<>> \/ Len(regs) * 8 < SizeOf[p.type]) /\ Len(regs) * 8 = SizeOf[p.type]
  <2>1. p.type \in {"small", "pair"} /\ (p.fate = "second" => p.type = "pair")
    BY <1>1, <1>16 DEF Fates, Derived, IsStruct
  <2>2. /\ regs[1] \in Nat /\ Len(regs) \in {1, 2} /\ (Len(regs) = 2 => regs[2] \in Nat)
    BY <1>16, InRegister DEF Whole
  <2>3. CASE p.fate = "first" /\ p.type = "small"
    <3>1. Location(k) = <<<<Reg(regs[1]), Piece(4)>>>>
      BY <1>16, <2>3 DEF Location, Part
    <3>2. OnePieceOf(p.type, <<Reg(regs[1]), Piece(4)>>)
      BY <2>2, <2>3, Zenon DEF OnePieceOf
    <3>3. Begins(Location(k), <<Reg(regs[1]), Piece(4)>>)
      BY <3>1, BeginsLists
    <3> QED
      BY <1>4, <2>3, <3>2, <3>3 DEF Sound
  <2>4. CASE p.fate = "first" /\ p.type = "pair"
    <3>1. Location(k) = <<<<Reg(regs[1]), Piece(8)>>>>
      BY <1>16, <2>4 DEF Location, Part
    <3>2. Holds(Reg(regs[1]))
      BY <2>2, Zenon DEF Holds
    <3>3. OnePieceOf(p.type, <<Reg(regs[1]), Piece(8)>>)
      BY <2>4, <3>2 DEF OnePieceOf
    <3>4. Begins(Location(k), <<Reg(regs[1]), Piece(8)>>)
      BY <3>1, BeginsLists
    <3> QED
      BY <1>4, <2>4, <3>3, <3>4 DEF Sound
  <2>5. CASE p.fate = "second"
    <3>1. Location(k) = <<<<Piece(8), Reg(regs[2]), Piece(8)>>>>
      BY <1>16, <2>5 DEF Location, Part
    <3>2. PICK n, size : n = Len(regs) /\ size = SizeOf[p.type]
      OBVIOUS
    <3>3. n \in {1, 2} /\ size = 16 /\ n * 8 = size
      BY <1>16, <2>1, <2>2, <2>5, <3>2, Sizes
    <3>4. regs[2] \in Nat
      BY <2>2, <3>2, <3>3
    <3>5. Holds(Reg(regs[2]))
      BY <3>4, Zenon DEF Holds
    <3>6. OnePieceOf(p.type, <<Piece(8), Reg(regs[2]), Piece(8)>>)
      BY <2>1, <2>5, <3>5 DEF OnePieceOf
    <3>7. Begins(Location(k), <<Piece(8), Reg(regs[2]), Piece(8)>>)
      BY <3>1, BeginsLists
    <3> QED
      BY <1>4, <2>5, <3>6, <3>7 DEF Sound
  <2> QED
    BY <1>16, <2>1, <2>3, <2>4, <2>5
<1>17. CASE /\ p.fate \in {"first", "second"}
            /\ ~(regs = <<>> \/ Len(regs) * 8 < SizeOf[p.type]) /\ Len(regs) * 8 # SizeOf[p.type]
  <2>1. Location(k) = <<>>
    BY <1>17 DEF Location, Part
  <2> QED
    BY <1>6, <2>1
<1>18. CASE p.fate \in Part
  <2>1. p.type = "pair"
    BY <1>1, <1>18 DEF Fates, Derived, IsStruct, Part
  <2>2. PICK it : it = IF regs = <<>> THEN Fbreg ELSE Reg(regs[1])
    OBVIOUS
  <2>3. Holds(it)
    BY <1>18, <2>2, PartInRegister, Zenon DEF Holds
  <2>4. \/ Location(k) = <<<<it, Piece(8)>>>>
        \/ Location(k) = <<<<Piece(8), it, Piece(8)>>>>
    BY <1>18, <2>2 DEF Location, Part
  <2>5. PICK e : Location(k) = <<e>> /\ e \in {<<it, Piece(8)>>, <<Piece(8), it, Piece(8)>>}
    BY <2>4
  <2>6. OnePieceOf(p.type, e)
    BY <2>1, <2>3, <2>5 DEF OnePieceOf
  <2>7. Begins(Location(k), e)
    BY <2>5, BeginsLists
  <2> QED
    BY <1>4, <1>18, <2>6, <2>7 DEF Sound, Part
<1>19. CASE p.fate \in {"unused", "dropped", "attr"}
  <2>1. Location(k) = <<>>
    BY <1>19 DEF Location, Part
  <2> QED
    BY <1>6, <2>1
<1>20. \/ p.fate \in {"used", "late", "const", "unused", "dropped", "attr"} \cup Derived \cup Part
       \/ p.fate \in {"first", "second"}
  BY <1>1 DEF Fates, Part, IsStruct
<1> QED
  BY <1>7, <1>8, <1>9, <1>10, <1>11, <1>12, <1>13, <1>14, <1>15, <1>16, <1>17, <1>18,
     <1>19, <1>20 DEF Derived

\* What is kept of a sequence is one of the same elements.
LEMMA OnlyIn ==
  ASSUME NEW S, NEW s \in Seq(S), NEW which
  PROVE  Only(s, which) \in Seq(S)
<1> DEFINE ones == [k \in DOMAIN s |-> IF k \in which THEN <<s[k]>> ELSE <<>>]
<1>1. \A k \in DOMAIN s : ones[k] \in Seq(S)
  OBVIOUS
<1>2. DOMAIN s = 1 .. Len(s) /\ Len(s) \in Nat
  OBVIOUS
<1>3. ones \in Seq(Seq(S))
  BY <1>1, <1>2
<1> HIDE DEF ones
<1>4. FlattenSeq(ones) = Placing!FlattenSeq(ones)
  BY DEF FlattenSeq, Placing!FlattenSeq
<1>5. FlattenSeq(ones) \in Seq(S)
  BY <1>3, <1>4, Placing!FlattenSeqIn
<1> QED
  BY <1>5 DEF Only, ones

\* Reordered() has no other DIEs.
LEMMA ReorderedIn ==
  ASSUME NEW S, NEW ds \in Seq(S)
  PROVE  Reordered(ds) \in Seq(S)
<1>1. PICK a, b : /\ a \in Seq(S) /\ b \in Seq(S) /\ Reordered(ds) = a \o b
  BY OnlyIn DEF Reordered
<1> QED
  BY <1>1

-----------------------------------------------------------------------------
(* The invariant of the locations                                          *)

\* Until they are loaded the DIEs are what the compiler wrote; what is told of them
\* follows in the one step that loads them.
IInv ==
    /\ machine \in Machines /\ source \in Sources
    /\ pc = "load" => \A k \in DOMAIN dies : Located(machine, dies[k])
    /\ LocationDescribed

\* The compilers keep the invariant, in either order of the DIEs.
LEMMA CompileKeeps ==
  ASSUME IInv, Compile
  PROVE  IInv'
<1> DEFINE all == [k \in DOMAIN source |-> Die(k)]
           S == {Die(k) : k \in DOMAIN source}
<1>1. /\ \A k \in DOMAIN source : source[k].fate \in Derived => Bases(k) # {}
      /\ dies' \in {all, Reordered(all)}
      /\ pc' = "load" /\ source' = source /\ machine' = machine
  BY DEF Compile, unit
<1>2. machine \in Machines /\ source \in Sources
  BY DEF IInv
<1>3. \A d \in S : Located(machine, d)
  BY <1>1, <1>2, DieLocated
<1>4. all \in Seq(S)
  <2>1. source \in Seq([type : Types, fate : STRING])
    BY <1>2, SourcesAssumption
  <2>2. DOMAIN source = 1 .. Len(source) /\ Len(source) \in Nat
    BY <2>1
  <2>3. \A k \in DOMAIN source : Die(k) \in S
    OBVIOUS
  <2> HIDE DEF S
  <2> QED
    BY <2>2, <2>3
<1> HIDE DEF S, all
<1>5. dies' \in Seq(S)
  BY <1>1, <1>4, ReorderedIn
<1>6. \A k \in DOMAIN dies' : Located(machine', dies'[k])
  BY <1>1, <1>3, <1>5
<1>7. LocationDescribed'
  BY <1>1 DEF LocationDescribed
<1> QED
  BY <1>1, <1>2, <1>6, <1>7 DEF IInv

\* Loading the DIEs keeps it: what is told of each is what it means.
LEMMA LoadKeeps ==
  ASSUME IInv, Load
  PROVE  IInv'
<1>1. /\ pc = "load" /\ pc' = "analyze" /\ source' = source /\ machine' = machine /\ dies' = dies
      /\ parms' = [k \in DOMAIN dies |-> parameter__new(dies[k])]
  BY DEF Load, unit, function
<1>2. machine \in Machines /\ source \in Sources
  BY DEF IInv
<1>3. \A k \in DOMAIN dies : Located(machine, dies[k])
  BY <1>1 DEF IInv
<1>4. ASSUME NEW k \in DOMAIN dies PROVE Described(dies[k], parameter__new(dies[k]))
  <2>1. PICK d : d = dies[k]
    OBVIOUS
  <2>2. Located(machine, d)
    BY <1>3, <2>1
  <2>3. d.type \in Types /\ d.const \in BOOLEAN /\ (d.const => d.type = "long")
    BY <2>2 DEF Located
  <2>4. PICK q : q = parameter__new(d)
    OBVIOUS
  <2>5. CASE d.loc = <<>>
    <3>1. add_loc_param(q) = IF d.const THEN <<"const", -1, 1>> ELSE <<>>
      BY <2>3, <2>4, <2>5, NothingTold
    <3>2. Described(d, q)
      BY <2>5, <3>1 DEF Described
    <3> QED
      BY <2>1, <2>4, <3>2
  <2>6. ASSUME d.const = FALSE, NEW e, Sound(machine, d.type, e), Begins(d.loc, e)
        PROVE  Described(d, q)
    <3>1. Says(q, d, e)
      BY <1>2, <2>3, <2>4, <2>6, FirstSaid
    <3>2. d.loc # <<>> /\ d.loc[1] = e
      BY <2>6 DEF Begins
    <3> QED
      BY <3>1, <3>2 DEF Described, Says
  <2>7. CASE d.loc # <<>> /\ Computed(d.loc[1])
    <3>1. Described(d, q)
      BY <2>7 DEF Described
    <3> QED
      BY <2>1, <2>4, <3>1
  <2> QED
    BY <2>1, <2>2, <2>4, <2>5, <2>6, <2>7 DEF Located
<1>5. LocationDescribed'
  <2> SUFFICES ASSUME NEW k \in DOMAIN dies PROVE Described(dies[k], parms[k])'
    BY <1>1 DEF LocationDescribed
  <2>1. parms'[k] = parameter__new(dies[k])
    BY <1>1
  <2>2. Described(dies[k], parameter__new(dies[k]))
    BY <1>4
  <2> QED
    BY <1>1, <2>1, <2>2 DEF Described, arch__agg_use_two_regs
<1> QED
  BY <1>1, <1>2, <1>5 DEF IInv

\* parameter__decode_location() and btf_encoder__add_loc_param(): a call site is told
\* nothing of a parameter, or what the first expression of its location means, if
\* that is not a calculation of several operations, and a piece of a pair that may be
\* in two registers is found where it is (parameter__finish_piece_decode()).
THEOREM LocationsAreDescribed == Spec => []LocationDescribed
<1>1. Init => IInv
  BY DEF Init, IInv, LocationDescribed
<1>2. IInv /\ [Next]_vars => IInv'
  <2> SUFFICES ASSUME IInv, [Next]_vars PROVE IInv'
    OBVIOUS
  <2>1. CASE Compile
    BY <2>1, CompileKeeps
  <2>2. CASE Load
    BY <2>2, LoadKeeps
  <2>3. CASE Analyze \/ Save
    BY <2>3 DEF Analyze, Save, IInv, LocationDescribed, unit, function
  <2>4. CASE UNCHANGED vars
    <3>1. /\ pc' = pc /\ machine' = machine /\ source' = source
          /\ dies' = dies /\ parms' = parms
      BY <2>4 DEF vars, unit, function
    <3>2. LocationDescribed'
      BY <3>1 DEF IInv, LocationDescribed, Described, arch__agg_use_two_regs
    <3> QED
      BY <3>1, <3>2 DEF IInv
  <2> QED
    BY <2>1, <2>2, <2>3, <2>4 DEF Next
<1>3. IInv => LocationDescribed
  BY DEF IInv
<1> QED
  BY <1>1, <1>2, <1>3, PTL DEF Spec

-----------------------------------------------------------------------------
(* What is kept                                                            *)

\* What is kept of a sequence over S up to each of its indexes.
Keeping(o, S, s, which) ==
    /\ o[0] = <<>> /\ Only(s, which) = o[Len(s)]
    /\ \A k \in 0 .. Len(s) : o[k] \in Seq(S)
    /\ \A k \in 1 .. Len(s) : o[k] = IF k \in which THEN Append(o[k - 1], s[k]) ELSE o[k - 1]

\* Only() goes through a sequence and keeps what is at the indexes.
LEMMA OnlyLoop ==
  ASSUME NEW S, NEW s \in Seq(S), NEW which
  PROVE  \E o : Keeping(o, S, s, which)
<1> DEFINE ones == [k \in DOMAIN s |-> IF k \in which THEN <<s[k]>> ELSE <<>>]
<1>1. \A k \in DOMAIN s : ones[k] \in Seq(S)
  OBVIOUS
<1>2. DOMAIN s = 1 .. Len(s) /\ Len(s) \in Nat
  OBVIOUS
<1>3. ones \in Seq(Seq(S)) /\ Len(ones) = Len(s)
  BY <1>1, <1>2
<1>4. \A k \in 1 .. Len(s) : ones[k] = IF k \in which THEN <<s[k]>> ELSE <<>>
  BY <1>2
<1>5. Only(s, which) = FlattenSeq(ones)
  BY DEF Only
<1> HIDE DEF ones
<1>6. FlattenSeq(ones) = Placing!FlattenSeq(ones)
  BY DEF FlattenSeq, Placing!FlattenSeq
<1>7. PICK o : /\ o[0] = <<>> /\ Placing!FlattenSeq(ones) = o[Len(ones)]
               /\ \A k \in 0 .. Len(ones) : o[k] \in Seq(S)
               /\ \A k \in 1 .. Len(ones) : o[k] = o[k - 1] \o ones[k]
  BY <1>3, Placing!FlattenSeqLoop
<1>8. ASSUME NEW k \in 1 .. Len(s)
      PROVE  o[k] = IF k \in which THEN Append(o[k - 1], s[k]) ELSE o[k - 1]
  <2>1. o[k] = o[k - 1] \o ones[k]
    BY <1>3, <1>7
  <2>2. o[k - 1] \in Seq(S) /\ s[k] \in S
    BY <1>2, <1>3, <1>7
  <2>3. ones[k] = IF k \in which THEN <<s[k]>> ELSE <<>>
    BY <1>4
  <2>4. PICK a, x : a = o[k - 1] /\ x = s[k]
    OBVIOUS
  <2>5. a \o <<x>> = Append(a, x) /\ a \o <<>> = a
    BY <2>2, <2>4
  <2> QED
    BY <2>1, <2>3, <2>4, <2>5
<1>9. /\ o[0] = <<>> /\ Only(s, which) = o[Len(s)]
      /\ \A k \in 0 .. Len(s) : o[k] \in Seq(S)
  BY <1>3, <1>5, <1>6, <1>7
<1>10. \A k \in 1 .. Len(s) : o[k] = IF k \in which THEN Append(o[k - 1], s[k]) ELSE o[k - 1]
  BY <1>8
<1> QED
  BY <1>9, <1>10, Zenon DEF Keeping

\* The positions that parameters had in their function.
Positions(s) == [j \in DOMAIN s |-> s[j].idx]

\* What is kept of two sequences at the same indexes, when a field of one is what
\* is in the other.
LEMMA OnlyIdx ==
  ASSUME NEW S, NEW s \in Seq(S), NEW n \in Seq(Nat), NEW which,
         Len(n) = Len(s), \A k \in 1 .. Len(s) : s[k].idx = n[k]
  PROVE  Positions(Only(s, which)) = Only(n, which)
<1>1. PICK o : Keeping(o, S, s, which)
  BY OnlyLoop
<1>2. PICK p : Keeping(p, Nat, n, which)
  BY OnlyLoop
<1> DEFINE Same(a, b) == Len(a) = Len(b) /\ \A j \in 1 .. Len(a) : a[j].idx = b[j]
           T == {m \in Nat : m \in 0 .. Len(s) => Same(o[m], p[m])}
<1>3. 0 \in T
  <2>1. Len(<<>>) = 0 /\ 1 .. 0 = {}
    OBVIOUS
  <2>2. Same(<<>>, <<>>)
    BY <2>1
  <2> HIDE DEF Same
  <2> QED
    BY <1>1, <1>2, <2>2 DEF Keeping
<1>4. ASSUME NEW a \in Seq(S), NEW b \in Seq(Nat), NEW x \in S, NEW y \in Nat,
             Same(a, b), x.idx = y
      PROVE  Same(Append(a, x), Append(b, y))
  <2>1. PICK a1, b1 : a1 = Append(a, x) /\ b1 = Append(b, y)
    OBVIOUS
  <2>2. /\ Len(a1) = Len(a) + 1 /\ a1[Len(a) + 1] = x /\ \A j \in 1 .. Len(a) : a1[j] = a[j]
        /\ Len(b1) = Len(b) + 1 /\ b1[Len(b) + 1] = y /\ \A j \in 1 .. Len(b) : b1[j] = b[j]
        /\ Len(a) \in Nat /\ Len(a) = Len(b)
    BY <1>4, <2>1
  <2>3. ASSUME NEW j \in 1 .. Len(a1) PROVE a1[j].idx = b1[j]
    <3>1. CASE j = Len(a) + 1
      BY <1>4, <2>2, <3>1
    <3>2. CASE j # Len(a) + 1
      <4>1. j \in 1 .. Len(a) /\ j \in 1 .. Len(b)
        BY <2>2, <3>2
      <4>2. a1[j] = a[j] /\ b1[j] = b[j] /\ a[j].idx = b[j]
        BY <1>4, <2>2, <4>1
      <4> QED
        BY <4>2
    <3> QED
      BY <3>1, <3>2
  <2> QED
    BY <2>1, <2>2, <2>3
<1>5. ASSUME NEW m \in Nat, m \in T PROVE m + 1 \in T
  <2> SUFFICES ASSUME m + 1 \in 0 .. Len(s) PROVE Same(o[m + 1], p[m + 1])
    BY DEF T
  <2>1. PICK j : j = m + 1
    OBVIOUS
  <2>2. j \in 1 .. Len(s) /\ j - 1 = m /\ m \in 0 .. Len(s)
    BY <2>1
  <2>3. o[m] \in Seq(S) /\ p[m] \in Seq(Nat) /\ s[j] \in S /\ n[j] \in Nat /\ s[j].idx = n[j]
    BY <1>1, <1>2, <2>2 DEF Keeping
  <2>4. /\ o[j] = IF j \in which THEN Append(o[m], s[j]) ELSE o[m]
        /\ p[j] = IF j \in which THEN Append(p[m], n[j]) ELSE p[m]
    BY <1>1, <1>2, <2>2, Zenon DEF Keeping
  <2> HIDE DEF Same
  <2>5. Same(o[m], p[m])
    BY <1>5, <2>2 DEF T
  <2>6. j \in which => Same(Append(o[m], s[j]), Append(p[m], n[j]))
    BY <1>4, <2>3, <2>5
  <2> QED
    BY <2>1, <2>4, <2>5, <2>6
<1>6. Len(s) \in T
  <2> HIDE DEF T
  <2>1. Nat \subseteq T
    BY <1>3, <1>5, Placing!NatSetInduction
  <2> QED
    BY <2>1
<1>7. PICK a, b : a = Only(s, which) /\ b = Only(n, which)
  OBVIOUS
<1>8. a \in Seq(S) /\ b \in Seq(Nat)
  BY <1>7, OnlyIn
<1>9. Len(a) = Len(b) /\ \A j \in 1 .. Len(a) : a[j].idx = b[j]
  BY <1>1, <1>2, <1>6, <1>7 DEF Keeping
<1>10. DOMAIN a = 1 .. Len(b) /\ DOMAIN b = 1 .. Len(b)
  BY <1>8, <1>9
<1>11. Positions(a) = b
  BY <1>8, <1>9, <1>10 DEF Positions
<1> QED
  BY <1>7, <1>11

\* All of a sequence.
LEMMA OnlyAll ==
  ASSUME NEW S, NEW s \in Seq(S), NEW which, DOMAIN s \subseteq which
  PROVE  Only(s, which) = s
<1>1. PICK o : Keeping(o, S, s, which)
  BY OnlyLoop
<1> DEFINE T == {m \in Nat : m \in 0 .. Len(s) =>
                    Len(o[m]) = m /\ \A j \in 1 .. m : o[m][j] = s[j]}
<1>2. 0 \in T
  <2>1. Len(<<>>) = 0 /\ 1 .. 0 = {}
    OBVIOUS
  <2> QED
    BY <1>1, <2>1 DEF Keeping
<1>3. ASSUME NEW m \in Nat, m \in T PROVE m + 1 \in T
  <2> SUFFICES ASSUME m + 1 \in 0 .. Len(s)
               PROVE  Len(o[m + 1]) = m + 1 /\ \A j \in 1 .. m + 1 : o[m + 1][j] = s[j]
    BY DEF T
  <2>1. PICK j : j = m + 1
    OBVIOUS
  <2>2. j \in 1 .. Len(s) /\ j - 1 = m /\ m \in 0 .. Len(s) /\ j \in which /\ s[j] \in S
    BY <2>1
  <2>3. PICK a, x : a = o[m] /\ x = s[j]
    OBVIOUS
  <2>4. a \in Seq(S) /\ x \in S /\ Len(a) = m /\ \A i \in 1 .. m : a[i] = s[i]
    BY <1>1, <1>3, <2>2, <2>3 DEF Keeping
  <2>5. o[j] = Append(a, x)
    BY <1>1, <2>2, <2>3, Zenon DEF Keeping
  <2>6. PICK b : b = Append(a, x)
    OBVIOUS
  <2>7. Len(b) = m + 1 /\ b[m + 1] = x /\ \A i \in 1 .. m : b[i] = a[i]
    BY <2>4, <2>6
  <2>8. \A i \in 1 .. m + 1 : i \in 1 .. m \/ i = m + 1
    OBVIOUS
  <2> QED
    BY <2>1, <2>3, <2>4, <2>5, <2>6, <2>7, <2>8
<1>4. Len(s) \in T
  <2> HIDE DEF T
  <2>1. Nat \subseteq T
    BY <1>2, <1>3, Placing!NatSetInduction
  <2> QED
    BY <2>1
<1>5. PICK a : a = Only(s, which)
  OBVIOUS
<1>6. a \in Seq(S)
  BY <1>5, OnlyIn
<1>7. Len(a) = Len(s) /\ \A j \in 1 .. Len(s) : a[j] = s[j]
  BY <1>1, <1>4, <1>5 DEF Keeping
<1>8. a = s
  BY <1>6, <1>7
<1> QED
  BY <1>5, <1>8

-----------------------------------------------------------------------------
(* The loops that judge the parameters                                     *)

\* What is found out about a parameter depends on it and on the next one.
LEMMA JudgeLooksAhead ==
  ASSUME NEW a, NEW b, NEW k, NEW r, Len(a) = Len(b), a[k] = b[k],
         k < Len(a) => a[k + 1] = b[k + 1]
  PROVE  Judge(a, k, r) = Judge(b, k, r)
<1>1. ASSUME NEW s
      PROVE  next_parameter_preserves_slots(a, k, r, s) = next_parameter_preserves_slots(b, k, r, s)
  BY DEF next_parameter_preserves_slots
<1>2. PICK p : p = a[k] /\ p = b[k]
  OBVIOUS
<1> DEFINE slots == parameter__abi_slots(p)
<1>3. PICK x : /\ x = next_parameter_preserves_slots(a, k, r, slots)
               /\ x = next_parameter_preserves_slots(b, k, r, slots)
  BY <1>1
<1> QED
  BY <1>2, <1>3 DEF Judge

\* The parameters of a sequence up to k have been replaced.
Replaced(now, ps, k) ==
    /\ now = [j \in DOMAIN ps |-> now[j]] /\ Len(now) = Len(ps)
    /\ \A j \in DOMAIN ps : j > k => now[j] = ps[j]

\* The register after each parameter, and what is found out about it.
JudgeCounts(reg, ps, res) ==
    /\ reg[0] = 0
    /\ \A k \in 1 .. Len(ps) :
          LET r == IF ps[k].memory THEN reg[k - 1] ELSE parameter__align_reg_idx(ps[k], reg[k - 1])
          IN /\ res[k] = Judge(ps, k, r).parm
             /\ reg[k] = r + Judge(ps, k, r).slots

\* The loop that judges each parameter goes through such registers.
LEMMA JudgeAllCounts ==
  ASSUME NEW S, NEW ps \in Seq(S)
  PROVE  /\ \E reg : JudgeCounts(reg, ps, JudgeAll(ps))
         /\ JudgeAll(ps) = [k \in DOMAIN ps |-> JudgeAll(ps)[k]]
<1> DEFINE base == [parms |-> ps, reg_idx |-> 0]
           n == Len(ps)
           s == [i \in DOMAIN ps |-> i]
<1>1. n \in Nat /\ DOMAIN ps = 1 .. n
  OBVIOUS
<1>2. s \in Seq(Nat) /\ Len(s) = n /\ \A k \in 1 .. n : s[k] = k
  BY <1>1
<1>3. JudgeAll(ps) = FoldLeft(JudgeNext, base, s).parms
  BY DEF JudgeAll, FoldLeftDomain
<1> HIDE DEF s
<1>4. PICK acc : Judging!Loop(acc, base, s) /\ Judging!Fold(base, s) = acc[n]
  BY <1>2, Judging!FoldLeftLoop
<1>5. JudgeAll(ps) = acc[n].parms
  <2>1. Judging!Fold(base, s) = FoldLeft(JudgeNext, base, s)
    BY DEF Judging!Fold, FoldLeft, MapThenFoldSet, Max, Judging!FoldLeft, Judging!MapThenFoldSet, Judging!Max
  <2> QED
    BY <1>3, <1>4, <2>1
<1>6. acc[0] = base /\ \A k \in 1 .. n : acc[k] = JudgeNext(acc[k - 1], k)
  BY <1>1, <1>2, <1>4 DEF Judging!Loop
<1> DEFINE r(k) == IF ps[k].memory THEN acc[k - 1].reg_idx
                   ELSE parameter__align_reg_idx(ps[k], acc[k - 1].reg_idx)
           Done(k) == /\ \A j \in 1 .. k : acc[k].parms[j] = Judge(ps, j, r(j)).parm
                      /\ \A j \in 1 .. k : acc[j].reg_idx = r(j) + Judge(ps, j, r(j)).slots
                      /\ Replaced(acc[k].parms, ps, k)
           T == {k \in Nat : k <= n => Done(k)}
<1> HIDE DEF n
<1>7. 0 \in T
  <2>1. Replaced(ps, ps, 0)
    <3>1. ps = [j \in DOMAIN ps |-> ps[j]]
      OBVIOUS
    <3> QED
      BY <3>1 DEF Replaced
  <2>2. acc[0].parms = ps /\ \A j : j \notin 1 .. 0
    BY <1>6
  <2> HIDE DEF r
  <2> QED
    BY <2>1, <2>2
<1>8. ASSUME NEW i \in Nat, i \in T PROVE i + 1 \in T
  <2> SUFFICES ASSUME i + 1 <= n PROVE Done(i + 1)
    <3> HIDE DEF Done
    <3> QED
      BY <1>8
  <2>1. PICK k : k = i + 1
    OBVIOUS
  <2>2. k \in 1 .. n /\ k - 1 = i /\ k \in Nat /\ k > i
    BY <1>1, <2>1
  <2>3. PICK now : now = acc[i].parms
    OBVIOUS
  <2>4. Done(i)
    <3> HIDE DEF Done
    <3> QED
      BY <1>1, <1>8
  <2>5. /\ \A j \in 1 .. i : now[j] = Judge(ps, j, r(j)).parm
        /\ \A j \in 1 .. i : acc[j].reg_idx = r(j) + Judge(ps, j, r(j)).slots
        /\ Replaced(now, ps, i)
    BY <2>3, <2>4
  <2>6. PICK q : q = r(k)
    OBVIOUS
  <2>7. now[k] = ps[k] /\ Len(now) = Len(ps) /\ (k < Len(now) => now[k + 1] = ps[k + 1])
    BY <1>1, <2>2, <2>5 DEF Replaced, n
  <2>8. Judge(now, k, q) = Judge(ps, k, q)
    BY <2>7, JudgeLooksAhead
  <2>9. acc[k] = JudgeNext(acc[i], k)
    BY <1>6, <2>2
  <2>10. q = IF now[k].memory THEN acc[i].reg_idx
             ELSE parameter__align_reg_idx(now[k], acc[i].reg_idx)
    BY <2>2, <2>6, <2>7
  <2> HIDE DEF r
  <2>11. PICK w : w = Judge(now, k, q)
    OBVIOUS
  <2>12. PICK then, x, y : then = acc[k].parms /\ x = w.parm /\ y = w.slots
    OBVIOUS
  <2>13. x = Judge(ps, k, q).parm /\ y = Judge(ps, k, q).slots
    BY <2>8, <2>11, <2>12
  <2>14. then = [now EXCEPT ![k] = x] /\ acc[k].reg_idx = q + y
    <3>1. JudgeNext(acc[i], k) = [parms |-> [now EXCEPT ![k] = x], reg_idx |-> q + y]
      BY <2>3, <2>10, <2>11, <2>12, Zenon DEF JudgeNext
    <3> QED
      BY <2>9, <2>12, <3>1
  <2>16. k \in DOMAIN now /\ DOMAIN now = 1 .. n
    BY <1>1, <2>2, <2>5 DEF Replaced
  <2>17. DOMAIN then = DOMAIN now /\ then[k] = x /\ \A j \in DOMAIN now : j # k => then[j] = now[j]
    BY <2>14, <2>16
  <2>18. \A j \in 1 .. k : then[j] = Judge(ps, j, r(j)).parm
    <3>1. \A j \in 1 .. k : j = k \/ (j \in 1 .. i /\ j # k /\ j \in 1 .. n)
      BY <1>1, <2>2
    <3> QED
      BY <2>5, <2>6, <2>13, <2>16, <2>17, <3>1
  <2>19. \A j \in 1 .. k : acc[j].reg_idx = r(j) + Judge(ps, j, r(j)).slots
    <3>1. \A j \in 1 .. k : j = k \/ j \in 1 .. i
      BY <2>2
    <3> QED
      BY <2>5, <2>6, <2>13, <2>14, <3>1
  <2>20. Replaced(then, ps, k)
    <3>1. \A j \in DOMAIN ps : j > k => j > i /\ j # k
      BY <1>1, <2>2
    <3>2. Len(then) = n /\ then = [j \in DOMAIN ps |-> then[j]]
      <4>1. then = [j \in DOMAIN now |-> IF j = k THEN x ELSE now[j]]
        BY <2>14
      <4>2. DOMAIN ps = DOMAIN now
        BY <1>1, <2>16
      <4>3. then = [j \in DOMAIN ps |-> then[j]]
        BY <4>1, <4>2, Zenon
      <4> QED
        BY <1>1, <2>16, <2>17, <4>3
    <3> QED
      BY <1>1, <2>5, <2>16, <2>17, <3>1, <3>2 DEF Replaced, n
  <2> QED
    BY <2>1, <2>12, <2>18, <2>19, <2>20
<1>9. Done(n)
  <2> HIDE DEF Done
  <2>1. Nat \subseteq T
    <3> HIDE DEF T
    <3> QED
      BY <1>7, <1>8, Judging!NatSetInduction
  <2> QED
    BY <1>1, <2>1
<1> DEFINE reg == [k \in 0 .. n |-> acc[k].reg_idx]
<1>10. reg[0] = 0 /\ \A k \in 1 .. n : reg[k] = acc[k].reg_idx /\ reg[k - 1] = acc[k - 1].reg_idx
  BY <1>1, <1>6
<1> HIDE DEF reg
<1>11. PICK g : g = reg
  OBVIOUS
<1>12. ASSUME NEW k \in 1 .. n
       PROVE  LET q == IF ps[k].memory THEN g[k - 1] ELSE parameter__align_reg_idx(ps[k], g[k - 1])
              IN /\ JudgeAll(ps)[k] = Judge(ps, k, q).parm
                 /\ g[k] = q + Judge(ps, k, q).slots
  <2>1. PICK q : q = r(k)
    OBVIOUS
  <2>2. q = IF ps[k].memory THEN g[k - 1] ELSE parameter__align_reg_idx(ps[k], g[k - 1])
    BY <1>10, <1>11, <2>1
  <2>3. acc[n].parms[k] = Judge(ps, k, q).parm /\ acc[k].reg_idx = q + Judge(ps, k, q).slots
    BY <1>9, <2>1
  <2>4. JudgeAll(ps)[k] = Judge(ps, k, q).parm /\ g[k] = q + Judge(ps, k, q).slots
    BY <1>5, <1>10, <1>11, <2>3
  <2> QED
    BY <2>2, <2>4
<1>13. JudgeCounts(g, ps, JudgeAll(ps))
  <2>1. g[0] = 0 /\ n = Len(ps)
    BY <1>10, <1>11 DEF n
  <2> QED
    BY <1>12, <2>1, Zenon DEF JudgeCounts
<1>14. JudgeAll(ps) = [k \in DOMAIN ps |-> JudgeAll(ps)[k]]
  BY <1>5, <1>9 DEF Replaced
<1> QED
  BY <1>13, <1>14

\* One parameter that is matched: the register before and after it, whether they
\* are used up, and what is found out about it.
Matched(reg, full, p, reg2, full2, p2) ==
    LET r == parameter__align_reg_idx(p, reg) IN
    IF full \/ p.memory THEN p2 = p /\ reg2 = reg /\ full2 = full
    ELSE IF r >= arch__nr_register_params THEN p2 = p /\ reg2 = reg /\ full2 = TRUE
    ELSE /\ p2 = IF Odd(p, r) THEN [p EXCEPT !.unexpected = TRUE] ELSE p
         /\ reg2 = r + parameter__abi_slots(p) /\ full2 = full

\* What one round of that loop does to the parameters.
MatchedNext(reg, full, now, k, then) ==
    \E reg2, full2, p2, now2 :
        /\ then = [parms |-> now2, reg_idx |-> reg2, full |-> full2]
        /\ Matched(reg, full, now[k], reg2, full2, p2)
        /\ now2 = [j \in DOMAIN now |-> now2[j]] /\ now2[k] = p2
        /\ \A j \in DOMAIN now : j # k => now2[j] = now[j]

\* It is what MatchNext() computes.
LEMMA MatchOne ==
  ASSUME NEW reg, NEW full, NEW now, NEW k \in DOMAIN now, now = [j \in DOMAIN now |-> now[j]]
  PROVE  MatchedNext(reg, full, now, k,
                     MatchNext([parms |-> now, reg_idx |-> reg, full |-> full], k))
<1> DEFINE acc == [parms |-> now, reg_idx |-> reg, full |-> full]
           p == now[k]
           r == parameter__align_reg_idx(p, reg)
           then == MatchNext(acc, k)
<1>1. acc.parms = now /\ acc.reg_idx = reg /\ acc.full = full
  OBVIOUS
<1>2. CASE full \/ p.memory
  <2>1. then = acc
    BY <1>1, <1>2 DEF MatchNext
  <2>2. Matched(reg, full, p, reg, full, p)
    BY <1>2 DEF Matched
  <2> QED
    BY <2>1, <2>2 DEF MatchedNext
<1>3. CASE ~(full \/ p.memory) /\ r >= arch__nr_register_params
  <2>1. then = [acc EXCEPT !.full = TRUE]
    BY <1>1, <1>3 DEF MatchNext
  <2>2. then = [parms |-> now, reg_idx |-> reg, full |-> TRUE]
    BY <2>1
  <2>3. Matched(reg, full, p, reg, TRUE, p)
    BY <1>3 DEF Matched
  <2> QED
    BY <2>2, <2>3 DEF MatchedNext
<1>4. CASE ~(full \/ p.memory) /\ ~(r >= arch__nr_register_params)
  <2> DEFINE p2 == IF Odd(p, r) THEN [p EXCEPT !.unexpected = TRUE] ELSE p
             reg2 == r + parameter__abi_slots(p)
             now2 == [now EXCEPT ![k] = p2]
  <2>1. then = [acc EXCEPT !.reg_idx = reg2, !.parms = [@ EXCEPT ![k] = p2]]
    BY <1>1, <1>4 DEF MatchNext
  <2>2. Matched(reg, full, p, reg2, full, p2)
    BY <1>4 DEF Matched
  <2> HIDE DEF p2, reg2, p, r
  <2>3. then = [parms |-> now2, reg_idx |-> reg2, full |-> full]
    BY <2>1
  <2>4. /\ now2 = [j \in DOMAIN now |-> now2[j]] /\ now2[k] = p2
        /\ \A j \in DOMAIN now : j # k => now2[j] = now[j]
    OBVIOUS
  <2> HIDE DEF now2, then
  <2> QED
    BY <2>2, <2>3, <2>4 DEF MatchedNext, p, then, acc
<1> QED
  BY <1>2, <1>3, <1>4

\* The register after each parameter, and whether the registers are used up.
MatchCounts(reg, full, ps, res) ==
    /\ reg[0] = 0 /\ full[0] = FALSE
    /\ \A k \in 1 .. Len(ps) : Matched(reg[k - 1], full[k - 1], ps[k], reg[k], full[k], res[k])

\* The loop goes through such registers.
LEMMA MatchAllCounts ==
  ASSUME NEW S, NEW ps \in Seq(S)
  PROVE  LET res == function__match_clang_parameter_locations(ps)
         IN /\ \E reg, full : MatchCounts(reg, full, ps, res)
            /\ res = [k \in DOMAIN ps |-> res[k]]
<1> DEFINE base == [parms |-> ps, reg_idx |-> 0, full |-> FALSE]
           n == Len(ps)
           s == [i \in DOMAIN ps |-> i]
           res == function__match_clang_parameter_locations(ps)
<1>1. n \in Nat /\ DOMAIN ps = 1 .. n
  OBVIOUS
<1>2. s \in Seq(Nat) /\ Len(s) = n /\ \A k \in 1 .. n : s[k] = k
  BY <1>1
<1>3. res = FoldLeft(MatchNext, base, s).parms
  BY DEF function__match_clang_parameter_locations, FoldLeftDomain
<1> HIDE DEF s, res
<1>4. PICK acc : Matching!Loop(acc, base, s) /\ Matching!Fold(base, s) = acc[n]
  BY <1>2, Matching!FoldLeftLoop
<1>5. res = acc[n].parms
  <2>1. Matching!Fold(base, s) = FoldLeft(MatchNext, base, s)
    BY DEF Matching!Fold, FoldLeft, MapThenFoldSet, Max, Matching!FoldLeft, Matching!MapThenFoldSet, Matching!Max
  <2> QED
    BY <1>3, <1>4, <2>1
<1>6. acc[0] = base /\ \A k \in 1 .. n : acc[k] = MatchNext(acc[k - 1], k)
  BY <1>1, <1>2, <1>4 DEF Matching!Loop
<1> DEFINE M(j, now) == Matched(acc[j - 1].reg_idx, acc[j - 1].full, ps[j],
                                acc[j].reg_idx, acc[j].full, now[j])
           Form(a) == a = [parms |-> a.parms, reg_idx |-> a.reg_idx, full |-> a.full]
           Done(k) == /\ Form(acc[k])
                      /\ \A j \in 1 .. k : M(j, acc[k].parms)
                      /\ Replaced(acc[k].parms, ps, k)
           T == {k \in Nat : k <= n => Done(k)}
<1> HIDE DEF n
<1>7. 0 \in T
  <2>1. Replaced(ps, ps, 0)
    <3>1. ps = [j \in DOMAIN ps |-> ps[j]]
      OBVIOUS
    <3> QED
      BY <3>1 DEF Replaced
  <2>2. acc[0].parms = ps /\ Form(acc[0]) /\ \A j : j \notin 1 .. 0
    BY <1>6
  <2> HIDE DEF M, Form
  <2> QED
    BY <2>1, <2>2
<1>8. ASSUME NEW i \in Nat, i \in T PROVE i + 1 \in T
  <2> SUFFICES ASSUME i + 1 <= n PROVE Done(i + 1)
    <3> HIDE DEF Done
    <3> QED
      BY <1>8
  <2>1. PICK k : k = i + 1
    OBVIOUS
  <2>2. k \in 1 .. n /\ k - 1 = i /\ k \in Nat /\ k > i
    BY <1>1, <2>1
  <2>3. PICK now, g, f, a : now = a.parms /\ g = a.reg_idx /\ f = a.full /\ a = acc[i]
    OBVIOUS
  <2>4. Done(i)
    <3> HIDE DEF Done
    <3> QED
      BY <1>1, <1>8
  <2>5. /\ a = [parms |-> now, reg_idx |-> g, full |-> f]
        /\ \A j \in 1 .. i : M(j, now)
        /\ Replaced(now, ps, i)
    BY <2>3, <2>4
  <2>6. now[k] = ps[k] /\ DOMAIN now = 1 .. n /\ now = [j \in DOMAIN now |-> now[j]]
    BY <1>1, <2>2, <2>5 DEF Replaced
  <2>7. acc[k] = MatchNext(a, k)
    BY <1>6, <2>2, <2>3
  <2>8. MatchedNext(g, f, now, k, acc[k])
    BY <2>2, <2>5, <2>6, <2>7, MatchOne
  <2>9. PICK g2, f2, p2, then :
            /\ acc[k] = [parms |-> then, reg_idx |-> g2, full |-> f2]
            /\ Matched(g, f, now[k], g2, f2, p2)
            /\ then = [j \in DOMAIN now |-> then[j]] /\ then[k] = p2
            /\ \A j \in DOMAIN now : j # k => then[j] = now[j]
    BY <2>8 DEF MatchedNext
  <2>10. acc[k].parms = then /\ acc[k].reg_idx = g2 /\ acc[k].full = f2
    BY <2>9
  <2>11. M(k, then)
    BY <2>2, <2>3, <2>6, <2>9, <2>10
  <2>12. \A j \in 1 .. k : M(j, then)
    <3>1. \A j \in 1 .. k : j = k \/ (j \in 1 .. i /\ j # k /\ j \in 1 .. n)
      BY <1>1, <2>2
    <3>2. ASSUME NEW j \in 1 .. i, j # k, j \in 1 .. n PROVE M(j, then)
      <4>1. then[j] = now[j]
        BY <2>6, <2>9, <3>2
      <4> QED
        BY <2>5, <4>1
    <3> HIDE DEF M
    <3> QED
      BY <2>11, <3>1, <3>2
  <2>13. Replaced(then, ps, k)
    <3>1. \A j \in DOMAIN ps : j > k => j > i /\ j # k
      BY <1>1, <2>2
    <3>2. Len(then) = n
      BY <1>1, <2>6, <2>9
    <3> QED
      BY <1>1, <2>5, <2>6, <2>9, <3>1, <3>2 DEF Replaced, n
  <2>14. Form(acc[k])
    BY <2>9, <2>10
  <2> HIDE DEF M, Form
  <2> QED
    BY <2>1, <2>10, <2>12, <2>13, <2>14
<1>9. Done(n)
  <2> HIDE DEF Done
  <2>1. Nat \subseteq T
    <3> HIDE DEF T
    <3> QED
      BY <1>7, <1>8, Matching!NatSetInduction
  <2> QED
    BY <1>1, <2>1
<1> DEFINE reg == [k \in 0 .. n |-> acc[k].reg_idx]
           full == [k \in 0 .. n |-> acc[k].full]
<1>10. /\ reg[0] = 0 /\ full[0] = FALSE
       /\ \A k \in 1 .. n : reg[k] = acc[k].reg_idx /\ reg[k - 1] = acc[k - 1].reg_idx
       /\ \A k \in 1 .. n : full[k] = acc[k].full /\ full[k - 1] = acc[k - 1].full
  BY <1>1, <1>6
<1> HIDE DEF reg, full
<1>11. PICK g, f : g = reg /\ f = full
  OBVIOUS
<1>12. ASSUME NEW k \in 1 .. n PROVE Matched(g[k - 1], f[k - 1], ps[k], g[k], f[k], res[k])
  BY <1>5, <1>9, <1>10, <1>11
<1>13. MatchCounts(g, f, ps, res)
  <2>1. g[0] = 0 /\ f[0] = FALSE /\ n = Len(ps)
    BY <1>10, <1>11 DEF n
  <2> QED
    BY <1>12, <2>1, Zenon DEF MatchCounts
<1>14. res = [k \in DOMAIN ps |-> res[k]]
  BY <1>5, <1>9 DEF Replaced
<1> QED
  BY <1>13, <1>14 DEF res

-----------------------------------------------------------------------------
(* What the judges see of a parameter                                      *)

\* The fields that function__analyze_parameter_locations() reads.
JudgedBy == {"idx", "type", "size", "memory", "has_const", "has_loc", "loc_reg", "loc_deref",
             "loc_stack", "loc_const", "first", "second", "optimized", "unexpected"}

\* The parameter of a DIE when its location names a register, or none, or says
\* that it is a constant.  Both halves of it are described, or it is not described
\* by halves.
Seen(q, d, reg, constant) ==
    /\ JudgedBy \subseteq DOMAIN q
    /\ q.idx = d.idx /\ q.type = d.type /\ q.size = SizeOf[d.type]
    /\ q.memory = (SizeOf[d.type] > largest_in_regs)
    /\ q.has_const = d.const /\ q.has_loc = (d.loc # <<>>)
    /\ q.optimized = FALSE /\ q.unexpected = FALSE
    /\ q.loc_reg = reg /\ q.loc_const = constant
    /\ reg # NoReg => q.loc_stack = FALSE
    /\ q.first = {} <=> q.second = {}

\* Before the location is decoded.
LEMMA NewSeen ==
  ASSUME NEW d
  PROVE  /\ Seen(NewParameter(d), d, NoReg, FALSE)
         /\ NewParameter(d).first = {} /\ NewParameter(d).second = {}
<1>1. largest_in_regs = IF arch__agg_use_two_regs THEN 2 * addr_size ELSE addr_size
  BY DEF largest_in_regs
<1> QED
  BY <1>1, Zenon DEF NewParameter, Seen, JudgedBy

\* On the stack.
LEMMA StackSeen ==
  ASSUME NEW d
  PROVE  Seen(DecodeExpr(NewParameter(d), TRUE, <<Fbreg>>), d, NoReg, FALSE)
<1> DEFINE p == NewParameter(d)
<1>1. Fbreg.atom = "fbreg" /\ Fbreg.n = 16
  BY DEF Fbreg, op
<1>2. DecodeExpr(p, TRUE, <<Fbreg>>) = SingleExpr(p, TRUE, Fbreg, FALSE, FALSE)
  BY <1>1, DecodeSingle
<1>3. Seen(p, d, NoReg, FALSE)
  BY NewSeen
<1> HIDE DEF p
<1>4. \/ SingleExpr(p, TRUE, Fbreg, FALSE, FALSE) = p
      \/ SingleExpr(p, TRUE, Fbreg, FALSE, FALSE)
           = [p EXCEPT !.loc_stack = TRUE, !.loc_offset = 16, !.loc_deref = Deref(FALSE, FALSE)]
  BY <1>1 DEF SingleExpr
<1>5. Seen([p EXCEPT !.loc_stack = TRUE, !.loc_offset = 16, !.loc_deref = Deref(FALSE, FALSE)],
           d, NoReg, FALSE)
  BY <1>3 DEF Seen, JudgedBy
<1> QED
  BY <1>2, <1>3, <1>4, <1>5 DEF p

\* In a register.
LEMMA RegisterSeen ==
  ASSUME NEW d, d.type \in Types, d.type # "big", NEW r \in Nat, NEW offset, NEW deref
  PROVE  Seen(parameter__record_loc_reg(NewParameter(d), r, offset, deref), d, r, FALSE)
<1> DEFINE p == NewParameter(d)
<1>1. Seen(p, d, NoReg, FALSE)
  BY NewSeen
<1>2. p.size \in {8, 16}
  BY <1>1, Sizes DEF Seen, Types
<1> HIDE DEF p
<1>3. p.loc_reg = NoReg /\ p.loc_stack = FALSE
  BY NewSeen, FreshFields DEF p
<1>4. parameter__record_loc_reg(p, r, offset, deref)
        = [p EXCEPT !.loc_reg = r, !.loc_offset = offset, !.loc_deref = deref]
  BY <1>2, <1>3 DEF parameter__record_loc_reg, parameter__loc_size
<1>5. Seen([p EXCEPT !.loc_reg = r, !.loc_offset = offset, !.loc_deref = deref], d, r, FALSE)
  BY <1>1, <1>3 DEF Seen, JudgedBy
<1> QED
  BY <1>4, <1>5 DEF p

\* In a register, directly, by reference or as it was at the entry.
LEMMA OneRegisterSeen ==
  ASSUME NEW d, d.type \in Types, d.type # "big", NEW r \in Nat
  PROVE  /\ Seen(DecodeExpr(NewParameter(d), TRUE, <<Reg(r)>>), d, r, FALSE)
         /\ Seen(DecodeExpr(NewParameter(d), TRUE, <<Breg(r, 0)>>), d, r, FALSE)
         /\ Seen(DecodeExpr(NewParameter(d), TRUE, <<op("entry", r, 0), StackValue>>), d, r, FALSE)
<1>1. PICK p : p = NewParameter(d)
  OBVIOUS
<1>2. PICK a, b, c : a = Reg(r) /\ b = Breg(r, 0) /\ c = op("entry", r, 0)
  OBVIOUS
<1>3. /\ a.atom = "reg" /\ a.reg = r /\ b.atom = "breg" /\ b.reg = r /\ b.n = 0
      /\ c.atom = "entry" /\ c.reg = r
  BY <1>2 DEF Reg, Breg, op
<1>4. /\ DecodeExpr(p, TRUE, <<a>>) = SingleExpr(p, TRUE, a, FALSE, FALSE)
      /\ DecodeExpr(p, TRUE, <<b>>) = SingleExpr(p, TRUE, b, FALSE, FALSE)
      /\ DecodeExpr(p, TRUE, <<c, StackValue>>) = SingleExpr(p, TRUE, c, TRUE, FALSE)
  BY <1>3, DecodeSingle
<1>5. /\ SingleExpr(p, TRUE, a, FALSE, FALSE) = parameter__record_loc_reg(p, r, 0, FALSE)
      /\ SingleExpr(p, TRUE, b, FALSE, FALSE)
           = parameter__record_loc_reg(p, r, 0, Deref(FALSE, FALSE))
      /\ SingleExpr(p, TRUE, c, TRUE, FALSE) = parameter__record_loc_reg(p, r, 0, FALSE)
  BY <1>3 DEF SingleExpr
<1>6. ASSUME NEW deref PROVE Seen(parameter__record_loc_reg(p, r, 0, deref), d, r, FALSE)
  BY <1>1, RegisterSeen
<1> QED
  BY <1>1, <1>2, <1>4, <1>5, <1>6

\* In two registers.
LEMMA TwoRegistersSeen ==
  ASSUME arch__agg_use_two_regs, NEW d, SizeOf[d.type] = 16, NEW r \in Nat, NEW r2 \in Nat
  PROVE  Seen(DecodeExpr(NewParameter(d), TRUE, <<Reg(r), Piece(8), Reg(r2), Piece(8)>>), d, r, FALSE)
<1> DEFINE p == NewParameter(d)
           p1 == [p EXCEPT !.loc_reg = r, !.loc_offset = 0, !.loc_deref = FALSE]
           p2 == [p1 EXCEPT !.first = @ \cup {0}]
           p4 == [p2 EXCEPT !.second = @ \cup {8 - addr_size}]
<1>1. Seen(p, d, NoReg, FALSE) /\ p.loc_stack = FALSE
  BY NewSeen, FreshFields
<1>2. DecodeExpr(p, TRUE, <<Reg(r), Piece(8), Reg(r2), Piece(8)>>) = TwoPieces(p, r, r2)
  BY PiecesDecoded
<1>3. TwoPieces(p, r, r2)
        = [p4 EXCEPT !.loc_reg = r, !.loc_reg2 = r2, !.loc_offset = 0, !.loc_deref = FALSE]
  BY DEF TwoPieces, parameter__record_loc_reg_pair
<1> HIDE DEF p
<1> DEFINE Else(q) == /\ JudgedBy \subseteq DOMAIN q
                      /\ \A f \in JudgedBy \ {"first", "second", "loc_reg", "loc_deref"} : q[f] = p[f]
<1>4. Else(p1)
  BY <1>1 DEF Seen, JudgedBy
<1> HIDE DEF p1
<1>5. Else(p2) /\ 0 \in p2.first
  BY <1>4 DEF JudgedBy
<1> HIDE DEF p2
<1>6. Else(p4) /\ 0 \in p4.first /\ 8 - addr_size \in p4.second
  BY <1>5 DEF JudgedBy
<1> HIDE DEF p4
<1> DEFINE q == [p4 EXCEPT !.loc_reg = r, !.loc_reg2 = r2, !.loc_offset = 0, !.loc_deref = FALSE]
<1>7. Else(q) /\ q.first # {} /\ q.second # {} /\ q.loc_reg = r
  BY <1>6 DEF JudgedBy
<1> HIDE DEF q
<1>8. Seen(q, d, r, FALSE)
  BY <1>1, <1>7 DEF Seen, JudgedBy
<1> QED
  BY <1>2, <1>3, <1>8 DEF p, q

\* A constant.
LEMMA LiteralSeen ==
  ASSUME NEW d, d.type = "long"
  PROVE  Seen(DecodeExpr(NewParameter(d), TRUE, <<op("lit", -1, 1), StackValue>>), d, NoReg, TRUE)
<1> DEFINE p == NewParameter(d)
<1>1. PICK o : o = op("lit", -1, 1)
  OBVIOUS
<1>2. o.atom = "lit"
  BY <1>1 DEF op
<1>3. Seen(p, d, NoReg, FALSE) /\ p.size = 8
  BY NewSeen, FreshFields, Sizes
<1> HIDE DEF p
<1>4. DecodeExpr(p, TRUE, <<o, StackValue>>) = SingleExpr(p, TRUE, o, TRUE, FALSE)
  BY <1>2, DecodeSingle
<1>5. SingleExpr(p, TRUE, o, TRUE, FALSE) = [p EXCEPT !.loc_const = TRUE, !.loc_value = o.n]
  BY <1>2, <1>3 DEF SingleExpr, parameter__record_loc_const, parameter__loc_size
<1>6. Seen([p EXCEPT !.loc_const = TRUE, !.loc_value = o.n], d, NoReg, TRUE)
  BY <1>3 DEF Seen, JudgedBy
<1> QED
  BY <1>1, <1>4, <1>5, <1>6 DEF p

\* The member that the pieces name is not among what the judges see first.
LEMMA FinishedSeen ==
  ASSUME NEW q, NEW d, NEW reg, NEW constant, Seen(q, d, reg, constant)
  PROVE  Seen(parameter__finish_piece_decode(q), d, reg, constant)
<1>1. ASSUME NEW x PROVE Seen([q EXCEPT !.member = x], d, reg, constant)
  BY DEF Seen, JudgedBy
<1>2. \/ parameter__finish_piece_decode(q) = q
      \/ \E x : parameter__finish_piece_decode(q) = [q EXCEPT !.member = x]
  BY DEF parameter__finish_piece_decode
<1> QED
  BY <1>1, <1>2

\* A parameter without a location, and one whose list says where it is.
LEMMA UnlocatedSeen ==
  ASSUME NEW d, d.loc = <<>>
  PROVE  Seen(parameter__new(d), d, NoReg, FALSE)
<1>1. PICK p : p = NewParameter(d)
  OBVIOUS
<1>2. parameter__new(d) = parameter__finish_piece_decode(p)
  BY <1>1 DEF parameter__new, parameter__decode_location
<1>3. Seen(p, d, NoReg, FALSE)
  BY <1>1, NewSeen
<1> QED
  BY <1>2, <1>3, FinishedSeen

\* A location that says where the parameter is from the start.
LEMMA LocatedSeen ==
  ASSUME NEW d, NEW e, Begins(d.loc, e), NEW reg, NEW constant,
         Seen(DecodeExpr(NewParameter(d), TRUE, e), d, reg, constant)
  PROVE  Seen(parameter__new(d), d, reg, constant)
<1>1. PICK p : p = DecodeExpr(NewParameter(d), TRUE, e)
  OBVIOUS
<1>2. parameter__new(d) = parameter__finish_piece_decode(p)
  BY <1>1, WholeDecoded
<1> QED
  BY <1>1, <1>2, FinishedSeen

\* The fates of a parameter that is described as one thing, or not at all.
Plain == {"used", "late", "unused", "dropped", "const", "attr"}

\* The register that is expected of a parameter, if it is in one.
RegisterOf(k) ==
    IF source[k].fate \in {"used", "late"} /\ RealPlace(k) # <<>> THEN RealPlace(k)[1] ELSE NoReg

\* The DIE of a parameter.
LEMMA DieFields ==
  ASSUME NEW k
  PROVE  /\ Die(k).idx = k /\ Die(k).type = source[k].type
         /\ Die(k).const = (source[k].fate = "attr") /\ Die(k).loc = Location(k)
BY DEF Die

\* Where the whole of a parameter is.
LEMMA WholeSeen ==
  ASSUME machine \in Machines, source \in Sources, NEW k \in DOMAIN source,
         source[k].fate = "used", source[k].type # "big"
  PROVE  Seen(DecodeExpr(NewParameter(Die(k)), TRUE, WholeLocation(source[k].type, RealPlace(k))),
              Die(k), RegisterOf(k), FALSE)
<1> DEFINE regs == RealPlace(k)
           type == source[k].type
<1>1. PICK d : d = Die(k)
  OBVIOUS
<1>2. d.type = type /\ type \in Types /\ type # "big"
  BY <1>1, SourceTypes, DieFields
<1>3. source[k].fate \in Whole
  BY DEF Whole
<1>4. /\ regs = <<>> \/ Len(regs) \in {1, 2}
      /\ regs # <<>> => regs[1] \in Nat
      /\ Len(regs) = 2 /\ regs # <<>> => regs[2] \in Nat /\ SizeOf[type] = 16 /\ machine # "s390"
  BY <1>3, InRegister
<1>5. CASE regs = <<>>
  <2>1. WholeLocation(type, regs) = <<Fbreg>> /\ RegisterOf(k) = NoReg
    BY <1>5 DEF WholeLocation, RegisterOf
  <2> QED
    BY <1>1, <2>1, StackSeen
<1>6. CASE regs # <<>> /\ Len(regs) = 2
  <2>1. /\ WholeLocation(type, regs) = <<Reg(regs[1]), Piece(8), Reg(regs[2]), Piece(8)>>
        /\ RegisterOf(k) = regs[1]
    BY <1>6 DEF WholeLocation, RegisterOf
  <2>2. arch__agg_use_two_regs /\ SizeOf[d.type] = 16 /\ regs[1] \in Nat /\ regs[2] \in Nat
    BY <1>2, <1>4, <1>6 DEF arch__agg_use_two_regs
  <2>3. PICK r, r2 : r = regs[1] /\ r2 = regs[2]
    OBVIOUS
  <2>4. Seen(DecodeExpr(NewParameter(d), TRUE, <<Reg(r), Piece(8), Reg(r2), Piece(8)>>), d, r, FALSE)
    BY <2>2, <2>3, TwoRegistersSeen
  <2> QED
    BY <1>1, <2>1, <2>3, <2>4
<1>7. CASE regs # <<>> /\ Len(regs) # 2
  <2>1. /\ \/ WholeLocation(type, regs) = <<Breg(regs[1], 0)>>
           \/ WholeLocation(type, regs) = <<Reg(regs[1])>>
        /\ RegisterOf(k) = regs[1]
    BY <1>7 DEF WholeLocation, RegisterOf
  <2>2. PICK r : r = regs[1]
    OBVIOUS
  <2>3. r \in Nat
    BY <1>4, <1>7, <2>2
  <2>4. /\ Seen(DecodeExpr(NewParameter(d), TRUE, <<Reg(r)>>), d, r, FALSE)
        /\ Seen(DecodeExpr(NewParameter(d), TRUE, <<Breg(r, 0)>>), d, r, FALSE)
    BY <1>2, <2>3, OneRegisterSeen
  <2> QED
    BY <1>1, <2>1, <2>2, <2>4
<1> QED
  BY <1>5, <1>6, <1>7

\* What the judges see of a parameter of each fate.
LEMMA PlainSeen ==
  ASSUME machine \in Machines, source \in Sources, NEW k \in DOMAIN source,
         source[k].fate \in Plain, source[k].type # "big"
  PROVE  /\ Seen(parameter__new(Die(k)), Die(k), RegisterOf(k), source[k].fate = "const")
         /\ (Die(k).loc # <<>>) = (source[k].fate \in {"used", "late", "const"})
<1> DEFINE p == source[k]
           regs == RealPlace(k)
<1>1. PICK d : d = Die(k)
  OBVIOUS
<1>2. d.type = p.type /\ p.type \in Types /\ p.fate \in Fates(p.type) /\ d.loc = Location(k)
  BY <1>1, SourceTypes, DieFields
<1>3. CASE p.fate = "used"
  <2>1. PICK e : e = WholeLocation(p.type, regs)
    OBVIOUS
  <2>2. d.loc = <<e, <<Fbreg>>>>
    <3>1. Location(k) = <<WholeLocation(p.type, regs), <<Fbreg>>>>
      BY <1>3 DEF Location, Part
    <3> QED
      BY <1>2, <2>1, <3>1
  <2>3. Seen(DecodeExpr(NewParameter(d), TRUE, e), d, RegisterOf(k), FALSE)
    BY <1>1, <1>3, <2>1, WholeSeen
  <2>4. Begins(d.loc, e) /\ d.loc # <<>>
    BY <2>2 DEF Begins
  <2>5. Seen(parameter__new(d), d, RegisterOf(k), FALSE)
    BY <2>3, <2>4, LocatedSeen
  <2>6. (p.fate = "const") = FALSE
    BY <1>3
  <2> QED
    BY <1>1, <1>3, <2>4, <2>5, <2>6
<1>4. CASE p.fate = "late" /\ regs # <<>>
  <2>1. PICK r : r = regs[1]
    OBVIOUS
  <2>2. PICK e : e = <<op("entry", r, 0), StackValue>>
    OBVIOUS
  <2>3. d.loc = <<e>> /\ RegisterOf(k) = r
    <3>1. Location(k) = <<<<op("entry", regs[1], 0), StackValue>>>>
      BY <1>4 DEF Location, Part
    <3>2. RegisterOf(k) = regs[1]
      BY <1>4 DEF RegisterOf
    <3> QED
      BY <1>2, <2>1, <2>2, <3>1, <3>2
  <2>4. r \in Nat
    BY <1>4, <2>1, InRegister DEF Whole
  <2>5. Seen(DecodeExpr(NewParameter(d), TRUE, e), d, r, FALSE)
    BY <1>2, <2>2, <2>4, OneRegisterSeen
  <2>6. Begins(d.loc, e) /\ d.loc # <<>>
    BY <2>3 DEF Begins
  <2>7. Seen(parameter__new(d), d, r, FALSE)
    BY <2>5, <2>6, LocatedSeen
  <2>8. (p.fate = "const") = FALSE
    BY <1>4
  <2> QED
    BY <1>1, <1>4, <2>3, <2>6, <2>7, <2>8
<1>5. CASE p.fate = "late" /\ regs = <<>>
  <2>1. PICK e : e = <<Fbreg>>
    OBVIOUS
  <2>2. d.loc = <<e>> /\ RegisterOf(k) = NoReg
    <3>1. Location(k) = <<<<Fbreg>>>>
      BY <1>5 DEF Location, Part
    <3>2. RegisterOf(k) = NoReg
      BY <1>5 DEF RegisterOf
    <3> QED
      BY <1>2, <2>1, <3>1, <3>2
  <2>3. Seen(DecodeExpr(NewParameter(d), TRUE, e), d, NoReg, FALSE)
    BY <2>1, StackSeen
  <2>4. Begins(d.loc, e) /\ d.loc # <<>>
    BY <2>2 DEF Begins
  <2>5. Seen(parameter__new(d), d, NoReg, FALSE)
    BY <2>3, <2>4, LocatedSeen
  <2>6. (p.fate = "const") = FALSE
    BY <1>5
  <2> QED
    BY <1>1, <1>5, <2>2, <2>4, <2>5, <2>6
<1>6. CASE p.fate = "const"
  <2>1. PICK e : e = <<op("lit", -1, 1), StackValue>>
    OBVIOUS
  <2>2. d.loc = <<e>> /\ RegisterOf(k) = NoReg /\ p.type = "long"
    <3>1. Location(k) = <<<<op("lit", -1, 1), StackValue>>>>
      BY <1>6 DEF Location, Part
    <3>2. p.type = "long"
      BY <1>2, <1>6 DEF Fates
    <3> QED
      BY <1>2, <1>6, <2>1, <3>1, <3>2 DEF RegisterOf
  <2>3. Seen(DecodeExpr(NewParameter(d), TRUE, e), d, NoReg, TRUE)
    BY <1>2, <2>1, <2>2, LiteralSeen
  <2>4. Begins(d.loc, e) /\ d.loc # <<>>
    BY <2>2 DEF Begins
  <2>5. Seen(parameter__new(d), d, NoReg, TRUE)
    BY <2>3, <2>4, LocatedSeen
  <2>6. (p.fate = "const") = TRUE
    BY <1>6
  <2> QED
    BY <1>1, <1>6, <2>2, <2>4, <2>5, <2>6
<1>7. CASE p.fate \in {"unused", "dropped", "attr"}
  <2>1. d.loc = <<>>
    BY <1>2, <1>7 DEF Location, Part
  <2>2. Seen(parameter__new(d), d, NoReg, FALSE)
    BY <2>1, UnlocatedSeen
  <2>3. (p.fate = "const") = FALSE /\ RegisterOf(k) = NoReg
        /\ (p.fate \in {"used", "late", "const"}) = FALSE
    BY <1>7 DEF RegisterOf
  <2> QED
    BY <1>1, <1>7, <2>1, <2>2, <2>3
<1> QED
  BY <1>3, <1>4, <1>5, <1>6, <1>7 DEF Plain

-----------------------------------------------------------------------------
(* Decoding a location leaves the type of the parameter alone              *)

\* A parameter of a type.
Typed(p, type) == "type" \in DOMAIN p /\ p.type = type

\* What is recorded of a location does not change the type.
LEMMA RecordsTyped ==
  ASSUME NEW p, NEW type, Typed(p, type)
  PROVE  /\ \A reg, offset, deref : Typed(parameter__record_loc_reg(p, reg, offset, deref), type)
         /\ \A reg, reg2 : Typed(parameter__record_loc_reg_pair(p, reg, reg2), type)
         /\ \A value : Typed(parameter__record_loc_const(p, value), type)
         /\ \A off : Typed(Field(p, off), type)
         /\ Typed(parameter__finish_piece_decode(p), type)
<1>1. ASSUME NEW reg, NEW offset, NEW deref
      PROVE  Typed(parameter__record_loc_reg(p, reg, offset, deref), type)
  BY DEF parameter__record_loc_reg, Typed
<1>2. ASSUME NEW reg, NEW reg2 PROVE Typed(parameter__record_loc_reg_pair(p, reg, reg2), type)
  BY DEF parameter__record_loc_reg_pair, Typed
<1>3. ASSUME NEW value PROVE Typed(parameter__record_loc_const(p, value), type)
  BY DEF parameter__record_loc_const, Typed
<1>4. ASSUME NEW off PROVE Typed(Field(p, off), type)
  <2>1. CASE off < addr_size
    BY <2>1 DEF Field, Typed
  <2>2. CASE ~(off < addr_size)
    BY <2>2 DEF Field, Typed
  <2> QED
    BY <2>1, <2>2
<1>5. Typed(parameter__finish_piece_decode(p), type)
  <2>1. ASSUME NEW x PROVE Typed([p EXCEPT !.member = x], type)
    BY DEF Typed
  <2>2. \/ parameter__finish_piece_decode(p) = p
        \/ \E x : parameter__finish_piece_decode(p) = [p EXCEPT !.member = x]
    BY DEF parameter__finish_piece_decode
  <2> QED
    BY <2>1, <2>2
<1> QED
  BY <1>1, <1>2, <1>3, <1>4, <1>5

\* One operation does not change it.
LEMMA SingleTyped ==
  ASSUME NEW p, NEW type, Typed(p, type), NEW first_loc, NEW o, NEW value, NEW deref
  PROVE  Typed(SingleExpr(p, first_loc, o, value, deref), type)
<1>1. \A x, y : Typed([p EXCEPT !.loc_stack = TRUE, !.loc_offset = x, !.loc_deref = y], type)
  BY DEF Typed
<1>2. /\ \A reg, offset, d : Typed(parameter__record_loc_reg(p, reg, offset, d), type)
      /\ \A v : Typed(parameter__record_loc_const(p, v), type)
  BY RecordsTyped
<1> QED
  BY <1>1, <1>2 DEF SingleExpr

\* One operation of an expression of pieces does not change it.
LEMMA PieceTyped ==
  ASSUME NEW acc, "p" \in DOMAIN acc, NEW type, Typed(acc.p, type), NEW o
  PROVE  "p" \in DOMAIN Piecewise(acc, o) /\ Typed(Piecewise(acc, o).p, type)
<1>1. /\ \A reg, offset, deref : Typed(parameter__record_loc_reg(acc.p, reg, offset, deref), type)
      /\ \A off : Typed(Field(acc.p, off), type)
  BY RecordsTyped
<1>2. CASE o.atom = "piece"
  BY <1>1, <1>2 DEF Piecewise
<1>3. CASE o.atom = "reg"
  BY <1>1, <1>3 DEF Piecewise
<1>4. CASE o.atom # "piece" /\ o.atom # "reg"
  BY <1>4 DEF Piecewise
<1> QED
  BY <1>2, <1>3, <1>4

\* Such an expression does not change it.
LEMMA PiecesTyped ==
  ASSUME NEW p, NEW type, Typed(p, type), NEW first_loc, NEW S, NEW expr \in Seq(S)
  PROVE  Typed(Pieces(p, first_loc, expr), type)
<1> DEFINE base == [p |-> p, off |-> 0, regs |-> <<>>, size |-> 0,
                    regs_only |-> TRUE, last |-> "none"]
           n == Len(expr)
<1>1. PICK acc : Piecing!Loop(acc, base, expr) /\ Piecing!Fold(base, expr) = acc[n]
  BY Piecing!FoldLeftLoop
<1>2. Piecing!Fold(base, expr) = FoldLeft(Piecewise, base, expr)
  BY DEF Piecing!Fold, FoldLeft, MapThenFoldSet, Max, Piecing!FoldLeft, Piecing!MapThenFoldSet, Piecing!Max
<1>3. n \in Nat /\ acc[0] = base /\ \A k \in 1 .. n : acc[k] = Piecewise(acc[k - 1], expr[k])
  BY <1>1 DEF Piecing!Loop
<1> DEFINE Good(k) == "p" \in DOMAIN acc[k] /\ Typed(acc[k].p, type)
           T == {k \in Nat : k <= n => Good(k)}
<1>4. 0 \in T
  <2>1. "p" \in DOMAIN base /\ base.p = p
    OBVIOUS
  <2> HIDE DEF base
  <2> QED
    BY <1>3, <2>1
<1> HIDE DEF base, n
<1>5. ASSUME NEW i \in Nat, i \in T PROVE i + 1 \in T
  <2> SUFFICES ASSUME i + 1 <= n PROVE Good(i + 1)
    <3> HIDE DEF Good
    <3> QED
      BY <1>5
  <2>1. i + 1 \in 1 .. n /\ i + 1 - 1 = i
    BY <1>3
  <2>2. acc[i + 1] = Piecewise(acc[i], expr[i + 1])
    <3>1. PICK k : k = i + 1
      OBVIOUS
    <3>2. acc[k] = Piecewise(acc[k - 1], expr[k])
      BY <1>3, <2>1, <3>1
    <3> QED
      BY <2>1, <3>1, <3>2
  <2>3. "p" \in DOMAIN acc[i] /\ Typed(acc[i].p, type)
    BY <1>3, <1>5
  <2>4. PICK a, o : a = acc[i] /\ o = expr[i + 1]
    OBVIOUS
  <2>5. "p" \in DOMAIN Piecewise(a, o) /\ Typed(Piecewise(a, o).p, type)
    BY <2>3, <2>4, PieceTyped
  <2> QED
    BY <2>2, <2>4, <2>5
<1>6. Good(n)
  <2> HIDE DEF Good
  <2>1. Nat \subseteq T
    <3> HIDE DEF T
    <3> QED
      BY <1>4, <1>5, Piecing!NatSetInduction
  <2> QED
    BY <1>3, <2>1
<1>7. PICK all : all = acc[n] /\ Typed(all.p, type)
  BY <1>6
<1>8. all = FoldLeft(Piecewise, base, expr)
  BY <1>1, <1>2, <1>7
<1>9. \A a, b : Typed(parameter__record_loc_reg_pair(all.p, a, b), type)
  BY <1>7, RecordsTyped
<1>10. \/ Pieces(p, first_loc, expr) = all.p
       \/ Pieces(p, first_loc, expr) = parameter__record_loc_reg_pair(all.p, all.regs[1], all.regs[2])
  BY <1>8, Zenon DEF Pieces, base
<1> QED
  BY <1>7, <1>9, <1>10

\* No expression changes it.
LEMMA ExprTyped ==
  ASSUME NEW p, NEW type, Typed(p, type), NEW first_loc, NEW S, NEW expr \in Seq(S)
  PROVE  Typed(DecodeExpr(p, first_loc, expr), type)
<1> DEFINE value == Last(expr).atom = "stack_value"
           inner == IF value THEN Front(expr) ELSE expr
           deref == inner # <<>> /\ Last(inner).atom = "deref"
           ops == IF deref THEN Front(inner) ELSE inner
<1>1. \A s \in Seq(S) : Front(s) \in Seq(S)
  BY DEF Front
<1>2. inner \in Seq(S)
  BY <1>1
<1>3. ops \in Seq(S)
  <2> HIDE DEF inner
  <2> QED
    BY <1>1, <1>2
<1>4. \/ DecodeExpr(p, first_loc, expr) = p
      \/ DecodeExpr(p, first_loc, expr) = parameter__multi_exprs(p, first_loc, ops)
      \/ DecodeExpr(p, first_loc, expr) = SingleExpr(p, first_loc, ops[1], value, deref)
  BY DEF DecodeExpr
<1> HIDE DEF ops, value, deref
<1>5. Typed(SingleExpr(p, first_loc, ops[1], value, deref), type)
  BY SingleTyped
<1>6. Typed(parameter__multi_exprs(p, first_loc, ops), type)
  <2>1. Typed(Pieces(p, first_loc, ops), type)
    BY <1>3, PiecesTyped
  <2>2. /\ \A reg, offset, d : Typed(parameter__record_loc_reg(p, reg, offset, d), type)
        /\ \A v : Typed(parameter__record_loc_const(p, v), type)
    BY RecordsTyped
  <2> QED
    BY <2>1, <2>2, Zenon DEF parameter__multi_exprs
<1> QED
  BY <1>4, <1>5, <1>6

\* The parameter of a DIE has the type of the DIE.
LEMMA NewTyped ==
  ASSUME NEW d, NEW S, d.loc \in Seq(Seq(S))
  PROVE  Typed(parameter__new(d), d.type)
<1> DEFINE p == NewParameter(d)
           list == d.loc
           type == d.type
<1>1. Typed(p, type)
  BY DEF NewParameter, Typed
<1> HIDE DEF p, type
<1>2. CASE list = <<>>
  <2>1. parameter__new(d) = parameter__finish_piece_decode(p)
    BY <1>2 DEF parameter__new, parameter__decode_location, p
  <2> QED
    BY <1>1, <2>1, RecordsTyped DEF type
<1>3. CASE list # <<>>
  <2> DEFINE s == Tail(list)
             base == DecodeExpr(p, TRUE, Head(list))
             n == Len(s)
  <2>1. s \in Seq(Seq(S)) /\ Head(list) \in Seq(S)
    BY <1>3
  <2>2. Typed(base, type)
    BY <1>1, <2>1, ExprTyped
  <2>3. parameter__new(d) = parameter__finish_piece_decode(FoldLeft(DecodeLater, base, s))
    BY <1>3 DEF parameter__new, parameter__decode_location, p
  <2> HIDE DEF s, base
  <2>4. PICK acc : Decoding!Loop(acc, base, s) /\ Decoding!Fold(base, s) = acc[n]
    BY <2>1, Decoding!FoldLeftLoop
  <2>5. Decoding!Fold(base, s) = FoldLeft(DecodeLater, base, s)
    BY DEF Decoding!Fold, FoldLeft, MapThenFoldSet, Max, Decoding!FoldLeft, Decoding!MapThenFoldSet, Decoding!Max
  <2>6. n \in Nat /\ acc[0] = base /\ \A k \in 1 .. n : acc[k] = DecodeLater(acc[k - 1], s[k])
    BY <2>1, <2>4 DEF Decoding!Loop
  <2> HIDE DEF n
  <2> DEFINE T == {k \in Nat : k <= n => Typed(acc[k], type)}
  <2>7. 0 \in T
    BY <2>2, <2>6
  <2>8. ASSUME NEW i \in Nat, i \in T PROVE i + 1 \in T
    <3> SUFFICES ASSUME i + 1 <= n PROVE Typed(acc[i + 1], type)
      BY <2>8
    <3>1. PICK k : k = i + 1
      OBVIOUS
    <3>2. k \in 1 .. n /\ k - 1 = i
      BY <2>6, <3>1
    <3>3. acc[k] = DecodeLater(acc[i], s[k]) /\ s[k] \in Seq(S)
      BY <2>1, <2>6, <3>2 DEF n
    <3>4. Typed(acc[i], type)
      BY <2>6, <2>8
    <3>5. Typed(DecodeExpr(acc[i], FALSE, s[k]), type)
      BY <3>3, <3>4, ExprTyped
    <3> QED
      BY <3>1, <3>3, <3>5 DEF DecodeLater
  <2>9. Typed(acc[n], type)
    <3>1. Nat \subseteq T
      <4> HIDE DEF T
      <4> QED
        BY <2>7, <2>8, Decoding!NatSetInduction
    <3> QED
      BY <2>6, <3>1
  <2> QED
    BY <2>3, <2>4, <2>5, <2>9, RecordsTyped DEF type
<1> QED
  BY <1>2, <1>3

-----------------------------------------------------------------------------
(* A function that is called as it was declared                            *)

\* The operations in the location of a parameter that is passed as it was declared.
Operations ==
    {Fbreg, StackValue, Piece(4), Piece(8)}
    \cup UNION {{Reg(r), Breg(r, 0), op("entry", r, 0)} : r \in Nat}

\* Such a location is a list of expressions.
LEMMA WholeLocationIn ==
  ASSUME machine \in Machines, source \in Sources, NEW k \in DOMAIN source,
         source[k].fate \in Whole
  PROVE  Location(k) \in Seq(Seq(Operations))
<1> DEFINE p == source[k]
           regs == RealPlace(k)
           whole == WholeLocation(p.type, regs)
<1>1. p.type \in Types /\ p.fate \in Fates(p.type)
  BY SourceTypes
<1>2. /\ regs = <<>> \/ Len(regs) \in {1, 2}
      /\ regs # <<>> => regs[1] \in Nat
      /\ Len(regs) = 2 /\ regs # <<>> => regs[2] \in Nat
  BY InRegister
<1>3. /\ Fbreg \in Operations /\ StackValue \in Operations
      /\ Piece(4) \in Operations /\ Piece(8) \in Operations
      /\ \A r \in Nat : /\ Reg(r) \in Operations /\ Breg(r, 0) \in Operations
                        /\ op("entry", r, 0) \in Operations
  <2>1. ASSUME NEW r \in Nat
        PROVE  Reg(r) \in Operations /\ Breg(r, 0) \in Operations /\ op("entry", r, 0) \in Operations
    <3>1. PICK one : one = {Reg(r), Breg(r, 0), op("entry", r, 0)}
      OBVIOUS
    <3>2. one \subseteq Operations
      BY <3>1, Zenon DEF Operations
    <3> QED
      BY <3>1, <3>2
  <2>2. {Fbreg, StackValue, Piece(4), Piece(8)} \subseteq Operations
    BY Zenon DEF Operations
  <2> QED
    BY <2>1, <2>2
<1> DEFINE O == Operations
<1> HIDE DEF O, regs, p, whole
<1>4. \A a \in O : <<a>> \in Seq(O)
  OBVIOUS
<1>5. \A a \in O, b \in O : <<a, b>> \in Seq(O)
  OBVIOUS
<1>6. \A a \in O, b \in O, c \in O : <<a, b, c>> \in Seq(O)
  OBVIOUS
<1>7. \A a \in O, b \in O, c \in O, d \in O : <<a, b, c, d>> \in Seq(O)
  OBVIOUS
<1>8. \A e \in Seq(O) : <<e>> \in Seq(Seq(O))
  OBVIOUS
<1>9. \A e \in Seq(O), f \in Seq(O) : <<e, f>> \in Seq(Seq(O))
  OBVIOUS
<1>10. <<>> \in Seq(Seq(O))
  OBVIOUS
<1>11. whole \in Seq(O)
  <2>1. CASE regs = <<>>
    <3>1. whole = <<Fbreg>>
      BY <2>1, Zenon DEF whole, WholeLocation
    <3> QED
      BY <1>3, <1>4, <3>1 DEF O
  <2>2. CASE regs # <<>> /\ Len(regs) = 2
    <3>1. whole = <<Reg(regs[1]), Piece(8), Reg(regs[2]), Piece(8)>>
      BY <2>2, Zenon DEF whole, WholeLocation
    <3>2. Reg(regs[1]) \in O /\ Reg(regs[2]) \in O /\ Piece(8) \in O
      BY <1>2, <1>3, <2>2 DEF O
    <3> QED
      BY <1>7, <3>1, <3>2
  <2>3. CASE regs # <<>> /\ Len(regs) # 2
    <3>1. whole = <<Breg(regs[1], 0)>> \/ whole = <<Reg(regs[1])>>
      BY <2>3, Zenon DEF whole, WholeLocation
    <3>2. Reg(regs[1]) \in O /\ Breg(regs[1], 0) \in O
      BY <1>2, <1>3, <2>3 DEF O
    <3> QED
      BY <1>4, <3>1, <3>2
  <2> QED
    BY <2>1, <2>2, <2>3
<1>12. /\ <<Fbreg>> \in Seq(O) /\ <<whole>> \in Seq(Seq(O))
       /\ <<whole, <<Fbreg>>>> \in Seq(Seq(O)) /\ <<<<Fbreg>>>> \in Seq(Seq(O))
  BY <1>3, <1>4, <1>8, <1>9, <1>11 DEF O
<1>13. CASE p.fate = "used"
  <2>1. Location(k) = <<whole, <<Fbreg>>>>
    BY <1>13 DEF Location, Part, p, whole, regs
  <2> QED
    BY <1>12, <2>1 DEF O
<1>14. CASE p.fate = "late" /\ regs # <<>>
  <2>1. Location(k) = <<<<op("entry", regs[1], 0), StackValue>>>>
    BY <1>14 DEF Location, Part, p, whole, regs
  <2>2. op("entry", regs[1], 0) \in O /\ StackValue \in O
    BY <1>2, <1>3, <1>14 DEF O
  <2> QED
    BY <1>5, <1>8, <2>1, <2>2 DEF O
<1>15. CASE p.fate = "late" /\ regs = <<>>
  <2>1. Location(k) = <<<<Fbreg>>>>
    BY <1>15 DEF Location, Part, p, whole, regs
  <2> QED
    BY <1>12, <2>1 DEF O
<1>16. CASE p.fate = "unused"
  <2>1. Location(k) = <<>>
    BY <1>16 DEF Location, Part, p, whole, regs
  <2> QED
    BY <1>10, <2>1 DEF O
<1>17. CASE p.fate \in {"first", "second"}
  <2>1. CASE regs = <<>> \/ Len(regs) * 8 < SizeOf[p.type]
    <3>1. Location(k) = <<whole>>
      <4>1. Len(regs) * 8 < SizeOf[p.type]
        <5>1. Len(<<>>) * 8 = 0
          OBVIOUS
        <5>2. SizeOf[p.type] \in {8, 16, 24}
          BY <1>1, Sizes DEF Types
        <5> QED
          BY <2>1, <5>1, <5>2
      <4>2. CASE p.fate = "first"
        BY <4>1, <4>2 DEF Location, Part, p, whole, regs
      <4>3. CASE p.fate = "second"
        BY <4>1, <4>3 DEF Location, Part, p, whole, regs
      <4> QED
        BY <1>17, <4>2, <4>3
    <3> QED
      BY <1>12, <3>1 DEF O
  <2>2. CASE /\ ~(regs = <<>> \/ Len(regs) * 8 < SizeOf[p.type])
             /\ Len(regs) * 8 = SizeOf[p.type]
    <3>1. CASE p.fate = "first"
      <4> DEFINE half == [small |-> 4, pair |-> 8][p.type]
      <4>1. Location(k) = <<<<Reg(regs[1]), Piece(half)>>>>
        BY <2>2, <3>1 DEF Location, Part, p, whole, regs
      <4>2. half \in {4, 8}
        BY <1>1, <3>1 DEF Fates, Derived, IsStruct, p
      <4>3. Reg(regs[1]) \in O /\ Piece(half) \in O
        BY <1>2, <1>3, <2>2, <4>2 DEF O
      <4> HIDE DEF half
      <4> QED
        BY <1>5, <1>8, <4>1, <4>3 DEF O
    <3>2. CASE p.fate = "second"
      <4>1. Location(k) = <<<<Piece(8), Reg(regs[2]), Piece(8)>>>>
        BY <2>2, <3>2 DEF Location, Part, p, whole, regs
      <4>2. SizeOf[p.type] = 16
        BY <1>1, <3>2, Sizes DEF Fates, Derived, IsStruct, p
      <4>3. Len(regs) = 2 /\ regs # <<>>
        <5>1. PICK n, size : n = Len(regs) /\ size = SizeOf[p.type]
          OBVIOUS
        <5>2. regs # <<>> /\ n * 8 = size /\ n \in {1, 2} /\ size = 16
          BY <1>2, <2>2, <4>2, <5>1
        <5> QED
          BY <5>1, <5>2
      <4>4. Reg(regs[2]) \in O /\ Piece(8) \in O
        BY <1>2, <1>3, <4>3 DEF O
      <4> QED
        BY <1>6, <1>8, <4>1, <4>4 DEF O
    <3> QED
      BY <1>17, <3>1, <3>2
  <2>3. CASE /\ ~(regs = <<>> \/ Len(regs) * 8 < SizeOf[p.type])
             /\ Len(regs) * 8 # SizeOf[p.type]
    <3>1. Location(k) = <<>>
      BY <1>17, <2>3 DEF Location, Part, p, whole, regs
    <3> QED
      BY <1>10, <3>1 DEF O
  <2> QED
    BY <2>1, <2>2, <2>3
<1> QED
  BY <1>13, <1>14, <1>15, <1>16, <1>17 DEF Whole, p

\* What the conventions of the machines have in common.
LEMMA Conventions ==
  ASSUME machine \in Machines
  PROVE  /\ arch__nr_register_params \in Nat /\ arch__nr_register_params > 0
         /\ machine # "s390" => arch__agg_use_two_regs /\ largest_in_regs = 16
         /\ machine = "s390" => /\ ~arch__agg_use_two_regs /\ largest_in_regs = 8
                                /\ ByReference
         /\ arch__arg_align_two_regs <=> machine = "aarch64"
         /\ arch__param_loc_supported <=> machine # "s390"
<1>1. machine \in {"x86_64", "aarch64", "s390"}
  BY MachinesAssumption DEF AllMachines
<1> QED
  BY <1>1 DEF arch__nr_register_params, arch__agg_use_two_regs, largest_in_regs, addr_size,
              ByReference, arch__arg_align_two_regs, arch__param_loc_supported

\* The types whose values may be in registers.
InRegs == {"long", "int128", "small", "pair"}

\* A parameter takes the registers that an argument of its type takes, from the
\* first one that the convention aligns it to.
LEMMA SlotsAreWords ==
  ASSUME machine \in Machines, NEW q, NEW d, d.type \in InRegs, NEW reg, NEW constant,
         Seen(q, d, reg, constant)
  PROVE  /\ (IF q.memory THEN 1 ELSE parameter__abi_slots(q)) = Words(d.type)
         /\ q.memory => machine = "s390"
         /\ Words(d.type) \in {1, 2}
         /\ \A g : (IF q.memory THEN g ELSE parameter__align_reg_idx(q, g)) = First(g, d.type)
<1>1. q.size = SizeOf[d.type] /\ q.type = d.type
      /\ q.memory = (SizeOf[d.type] > largest_in_regs)
  BY DEF Seen
<1>2. SizeOf[d.type] \in {8, 16} /\ (d.type = "int128" => SizeOf[d.type] = 16)
  BY Sizes DEF InRegs
<1>3. 8 \div 8 = 1 /\ 16 \div 8 = 2 /\ (16 + 8 - 1) \div 8 = 2
  OBVIOUS
<1>4. Words(d.type) \in {1, 2}
  BY WordsOfType DEF InRegs, Types
<1>5. CASE machine = "s390"
  <2>1. ~arch__agg_use_two_regs /\ largest_in_regs = 8 /\ ~arch__arg_align_two_regs
    BY <1>5, Conventions
  <2>2. \A g : parameter__align_reg_idx(q, g) = g /\ First(g, d.type) = g
    BY <2>1 DEF parameter__align_reg_idx, First
  <2>3. parameter__abi_slots(q) = 1
    BY <2>1 DEF parameter__abi_slots
  <2>4. Words(d.type) = 1
    BY <1>2, <1>3, <2>1 DEF Words, addr_size
  <2> QED
    BY <1>4, <1>5, <2>2, <2>3, <2>4
<1>6. CASE machine # "s390"
  <2>1. arch__agg_use_two_regs /\ largest_in_regs = 16
    BY <1>6, Conventions
  <2>2. ~q.memory
    <3>1. ~(SizeOf[d.type] > largest_in_regs)
      BY <1>2, <2>1
    <3> QED
      BY <1>1, <3>1, Zenon
  <2>3. parameter__abi_slots(q) = Words(d.type)
    BY <1>1, <1>2, <1>3, <2>1 DEF Words, addr_size, parameter__abi_slots
  <2>4. ASSUME NEW g PROVE parameter__align_reg_idx(q, g) = First(g, d.type)
    <3>1. d.type = "int128" => q.size > addr_size
      BY <1>1, <1>2 DEF addr_size
    <3> QED
      BY <1>1, <3>1 DEF parameter__align_reg_idx, First
  <2> QED
    BY <1>4, <2>2, <2>3, <2>4
<1> QED
  BY <1>5, <1>6

\* What is found out about a parameter, and the registers it consumes, when the
\* true signature is not looked for.
PlainJudgement(p, r, words) ==
    LET is(q, n) == [parm |-> q, slots |-> n]
    IN IF ~p.has_loc THEN is(p, words)
       ELSE IF ~(r < arch__nr_register_params) THEN is(p, 0)
       ELSE IF p.loc_reg = NoReg THEN is([p EXCEPT !.optimized = TRUE], words)
       ELSE IF p.loc_reg # r THEN is([p EXCEPT !.unexpected = TRUE], words)
       ELSE is(p, words)

\* How a parameter is judged when the true signature is not looked for.
LEMMA JudgePlainly ==
  ASSUME ~true_sig, NEW ps, NEW k, NEW r, NEW p, p = ps[k], ~p.has_const,
         NEW words, words = IF p.memory THEN 1 ELSE parameter__abi_slots(p)
  PROVE  Judge(ps, k, r) = PlainJudgement(p, r, words)
<1>1. PICK sig : sig = true_sig /\ ~sig
  OBVIOUS
<1>2. PICK nr, avail : nr = arch__nr_register_params /\ avail = (r < nr)
  OBVIOUS
<1> QED
  BY <1>1, <1>2, Zenon DEF Judge, PlainJudgement

\* The first of an argument's registers.
LEMMA FirstOfArgument ==
  ASSUME NEW n \in {1, 2}, NEW r \in Nat
  PROVE  Argument(n, r) # <<>> /\ Argument(n, r)[1] = r
<1>1. 1 \in 1 .. n /\ r + 1 - 1 = r
  OBVIOUS
<1>2. Argument(n, r)[1] = r
  BY <1>1 DEF Argument
<1>3. DOMAIN Argument(n, r) = 1 .. n /\ DOMAIN <<>> = {}
  BY DEF Argument
<1> QED
  BY <1>1, <1>2, <1>3

\* What is left to say of a parameter of a function called as it was declared:
\* the registers that are counted agree with those that it takes, until they
\* are used up.
InStep(g, m) == g = m \/ g >= arch__nr_register_params

\* A parameter whose location, if it has one, says where it was placed.
AsPlaced(q, d, type, regs) ==
    \E reg : /\ Seen(q, d, reg, FALSE) /\ d.type = type /\ ~d.const
             /\ reg = IF d.loc = <<>> \/ regs = <<>> THEN NoReg ELSE regs[1]

\* What is found out about a parameter that starts at register r.
Expected(j, r, after) ==
    ~j.parm.unexpected /\ r + j.slots \in Nat /\ InStep(r + j.slots, after)

\* A parameter that was placed is not found in an unexpected register.
LEMMA JudgeOne ==
  ASSUME machine \in Machines, ~true_sig, NEW ps, NEW k, NEW g \in Nat, NEW m \in Nat,
         NEW after \in Nat, NEW regs, NEW d, NEW type \in {"long", "int128"},
         AsPlaced(ps[k], d, type, regs), Step(m, after, type, regs), InStep(g, m),
         NEW r, r = First(g, type), NEW j, j = Judge(ps, k, r)
  PROVE  Expected(j, r, after)
<1>0. PICK reg : /\ Seen(ps[k], d, reg, FALSE) /\ d.type = type /\ ~d.const
                 /\ reg = IF d.loc = <<>> \/ regs = <<>> THEN NoReg ELSE regs[1]
  BY DEF AsPlaced
<1>1. PICK p, nr, w : p = ps[k] /\ nr = arch__nr_register_params /\ w = Words(type)
  OBVIOUS
<1>2. /\ JudgedBy \subseteq DOMAIN p /\ ~p.has_const /\ p.has_loc = (d.loc # <<>>)
      /\ p.loc_reg = reg /\ ~p.unexpected
  BY <1>0, <1>1 DEF Seen
<1>3. w \in {1, 2} /\ w = (IF p.memory THEN 1 ELSE parameter__abi_slots(p))
  <2>1. d.type \in InRegs
    BY <1>0 DEF InRegs
  <2>2. /\ (IF ps[k].memory THEN 1 ELSE parameter__abi_slots(ps[k])) = Words(d.type)
        /\ Words(d.type) \in {1, 2}
    BY <1>0, <2>1, SlotsAreWords, Zenon
  <2> QED
    BY <1>0, <1>1, <2>2
<1>4. r \in Nat /\ nr \in Nat /\ r >= g
  <2>1. g % 2 \in Nat
    OBVIOUS
  <2>2. r = g \/ r = g + (g % 2)
    BY <1>1 DEF First
  <2> QED
    BY <1>1, <2>1, <2>2, Conventions
<1> DEFINE is(q, n) == [parm |-> q, slots |-> n]
<1>5. j = IF ~p.has_loc THEN is(p, w)
          ELSE IF ~(r < nr) THEN is(p, 0)
          ELSE IF p.loc_reg = NoReg THEN is([p EXCEPT !.optimized = TRUE], w)
          ELSE IF p.loc_reg # r THEN is([p EXCEPT !.unexpected = TRUE], w)
          ELSE is(p, w)
  <2>1. p = ps[k] /\ ~p.has_const
        /\ w = (IF p.memory THEN 1 ELSE parameter__abi_slots(p))
    BY <1>1, <1>2, <1>3
  <2>2. Judge(ps, k, r) = PlainJudgement(p, r, w)
    BY <2>1, JudgePlainly
  <2> QED
    BY <1>1, <2>2, Zenon DEF PlainJudgement
<1>6. Fits(m, type) <=> First(m, type) + w <= nr
  <2>1. type # "none" /\ (SizeOf[type] > largest_in_regs => ByReference)
    <3>1. SizeOf[type] \in {8, 16} /\ type # "none"
      BY <1>1, Sizes
    <3>2. machine = "s390" => ByReference
      BY Conventions
    <3>3. machine # "s390" => largest_in_regs = 16
      BY Conventions
    <3> QED
      BY <3>1, <3>2, <3>3
  <2> QED
    BY <1>1, <2>1 DEF Fits
<1>7. Step(m, after, type, regs)
  OBVIOUS
<1>8. ASSUME NEW q, NEW n \in Nat, j = is(q, n), ~q.unexpected, InStep(r + n, after)
      PROVE  Expected(j, r, after)
  <2>1. j.parm = q /\ j.slots = n
    BY <1>8
  <2> QED
    BY <1>4, <1>8, <2>1 DEF Expected
<1>9. CASE ~p.has_loc
  <2>1. j = is(p, w)
    BY <1>5, <1>9
  <2>2. InStep(r + w, after)
    <3>1. CASE g = m
      <4>1. Fits(m, type) => after = r + w
        BY <1>1, <1>7, <3>1 DEF Step
      <4>2. First(m, type) = r
        BY <1>1, <3>1
      <4> QED
        BY <1>1, <1>3, <1>4, <1>6, <4>1, <4>2 DEF InStep
    <3>2. CASE g >= nr
      BY <1>1, <1>3, <1>4, <3>2 DEF InStep
    <3> QED
      BY <1>1, <3>1, <3>2 DEF InStep
  <2> QED
    BY <1>1, <1>2, <1>3, <1>8, <2>1, <2>2
<1>10. CASE p.has_loc /\ ~(r < nr)
  <2>1. j = is(p, 0)
    BY <1>5, <1>10
  <2>2. InStep(r + 0, after)
    BY <1>1, <1>4, <1>10 DEF InStep
  <2> QED
    BY <1>1, <1>2, <1>8, <2>1, <2>2
<1>11. CASE p.has_loc /\ r < nr
  <2>1. g = m /\ First(m, type) = r
    BY <1>1, <1>4, <1>11 DEF InStep
  <2>2. p.loc_reg = IF regs = <<>> THEN NoReg ELSE regs[1]
    BY <1>0, <1>2, <1>11
  <2>3. CASE Fits(m, type)
    <3>1. regs = Argument(w, r) /\ after = r + w
      BY <1>1, <1>7, <2>1, <2>3 DEF Step
    <3>2. p.loc_reg = r
      BY <1>3, <1>4, <2>2, <3>1, FirstOfArgument
    <3>3. r # NoReg
      BY <1>4 DEF NoReg
    <3>4. j = is(p, w)
      BY <1>5, <1>11, <3>2, <3>3
    <3>5. InStep(r + w, after)
      BY <3>1 DEF InStep
    <3> QED
      BY <1>1, <1>2, <1>3, <1>8, <3>4, <3>5
  <2>4. CASE ~Fits(m, type)
    <3>1. regs = <<>> /\ ~(r + w <= nr)
      BY <1>6, <1>7, <2>1, <2>4 DEF Step
    <3>2. p.loc_reg = NoReg
      BY <2>2, <3>1
    <3>3. PICK q : q = [p EXCEPT !.optimized = TRUE]
      OBVIOUS
    <3>4. j = is(q, w)
      BY <1>5, <1>11, <3>2, <3>3
    <3>5. ~q.unexpected
      BY <1>2, <3>3 DEF JudgedBy
    <3>6. InStep(r + w, after)
      BY <1>1, <1>3, <1>4, <3>1 DEF InStep
    <3> QED
      BY <1>1, <1>3, <1>8, <3>4, <3>5, <3>6
  <2> QED
    BY <2>3, <2>4
<1> QED
  BY <1>9, <1>10, <1>11

\* It is not in a register that is odd for its type.
LEMMA MatchPlaced ==
  ASSUME machine \in Machines, arch__param_loc_supported, NEW g \in Nat, NEW m \in Nat,
         NEW after \in Nat, NEW regs, NEW q, NEW d, NEW type \in {"long", "int128"},
         AsPlaced(q, d, type, regs), Step(m, after, type, regs),
         NEW full, NEW g2, NEW full2, NEW q2, Matched(g, full, q, g2, full2, q2),
         full \/ InStep(g, m)
  PROVE  ~q2.unexpected /\ g2 \in Nat /\ (full2 \/ InStep(g2, after))
<1>1. PICK reg : /\ Seen(q, d, reg, FALSE) /\ d.type = type /\ ~d.const
                 /\ reg = IF d.loc = <<>> \/ regs = <<>> THEN NoReg ELSE regs[1]
  BY DEF AsPlaced
<1>2. PICK r, nr, w : r = First(g, type) /\ nr = arch__nr_register_params /\ w = Words(type)
  OBVIOUS
<1>3. /\ JudgedBy \subseteq DOMAIN q /\ q.loc_reg = reg /\ ~q.unexpected
  BY <1>1 DEF Seen
<1>4. w \in {1, 2} /\ ~q.memory /\ parameter__abi_slots(q) = w
      /\ parameter__align_reg_idx(q, g) = r
  <2>1. d.type \in InRegs
    BY <1>1 DEF InRegs
  <2>2. /\ (IF q.memory THEN 1 ELSE parameter__abi_slots(q)) = Words(d.type)
        /\ q.memory => machine = "s390"
        /\ Words(d.type) \in {1, 2}
        /\ (IF q.memory THEN g ELSE parameter__align_reg_idx(q, g)) = First(g, d.type)
    BY <1>1, <2>1, SlotsAreWords, Zenon
  <2>3. machine # "s390"
    BY Conventions
  <2> QED
    BY <1>1, <1>2, <2>2, <2>3
<1>5. r \in Nat /\ nr \in Nat /\ r >= g
  <2>1. g % 2 \in Nat
    OBVIOUS
  <2>2. r = g \/ r = g + (g % 2)
    BY <1>2 DEF First
  <2> QED
    BY <1>2, <2>1, <2>2, Conventions
<1>6. CASE full
  BY <1>3, <1>6 DEF Matched
<1>7. CASE ~full /\ r >= nr
  BY <1>2, <1>3, <1>4, <1>7 DEF Matched
<1>8. CASE ~full /\ ~(r >= nr)
  <2>1. /\ q2 = IF Odd(q, r) THEN [q EXCEPT !.unexpected = TRUE] ELSE q
        /\ g2 = r + w /\ full2 = full
    BY <1>2, <1>4, <1>8, Zenon DEF Matched
  <2>2. g = m /\ First(m, type) = r
    BY <1>2, <1>5, <1>8 DEF InStep
  <2>3. Fits(m, type) <=> r + w <= nr
    <3>1. SizeOf[type] \in {8, 16} /\ type # "none"
      BY Sizes
    <3>2. largest_in_regs = 16
      BY Conventions
    <3> QED
      BY <1>2, <2>2, <3>1, <3>2 DEF Fits
  <2>4. CASE Fits(m, type)
    <3>1. regs = Argument(w, r) /\ g2 = after
      BY <1>2, <2>1, <2>2, <2>4 DEF Step
    <3>2. reg = NoReg \/ reg = r
      BY <1>1, <1>4, <1>5, <3>1, FirstOfArgument
    <3>3. parameter__reg_in_expected_window(q, r, w) \/ q.loc_reg = NoReg
      <4>1. 0 \in 0 .. w - 1 /\ r + 0 = r /\ r < nr
        BY <1>4, <1>5, <1>8
      <4> QED
        BY <1>2, <1>3, <3>2, <4>1 DEF parameter__reg_in_expected_window
    <3>4. ~Odd(q, r)
      BY <1>4, <3>3 DEF Odd
    <3>5. q2 = q
      BY <2>1, <3>4
    <3> QED
      BY <1>3, <1>4, <1>5, <2>1, <3>1, <3>5 DEF InStep
  <2>5. CASE ~Fits(m, type)
    <3>1. regs = <<>>
      BY <2>2, <2>5 DEF Step
    <3>2. q.loc_reg = NoReg
      BY <1>1, <1>3, <3>1
    <3>3. ~Odd(q, r)
      BY <3>2 DEF Odd
    <3>4. q2 = q
      BY <2>1, <3>3
    <3>5. g2 \in Nat /\ g2 > nr
      BY <1>4, <1>5, <2>1, <2>3, <2>5
    <3>6. InStep(g2, after)
      BY <1>2, <1>5, <3>5 DEF InStep
    <3> QED
      BY <1>3, <3>4, <3>5, <3>6
  <2> QED
    BY <2>4, <2>5
<1> QED
  BY <1>6, <1>7, <1>8

\* None of the parameters is found in an unexpected register, with clang.
LEMMA MatchesPlaced ==
  ASSUME machine \in Machines, arch__param_loc_supported,
         NEW types \in Seq({"long", "int128"}), NEW ds, NEW S, NEW ps \in Seq(S),
         Len(ps) = Len(types),
         \A k \in 1 .. Len(ps) : AsPlaced(ps[k], ds[k], types[k], Places(types)[k])
  PROVE  LET res == function__match_clang_parameter_locations(ps)
         IN \A k \in 1 .. Len(ps) : ~res[k].unexpected
<1> DEFINE n == Len(ps)
<1>1. types \in Seq(Types \cup {"none"})
  BY DEF Types
<1>2. PICK regs, next : regs = Places(types) /\ Counts(next, types, regs)
  BY <1>1, PlacesCount
<1>3. PICK res : res = function__match_clang_parameter_locations(ps)
  OBVIOUS
<1>4. PICK g, full : MatchCounts(g, full, ps, res)
  BY <1>3, MatchAllCounts
<1>5. /\ next[0] = 0
      /\ \A k \in 0 .. n : next[k] \in Nat
      /\ \A k \in 1 .. n : Step(next[k - 1], next[k], types[k], regs[k])
  BY <1>2 DEF Counts
<1>6. /\ g[0] = 0
      /\ \A k \in 1 .. n : Matched(g[k - 1], full[k - 1], ps[k], g[k], full[k], res[k])
  BY <1>4 DEF MatchCounts
<1>7. n \in Nat /\ \A k \in 1 .. n : types[k] \in {"long", "int128"}
  OBVIOUS
<1>8. \A k \in 1 .. n : AsPlaced(ps[k], ds[k], types[k], regs[k])
  BY <1>2
<1> HIDE DEF n
<1>9. ASSUME NEW k \in 1 .. n, g[k - 1] \in Nat, full[k - 1] \/ InStep(g[k - 1], next[k - 1])
      PROVE  ~res[k].unexpected /\ g[k] \in Nat /\ (full[k] \/ InStep(g[k], next[k]))
  <2>1. PICK gk, m, after, type, rk, q, d, f, g2, f2, q2 :
            /\ gk = g[k - 1] /\ m = next[k - 1] /\ after = next[k] /\ type = types[k]
            /\ rk = regs[k] /\ q = ps[k] /\ d = ds[k] /\ f = full[k - 1] /\ g2 = g[k]
            /\ f2 = full[k] /\ q2 = res[k]
    OBVIOUS
  <2>2. m \in Nat /\ after \in Nat
    <3>1. k - 1 \in 0 .. n /\ k \in 0 .. n
      BY <1>7
    <3> QED
      BY <1>5, <2>1, <3>1
  <2>3. /\ gk \in Nat /\ type \in {"long", "int128"} /\ AsPlaced(q, d, type, rk)
        /\ Step(m, after, type, rk) /\ Matched(gk, f, q, g2, f2, q2)
        /\ f \/ InStep(gk, m)
    BY <1>5, <1>6, <1>7, <1>8, <1>9, <2>1
  <2>4. ~q2.unexpected /\ g2 \in Nat /\ (f2 \/ InStep(g2, after))
    BY <2>2, <2>3, MatchPlaced
  <2> QED
    BY <2>1, <2>4
<1> DEFINE Good(k) == g[k] \in Nat /\ (full[k] \/ InStep(g[k], next[k]))
           T == {k \in Nat : k <= n => Good(k)}
<1>10. 0 \in T
  BY <1>5, <1>6 DEF InStep
<1>11. ASSUME NEW i \in Nat, i \in T PROVE i + 1 \in T
  <2> SUFFICES ASSUME i + 1 <= n PROVE Good(i + 1)
    <3> HIDE DEF Good
    <3> QED
      BY <1>11
  <2>1. PICK k : k = i + 1
    OBVIOUS
  <2>2. k \in 1 .. n /\ k - 1 = i /\ Good(i)
    BY <1>7, <1>11, <2>1
  <2> QED
    BY <1>9, <2>1, <2>2
<1>12. \A k \in 0 .. n : Good(k)
  <2> HIDE DEF Good
  <2>1. Nat \subseteq T
    <3> HIDE DEF T
    <3> QED
      BY <1>10, <1>11, Matching!NatSetInduction
  <2> QED
    BY <1>7, <2>1
<1>13. ASSUME NEW k \in 1 .. n PROVE ~res[k].unexpected
  <2>1. PICK i : i = k - 1
    OBVIOUS
  <2>2. i \in 0 .. n
    BY <1>7, <2>1
  <2>3. Good(i)
    BY <1>12, <2>2
  <2> QED
    BY <1>9, <2>1, <2>3
<1> QED
  BY <1>3, <1>13 DEF n

\* Nor when the true signature is not looked for.
LEMMA JudgesPlaced ==
  ASSUME machine \in Machines, ~true_sig,
         NEW types \in Seq({"long", "int128"}), NEW ds, NEW S, NEW ps \in Seq(S),
         Len(ps) = Len(types),
         \A k \in 1 .. Len(ps) : AsPlaced(ps[k], ds[k], types[k], Places(types)[k])
  PROVE  \A k \in 1 .. Len(ps) : ~JudgeAll(ps)[k].unexpected
<1> DEFINE n == Len(ps)
<1>1. types \in Seq(Types \cup {"none"})
  BY DEF Types
<1>2. PICK regs, next : regs = Places(types) /\ Counts(next, types, regs)
  BY <1>1, PlacesCount
<1>3. PICK res : res = JudgeAll(ps)
  OBVIOUS
<1>4. PICK g : JudgeCounts(g, ps, res)
  BY <1>3, JudgeAllCounts
<1>5. /\ next[0] = 0
      /\ \A k \in 0 .. n : next[k] \in Nat
      /\ \A k \in 1 .. n : Step(next[k - 1], next[k], types[k], regs[k])
  BY <1>2 DEF Counts
<1>6. n \in Nat /\ \A k \in 1 .. n : types[k] \in {"long", "int128"}
  OBVIOUS
<1>7. \A k \in 1 .. n : AsPlaced(ps[k], ds[k], types[k], regs[k])
  BY <1>2
<1>8. g[0] = 0
  BY <1>4 DEF JudgeCounts
<1> HIDE DEF n
<1>9. ASSUME NEW k \in 1 .. n, g[k - 1] \in Nat, InStep(g[k - 1], next[k - 1])
      PROVE  ~res[k].unexpected /\ g[k] \in Nat /\ InStep(g[k], next[k])
  <2>1. PICK gk, m, after, type, rk, q, d :
            /\ gk = g[k - 1] /\ m = next[k - 1] /\ after = next[k] /\ type = types[k]
            /\ rk = regs[k] /\ q = ps[k] /\ d = ds[k]
    OBVIOUS
  <2>2. m \in Nat /\ after \in Nat
    <3>1. k - 1 \in 0 .. n /\ k \in 0 .. n
      BY <1>6
    <3> QED
      BY <1>5, <2>1, <3>1
  <2>3. /\ gk \in Nat /\ type \in {"long", "int128"} /\ AsPlaced(q, d, type, rk)
        /\ Step(m, after, type, rk) /\ InStep(gk, m)
    BY <1>5, <1>6, <1>7, <1>9, <2>1
  <2>4. PICK reg : /\ Seen(q, d, reg, FALSE) /\ d.type = type /\ ~d.const
                   /\ reg = IF d.loc = <<>> \/ rk = <<>> THEN NoReg ELSE rk[1]
    BY <2>3 DEF AsPlaced
  <2>5. PICK r : r = First(gk, type)
    OBVIOUS
  <2>6. PICK j : j = Judge(ps, k, r)
    OBVIOUS
  <2>7. Expected(j, r, after)
    <3>1. AsPlaced(ps[k], d, type, rk)
      BY <2>1, <2>3
    <3> QED
      BY <2>2, <2>3, <2>5, <2>6, <3>1, JudgeOne
  <2>8. (IF ps[k].memory THEN g[k - 1] ELSE parameter__align_reg_idx(ps[k], g[k - 1])) = r
    <3>1. d.type \in InRegs
      BY <2>3, <2>4 DEF InRegs
    <3>2. (IF q.memory THEN gk ELSE parameter__align_reg_idx(q, gk)) = First(gk, d.type)
      BY <2>4, <3>1, SlotsAreWords, Zenon
    <3> QED
      BY <2>1, <2>4, <2>5, <3>2, Zenon
  <2>9. res[k] = Judge(ps, k, r).parm /\ g[k] = r + Judge(ps, k, r).slots
    BY <1>4, <2>8, Zenon DEF JudgeCounts, n
  <2> QED
    BY <2>1, <2>6, <2>7, <2>9 DEF Expected
<1> DEFINE Good(k) == g[k] \in Nat /\ InStep(g[k], next[k])
           T == {k \in Nat : k <= n => Good(k)}
<1>10. 0 \in T
  BY <1>5, <1>8 DEF InStep
<1>11. ASSUME NEW i \in Nat, i \in T PROVE i + 1 \in T
  <2> SUFFICES ASSUME i + 1 <= n PROVE Good(i + 1)
    <3> HIDE DEF Good
    <3> QED
      BY <1>11
  <2>1. PICK k : k = i + 1
    OBVIOUS
  <2>2. k \in 1 .. n /\ k - 1 = i /\ Good(i)
    BY <1>6, <1>11, <2>1
  <2> QED
    BY <1>9, <2>1, <2>2
<1>12. \A k \in 0 .. n : Good(k)
  <2> HIDE DEF Good
  <2>1. Nat \subseteq T
    <3> HIDE DEF T
    <3> QED
      BY <1>10, <1>11, Matching!NatSetInduction
  <2> QED
    BY <1>6, <2>1
<1>13. ASSUME NEW k \in 1 .. n PROVE ~res[k].unexpected
  <2>1. PICK i : i = k - 1
    OBVIOUS
  <2>2. i \in 0 .. n
    BY <1>6, <2>1
  <2>3. Good(i)
    BY <1>12, <2>2
  <2> QED
    BY <1>9, <2>1, <2>3
<1> QED
  BY <1>3, <1>13 DEF n

\* The parameters of a source are numbered from 1.
LEMMA SourceLength ==
  ASSUME source \in Sources
  PROVE  Len(source) \in Nat /\ DOMAIN source = 1 .. Len(source)
<1>1. source \in Seq([type : Types, fate : STRING])
  BY SourcesAssumption
<1> QED
  BY <1>1

\* A sequence of as many elements as the source.
LEMMA LikeSource ==
  ASSUME source \in Sources, NEW f, f = [k \in DOMAIN source |-> f[k]], NEW S,
         \A k \in DOMAIN source : f[k] \in S
  PROVE  f \in Seq(S) /\ Len(f) = Len(source)
<1>1. Len(source) \in Nat /\ DOMAIN source = 1 .. Len(source)
  BY SourceLength
<1>2. PICK n : n = Len(source)
  OBVIOUS
<1>3. f \in [1 .. n -> S] /\ n \in Nat
  BY <1>1, <1>2
<1> QED
  BY <1>2, <1>3

\* What can be found out without looking for the true signature.
LEMMA PlainlyFound ==
  ASSUME ~true_sig, NEW ps, NEW k, NEW r, NEW p, p = ps[k]
  PROVE  Judge(ps, k, r).parm
           \in {p, [p EXCEPT !.optimized = TRUE], [p EXCEPT !.unexpected = TRUE]}
<1>1. PICK sig : sig = true_sig /\ ~sig
  OBVIOUS
<1> DEFINE is(q, n) == [parm |-> q, slots |-> n]
           q1 == [p EXCEPT !.optimized = TRUE]
           q2 == [p EXCEPT !.unexpected = TRUE]
           slots == parameter__abi_slots(p)
           words == IF p.memory THEN 1 ELSE slots
           j == Judge(ps, k, r)
<1>2. \/ j = is(q1, words) \/ j = is(p, words) \/ j = is(p, 0) \/ j = is(q2, words)
  BY <1>1, Zenon DEF Judge
<1> HIDE DEF j, q1, q2, words
<1>3. j.parm \in {p, q1, q2}
  BY <1>2
<1> QED
  BY <1>3 DEF j, q1, q2

\* A parameter keeps its type when it is analyzed.
LEMMA TypeKept ==
  ASSUME ~true_sig, NEW S, NEW ps \in Seq(S), NEW k \in 1 .. Len(ps), NEW type, Typed(ps[k], type),
         ~proto.signature_changed
  PROVE  Typed(function__analyze_parameter_locations(ps)[k], type)
<1>1. PICK p : p = ps[k]
  OBVIOUS
<1>2. Typed(p, type)
  BY <1>1
<1>3. Typed([p EXCEPT !.optimized = TRUE], type) /\ Typed([p EXCEPT !.unexpected = TRUE], type)
  BY <1>2 DEF Typed
<1>4. Typed(JudgeAll(ps)[k], type)
  <2>1. PICK g, res : res = JudgeAll(ps) /\ JudgeCounts(g, ps, res)
    BY JudgeAllCounts
  <2>2. PICK r : res[k] = Judge(ps, k, r).parm
    BY <2>1, Zenon DEF JudgeCounts
  <2>3. res[k] \in {p, [p EXCEPT !.optimized = TRUE], [p EXCEPT !.unexpected = TRUE]}
    BY <1>1, <2>2, PlainlyFound
  <2> QED
    BY <1>2, <1>3, <2>1, <2>3
<1>5. Typed(function__match_clang_parameter_locations(ps)[k], type)
  <2>1. PICK res : res = function__match_clang_parameter_locations(ps)
    OBVIOUS
  <2>2. PICK g, full : MatchCounts(g, full, ps, res)
    BY <2>1, MatchAllCounts
  <2>3. Matched(g[k - 1], full[k - 1], p, g[k], full[k], res[k])
    BY <1>1, <2>2 DEF MatchCounts
  <2>4. res[k] \in {p, [p EXCEPT !.unexpected = TRUE]}
    BY <2>3, Zenon DEF Matched
  <2> QED
    BY <1>2, <1>3, <2>1, <2>4
<1>6. function__analyze_parameter_locations(ps) \in
        {JudgeAll(ps), function__match_clang_parameter_locations(ps), ps}
  BY Zenon DEF function__analyze_parameter_locations
<1> QED
  BY <1>1, <1>2, <1>4, <1>5, <1>6

\* A function whose parameters are all passed as they were declared, in memory or
\* in registers.
AsDeclared == ~Changed /\ \A k \in DOMAIN source : source[k].type # "big"

\* The parameters as they are loaded.
Fresh == [k \in DOMAIN source |-> parameter__new(Die(k))]

\* Of such a function each parameter of one of these types is where it was placed.
LEMMA PlacedAsDeclared ==
  ASSUME machine \in Machines, source \in Sources, NEW k \in DOMAIN source,
         source[k].fate \in Whole, source[k].type \in {"long", "int128"}
  PROVE  AsPlaced(parameter__new(Die(k)), Die(k), source[k].type, RealPlace(k))
<1>1. PICK p, d, q, regs : /\ p = source[k] /\ d = Die(k) /\ q = parameter__new(d)
                           /\ regs = RealPlace(k)
  OBVIOUS
<1>2. p.fate \in {"used", "late", "unused"}
  <2>1. p.fate \in Fates(p.type)
    BY <1>1, SourceTypes
  <2> QED
    BY <1>1, <2>1 DEF Fates, Derived, Whole, IsStruct
<1>3. /\ Seen(q, d, RegisterOf(k), p.fate = "const")
      /\ (d.loc # <<>>) = (p.fate \in {"used", "late", "const"})
  BY <1>1, <1>2, PlainSeen DEF Plain
<1>4. d.type = p.type /\ d.const = (p.fate = "attr")
  BY <1>1, DieFields
<1>5. ~d.const /\ (p.fate = "const") = FALSE
  BY <1>2, <1>4
<1>6. d.loc = <<>> <=> p.fate = "unused"
  BY <1>2, <1>3
<1>7. RegisterOf(k) = IF d.loc = <<>> \/ regs = <<>> THEN NoReg ELSE regs[1]
  BY <1>1, <1>2, <1>6 DEF RegisterOf
<1>8. Seen(q, d, RegisterOf(k), FALSE)
  BY <1>3, <1>5
<1>9. PICK reg : reg = RegisterOf(k)
  OBVIOUS
<1>10. /\ Seen(q, d, reg, FALSE) /\ d.type = p.type /\ ~d.const
       /\ reg = IF d.loc = <<>> \/ regs = <<>> THEN NoReg ELSE regs[1]
  BY <1>4, <1>5, <1>7, <1>8, <1>9
<1>11. AsPlaced(q, d, p.type, regs)
  BY <1>10, Zenon DEF AsPlaced
<1> QED
  BY <1>1, <1>11

\* No fault is found with it, unless a struct may be the reason.
LEMMA NoFaultFound ==
  ASSUME machine \in Machines, source \in Sources, AsDeclared, ~proto.signature_changed
  PROVE  LET res == function__analyze_parameter_locations(Fresh)
         IN /\ res = [k \in DOMAIN source |-> res[k]]
            /\ \/ \A k \in DOMAIN source : ~res[k].unexpected
               \/ \E k \in DOMAIN source : IsStruct(res[k].type)
<1> DEFINE n == Len(source)
<1>1. n \in Nat /\ DOMAIN source = 1 .. n
  BY SourceLength
<1>2. PICK ps, S : ps = Fresh /\ S = {parameter__new(Die(k)) : k \in DOMAIN source}
  OBVIOUS
<1>3. /\ ps = [k \in DOMAIN source |-> ps[k]] /\ \A k \in DOMAIN source : ps[k] = parameter__new(Die(k))
  BY <1>2, Zenon DEF Fresh
<1>4. \A k \in DOMAIN source : ps[k] \in S
  BY <1>2, <1>3, Zenon
<1>5. ps \in Seq(S) /\ Len(ps) = n
  BY <1>3, <1>4, LikeSource
<1>6. ~true_sig
  BY DEF true_sig
<1>7. PICK res : res = function__analyze_parameter_locations(ps)
  OBVIOUS
<1>8. PICK matches, judges : /\ matches = function__match_clang_parameter_locations(ps)
                             /\ judges = JudgeAll(ps)
  OBVIOUS
<1>9. \/ res = judges
      \/ res = matches /\ arch__param_loc_supported
      \/ res = ps
  BY <1>7, <1>8, Zenon DEF function__analyze_parameter_locations
<1>10. DOMAIN ps = DOMAIN source
  BY <1>3
<1>11. res = [k \in DOMAIN source |-> res[k]]
  <2>1. judges = [k \in DOMAIN ps |-> judges[k]]
    BY <1>5, <1>8, JudgeAllCounts
  <2>2. matches = [k \in DOMAIN ps |-> matches[k]]
    BY <1>5, <1>8, MatchAllCounts
  <2> QED
    BY <1>3, <1>9, <1>10, <2>1, <2>2
<1>12. \A k \in DOMAIN source : source[k].fate \in Whole /\ source[k].type \in Types \ {"big"}
  BY SourceTypes DEF AsDeclared, Changed
<1>13. CASE \E k \in DOMAIN source : IsStruct(source[k].type)
  <2>1. PICK k \in DOMAIN source : IsStruct(source[k].type)
    BY <1>13
  <2>2. PICK d : d = Die(k)
    OBVIOUS
  <2>3. d.loc \in Seq(Seq(Operations)) /\ d.type = source[k].type
    <3>1. Location(k) \in Seq(Seq(Operations))
      BY <1>12, WholeLocationIn
    <3> QED
      BY <2>2, <3>1, DieFields
  <2>4. Typed(ps[k], source[k].type)
    BY <1>3, <2>2, <2>3, NewTyped
  <2>5. Typed(res[k], source[k].type)
    BY <1>1, <1>5, <1>6, <1>7, <2>4, TypeKept
  <2>6. IsStruct(res[k].type)
    BY <2>1, <2>5 DEF Typed
  <2> QED
    BY <1>2, <1>7, <1>11, <2>6
<1>14. CASE ~\E k \in DOMAIN source : IsStruct(source[k].type)
  <2> DEFINE all == [j \in DOMAIN source |-> Passed(source[j])]
             dies_ == [j \in DOMAIN source |-> Die(j)]
  <2>1. \A k \in DOMAIN source : source[k].type \in {"long", "int128"}
    BY <1>12, <1>14 DEF Types, IsStruct
  <2>2. \A k \in DOMAIN source : all[k] = source[k].type
    BY <1>12 DEF Passed
  <2>3. all = [j \in DOMAIN source |-> all[j]] /\ \A k \in DOMAIN source : all[k] \in {"long", "int128"}
    BY <2>1, <2>2
  <2>4. \A k \in DOMAIN source : Places(all)[k] = RealPlace(k)
    BY DEF RealPlace
  <2>5. \A k \in DOMAIN source : dies_[k] = Die(k)
    OBVIOUS
  <2> HIDE DEF all, dies_
  <2>6. PICK types, ds : types = all /\ ds = dies_
    OBVIOUS
  <2>7. types \in Seq({"long", "int128"}) /\ Len(types) = n
    BY <2>3, <2>6, LikeSource
  <2>8. ASSUME NEW k \in 1 .. Len(ps)
        PROVE  AsPlaced(ps[k], ds[k], types[k], Places(types)[k])
    <3>1. k \in DOMAIN source
      BY <1>1, <1>5
    <3>2. source[k].fate \in Whole /\ source[k].type \in {"long", "int128"}
      BY <1>12, <2>1, <3>1
    <3>3. AsPlaced(parameter__new(Die(k)), Die(k), source[k].type, RealPlace(k))
      BY <3>1, <3>2, PlacedAsDeclared
    <3> QED
      BY <1>3, <2>2, <2>4, <2>5, <2>6, <3>1, <3>3
  <2>9. \A k \in 1 .. Len(ps) : ~judges[k].unexpected
    BY <1>5, <1>6, <1>8, <2>7, <2>8, JudgesPlaced
  <2>10. arch__param_loc_supported => \A k \in 1 .. Len(ps) : ~matches[k].unexpected
    BY <1>5, <1>8, <2>7, <2>8, MatchesPlaced
  <2>11. ASSUME NEW k \in 1 .. Len(ps) PROVE ~ps[k].unexpected
    <3>1. PICK reg : Seen(ps[k], ds[k], reg, FALSE)
      BY <2>8 DEF AsPlaced
    <3> QED
      BY <3>1 DEF Seen
  <2>12. \A k \in DOMAIN source : ~res[k].unexpected
    BY <1>1, <1>5, <1>9, <2>9, <2>10, <2>11
  <2> QED
    BY <1>2, <1>7, <1>11, <2>12
<1> QED
  BY <1>13, <1>14

-----------------------------------------------------------------------------
(* A function that is known to be changed                                  *)

\* Every parameter it was declared with fits in the registers, and what is not
\* passed any more is gone for a reason that the loader can see.
Dropping ==
    /\ InRegisters
    /\ \A k \in DOMAIN source :
          /\ source[k].fate \in {"used", "late", "dropped", "const", "attr"}
          /\ source[k].type = "int128" => source[k].fate = "used" /\ ~arch__arg_align_two_regs

\* The parameters that are still passed are in consecutive registers.
Packed(next) ==
    /\ next[0] = 0
    /\ \A k \in 0 .. Len(source) : next[k] \in Nat
    /\ \A k \in 1 .. Len(source) :
          LET m == next[k - 1]
              words == Words(source[k].type)
          IN IF source[k].fate \in {"used", "late"}
             THEN /\ RealPlace(k) = Argument(words, m) /\ next[k] = m + words
                  /\ m + words <= arch__nr_register_params
             ELSE next[k] = m

\* What is passed moves up into the registers of what is not passed any more.
LEMMA StillPacked ==
  ASSUME machine \in Machines, source \in Sources, machine # "s390", Dropping
  PROVE  \E next : Packed(next)
<1> DEFINE n == Len(source)
           declared == [k \in DOMAIN source |-> source[k].type]
           passed == [k \in DOMAIN source |-> Passed(source[k])]
<1>1. n \in Nat /\ DOMAIN source = 1 .. n
  BY SourceLength
<1>2. \A k \in 1 .. n :
        /\ source[k].type \in Types /\ source[k].type # "big" /\ source[k].type # "none"
        /\ source[k].fate \in {"used", "late", "dropped", "const", "attr"}
        /\ source[k].type = "int128" => ~arch__arg_align_two_regs
  BY <1>1, SourceTypes DEF Dropping, InRegisters, Types
<1>3. \A k \in 1 .. n : declared[k] = source[k].type /\ passed[k] = Passed(source[k])
  BY <1>1
<1>4. \A k \in 1 .. n : Passed(source[k]) =
         IF source[k].fate \in {"used", "late"} THEN source[k].type ELSE "none"
  BY <1>2 DEF Passed, Whole, Part
<1>5. declared = [k \in DOMAIN source |-> declared[k]] /\ passed = [k \in DOMAIN source |-> passed[k]]
  OBVIOUS
<1>6. Declared = Places(declared) /\ \A k \in 1 .. n : RealPlace(k) = Places(passed)[k]
  BY DEF Declared, RealPlace
<1> HIDE DEF declared, passed, n
<1>7. PICK dt, pt : dt = declared /\ pt = passed
  OBVIOUS
<1>8. dt \in Seq(Types \cup {"none"}) /\ Len(dt) = n
  <2>1. \A k \in DOMAIN source : dt[k] \in Types \cup {"none"}
    BY <1>1, <1>2, <1>3, <1>7
  <2> QED
    BY <1>5, <1>7, <2>1, LikeSource DEF n
<1>9. pt \in Seq(Types \cup {"none"}) /\ Len(pt) = n
  <2>1. \A k \in DOMAIN source : pt[k] \in Types \cup {"none"}
    BY <1>1, <1>2, <1>3, <1>4, <1>7
  <2> QED
    BY <1>5, <1>7, <2>1, LikeSource DEF n
<1>10. PICK dn, dr : dr = Places(dt) /\ Counts(dn, dt, dr)
  BY <1>8, PlacesCount
<1>11. PICK pn, pr : pr = Places(pt) /\ Counts(pn, pt, pr)
  BY <1>9, PlacesCount
<1>12. dr \in Seq(Seq(Nat)) /\ Len(dr) = n
  BY <1>8, <1>10, PlacesCount
<1>13. \A k \in 1 .. n : dr[k] # <<>>
  <2>1. <<>> \notin ToSet(dr)
    BY <1>6, <1>7, <1>10 DEF Dropping, InRegisters
  <2>2. DOMAIN dr = 1 .. n
    BY <1>12
  <2> QED
    BY <2>1, <2>2 DEF ToSet
<1>14. /\ dn[0] = 0 /\ pn[0] = 0
       /\ \A k \in 0 .. n : dn[k] \in Nat /\ pn[k] \in Nat
       /\ \A k \in 1 .. n : /\ Step(dn[k - 1], dn[k], dt[k], dr[k])
                            /\ Step(pn[k - 1], pn[k], pt[k], pr[k])
  BY <1>8, <1>9, <1>10, <1>11 DEF Counts
<1>15. largest_in_regs = 16
  BY Conventions
<1>16. ASSUME NEW k \in 1 .. n, pn[k - 1] <= dn[k - 1]
       PROVE  /\ pn[k] <= dn[k]
              /\ IF source[k].fate \in {"used", "late"}
                 THEN /\ RealPlace(k) = Argument(Words(source[k].type), pn[k - 1])
                      /\ pn[k] = pn[k - 1] + Words(source[k].type)
                      /\ pn[k - 1] + Words(source[k].type) <= arch__nr_register_params
                 ELSE pn[k] = pn[k - 1]
  <2>1. PICK type, w, a, b, a2, b2, nr :
           /\ type = source[k].type /\ w = Words(type) /\ a = dn[k - 1] /\ b = pn[k - 1]
           /\ a2 = dn[k] /\ b2 = pn[k] /\ nr = arch__nr_register_params
    OBVIOUS
  <2>2. a \in Nat /\ b \in Nat /\ a2 \in Nat /\ b2 \in Nat /\ b <= a /\ nr \in Nat
    <3>1. k \in 0 .. n /\ k - 1 \in 0 .. n
      BY <1>1
    <3> QED
      BY <1>14, <1>16, <2>1, <3>1, Conventions
  <2>3. w \in {1, 2} /\ SizeOf[type] \in {8, 16} /\ type # "none"
    <3>1. type \in Types /\ type # "big" /\ type # "none"
      BY <1>2, <2>1
    <3>2. SizeOf[type] \in {8, 16}
      BY <3>1, Sizes DEF Types
    <3> QED
      BY <2>1, <3>1, <3>2, WordsOfType
  <2>4. First(a, type) = a /\ First(b, type) = b
    BY <1>2, <2>1 DEF First
  <2>5. \A x : First(x, type) = x => (Fits(x, type) <=> x + w <= nr)
    BY <1>15, <2>1, <2>3 DEF Fits
  <2>6. Step(a, a2, type, dr[k]) /\ dr[k] # <<>>
    BY <1>3, <1>7, <1>13, <1>14, <2>1
  <2>7. a + w <= nr /\ a2 = a + w
    BY <2>1, <2>4, <2>5, <2>6 DEF Step
  <2>8. b + w <= nr
    BY <2>2, <2>3, <2>7
  <2>9. CASE source[k].fate \in {"used", "late"}
    <3>1. Step(b, b2, type, pr[k]) /\ RealPlace(k) = pr[k]
      BY <1>3, <1>4, <1>6, <1>7, <1>11, <1>14, <2>1, <2>9
    <3>2. pr[k] = Argument(w, b) /\ b2 = b + w
      BY <2>1, <2>4, <2>5, <2>8, <3>1 DEF Step
    <3>3. b2 <= a2
      BY <2>2, <2>3, <2>7, <3>2
    <3> QED
      BY <2>1, <2>8, <2>9, <3>1, <3>2, <3>3
  <2>10. CASE source[k].fate \notin {"used", "late"}
    <3>1. Step(b, b2, "none", pr[k])
      BY <1>3, <1>4, <1>7, <1>14, <2>1, <2>10
    <3>2. b2 = b
      BY <3>1 DEF Step
    <3>3. b2 <= a2
      BY <2>2, <2>3, <2>7, <3>2
    <3> QED
      BY <2>1, <2>10, <3>2, <3>3
  <2> QED
    BY <2>9, <2>10
<1> DEFINE T == {k \in Nat : k <= n => pn[k] <= dn[k]}
<1>17. 0 \in T
  BY <1>14
<1>18. ASSUME NEW i \in Nat, i \in T PROVE i + 1 \in T
  <2> SUFFICES ASSUME i + 1 <= n PROVE pn[i + 1] <= dn[i + 1]
    BY <1>18
  <2>1. PICK k : k = i + 1
    OBVIOUS
  <2>2. k \in 1 .. n /\ k - 1 = i /\ pn[i] <= dn[i]
    BY <1>1, <1>18, <2>1
  <2>3. pn[k] <= dn[k]
    BY <1>16, <2>2
  <2> QED
    BY <2>1, <2>3
<1>19. \A k \in 0 .. n : pn[k] <= dn[k]
  <2>1. Nat \subseteq T
    <3> HIDE DEF T
    <3> QED
      BY <1>17, <1>18, Placing!NatSetInduction
  <2> QED
    BY <1>1, <2>1
<1>20. ASSUME NEW k \in 1 .. n
       PROVE  IF source[k].fate \in {"used", "late"}
              THEN /\ RealPlace(k) = Argument(Words(source[k].type), pn[k - 1])
                   /\ pn[k] = pn[k - 1] + Words(source[k].type)
                   /\ pn[k - 1] + Words(source[k].type) <= arch__nr_register_params
              ELSE pn[k] = pn[k - 1]
  <2>1. PICK i : i = k - 1
    OBVIOUS
  <2>2. i \in 0 .. n
    BY <1>1, <2>1
  <2>3. pn[k - 1] <= dn[k - 1]
    BY <1>19, <2>1, <2>2
  <2> QED
    BY <1>16, <2>3
<1>21. Packed(pn)
  BY <1>14, <1>20, Zenon DEF Packed, n
<1> QED
  BY <1>21

\* What is found out about parameter p where the true signature is looked for.
NotPassed(p) == [parm |-> [p EXCEPT !.optimized = TRUE], slots |-> 0]
TrulyJudged(j, p, r, slots, preserved) ==
    /\ ~p.has_loc /\ ~preserved => j = NotPassed(p)
    /\ p.has_loc /\ p.loc_const => j = NotPassed(p)
    /\ /\ p.has_loc /\ ~p.loc_const /\ ~p.loc_stack
       /\ r < arch__nr_register_params /\ p.loc_reg = r /\ r # NoReg
       /\ p.first = {} <=> p.second = {}
       => j = [parm |-> p, slots |-> slots]

\* How the parameters are judged when the true signature is looked for.
LEMMA JudgeTruly ==
  ASSUME true_sig, compiler = "clang", NEW ps, NEW k, NEW r, NEW p, p = ps[k], NEW slots,
         slots = parameter__abi_slots(p), ~p.memory, NEW j, j = Judge(ps, k, r),
         NEW preserved, preserved = next_parameter_preserves_slots(ps, k, r, slots)
  PROVE  TrulyJudged(j, p, r, slots, preserved)
<1> DEFINE none == [parm |-> [p EXCEPT !.optimized = TRUE], slots |-> 0]
<1>1. PICK sig : sig = true_sig /\ sig
  OBVIOUS
<1>2. compiler # "gcc"
  OBVIOUS
<1>3. ASSUME ~p.has_loc, ~preserved PROVE j = none
  BY <1>1, <1>2, <1>3, Zenon DEF Judge
<1>4. ASSUME p.has_loc, p.loc_const PROVE j = none
  BY <1>1, <1>4, Zenon DEF Judge
<1>5. ASSUME p.has_loc, ~p.loc_const, ~p.loc_stack, r < arch__nr_register_params,
             p.loc_reg = r, r # NoReg, p.first = {} <=> p.second = {}
      PROVE  j = [parm |-> p, slots |-> slots]
  <2>1. p.loc_reg # NoReg
    BY <1>5
  <2>2. CASE p.first = {}
    <3>1. p.first \cup p.second = {}
      BY <1>5, <2>2
    <3> QED
      BY <1>1, <1>5, <2>1, <3>1, Zenon DEF Judge
  <2>3. CASE p.first # {}
    <3>1. p.second # {} /\ p.first \cup p.second # {}
      BY <1>5, <2>3
    <3> QED
      BY <1>1, <1>5, <2>1, <2>3, <3>1, Zenon DEF Judge
  <2> QED
    BY <2>2, <2>3
<1> QED
  BY <1>3, <1>4, <1>5, Zenon DEF TrulyJudged, NotPassed

\* What is found out about a parameter: whether it is still passed.
Found(q, gone) == IF gone THEN [q EXCEPT !.optimized = TRUE] ELSE q

\* A parameter that is passed takes its registers, one that is not takes none.
LEMMA JudgeDropping ==
  ASSUME machine \in Machines, source \in Sources, machine # "s390", Dropping,
         true_sig, compiler = "clang",
         NEW next, Packed(next), NEW ps, ps = Fresh, NEW k \in 1 .. Len(source),
         NEW m, m = next[k - 1], NEW j, j = Judge(ps, k, m)
  PROVE  /\ j.parm = Found(ps[k], source[k].fate \notin {"used", "late"})
         /\ m + j.slots = next[k]
<1>1. Len(source) \in Nat /\ DOMAIN source = 1 .. Len(source)
  BY SourceLength
<1>2. PICK n : n = Len(source)
  OBVIOUS
<1>3. /\ ps = [i \in DOMAIN source |-> ps[i]]
      /\ \A i \in DOMAIN source : ps[i] = parameter__new(Die(i))
  BY Zenon DEF Fresh
<1>4. Len(ps) = n
  BY <1>1, <1>2, <1>3
<1>5. \A i \in 1 .. n : /\ source[i].fate \in Plain /\ source[i].type \in InRegs
                        /\ source[i].fate \in {"used", "late", "dropped", "const", "attr"}
  BY <1>1, <1>2, SourceTypes DEF Dropping, InRegisters, Plain, InRegs, Types
<1>6. ASSUME NEW i \in 1 .. n
      PROVE  /\ Seen(ps[i], Die(i), RegisterOf(i), source[i].fate = "const")
             /\ (Die(i).loc # <<>>) = (source[i].fate \in {"used", "late", "const"})
  <2>1. i \in DOMAIN source /\ source[i].fate \in Plain /\ source[i].type # "big"
    BY <1>1, <1>2, <1>5 DEF InRegs
  <2> QED
    BY <1>3, <2>1, PlainSeen
<1>7. PICK p, fate, type, w, nr, d, reg :
         /\ p = ps[k] /\ fate = source[k].fate /\ type = source[k].type /\ w = Words(type)
         /\ nr = arch__nr_register_params /\ d = Die(k) /\ reg = RegisterOf(k)
  OBVIOUS
<1>8. /\ Seen(p, d, reg, fate = "const") /\ (d.loc # <<>>) = (fate \in {"used", "late", "const"})
      /\ type \in InRegs /\ fate \in {"used", "late", "dropped", "const", "attr"}
  BY <1>2, <1>5, <1>6, <1>7
<1>9. d.type = type
  BY <1>7, DieFields
<1>10. w \in {1, 2} /\ ~p.memory /\ parameter__abi_slots(p) = w
  <2>1. d.type \in InRegs
    BY <1>8, <1>9
  <2>2. /\ (IF p.memory THEN 1 ELSE parameter__abi_slots(p)) = Words(d.type)
        /\ p.memory => machine = "s390"
        /\ Words(d.type) \in {1, 2}
    BY <1>8, <2>1, SlotsAreWords, Zenon
  <2> QED
    BY <1>7, <1>9, <2>2
<1>11. /\ IF fate \in {"used", "late"}
          THEN RealPlace(k) = Argument(w, m) /\ next[k] = m + w /\ m + w <= nr
          ELSE next[k] = m
       /\ m \in Nat /\ nr \in Nat
  <2>1. k - 1 \in 0 .. Len(source)
    BY <1>1
  <2>2. next[k - 1] \in Nat
    BY <2>1 DEF Packed
  <2>3. IF source[k].fate \in {"used", "late"}
        THEN /\ RealPlace(k) = Argument(Words(source[k].type), m) /\ next[k] = m + Words(source[k].type)
             /\ m + Words(source[k].type) <= arch__nr_register_params
        ELSE next[k] = m
    BY Zenon DEF Packed
  <2> QED
    BY <1>7, <2>2, <2>3, Conventions
<1>12. p.has_loc = (d.loc # <<>>) /\ p.loc_const = (fate = "const") /\ p.loc_reg = reg
       /\ (reg # NoReg => p.loc_stack = FALSE) /\ (p.first = {} <=> p.second = {})
  BY <1>8 DEF Seen
<1> DEFINE none == [parm |-> [p EXCEPT !.optimized = TRUE], slots |-> 0]
<1>13. PICK preserved : preserved = next_parameter_preserves_slots(ps, k, m, w)
  OBVIOUS
<1>14. /\ ~p.has_loc /\ ~preserved => j = none
       /\ p.has_loc /\ p.loc_const => j = none
       /\ /\ p.has_loc /\ ~p.loc_const /\ ~p.loc_stack
          /\ m < arch__nr_register_params /\ p.loc_reg = m /\ m # NoReg
          /\ p.first = {} <=> p.second = {}
          => j = [parm |-> p, slots |-> w]
  <2>1. p = ps[k] /\ w = parameter__abi_slots(p) /\ ~p.memory
    BY <1>7, <1>10
  <2>2. TrulyJudged(j, p, m, w, preserved)
    BY <1>7, <1>10, <1>13, <2>1, JudgeTruly
  <2> QED
    BY <1>13, <2>2, Zenon DEF TrulyJudged, NotPassed
<1>15. CASE fate \in {"used", "late"}
  <2>1. p.has_loc /\ ~p.loc_const
    BY <1>8, <1>12, <1>15
  <2>2. reg = m /\ m # NoReg
    <3>1. RealPlace(k) # <<>> /\ RealPlace(k)[1] = m
      BY <1>10, <1>11, <1>15, FirstOfArgument
    <3>2. RegisterOf(k) = m
      BY <1>7, <1>15, <3>1 DEF RegisterOf
    <3> QED
      BY <1>7, <1>11, <3>2 DEF NoReg
  <2>3. m < arch__nr_register_params
    BY <1>7, <1>10, <1>11, <1>15
  <2>4. j = [parm |-> p, slots |-> w]
    BY <1>12, <1>14, <2>1, <2>2, <2>3
  <2>5. j.parm = p /\ j.slots = w
    BY <2>4
  <2> QED
    BY <1>7, <1>11, <1>15, <2>5 DEF Found
<1>16. ASSUME fate \notin {"used", "late"}, j = none
       PROVE  /\ j.parm = Found(ps[k], source[k].fate \notin {"used", "late"})
              /\ m + j.slots = next[k]
  <2>1. PICK q : q = [p EXCEPT !.optimized = TRUE]
    OBVIOUS
  <2>2. j.parm = q /\ j.slots = 0
    BY <1>16, <2>1
  <2> QED
    BY <1>7, <1>11, <1>16, <2>1, <2>2 DEF Found
<1>17. CASE fate = "const"
  <2>1. p.has_loc /\ p.loc_const
    BY <1>8, <1>12, <1>17
  <2> QED
    BY <1>14, <1>16, <1>17, <2>1
<1>18. CASE fate \in {"dropped", "attr"}
  <2>1. ~p.has_loc
    BY <1>8, <1>12, <1>18
  <2>2. ASSUME preserved PROVE FALSE
    <3>1. PICK i : i = k + 1
      OBVIOUS
    <3>2. PICK q : q = ps[i]
      OBVIOUS
    <3>3. PICK x : x = parameter__align_reg_idx(q, m + w)
      OBVIOUS
    <3>4. k < Len(ps) /\ q.loc_reg # NoReg /\ q.loc_reg = x
      BY <1>13, <2>2, <3>1, <3>2, <3>3 DEF next_parameter_preserves_slots
    <3>5. i \in 1 .. n /\ i - 1 = k
      BY <1>1, <1>2, <1>4, <3>1, <3>4
    <3>6. q.loc_reg = RegisterOf(i)
      BY <1>6, <3>2, <3>5 DEF Seen
    <3>7. source[i].fate \in {"used", "late"} /\ RealPlace(i)[1] = q.loc_reg
      BY <3>4, <3>6 DEF RegisterOf
    <3>8. RealPlace(i) = Argument(Words(source[i].type), next[k])
      <4>1. RealPlace(i) = Argument(Words(source[i].type), next[i - 1])
        BY <1>2, <3>5, <3>7, Zenon DEF Packed
      <4> QED
        BY <3>5, <4>1
    <3>9. Words(source[i].type) \in {1, 2}
      BY <1>5, <3>5, WordsOfType DEF InRegs, Types
    <3>10. q.loc_reg = m
      BY <1>11, <1>18, <3>7, <3>8, <3>9, FirstOfArgument
    <3>11. x > m
      <4>1. PICK y : y = m + w
        OBVIOUS
      <4>2. y \in Nat /\ y > m /\ y % 2 \in Nat
        BY <1>10, <1>11, <4>1
      <4>3. x = y \/ x = y + (y % 2)
        BY <3>3, <4>1 DEF parameter__align_reg_idx
      <4> QED
        BY <1>11, <4>2, <4>3
    <3> QED
      BY <1>11, <3>4, <3>10, <3>11
  <2> QED
    BY <1>14, <1>16, <1>18, <2>1, <2>2
<1> QED
  BY <1>8, <1>15, <1>17, <1>18

\* What is found out about each of them.
LEMMA DroppingFound ==
  ASSUME machine \in Machines, source \in Sources, machine # "s390", Dropping,
         true_sig, compiler = "clang"
  PROVE  JudgeAll(Fresh) =
            [k \in DOMAIN source |-> Found(Fresh[k], source[k].fate \notin {"used", "late"})]
<1>1. Len(source) \in Nat /\ DOMAIN source = 1 .. Len(source)
  BY SourceLength
<1>2. PICK n : n = Len(source)
  OBVIOUS
<1>3. PICK ps, S : ps = Fresh /\ S = {parameter__new(Die(k)) : k \in DOMAIN source}
  OBVIOUS
<1>4. /\ ps = [k \in DOMAIN source |-> ps[k]] /\ \A k \in DOMAIN source : ps[k] = parameter__new(Die(k))
  BY <1>3, Zenon DEF Fresh
<1>5. \A k \in DOMAIN source : ps[k] \in S
  BY <1>3, <1>4, Zenon
<1>6. ps \in Seq(S) /\ Len(ps) = n
  BY <1>2, <1>4, <1>5, LikeSource
<1>7. PICK res, g : res = JudgeAll(ps) /\ JudgeCounts(g, ps, res)
  BY <1>6, JudgeAllCounts
<1>8. PICK next : Packed(next)
  BY StillPacked
<1>9. next[0] = 0 /\ g[0] = 0
  BY <1>7, <1>8 DEF Packed, JudgeCounts
<1>10. ASSUME NEW k \in 1 .. n, g[k - 1] = next[k - 1]
       PROVE  /\ res[k] = Found(ps[k], source[k].fate \notin {"used", "late"})
              /\ g[k] = next[k]
  <2>1. PICK m : m = next[k - 1]
    OBVIOUS
  <2>2. (IF ps[k].memory THEN g[k - 1] ELSE parameter__align_reg_idx(ps[k], g[k - 1])) = m
    <3>1. PICK p, d, type, reg, c : /\ p = ps[k] /\ d = Die(k) /\ type = source[k].type
                                    /\ reg = RegisterOf(k) /\ c = (source[k].fate = "const")
      OBVIOUS
    <3>2. k \in DOMAIN source /\ source[k].fate \in Plain /\ type \in InRegs
          /\ (type = "int128" => ~arch__arg_align_two_regs) /\ type # "big"
      BY <1>1, <1>2, <3>1, SourceTypes DEF Dropping, InRegisters, Plain, InRegs, Types
    <3>3. Seen(p, d, reg, c)
      BY <1>4, <3>1, <3>2, PlainSeen
    <3>4. d.type = type
      BY <3>1, DieFields
    <3>5. d.type \in InRegs
      BY <3>2, <3>4
    <3>6. (IF p.memory THEN m ELSE parameter__align_reg_idx(p, m)) = First(m, d.type)
      BY <3>3, <3>5, SlotsAreWords, Zenon
    <3>7. First(m, d.type) = m
      BY <3>2, <3>4 DEF First
    <3> QED
      BY <1>10, <2>1, <3>1, <3>6, <3>7, Zenon
  <2>3. res[k] = Judge(ps, k, m).parm /\ g[k] = m + Judge(ps, k, m).slots
    BY <1>2, <1>6, <1>7, <2>2, Zenon DEF JudgeCounts
  <2>4. PICK j : j = Judge(ps, k, m)
    OBVIOUS
  <2>5. /\ j.parm = Found(ps[k], source[k].fate \notin {"used", "late"})
        /\ m + j.slots = next[k]
    BY <1>2, <1>3, <1>8, <2>1, <2>4, JudgeDropping
  <2> QED
    BY <2>3, <2>4, <2>5
<1> DEFINE T == {k \in Nat : k <= n => g[k] = next[k]}
<1>11. 0 \in T
  BY <1>9
<1>12. ASSUME NEW i \in Nat, i \in T PROVE i + 1 \in T
  <2> SUFFICES ASSUME i + 1 <= n PROVE g[i + 1] = next[i + 1]
    BY <1>12
  <2>1. PICK k : k = i + 1
    OBVIOUS
  <2>2. k \in 1 .. n /\ k - 1 = i /\ g[i] = next[i]
    BY <1>1, <1>2, <1>12, <2>1
  <2> QED
    BY <1>10, <2>1, <2>2
<1>13. \A k \in 0 .. n : g[k] = next[k]
  <2>1. Nat \subseteq T
    <3> HIDE DEF T
    <3> QED
      BY <1>11, <1>12, Judging!NatSetInduction
  <2> QED
    BY <1>1, <1>2, <2>1
<1>14. ASSUME NEW k \in 1 .. n
       PROVE  res[k] = Found(ps[k], source[k].fate \notin {"used", "late"})
  <2>1. PICK i : i = k - 1
    OBVIOUS
  <2>2. i \in 0 .. n
    BY <1>1, <1>2, <2>1
  <2>3. g[k - 1] = next[k - 1]
    BY <1>13, <2>1, <2>2
  <2> QED
    BY <1>10, <2>3
<1>15. res = [k \in DOMAIN ps |-> res[k]] /\ DOMAIN ps = DOMAIN source
  BY <1>4, <1>6, <1>7, JudgeAllCounts
<1>16. res = [k \in DOMAIN source |-> Found(ps[k], source[k].fate \notin {"used", "late"})]
  BY <1>1, <1>2, <1>14, <1>15
<1> QED
  BY <1>3, <1>7, <1>16

-----------------------------------------------------------------------------
(* What the functions of the model depend on                               *)

\* The place of an argument depends on the machine.
LEMMA PlacesKept ==
  ASSUME machine' = machine, NEW types
  PROVE  Places(types)' = Places(types)
BY DEF Places, FoldLeft, MapThenFoldSet, Place, arch__nr_register_params,
  arch__agg_use_two_regs, arch__arg_align_two_regs, ByReference, NoBackfill,
  largest_in_regs, Words, Argument

\* The place of a parameter depends on the machine and on the source.
LEMMA RealPlaceKept ==
  ASSUME machine' = machine, source' = source, NEW k
  PROVE  RealPlace(k)' = RealPlace(k)
BY DEF RealPlace, Passed, Places, FoldLeft, MapThenFoldSet, Place, arch__nr_register_params,
  arch__agg_use_two_regs, arch__arg_align_two_regs, ByReference, NoBackfill,
  largest_in_regs, Words, Argument

\* So do the DIEs.
LEMMA DieKept ==
  ASSUME machine' = machine, source' = source, NEW k
  PROVE  Die(k)' = Die(k)
<1>1. \A j : RealPlace(j)' = RealPlace(j)
  BY RealPlaceKept
<1>2. \A j : Bases(j)' = Bases(j)
  BY <1>1 DEF Bases
<1>3. \A j : Base(j)' = Base(j)
  BY <1>1, <1>2 DEF Base
<1>4. Location(k)' = Location(k)
  BY <1>1, <1>3 DEF Location
<1> QED
  BY <1>4 DEF Die

\* How a DIE is decoded depends on the machine.
LEMMA NewKept ==
  ASSUME machine' = machine, NEW d
  PROVE  parameter__new(d)' = parameter__new(d)
<1>1. NewParameter(d)' = NewParameter(d)
  BY DEF NewParameter, arch__agg_use_two_regs
<1>2. \A p, list : parameter__decode_location(p, list)' = parameter__decode_location(p, list)
  BY SMT DEF parameter__decode_location, FoldLeft, MapThenFoldSet, DecodeLater, DecodeExpr,
     parameter__multi_exprs, arch__agg_use_two_regs
<1> QED
  BY <1>1, <1>2 DEF parameter__new

\* What a function is does not depend on how far it was processed.
LEMMA Unchanged ==
  ASSUME machine' = machine, source' = source, true_signature' = true_signature
  PROVE  /\ Fresh' = Fresh /\ (AsDeclared' <=> AsDeclared) /\ (Dropping' <=> Dropping)
         /\ (EncodesTrueSignature' <=> EncodesTrueSignature)
<1>1. Fresh' = Fresh
  <2>1. \A k : Die(k)' = Die(k)
    BY DieKept
  <2>2. \A d : parameter__new(d)' = parameter__new(d)
    BY NewKept
  <2>3. \A k : parameter__new(Die(k))' = parameter__new(Die(k))
    BY <2>1, <2>2
  <2> QED
    BY <2>3 DEF Fresh
<1>2. AsDeclared' <=> AsDeclared
  BY DEF AsDeclared, Changed
<1>3. InRegisters' <=> InRegisters
  BY SMT DEF InRegisters, Declared, Places, FoldLeft, MapThenFoldSet, Place,
     arch__nr_register_params, arch__agg_use_two_regs, arch__arg_align_two_regs, ByReference,
     NoBackfill, largest_in_regs, Words, Argument, ToSet
<1>4. Dropping' <=> Dropping
  BY <1>3 DEF Dropping, arch__arg_align_two_regs
<1>5. EncodesTrueSignature' <=> EncodesTrueSignature
  BY DEF EncodesTrueSignature, arch__param_loc_supported
<1> QED
  BY <1>1, <1>2, <1>4, <1>5

-----------------------------------------------------------------------------
(* The invariant of the changes                                            *)

\* The flags of a prototype.
Flags == {"signature_changed", "reordered", "optimized", "unexpected"}

\* A parameter for each that was declared, of which the ones that are not passed any
\* more are known.
Truly(ps) ==
    /\ ps = [k \in DOMAIN source |-> ps[k]]
    /\ \A k \in DOMAIN source : /\ ps[k].idx = k /\ ~ps[k].unexpected
                                /\ ps[k].optimized <=> Passed(source[k]) = "none"

\* The parameters of a function that is called as declared are loaded in order, and so
\* are the ones of a function that clang marks; no fault is found with the former, and
\* of the latter it is known what is still passed.
LoadedInOrder ==
    /\ AsDeclared \/ (compiler = "clang" /\ marked) => dies = [k \in DOMAIN source |-> Die(k)]
    /\ AsDeclared => ~marked /\ ~suffixed

\* The parameters are loaded from them in the order of the source.
AllDecoded ==
    /\ proto.signature_changed => compiler = "clang"
    /\ AsDeclared \/ proto.signature_changed => parms = Fresh /\ ~proto.reordered
    /\ AsDeclared => ~suffixed /\ ~proto.signature_changed

\* The result of function__analyze_parameter_locations().
Analyzed ==
    /\ AsDeclared => /\ parms = [k \in DOMAIN source |-> parms[k]]
                     /\ ~proto.unexpected /\ ~proto.reordered /\ ~proto.signature_changed
                     /\ ~suffixed
    /\ proto.signature_changed /\ EncodesTrueSignature /\ Dropping
         => Truly(parms) /\ ~proto.unexpected /\ ~proto.reordered

\* What holds until the function is added to BTF.
ChangesInv ==
    /\ machine \in Machines /\ source \in Sources
    /\ Flags \subseteq DOMAIN proto
    /\ pc = "load" => LoadedInOrder
    /\ pc = "analyze" => AllDecoded
    /\ pc = "save" => Analyzed
    /\ ChangesFound

\* Only gcc lists the parameters of a changed function in another order.
LEMMA CompileInOrder ==
  ASSUME ChangesInv, Compile
  PROVE  ChangesInv'
<1>1. PICK all : all = [k \in DOMAIN source |-> Die(k)]
  OBVIOUS
<1>2. /\ dies' \in IF compiler = "gcc" /\ Changed THEN {all, Reordered(all)} ELSE {all}
      /\ marked' \in IF compiler = "clang" /\ Changed THEN BOOLEAN ELSE {FALSE}
      /\ suffixed' <=> compiler = "gcc" /\ Changed
      /\ pc' = "load" /\ machine' = machine /\ compiler' = compiler /\ source' = source
      /\ true_signature' = true_signature /\ proto' = proto
  BY <1>1 DEF Compile, unit
<1>3. all' = all
  OBVIOUS
<1>4. (AsDeclared' <=> AsDeclared) /\ \A k : Die(k)' = Die(k)
  BY <1>2, Unchanged, DieKept
<1>5. [k \in DOMAIN source |-> Die(k)]' = all
  BY <1>1, <1>2, <1>4
<1>6. AsDeclared => ~Changed
  BY DEF AsDeclared
<1>7. ASSUME AsDeclared \/ (compiler = "clang" /\ marked') PROVE dies' = all
  <2>1. ~(compiler = "gcc" /\ Changed)
    BY <1>6, <1>7
  <2> QED
    BY <1>2, <2>1
<1>8. ASSUME AsDeclared PROVE ~marked' /\ ~suffixed'
  BY <1>2, <1>6, <1>8
<1>9. LoadedInOrder'
  BY <1>2, <1>4, <1>5, <1>7, <1>8 DEF LoadedInOrder
<1>10. ChangesFound'
  BY <1>2 DEF ChangesFound, NoFalseAlarm, TrueSignatureFound
<1> QED
  BY <1>2, <1>9, <1>10 DEF ChangesInv

\* die__create_new_function() finds them in order.
LEMMA LoadInOrder ==
  ASSUME ChangesInv, Load
  PROVE  ChangesInv'
<1>1. /\ pc = "load" /\ pc' = "analyze"
      /\ parms' = [k \in DOMAIN dies |-> parameter__new(dies[k])]
      /\ proto' = [proto EXCEPT !.signature_changed = compiler = "clang" /\ marked,
                                !.reordered = \E k \in DOMAIN dies : dies[k].idx # k]
      /\ machine' = machine /\ compiler' = compiler /\ source' = source
      /\ true_signature' = true_signature /\ suffixed' = suffixed
  BY DEF Load, unit, function
<1>2. LoadedInOrder /\ Flags \subseteq DOMAIN proto
  BY <1>1 DEF ChangesInv
<1>3. /\ Fresh' = Fresh /\ (AsDeclared' <=> AsDeclared)
  BY <1>1, Unchanged
<1>4. PICK changed, late : /\ changed = (compiler = "clang" /\ marked)
                           /\ late = (\E k \in DOMAIN dies : dies[k].idx # k)
  OBVIOUS
<1>5. proto' = [proto EXCEPT !.signature_changed = changed, !.reordered = late]
  BY <1>1, <1>4, Zenon
<1>6. proto'.signature_changed = changed /\ proto'.reordered = late /\ Flags \subseteq DOMAIN proto'
  BY <1>2, <1>5, Zenon DEF Flags
<1>7. ASSUME dies = [k \in DOMAIN source |-> Die(k)]
      PROVE  parms' = Fresh /\ ~late
  <2>1. \A k \in DOMAIN source : dies[k].idx = k
    BY <1>7, DieFields
  <2>2. DOMAIN dies = DOMAIN source
    BY <1>7
  <2>3. parms' = Fresh
    BY <1>1, <1>7 DEF Fresh
  <2> QED
    BY <1>4, <2>1, <2>2, <2>3
<1>8. changed => compiler = "clang"
  BY <1>4
<1>9. ASSUME AsDeclared \/ changed PROVE parms' = Fresh /\ ~late
  BY <1>2, <1>4, <1>7, <1>9 DEF LoadedInOrder
<1>10. ASSUME AsDeclared PROVE ~suffixed /\ ~changed
  BY <1>2, <1>4, <1>10 DEF LoadedInOrder
<1>11. AllDecoded'
  BY <1>1, <1>3, <1>6, <1>8, <1>9, <1>10 DEF AllDecoded
<1>12. ChangesFound'
  BY <1>1 DEF ChangesFound, NoFalseAlarm, TrueSignatureFound
<1> QED
  BY <1>1, <1>6, <1>11, <1>12 DEF ChangesInv

\* What is known of a changed function when its true signature is looked for.
LEMMA ChangedFound ==
  ASSUME machine \in Machines, source \in Sources, EncodesTrueSignature, Dropping,
         proto.signature_changed, compiler = "clang", NEW ps,
         ps = function__analyze_parameter_locations(Fresh)
  PROVE  Truly(ps)
<1>1. true_sig /\ machine # "s390"
  BY DEF true_sig, EncodesTrueSignature, arch__param_loc_supported
<1>2. ps = JudgeAll(Fresh)
  BY DEF function__analyze_parameter_locations
<1>3. ps = [k \in DOMAIN source |-> Found(Fresh[k], source[k].fate \notin {"used", "late"})]
  BY <1>1, <1>2, DroppingFound
<1>4. ASSUME NEW k \in DOMAIN source
      PROVE  /\ ps[k].idx = k /\ ~ps[k].unexpected
             /\ ps[k].optimized <=> Passed(source[k]) = "none"
  <2>1. PICK q, d, gone : /\ q = Fresh[k] /\ d = Die(k)
                          /\ gone = (source[k].fate \notin {"used", "late"})
    OBVIOUS
  <2>2. /\ source[k].fate \in Plain /\ source[k].type \in Types /\ source[k].type # "big"
        /\ source[k].fate \in {"used", "late", "dropped", "const", "attr"}
    BY SourceTypes DEF Dropping, InRegisters, Plain
  <2>3. q = parameter__new(d)
    BY <2>1 DEF Fresh
  <2>4. PICK reg, constant : Seen(q, d, reg, constant)
    BY <2>1, <2>2, <2>3, PlainSeen
  <2>5. d.idx = k
    BY <2>1, DieFields
  <2>6. JudgedBy \subseteq DOMAIN q /\ q.idx = k /\ ~q.optimized /\ ~q.unexpected
    BY <2>4, <2>5 DEF Seen
  <2>7. "optimized" \in DOMAIN q
    BY <2>6 DEF JudgedBy
  <2>8. PICK x : x = [q EXCEPT !.optimized = TRUE]
    OBVIOUS
  <2>9. x.idx = k /\ ~x.unexpected /\ x.optimized
    BY <2>6, <2>7, <2>8
  <2>10. ps[k] = IF gone THEN x ELSE q
    BY <1>3, <2>1, <2>8 DEF Found
  <2>11. gone <=> Passed(source[k]) = "none"
    BY <2>1, <2>2 DEF Passed, Whole, Part, Types
  <2> QED
    BY <2>6, <2>9, <2>10, <2>11
<1>5. ps = [k \in DOMAIN source |-> ps[k]]
  BY <1>3
<1> QED
  BY <1>4, <1>5 DEF Truly

\* The analysis finds no fault with what is called as declared, and finds out what is
\* not passed any more by a function that clang changed.
LEMMA AnalyzeFinds ==
  ASSUME ChangesInv, Analyze
  PROVE  ChangesInv'
<1>1. PICK ps : ps = function__analyze_parameter_locations(parms)
  OBVIOUS
<1>2. PICK opt, odd : /\ opt = (\E k \in DOMAIN ps : ps[k].optimized \/ ~ps[k].has_loc)
                      /\ odd = (/\ \E k \in DOMAIN ps : ps[k].unexpected
                                /\ \A k \in DOMAIN ps : ~IsStruct(ps[k].type))
  OBVIOUS
<1>3. /\ pc = "analyze" /\ pc' = "save" /\ parms' = ps
      /\ proto' = [proto EXCEPT !.optimized = opt, !.unexpected = odd]
      /\ machine' = machine /\ compiler' = compiler /\ source' = source
      /\ true_signature' = true_signature /\ suffixed' = suffixed
  BY <1>1, <1>2, Zenon DEF Analyze, unit, function
<1>4. AllDecoded /\ Flags \subseteq DOMAIN proto /\ machine \in Machines /\ source \in Sources
  BY <1>3 DEF ChangesInv
<1>5. /\ AsDeclared' <=> AsDeclared
      /\ Dropping' <=> Dropping
      /\ EncodesTrueSignature' <=> EncodesTrueSignature
  BY <1>3, Unchanged
<1>6. /\ proto'.signature_changed = proto.signature_changed /\ proto'.reordered = proto.reordered
      /\ proto'.unexpected = odd /\ Flags \subseteq DOMAIN proto'
  BY <1>3, <1>4, Zenon DEF Flags
<1>7. ASSUME AsDeclared
      PROVE  /\ ps = [k \in DOMAIN source |-> ps[k]]
             /\ ~odd /\ ~proto.reordered /\ ~proto.signature_changed /\ ~suffixed
  <2>1. parms = Fresh /\ ~proto.reordered /\ ~suffixed /\ ~proto.signature_changed
    BY <1>4, <1>7 DEF AllDecoded
  <2>2. /\ ps = [k \in DOMAIN source |-> ps[k]]
        /\ \/ \A k \in DOMAIN source : ~ps[k].unexpected
           \/ \E k \in DOMAIN source : IsStruct(ps[k].type)
    BY <1>1, <1>4, <1>7, <2>1, NoFaultFound
  <2>3. DOMAIN ps = DOMAIN source
    BY <2>2
  <2> QED
    BY <1>2, <2>1, <2>2, <2>3
<1>8. ASSUME proto.signature_changed, EncodesTrueSignature, Dropping
      PROVE  Truly(ps) /\ ~odd /\ ~proto.reordered
  <2>1. compiler = "clang" /\ parms = Fresh /\ ~proto.reordered
    BY <1>4, <1>8 DEF AllDecoded
  <2>2. Truly(ps)
    BY <1>1, <1>4, <1>8, <2>1, ChangedFound
  <2>3. DOMAIN ps = DOMAIN source /\ \A k \in DOMAIN source : ~ps[k].unexpected
    BY <2>2 DEF Truly
  <2> QED
    BY <1>2, <2>1, <2>2, <2>3
<1>9. Truly(ps) => Truly(parms)'
  BY <1>3 DEF Truly, Passed
<1>10. Analyzed'
  BY <1>3, <1>5, <1>6, <1>7, <1>8, <1>9 DEF Analyzed
<1>11. ChangesFound'
  BY <1>3 DEF ChangesFound, NoFalseAlarm, TrueSignatureFound
<1> QED
  BY <1>3, <1>4, <1>6, <1>10, <1>11 DEF ChangesInv
\* btf_encoder__save_func() drops what is not passed, and nothing else.
LEMMA SaveFinds ==
  ASSUME ChangesInv, Save
  PROVE  ChangesInv'
<1>1. PICK kept : kept = {k \in DOMAIN parms : Kept(parms[k])}
  OBVIOUS
<1>2. /\ pc = "save" /\ pc' = "done" /\ state' = [added |-> Added, parms |-> Only(parms, kept)]
      /\ machine' = machine /\ compiler' = compiler /\ source' = source
      /\ true_signature' = true_signature /\ parms' = parms /\ proto' = proto
  BY <1>1 DEF Save, unit, function
<1>3. Analyzed /\ Flags \subseteq DOMAIN proto /\ machine \in Machines /\ source \in Sources
  BY <1>2 DEF ChangesInv
<1>4. (state'.added <=> Added) /\ state'.parms = Only(parms, kept)
  BY <1>2
<1>5. ASSUME parms = [k \in DOMAIN source |-> parms[k]]
      PROVE  /\ \E S : parms \in Seq(S)
             /\ Len(parms) = Len(source) /\ DOMAIN parms = DOMAIN source
  <2>1. PICK S : S = {parms[k] : k \in DOMAIN source}
    OBVIOUS
  <2>2. \A k \in DOMAIN source : parms[k] \in S
    BY <2>1
  <2>3. parms \in Seq(S) /\ Len(parms) = Len(source)
    BY <1>3, <1>5, <2>2, LikeSource
  <2> QED
    BY <1>5, <2>3
<1>6. NoFalseAlarm'
  <2> SUFFICES ASSUME ~Changed', (\A k \in DOMAIN source : source[k].type # "big")'
               PROVE  state'.added /\ state'.parms = parms'
    BY DEF NoFalseAlarm
  <2>1. AsDeclared
    BY <1>2 DEF AsDeclared, Changed
  <2>2. /\ parms = [k \in DOMAIN source |-> parms[k]]
        /\ ~proto.unexpected /\ ~proto.reordered /\ ~proto.signature_changed /\ ~suffixed
    BY <1>3, <2>1 DEF Analyzed
  <2>3. Added
    BY <2>2 DEF Added
  <2>4. kept = DOMAIN parms
    BY <1>1, <2>2 DEF Kept
  <2>5. PICK S : parms \in Seq(S)
    BY <1>5, <2>2
  <2>6. Only(parms, kept) = parms
    BY <2>4, <2>5, OnlyAll
  <2> QED
    BY <1>2, <1>4, <2>3, <2>6
<1>7. TrueSignatureFound'
  <2> DEFINE order == [k \in DOMAIN source |-> k]
             passed == {k \in DOMAIN source : Passed(source[k]) # "none"}
  <2>1. order' = order /\ passed' = passed
    BY <1>2 DEF Passed
  <2>2. (Dropping' <=> Dropping) /\ (EncodesTrueSignature' <=> EncodesTrueSignature)
    BY <1>2, Unchanged
  <2>3. ASSUME proto.signature_changed, EncodesTrueSignature, Dropping
        PROVE  state'.added /\ Positions(state'.parms) = Only(order, passed)
    <3>1. Truly(parms) /\ ~proto.unexpected /\ ~proto.reordered
      BY <1>3, <2>3 DEF Analyzed
    <3>2. Added
      BY <2>3, <3>1 DEF Added
    <3>3. /\ parms = [k \in DOMAIN source |-> parms[k]]
          /\ \A k \in DOMAIN source : /\ parms[k].idx = k
                                      /\ parms[k].optimized <=> Passed(source[k]) = "none"
      BY <3>1 DEF Truly
    <3>4. kept = passed
      BY <1>1, <2>3, <3>1, <3>3 DEF Kept
    <3>5. PICK S : parms \in Seq(S) /\ Len(parms) = Len(source)
      BY <1>5, <3>3
    <3>6. PICK n : n = order
      OBVIOUS
    <3>7. Len(source) \in Nat /\ DOMAIN source = 1 .. Len(source)
      BY <1>3, SourceLength
    <3>8. n = [k \in DOMAIN source |-> n[k]] /\ \A k \in DOMAIN source : n[k] = k
      BY <3>6
    <3>9. n \in Seq(Nat) /\ Len(n) = Len(parms)
      <4>1. \A k \in DOMAIN source : n[k] \in Nat
        BY <3>7, <3>8
      <4> QED
        BY <1>3, <3>5, <3>8, <4>1, LikeSource
    <3>10. \A k \in 1 .. Len(parms) : parms[k].idx = n[k]
      BY <3>3, <3>5, <3>7, <3>8
    <3> HIDE DEF order, passed
    <3>11. Positions(Only(parms, passed)) = Only(n, passed)
      BY <3>5, <3>9, <3>10, OnlyIdx
    <3> QED
      BY <1>4, <3>2, <3>4, <3>6, <3>11
  <2> SUFFICES ASSUME (proto.signature_changed)', EncodesTrueSignature', Dropping'
               PROVE  (/\ state.added
                       /\ [j \in DOMAIN state.parms |-> state.parms[j].idx] =
                            Only(order, passed))'
    BY DEF TrueSignatureFound, Dropping
  <2> HIDE DEF order, passed
  <2>4. state'.added /\ Positions(state'.parms) = Only(order, passed)
    BY <1>2, <2>2, <2>3
  <2> QED
    BY <2>1, <2>4 DEF Positions
<1>8. ChangesFound'
  BY <1>6, <1>7 DEF ChangesFound
<1> QED
  BY <1>2, <1>3, <1>8 DEF ChangesInv

\* A function that is called as it was declared is added to BTF as it was declared, and of
\* one that is known to be changed the parameters that are still passed are added, on every
\* machine and for every list of parameters.
THEOREM ChangesAreFound == Spec => []ChangesFound
<1>1. Init => ChangesInv
  BY DEF Init, ChangesInv, Flags, ChangesFound, NoFalseAlarm, TrueSignatureFound
<1>2. ChangesInv /\ [Next]_vars => ChangesInv'
  <2> SUFFICES ASSUME ChangesInv, [Next]_vars PROVE ChangesInv'
    OBVIOUS
  <2>1. CASE Compile
    BY <2>1, CompileInOrder
  <2>2. CASE Load
    BY <2>2, LoadInOrder
  <2>3. CASE Analyze
    BY <2>3, AnalyzeFinds
  <2>4. CASE Save
    BY <2>4, SaveFinds
  <2>5. CASE UNCHANGED vars
    <3>1. /\ pc' = pc /\ machine' = machine /\ compiler' = compiler /\ source' = source
          /\ true_signature' = true_signature /\ marked' = marked /\ suffixed' = suffixed
          /\ dies' = dies /\ parms' = parms /\ proto' = proto /\ state' = state
      BY <2>5 DEF vars, unit, function
    <3>2. /\ Fresh' = Fresh
          /\ AsDeclared' <=> AsDeclared
          /\ Dropping' <=> Dropping
          /\ EncodesTrueSignature' <=> EncodesTrueSignature
      BY <3>1, Unchanged
    <3>3. LoadedInOrder' <=> LoadedInOrder
      <4>1. \A k : Die(k)' = Die(k)
        BY <3>1, DieKept
      <4> QED
        BY <3>1, <3>2, <4>1 DEF LoadedInOrder
    <3>4. AllDecoded' <=> AllDecoded
      BY <3>1, <3>2 DEF AllDecoded
    <3>5. Analyzed' <=> Analyzed
      <4>1. Truly(parms)' <=> Truly(parms)
        BY <3>1 DEF Truly, Passed
      <4> QED
        BY <3>1, <3>2, <4>1 DEF Analyzed
    <3>6. ChangesFound' <=> ChangesFound
      <4>1. NoFalseAlarm' <=> NoFalseAlarm
        BY <3>1 DEF NoFalseAlarm, Changed
      <4>2. TrueSignatureFound' <=> TrueSignatureFound
        BY <3>1, <3>2 DEF TrueSignatureFound, Dropping, Passed
      <4> QED
        BY <4>1, <4>2 DEF ChangesFound
    <3> QED
      BY <3>1, <3>3, <3>4, <3>5, <3>6 DEF ChangesInv
  <2> QED
    BY <2>1, <2>2, <2>3, <2>4, <2>5 DEF Next
<1>3. ChangesInv => ChangesFound
  BY DEF ChangesInv
<1> QED
  BY <1>1, <1>2, <1>3, PTL DEF Spec

=============================================================================
