---------------------------- MODULE Reorganize ----------------------------
(***************************************************************************)
(* class__reorganize(): members are moved into holes, one move at a time,  *)
(* and the search starts again after every move.  pahole --reorganize and  *)
(* --packable run it on a copy of a class; ctracer runs it on a copy from  *)
(* which it removed every member that is not of a base type                *)
(* (class__remove_member()) and whose alignment it repaired                *)
(* (class__fixup_alignment()).                                             *)
(*                                                                         *)
(* The algorithms for bitfields are compiled out                           *)
(* (BITFIELD_REORG_ALGORITHMS_ENABLED): bitfields are not moved.           *)
(***************************************************************************)
EXTENDS ClassLayout

VARIABLES
    clone,      \* the copy that is reorganized
    cursor,     \* the member ctracer looks at
    moves       \* how often a member was moved

vars == <<pc, decls, attrs, object, cls, fmt, printed, clone, cursor, moves>>

(* A hole is an int; where it is compared with a size_t a negative one is a
   very large number.                                                       *)
size_t(n) == IF n < 0 THEN 2 ^ 30 ELSE n
mod_size_t(n, s) == IF n >= 0 THEN n % s ELSE ((65536 % s) ^ 4 + n) % s

LastMember(c) == c.ms[Len(c.ms)]
ByteEnd(m) == m.byte + m.size

----------------------------------------------------------------------------
(* Offsets of the members after the i-th. *)

ShiftFrom(ms, i, n) ==
    [k \in DOMAIN ms |->
        IF k > i THEN [ms[k] EXCEPT !.byte = @ + n, !.bit = @ + n * 8] ELSE ms[k]]

class__subtract_offsets_from(c, i, n) ==
    LET ms == ShiftFrom(c.ms, i, -n)
    IN [c EXCEPT !.ms = ms,
                 !.padding = IF @ = 0 \/ ms = <<>> THEN @
                             ELSE AMax(0, c.size - ByteEnd(ms[Len(ms)]))]

class__add_offsets_from(c, i, n) == [c EXCEPT !.ms = ShiftFrom(c.ms, i, n)]

class__recalc_holes(c) == class__find_holes(c)

----------------------------------------------------------------------------
(* The search for a member to move *)

(* The first member after the i-th that has a hole after it and fits in
   size; the first of the bitfield if it belongs to one.                    *)
class__find_next_hole_of_size(c, i, size) ==
    LET fits(k) == c.ms[k].hole # 0 /\ c.ms[k].size # 0 /\ c.ms[k].size <= size
        found == {k \in i + 1 .. Len(c.ms) : fits(k)}
        k == CHOOSE k \in found : \A j \in found : k <= j
        heads == {h \in i + 1 .. k : \A j \in h .. k : c.ms[j].bits # 0}
    IN IF found = {} THEN 0
       ELSE IF heads = {} THEN k
       ELSE CHOOSE h \in heads : \A j \in heads : h <= j

(* The last member after the i-th that fits in size; not one inside a
   bitfield.                                                                *)
class__find_last_member_of_size(c, i, size) ==
    LET inside(k) == c.ms[k].bits # 0 /\ c.ms[k].byte # 0 /\ c.ms[k - 1].bits # 0
        found == {k \in i + 1 .. Len(c.ms) :
                     ~inside(k) /\ c.ms[k].size # 0 /\ c.ms[k].size <= size}
    IN IF found = {} THEN 0 ELSE CHOOSE k \in found : \A j \in found : k >= j

(* Mutant: the member is put at the start of the hole, and the room that it
   leaves stays.                                                            *)
class__move_member_unaligned(c, i, j, from_padding) ==
    LET from == c.ms[j]
        at == c.ms[i].byte + c.ms[i].size
        moved == [from EXCEPT !.byte = at, !.bit = at * 8 + from.bfoff]
    IN class__recalc_holes([c EXCEPT !.ms = InsertAt(RemoveAt(c.ms, j), i + 1, moved)])

(* The j-th member goes after the i-th, aligned to the end of its hole; the
   room it leaves is taken from the class when it is as large as a word.    *)
class__move_member(c, i, j, from_padding) ==
    LET from == c.ms[j]
        dest == c.ms[i]
        at == uint16(dest.byte + dest.size + mod_size_t(dest.hole, AMin(from.size, AddrSize)))
        moved == [from EXCEPT !.byte = at, !.bit = at * 8 + from.bfoff]
        rest == RemoveAt(c.ms, j)
        c1 == [c EXCEPT !.ms = InsertAt(rest, i + 1, moved)]
        \* what was before from is now at j
        c2 == IF from_padding
              THEN IF from.byte % AddrSize = 0
                   THEN [c1 EXCEPT !.size = @ - (from.size + c.padding)]
                   ELSE c1
              ELSE IF j = Len(c.ms)
              THEN [c1 EXCEPT !.size = @ - (from.size + c.padding)]
              ELSE IF uint16(from.hole) + from.size >= AddrSize
              THEN class__subtract_offsets_from([c1 EXCEPT !.size = @ - AddrSize],
                                                j, AddrSize)
              ELSE c1
    IN class__recalc_holes(c2)

(* The first lines after "restart": the padding the last member needs. *)
AdjustPadding(c) ==
    LET last == LastMember(c)
        sizes == {c.ms[k].size + c.ms[k].hole : k \in DOMAIN c.ms}
        fits == {s \in sizes : s <= AddrSize /\ s > 0}
        most == CHOOSE s \in fits : \A r \in fits : s >= r
        alignment_size == IF most > 1 THEN Roundup(most, 2) ELSE most
        modulo == ByteEnd(last) % alignment_size
        new_padding == IF modulo # 0 THEN AddrSize - modulo ELSE 0
    IN IF fits = {} \/ new_padding = c.padding THEN c
       ELSE [c EXCEPT !.padding = new_padding,
                      !.size = ByteEnd(last) + new_padding]

(* The moves the first and the second search propose for the i-th member:
   records with the member and how it is moved.                             *)
HoleMoves(c, i) ==
    LET j == class__find_next_hole_of_size(c, i, size_t(c.ms[i].hole))
        n == Len(c.ms)
        brother == IF j > i + 1 /\ c.ms[j].bits = 0
                   THEN <<[to |-> i, from |-> j, padding |-> FALSE]>> ELSE <<>>
        last == IF c.padding > 0 /\ i # n /\ c.ms[n].size # 0
                   /\ c.ms[n].size <= size_t(c.ms[i].hole) /\ c.ms[n].bits = 0
                THEN <<[to |-> i, from |-> n, padding |-> TRUE]>> ELSE <<>>
    IN IF c.ms[i].hole = 0 THEN <<>> ELSE brother \o last

TailMoves(c, i) ==
    LET j == class__find_last_member_of_size(c, i, size_t(c.ms[i].hole))
    IN IF c.ms[i].hole # 0 /\ j > i + 1 /\ c.ms[j].bits = 0
       THEN <<[to |-> i, from |-> j, padding |-> FALSE]>> ELSE <<>>

Moves(c) ==
    LET n == Len(c.ms)
        first == FlattenSeq([i \in 1 .. n |-> HoleMoves(c, i)])
        second == FlattenSeq([i \in 1 .. n |-> TailMoves(c, i)])
    IN IF first # <<>> \/ c.nr_holes = 0 THEN first ELSE second

----------------------------------------------------------------------------
(* ctracer *)

(* Bitfields in the same unit are removed as one. *)
BitfieldTail(c, i) ==
    IF c.ms[i].bits = 0 THEN i
    ELSE CHOOSE t \in i .. Len(c.ms) :
            /\ \A k \in i .. t : c.ms[k].byte = c.ms[i].byte
            /\ t = Len(c.ms) \/ c.ms[t + 1].byte # c.ms[i].byte

class__remove_member(c, i) ==
    LET m == c.ms[i]
        tail == BitfieldTail(c, i)
        hole == uint16(c.ms[tail].hole)
        room == m.size + hole
        without(d) == [d EXCEPT !.ms = SubSeq(@, 1, i - 1) \o SubSeq(@, tail + 1, Len(@)),
                                !.nr_bit_holes = IF m.bits # 0 /\ c.ms[tail].bit_hole # 0
                                                 THEN @ - 1 ELSE @]
        close == class__subtract_offsets_from([c EXCEPT !.size = @ - room], tail, room)
        less(d) == IF hole # 0 THEN [d EXCEPT !.nr_holes = @ - 1] ELSE d
    IN without(less(
         IF i = 1 THEN close
         ELSE IF i = Len(c.ms)
         THEN IF m.size + c.padding >= AddrSize
              THEN [c EXCEPT !.size = @ - (m.size + c.padding), !.padding = 0]
              ELSE [c EXCEPT !.padding = @ + m.size]
         ELSE IF room >= AddrSize THEN close
         ELSE [c EXCEPT !.ms[i - 1].hole = @ + room,
                        !.nr_holes = IF c.ms[i - 1].hole = 0 THEN @ + 1 ELSE @]))

(* One member of class__fixup_alignment(). *)
FixupMember(c, i) ==
    LET m == c.ms[i]
        prev == c.ms[i - 1].hole
        remainder == m.byte % m.size
        move(n) == [c EXCEPT !.ms[i].byte = @ + n, !.ms[i].bit = @ + n * 8,
                             !.ms[i - 1].hole = @ + n,
                             !.nr_holes = IF prev + n = 0 THEN @ - 1
                                          ELSE IF prev = 0 THEN @ + 1 ELSE @]
        words == (prev \div AddrSize) * AddrSize
    IN IF i = 1
       THEN IF m.byte = 0 THEN c
            ELSE [class__subtract_offsets_from(c, i, m.byte - m.size)
                     EXCEPT !.ms[i].byte = 0, !.ms[i].bit = 0]
       ELSE IF prev >= AddrSize
       THEN class__subtract_offsets_from([move(-words) EXCEPT !.size = @ - words],
                                         i, words)
       ELSE IF m.size \in {2, 4, AddrSize} /\ remainder # 0
       THEN IF prev >= remainder
            THEN class__subtract_offsets_from(move(-remainder), i, remainder)
            ELSE class__add_offsets_from(
                    [move(m.size - remainder) EXCEPT !.size = @ + m.size - remainder],
                    i, m.size - remainder)
       ELSE c

(* The size of the first of the largest base type members, in words of
   powers of 2 up to addr_size (type__find_first_biggest_size_base_type_member()). *)
FirstBiggestSize(c) ==
    LET words(m) == IF m.size >= AddrSize THEN AddrSize
                    ELSE 2 ^ (CHOOSE k \in 0 .. 7 : 2 ^ k <= m.size /\ m.size < 2 ^ (k + 1))
        biggest == {i \in DOMAIN c.ms : \A j \in DOMAIN c.ms : words(c.ms[i]) >= words(c.ms[j])}
    IN c.ms[CHOOSE i \in biggest : \A j \in biggest : i <= j].size

class__fixup_alignment(c) ==
    LET fixed == FoldLeft(FixupMember, c, [i \in DOMAIN c.ms |-> i])
        end == ByteEnd(LastMember(fixed))
        m_size == FirstBiggestSize(fixed)
        remainder == end % m_size
    IN IF c.ms = <<>> \/ remainder = 0 THEN fixed
       ELSE [fixed EXCEPT !.padding = m_size - remainder,
                          !.size = end + m_size - remainder]

----------------------------------------------------------------------------
ReorganizeInit == Init /\ clone = cls /\ cursor = 0 /\ moves = 0

Layout(A) == A /\ UNCHANGED <<clone, cursor, moves>>

(* do_reorg(), class__packable(): class__clone() and class__find_holes(). *)
StartReorganize ==
    /\ pc = "printed"
    /\ clone' = cls
    /\ pc' = "restart"
    /\ UNCHANGED <<decls, attrs, object, cls, fmt, printed, cursor, moves>>

(* class__clone_base_types() *)
StartClone ==
    /\ pc = "printed"
    /\ clone' = cls
    /\ cursor' = 1
    /\ pc' = "remove"
    /\ UNCHANGED <<decls, attrs, object, cls, fmt, printed, moves>>

RemoveMember ==
    /\ pc = "remove"
    /\ cursor <= Len(clone.ms)
    /\ IF clone.ms[cursor].base THEN clone' = clone /\ cursor' = cursor + 1
       ELSE clone' = class__remove_member(clone, cursor) /\ cursor' = cursor
    /\ UNCHANGED <<pc, decls, attrs, object, cls, fmt, printed, moves>>

FixupAlignment ==
    /\ pc = "remove"
    /\ cursor > Len(clone.ms)
    /\ clone' = class__fixup_alignment(clone)
    /\ pc' = "restart"
    /\ UNCHANGED <<decls, attrs, object, cls, fmt, printed, cursor, moves>>

(* One iteration of class__reorganize(), up to its "goto restart". *)
Restart ==
    /\ pc = "restart"
    /\ IF clone.ms = <<>> THEN clone' = clone /\ pc' = "done" /\ moves' = moves
       ELSE LET c == AdjustPadding(clone)
                move == Moves(c)
            IN IF move = <<>> THEN clone' = c /\ pc' = "done" /\ moves' = moves
               ELSE /\ clone' = class__move_member(c, move[1].to, move[1].from,
                                                   move[1].padding)
                    /\ moves' = moves + 1
                    /\ pc' = "restart"
    /\ UNCHANGED <<decls, attrs, object, cls, fmt, printed, cursor>>

Next ==
    \/ \E d \in Decls : Layout(Declare(d))
    \/ \E packed \in BOOLEAN, aligned \in {0, 1}, tail \in Tails :
          Layout(CompileClass(packed, aligned, tail))
    \/ \E f \in Formats : \E units \in [Crossing(f) -> UnitKinds] : Layout(LoadClass(f, units))
    \/ Layout(PrintClass)
    \/ StartReorganize
    \/ StartClone
    \/ RemoveMember
    \/ FixupAlignment
    \/ Restart

Spec == ReorganizeInit /\ [][Next]_vars

----------------------------------------------------------------------------
ClassType ==
    [ms : Seq([id : 1 .. MaxMembers, size : Nat, nat : Nat \ {0}, bits : Nat,
               struct : BOOLEAN, base : BOOLEAN, type_packed : BOOLEAN,
               byte : Int, bit : Int, bfoff : Nat, alignment : Nat,
               hole : Int, bit_hole : 0 .. 255]),
     size : Nat, alignment : Nat, pre_hole : Nat, pre_bit_hole : 0 .. 255,
     nr_holes : 0 .. 255, nr_bit_holes : 0 .. 255, padding : 0 .. 65535,
     bit_padding : 0 .. 255, is_packed : BOOLEAN]

(* The state is well formed: in particular no size is ever reduced below 0.
   An offset may be, in ctracer's copy: the unit of a bitfield may start
   before the member that is removed; -1 stands for 2^32 - 1 then.          *)
TypeOK ==
    /\ pc \in {"declare", "compiled", "loaded", "printed", "remove", "restart", "done"}
    /\ decls \in Seq(Decls)
    /\ fmt \in Format
    /\ {cls, clone} \subseteq ClassType
    /\ cursor \in 0 .. MaxMembers + 1
    /\ moves \in Nat

Bits(m) == m.bit .. m.bit + (IF m.bits # 0 THEN m.bits ELSE m.size * 8) - 1

(* A struct the compiler laid out without attributes or bitfields. *)
NaturalLayout ==
    /\ ~attrs.packed
    /\ attrs.tail = 0
    /\ \A i \in DOMAIN decls :
          decls[i].bits = 0 /\ decls[i].forced = 0 /\ decls[i].align = decls[i].nat

(* However many members class__reorganize() has moved into holes, and
   whatever it took off the class, no two members share a bit, and at the end
   all of them are inside the class.  In ctracer's copy, from which members
   were removed with stale holes, this needs a natural layout.              *)
NoOverlap ==
    pc \in {"restart", "done"} /\ (cursor # 0 => NaturalLayout) =>
        /\ \A i, j \in DOMAIN clone.ms :
              i < j => Bits(clone.ms[i]) \cap Bits(clone.ms[j]) = {}
        /\ pc = "done" => \A i \in DOMAIN clone.ms :
              Bits(clone.ms[i]) \subseteq 0 .. clone.size * 8 - 1

(* A scalar is still at a multiple of its size after the moves: what
   class__move_member() adds to the end of the hole's owner is enough.  (Not
   so with arrays, bitfields or attributes: "the programmer has to check the
   resulting reorganization before using it".)                              *)
StaysAligned ==
    /\ pc = "done" /\ cursor = 0 /\ NaturalLayout
    /\ \A i \in DOMAIN decls : decls[i].size = decls[i].nat
    => \A i \in DOMAIN clone.ms : clone.ms[i].byte % clone.ms[i].nat = 0

(* No member is lost or duplicated when the list is edited, except that
   ctracer's copy has no member that is not of a base type.                 *)
MembersKept ==
    pc \in {"restart", "done"} =>
        LET ids == map(LAMBDA m : m.id, clone.ms)
        IN /\ \A i, j \in DOMAIN ids : ids[i] = ids[j] => i = j
           /\ cursor = 0 => ToSet(ids) = DOMAIN decls
           /\ cursor # 0 => \A i \in DOMAIN clone.ms : clone.ms[i].base

(* Every move starts the search again; it ends, for no more members are moved
   than there are pairs of them.                                            *)
Terminates == moves <= (Len(decls) * (Len(decls) - 1)) \div 2

(* What is printed of a loaded struct says what a compiler did: the holes and
   paddings are the gaps, and the declaration compiles to the same layout.   *)
PrintedAsLaidOut == HolesAreTheGaps /\ Recompiles

(* A reorganized or copied struct has every member it should have, once, where
   no other is and a compiler may put it, and the search for moves ends.     *)
Reorganized == NoOverlap /\ StaysAligned /\ MembersKept /\ Terminates
=============================================================================
