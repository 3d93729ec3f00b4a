---------------------------- MODULE ClassLayout ----------------------------
(***************************************************************************)
(* The layout of a struct, from the debugging information to the printed   *)
(* definition: where the loaders say every member is                       *)
(* (class_member__cache_byte_size() for DWARF,                             *)
(* class__fixup_btf_bitfields() for BTF), the holes and paddings           *)
(* class__find_holes() finds, the __packed__ and __aligned__ attributes    *)
(* that are inferred, and the totals and the definition that               *)
(* __class__fprintf() prints.                                              *)
(*                                                                         *)
(* A struct is declared member by member and laid out by a compiler, which *)
(* is external: Compile.  Names and types are left out: a member has the   *)
(* number of its declaration and what the layout depends on.  C++          *)
(* inheritance and static members are left out.                            *)
(***************************************************************************)
EXTENDS Integers, Sequences, SequencesExt

CONSTANTS
    AddrSize,       \* cu->addr_size
    CachelineSize,  \* conf_fprintf->cacheline_size
    Decls,          \* declarations of members, see DeclType
    MaxMembers,     \* bound: members of the struct
    Tails,          \* bound: unnamed "int :32" members at the end
    Formats         \* how the loader gets the struct: subsets of Format

(* A declaration: the size of its type, the alignment the compiler gives it
   and the one tag__natural_alignment() computes from its type, the width of
   a bitfield or 0, the value of an __aligned__ attribute or 0, whether its
   type is a struct, and whether ctracer may sample it: a base type.        *)
DeclType == [size : Nat, align : Nat \ {0}, nat : Nat \ {0}, bits : Nat,
             forced : Nat, struct : BOOLEAN, base : BOOLEAN]

(* DWARF up to version 3 has a storage unit and the offset of a bitfield
   from its most (little endian) or its least significant bit; DWARF 4 has
   the offset in the struct; BTF is encoded from a loaded struct.           *)
Format == {"dwarf2le", "dwarf2be", "dwarf4", "btf"}

Roundup(n, a) == ((n + a - 1) \div a) * a
AMin(a, b) == IF a <= b THEN a ELSE b
AMax(a, b) == IF a >= b THEN a ELSE b
SeqMax(s) == FoldLeft(AMax, 0, s)
SeqSum(s) == FoldLeft(LAMBDA a, b : a + b, 0, s)
map(Op(_), s) == [i \in DOMAIN s |-> Op(s[i])]
is_power_of_2(n) == \E k \in 0 .. 7 : n = 2 ^ k
int8(n) == ((n + 128) % 256) - 128
uint8(n) == n % 256
uint16(n) == n % 65536

----------------------------------------------------------------------------
(* The compiler (external).  A declaration of width 0 that is marked "skip"
   is "type :0", which aligns what follows; any other without an id is
   unnamed and takes its bits.                                              *)

StartBit(d, cur, packed) ==
    IF d.skip THEN Roundup(cur, d.size * 8)
    ELSE IF d.bits # 0
    THEN IF packed \/ (cur % (d.size * 8)) + d.bits <= d.size * 8 THEN cur
         ELSE Roundup(cur, d.size * 8)
    ELSE Roundup(cur, 8 * AMax(d.forced, IF packed THEN 1 ELSE d.align))

EndBit(d, start) ==
    start + (IF d.skip THEN 0 ELSE IF d.bits # 0 THEN d.bits ELSE d.size * 8)

(* The bit where every declaration starts, the end of the last, and the size
   in bytes of a struct with these declarations and attributes.             *)
Compile(ds, packed, aligned) ==
    LET place(acc, d) ==
            LET start == StartBit(d, acc.end, packed)
            IN [starts |-> Append(acc.starts, start), end |-> EndBit(d, start)]
        all == FoldLeft(place, [starts |-> <<>>, end |-> 0], ds)
        al(d) == AMax(d.forced, IF packed \/ d.skip THEN 1 ELSE d.align)
    IN [starts |-> all.starts,
        size |-> Roundup(Roundup(all.end, 8) \div 8,
                         AMax(AMax(1, aligned), SeqMax(map(al, ds))))]

Declared(d) == d @@ [skip |-> FALSE]
Unnamed(d, bits) ==
    [size |-> d.size, align |-> d.nat, nat |-> d.nat, bits |-> bits, forced |-> 0,
     struct |-> FALSE, base |-> FALSE, skip |-> bits = 0, id |-> 0]
IntDecl == [size |-> 4, align |-> 4, nat |-> 4, bits |-> 0, forced |-> 0,
            struct |-> FALSE, base |-> TRUE]

----------------------------------------------------------------------------
(* The loaders *)

(* DWARF 2 says of a bitfield which storage unit it is in, by its byte, and the
   offset in it.  When an aligned unit of the type holds the field that is the
   one.  Of a field that crosses from one to the next (packed structs) compilers
   may say the unit where it starts, the one where it ends, or, as gcc does,
   one that ends with the field, rounded down to a byte: then the last bits of
   the field may be behind it (external).                                   *)
UnitKinds == {"start", "end", "byte"}

AlignedUnit(d, bit) == (bit \div (d.size * 8)) * d.size

Crosses(d, start) ==
    d.bits # 0 /\ AlignedUnit(d, start) # AlignedUnit(d, start + d.bits - 1)

StorageUnit(d, start, kind) ==
    CASE kind = "start" -> AlignedUnit(d, start)
      [] kind = "end" -> AlignedUnit(d, start + d.bits - 1)
      [] kind = "byte" -> (start + d.bits - d.size * 8) \div 8

dwarf_bit_offset(d, start, unit, f) ==
    CASE f = "dwarf2le" -> d.size * 8 - (start - unit * 8) - d.bits
      [] f = "dwarf2be" -> start - unit * 8

(* Mutant: the unit is taken to be aligned. *)
natural_boundary_aligned(d, byte, bit, bf) ==
    [byte |-> ((bit \div (d.size * 8)) * d.size * 8) \div 8, bit |-> bit, bfoff |-> bf]

(* "align on underlying base type natural alignment boundary" *)
natural_boundary(d, byte, bit, bf) ==
    LET w == d.size * 8
        bf2 == int8(bf + (byte % d.size) * 8)
        byte2 == ((bit \div w) * w) \div 8
    IN [byte |-> IF bf2 >= w THEN byte2 + d.size ELSE byte2,
        bit |-> bit,
        bfoff |-> IF bf2 >= w THEN bf2 - w ELSE bf2]

(* class_member__cache_byte_size(), after class_member__new().              *)
class_member__cache_byte_size(d, start, unit, f) ==
    IF d.bits = 0
    THEN [byte |-> start \div 8, bit |-> start, bfoff |-> 0]
    ELSE
    LET w == d.size * 8
        byte0 == IF f = "dwarf4" THEN start \div 8 ELSE unit
        attr == dwarf_bit_offset(d, start, unit, f)
        bf0 == CASE f = "dwarf4" -> start - byte0 * 8
                 [] f = "dwarf2le" -> int8(w - attr - d.bits)
                 [] f = "dwarf2be" -> int8(attr)
        bit0 == IF f = "dwarf4" THEN start ELSE byte0 * 8 + bf0
        \* make sure the offset is not negative
        byte1 == IF bf0 < 0 THEN byte0 - d.size ELSE byte0
        bf1 == IF bf0 < 0 THEN bf0 + w ELSE bf0
        bit1 == IF bf0 < 0 THEN byte1 * 8 + bf1 ELSE bit0
    IN natural_boundary(d, byte1, bit1, bf1)

(* create_members() and class__fixup_btf_bitfields() for one member of the
   BTF that btf_encoder__add_field() wrote from a loaded member.            *)
btf_member(m) ==
    IF m.bits = 0
    THEN [byte |-> m.bit \div 8, bit |-> m.bit, bfoff |-> 0]
    ELSE LET w == m.size * 8
             byte == ((m.bit \div w) * w) \div 8
         IN [byte |-> byte, bit |-> m.bit, bfoff |-> int8(m.bit - byte * 8)]

(* Mutant: the power of 2 is the one below the distance. *)
class__infer_alignment_below(byte_offset, natural_alignment, smallest_offset) ==
    LET delta == byte_offset - smallest_offset
        al == IF delta > 0 /\ byte_offset % 2 = 0
              THEN 2 ^ (CHOOSE k \in 0 .. 31 : 2 ^ (k + 1) > delta /\ 2 ^ k <= delta)
              ELSE 0
    IN IF al <= natural_alignment \/ al = 1 THEN 0 ELSE al

(* The power of 2 above a distance, if it says more than the type.  A bitfield
   that shares a byte with the field before has a negative distance, an
   unsigned one of 2^31 or more: the shift by 32, which is undefined, gives 1
   or 0 on the targets there are, and neither is used.                      *)
class__infer_alignment(byte_offset, natural_alignment, smallest_offset) ==
    LET delta == byte_offset - smallest_offset
        al == IF delta > 0 /\ byte_offset % 2 = 0
              THEN 2 ^ (CHOOSE k \in 1 .. 32 : 2 ^ k > delta /\ 2 ^ (k - 1) <= delta)
              ELSE 0
    IN IF al <= natural_alignment \/ al = 1 THEN 0
       ELSE IF al < CachelineSize /\ CachelineSize % al = 0
               /\ byte_offset % CachelineSize = 0
       THEN CachelineSize
       ELSE al

(* class__fixup_btf_bitfields() for all the members: they get an alignment
   too, from the end of the one before, as the struct does.                 *)
class__fixup_btf_bitfields(ms, size) ==
    LET fixup(acc, m) ==
            LET p == btf_member(m)
                al == class__infer_alignment(p.byte, m.nat, acc.end)
            IN [ms |-> Append(acc.ms, [m EXCEPT !.byte = p.byte, !.bit = p.bit,
                                                !.bfoff = p.bfoff,
                                                !.alignment = al]),
                end |-> IF m.size = 0 THEN acc.end
                        ELSE p.byte + (IF m.bits # 0
                                       THEN (p.bfoff + m.bits + 7) \div 8
                                       ELSE m.size)]
        all == FoldLeft(fixup, [ms |-> <<>>, end |-> 0], ms)
    IN [ms |-> all.ms,
        alignment |-> class__infer_alignment(size,
                          AMax(1, SeqMax(map(LAMBDA m : m.nat, ms))), all.end)]

----------------------------------------------------------------------------
(* class__find_holes() *)

(* One member: hole and bit_hole are what lies between it and the one
   before; cur_end and cur_size describe the bitfield it belongs to.        *)
FindHole(acc, pos) ==
    LET bf == pos.bits # 0
        end == pos.bit + (IF bf THEN pos.bits ELSE pos.size * 8)
        \* trailing bits of the bitfield before
        bfend == AMin(pos.bit, acc.cur_end)
        seen1 == IF acc.in_bf THEN bfend ELSE acc.seen
        trailing == IF acc.in_bf THEN bfend - acc.seen ELSE 0
        \* alignment bytes before this bitfield
        aligned == pos.byte * 8
        jump == bf /\ seen1 < aligned /\ aligned <= pos.bit
        seen2 == IF jump THEN aligned ELSE seen1
        hole == IF bf THEN (IF jump THEN pos.byte - seen1 \div 8 ELSE 0)
                ELSE pos.bit \div 8 - seen1 \div 8
        bit_hole == trailing + (IF bf THEN pos.bit - seen2 ELSE 0)
        w == pos.size * 8
        adjust == end > acc.cur_end \/ w > acc.cur_size
        end1 == aligned + w
    IN [holes |-> Append(acc.holes, [hole |-> hole, bit_hole |-> bit_hole]),
        seen |-> end,
        in_bf |-> bf,
        cur_size |-> IF ~bf THEN 0 ELSE IF adjust THEN w ELSE acc.cur_size,
        cur_end |-> IF ~bf THEN end
                    ELSE IF ~adjust THEN acc.cur_end
                    ELSE IF end > end1 THEN end1 + w ELSE end1]

class__find_holes(c) ==
    LET n == Len(c.ms)
        all == FoldLeft(FindHole, [holes |-> <<>>, seen |-> 0, in_bf |-> FALSE,
                                   cur_size |-> 0, cur_end |-> c.size * 8], c.ms)
        last == IF all.in_bf THEN AMin(c.size * 8, all.cur_end) ELSE all.seen
        before(i) == IF i > n THEN [hole |-> 0, bit_hole |-> 0] ELSE all.holes[i]
        count(P(_)) == Len(SelectSeq(all.holes, P))
    IN [c EXCEPT
          !.ms = [i \in 1 .. n |->
                    [c.ms[i] EXCEPT !.hole = before(i + 1).hole,
                                    !.bit_hole = uint8(before(i + 1).bit_hole)]],
          !.pre_hole = uint16(before(1).hole),
          !.pre_bit_hole = uint8(before(1).bit_hole),
          !.nr_holes = uint8(count(LAMBDA h : h.hole > 0)),
          !.nr_bit_holes = uint8(count(LAMBDA h : h.bit_hole # 0)),
          !.bit_padding = IF all.in_bf THEN uint8(last - all.seen) ELSE 0,
          !.padding = uint16(c.size - last \div 8)]

(* class__infer_packed_attributes(): is the struct packed, and which struct
   members have a type that must be.                                        *)
class__infer_packed_attributes(c) ==
    LET unnatural(m) == m.byte % m.nat # 0
        max_nat == AMax(1, SeqMax(map(LAMBDA m : m.nat, c.ms)))
    IN IF c.padding # 0 \/ c.nr_holes # 0
       THEN [c EXCEPT !.is_packed = FALSE,
                !.ms = map(LAMBDA m : [m EXCEPT !.type_packed =
                               @ \/ (m.struct /\ unnatural(m))], c.ms)]
       ELSE [c EXCEPT !.is_packed =
                \/ \E i \in DOMAIN c.ms : unnatural(c.ms[i])
                \/ max_nat # 1 /\ c.alignment = 1
                \/ c.size % max_nat # 0]

----------------------------------------------------------------------------
(* __class__fprintf() *)

(* The bits that are not accounted for by members, holes and paddings: not 0
   means that BRAIN FART ALERT! is printed.                                 *)
size_diff(c) ==
    LET pos(n) == AMax(n, 0)
        sum_bytes == SeqSum(map(LAMBDA m : IF m.bits = 0 THEN m.size ELSE 0, c.ms))
        sum_bits == SeqSum(map(LAMBDA m : m.bits, c.ms))
        sum_holes == c.pre_hole + SeqSum(map(LAMBDA m : pos(m.hole), c.ms))
        sum_bit_holes == c.pre_bit_hole + SeqSum(map(LAMBDA m : m.bit_hole, c.ms))
    IN c.size * 8 - (sum_bytes * 8 + sum_bits + sum_holes * 8 + sum_bit_holes
                     + c.padding * 8 + c.bit_padding)

(* The declarations in the printed definition: a bitfield after a bit hole
   comes after an unnamed bitfield, and a struct whose padding the natural
   alignment cannot explain ends with unnamed bitfields.  An inner struct is
   printed packed if it was inferred to be.                                 *)
PrintedDecl(m) ==
    [size |-> m.size, align |-> IF m.type_packed THEN 1 ELSE m.nat, nat |-> m.nat,
     bits |-> m.bits, forced |-> m.alignment, struct |-> m.struct,
     base |-> m.base, skip |-> FALSE, id |-> m.id]

__class__fprintf(c, has_alignment_info) ==
    LET print(acc, m) ==
            LET filler == acc.last_size # 0 /\ acc.last.bit_hole # 0 /\ m.bits # 0
                bits == IF acc.last.byte # m.byte THEN 0 ELSE acc.last.bit_hole
                same == acc.last_size # 0 /\ acc.last.byte = m.byte
                        /\ ~(acc.last.bits = 0 /\ m.bits # 0)
            IN [ds |-> acc.ds \o (IF filler THEN <<Unnamed(m, bits)>> ELSE <<>>)
                              \o <<PrintedDecl(m)>>,
                last |-> m,
                last_size |-> IF same THEN acc.last_size ELSE m.size]
        all == FoldLeft(print, [ds |-> <<>>, last |-> <<>>, last_size |-> 0], c.ms)
        last == c.ms[Len(c.ms)]
        force == c.padding # 0 /\ c.alignment = 0 /\ has_alignment_info /\ c.ms # <<>>
                 /\ is_power_of_2(last.size) /\ c.padding > AddrSize
        \* added_padding = 0, size, 2 * size ... while it is less than padding
        paddings == IF force THEN [k \in 1 .. Roundup(c.padding, last.size) \div last.size
                                       |-> Unnamed(last, last.size * 8)]
                    ELSE <<>>
    IN [ds |-> all.ds \o paddings,
        packed |-> c.is_packed,
        aligned |-> IF c.is_packed THEN 0 ELSE c.alignment]

----------------------------------------------------------------------------
(* The system: a struct is declared, compiled, loaded and printed.          *)

VARIABLES
    pc,         \* "declare", "compiled", "loaded", "printed"; more in Reorganize
    decls,      \* the declarations of the source, a sequence
    attrs,      \* its attributes: [packed, aligned, tail]
    object,     \* what the compiler made of them
    cls,        \* struct class: see NewClass
    fmt,        \* the Format it was loaded from
    printed     \* the definition that was printed

NewMember(d, id, p, alignment) ==
    [id |-> id, size |-> d.size, nat |-> d.nat, bits |-> d.bits,
     struct |-> d.struct, base |-> d.base,
     type_packed |-> d.struct /\ d.size % d.nat # 0, \* inferred from itself
     byte |-> p.byte, bit |-> p.bit, bfoff |-> p.bfoff,
     alignment |-> alignment, hole |-> 0, bit_hole |-> 0]

NewClass(ms, size, alignment) ==
    [ms |-> ms, size |-> size, alignment |-> alignment, pre_hole |-> 0,
     pre_bit_hole |-> 0, nr_holes |-> 0, nr_bit_holes |-> 0, padding |-> 0,
     bit_padding |-> 0, is_packed |-> FALSE]

Forced == SeqMax(map(LAMBDA d : d.forced, decls))

Init ==
    /\ pc = "declare"
    /\ decls = <<>>
    /\ attrs = [packed |-> FALSE, aligned |-> 0, tail |-> 0]
    /\ object = [starts |-> <<>>, size |-> 0]
    /\ cls = NewClass(<<>>, 0, 0)
    /\ fmt = "dwarf4"
    /\ printed = [ds |-> <<>>, packed |-> FALSE, aligned |-> 0]

(* An array without elements is only declared last. *)
Declare(d) ==
    /\ pc = "declare"
    /\ Len(decls) < MaxMembers
    /\ decls # <<>> => decls[Len(decls)].size # 0
    /\ decls' = Append(decls, d)
    /\ UNCHANGED <<pc, attrs, object, cls, fmt, printed>>

CompileClass(packed, aligned, tail) ==
    /\ pc = "declare"
    /\ decls # <<>>
    /\ tail # 0 => ~packed /\ decls[Len(decls)].size # 0
    /\ aligned # 0 => packed
    /\ packed => Forced = 0
    /\ attrs' = [packed |-> packed, aligned |-> AMax(aligned, Forced), tail |-> tail]
    /\ object' = Compile(map(Declared, decls)
                             \o [k \in 1 .. tail |-> Unnamed(IntDecl, 32)],
                         packed, aligned)
    /\ pc' = "compiled"
    /\ UNCHANGED <<decls, cls, fmt, printed>>

(* The loaders.  In BTF only what btf_encoder__add_field() writes is left of
   the struct that the encoder loaded from DWARF.                           *)
DwarfMembers(units, f) ==
    [i \in DOMAIN decls |->
        LET d == decls[i]
            start == object.starts[i]
            unit == StorageUnit(d, start, IF i \in DOMAIN units THEN units[i] ELSE "start")
        IN NewMember(d, i, class_member__cache_byte_size(d, start, unit, f),
                     d.forced)]

(* The bitfields whose storage unit is the choice of the compiler, where it is
   written down at all.                                                     *)
Crossing(f) ==
    {i \in DOMAIN object.starts \cap DOMAIN decls :
        f \in {"dwarf2le", "dwarf2be"} /\ Crosses(decls[i], object.starts[i])}

LoadClass(f, units) ==
    /\ pc = "compiled"
    /\ LET ms == DwarfMembers(units, IF f = "btf" THEN "dwarf4" ELSE f)
           btf == class__fixup_btf_bitfields(ms, object.size)
           c == IF f = "btf" THEN NewClass(btf.ms, object.size, btf.alignment)
                ELSE NewClass(ms, object.size, attrs.aligned)
       IN cls' = class__infer_packed_attributes(class__find_holes(c))
    /\ pc' = "loaded"
    /\ fmt' = f
    /\ UNCHANGED <<decls, attrs, object, printed>>

PrintClass ==
    /\ pc = "loaded"
    /\ printed' = __class__fprintf(cls, fmt # "btf")
    /\ pc' = "printed"
    /\ UNCHANGED <<decls, attrs, object, cls, fmt>>

----------------------------------------------------------------------------
Loaded == pc \notin {"declare", "compiled"}

(* Whichever unit DWARF says a bitfield is in, and in every format, a member is
   loaded where the compiler put it, a bitfield in the aligned unit of its
   type where it starts: class_member__cache_byte_size() and
   class__fixup_btf_bitfields() agree with the object and with each other.  *)
LoadedWhereItIs ==
    Loaded => \A i \in DOMAIN cls.ms : LET m == cls.ms[i] IN
        /\ m.bit = object.starts[i]
        /\ m.byte * 8 + m.bfoff = m.bit
        /\ m.bits # 0 => m.byte % m.size = 0 /\ m.bfoff \in 0 .. m.size * 8 - 1

(* The hole and the bit hole after a member are together the distance to the
   next one, the paddings the distance to the end, and nothing is left over
   when __class__fprintf() adds them up: no BRAIN FART ALERT!               *)
HolesAreTheGaps ==
    Loaded =>
        LET end(m) == m.bit + (IF m.bits # 0 THEN m.bits ELSE m.size * 8)
            n == Len(cls.ms)
        IN /\ \A i \in 1 .. n - 1 :
                 cls.ms[i].hole * 8 + cls.ms[i].bit_hole = cls.ms[i + 1].bit - end(cls.ms[i])
           /\ cls.padding * 8 + cls.bit_padding = cls.size * 8 - end(cls.ms[n])
           /\ size_diff(cls) = 0

(* Trailing unnamed bitfields are only printed, as bitfields of the type of
   the last member: they need an integer type, and are not printed for BTF,
   where the size is explained by an alignment.  A bitfield that
   crosses the boundary of its type does not make a struct packed, and the
   bits of its type that it does not use are no byte hole, so that a struct
   may be called packed when a packed struct inside it was meant.           *)
Expressible ==
    /\ attrs.tail # 0 => fmt # "btf" /\ attrs.aligned = 0
                         /\ decls[Len(decls)].base
    /\ \A i \in DOMAIN decls : LET w == decls[i].size * 8 IN
          decls[i].bits # 0 => (object.starts[i] % w) + decls[i].bits <= w
    /\ cls.bit_padding >= 8 \/ (\E i \in DOMAIN cls.ms : cls.ms[i].bit_hole >= 8)
          => \A i \in DOMAIN decls : ~decls[i].struct

(* The definition that is printed, given back to the compiler, has the
   layout of the original: the attributes that were inferred and the unnamed
   bitfields that were added are the ones it needs.                         *)
Recompiles ==
    pc = "printed" /\ Expressible =>
        LET again == Compile(printed.ds, printed.packed, printed.aligned)
            named == {k \in DOMAIN printed.ds : printed.ds[k].id # 0}
        IN /\ again.size = object.size
           /\ \A k \in named : again.starts[k] = object.starts[printed.ds[k].id]
=============================================================================
