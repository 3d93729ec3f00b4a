------------------------------ MODULE MCPahole ------------------------------
(* Small command lines for Pahole: listings, -C and its relatives, pretty
   printing, BTF encoding, and files that cannot be loaded.                  *)
EXTENDS Pahole

CONSTANT Scope      \* which of them, see Invocations at the end

M(name, offset, type) ==
    [name |-> name, offset |-> offset, bitfield_size |-> 0, type |-> type, kind |-> "base", to |-> 0]
Class(name, size, members) ==
    [name |-> name, size |-> size, members |-> members, union |-> FALSE, decl |-> FALSE,
     top_level |-> TRUE, typedef |-> 0, holes |-> 0, packable |-> FALSE, fields |-> {}]

A == Class(1, 2, <<M(1, 0, 1), M(2, 1, 2)>>)
ATyped == Class(1, 2, <<M(1, 0, 1), M(2, 1, 3)>>)
AMoved == Class(1, 2, <<M(1, 0, 1), M(3, 1, 2)>>)
ABits == Class(1, 2, <<M(1, 0, 1), [M(2, 1, 2) EXCEPT !.bitfield_size = 1]>>)
ALonger == Class(1, 2, <<M(1, 0, 1), M(2, 1, 2), M(3, 1, 2)>>)
ABigger == Class(1, 3, <<M(1, 0, 1), M(2, 1, 2)>>)
B == [Class(2, 1, <<M(1, 0, 1)>>) EXCEPT !.holes = 1, !.packable = TRUE]
AEmpty == Class(1, 0, <<>>)
ADecl == [AEmpty EXCEPT !.decl = TRUE]
BUnion == [B EXCEPT !.union = TRUE]
Inner == [A EXCEPT !.top_level = FALSE]
Anon == Class(0, 1, <<M(1, 0, 1)>>)
AnonTypedef == [Anon EXCEPT !.typedef = 2]

Unit(types) == [filtered |-> FALSE, types |-> types, fns |-> <<>>, enums |-> {}]
File_(fmt, cus) == [fmt |-> fmt, cus |-> cus, readable |-> TRUE, names |-> <<>>]
NoFile == [fmt |-> "none", cus |-> <<>>, readable |-> FALSE, names |-> <<>>]

Proto(name) ==
    [name |-> name, bad |-> FALSE, nr_args |-> FALSE, size |-> FALSE, type |-> FALSE, type_enum |-> <<>>,
     filter |-> 0, range |-> 0, class |-> NoClass, cu |-> <<0, 0>>, cutypes |-> <<>>,
     enums |-> {}, resolved |-> FALSE]

Plain ==
    [argv |-> <<>>, kernel |-> NoFile, class_name |-> <<>>, mode |-> "print", formatter |-> "class",
     stats |-> "none", sort |-> FALSE, just |-> "any", private |-> FALSE, anon |-> FALSE,
     nested_anon |-> FALSE, exclude |-> {}, nr_holes |-> 0, packable |-> FALSE, enumerator |-> 0,
     skip_missing |-> FALSE, first_obj_only |-> FALSE, encode |-> FALSE, faults |-> {},
     header_type |-> 0, header_proto |-> Proto(0), ranges |-> 0, input |-> <<>>, seekable |-> TRUE,
     range |-> 0, seek_bytes |-> <<>>, size_bytes |-> <<>>, skip |-> 0, count |-> 0]

Upto(n, S) == UNION {[1 .. k -> S] : k \in 0 .. n}
OneFile(cus) == <<File_("dwarf", cus)>>
TwoFiles(units) == {<<File_(fmt, <<a>>), File_("dwarf", <<b>>)>> : fmt \in {"dwarf", "btf"}, a, b \in units}

-----------------------------------------------------------------------------
\* Listings: two or three CUs of one file or of two
ListUnits ==
    {Unit(t) : t \in {<<A>>, <<ATyped>>, <<AMoved, B>>, <<ALonger>>, <<ABigger, A>>, <<ABits>>, <<ADecl, B>>, <<A, BUnion>>,
                      <<Anon, Inner>>, <<AnonTypedef, AEmpty>>}}
    \cup {[Unit(<<A, B>>) EXCEPT !.filtered = TRUE],
          [Unit(<<B, A, Inner>>) EXCEPT !.fns = <<<<1, 2>>, <<3, 2>>>>],
          [Unit(<<AMoved, BUnion, Anon>>) EXCEPT !.fns = <<<<1, 3>>, <<2, 1>>>>],
          [Unit(<<ATyped>>) EXCEPT !.fns = <<<<1>>>>]}
Listings ==
    [options |->
        {Plain, [Plain EXCEPT !.sort = TRUE], [Plain EXCEPT !.stats = "methods"],
         [Plain EXCEPT !.stats = "definitions", !.formatter = "none"],
         [Plain EXCEPT !.stats = "methods", !.sort = TRUE],
         [Plain EXCEPT !.formatter = "sizes", !.anon = TRUE],
         [Plain EXCEPT !.anon = TRUE, !.private = TRUE, !.sort = TRUE],
         [Plain EXCEPT !.anon = TRUE, !.private = TRUE, !.nested_anon = TRUE, !.first_obj_only = TRUE],
         [Plain EXCEPT !.just = "unions"], [Plain EXCEPT !.just = "structs", !.exclude = {2}],
         [Plain EXCEPT !.nr_holes = 1], [Plain EXCEPT !.packable = TRUE]},
     files |-> {OneFile(<<a, b>>) : a, b \in ListUnits} \cup TwoFiles(ListUnits),
     names |-> {<<>>}]
\* Three CUs with one structure each
Orders ==
    [options |-> {Plain, [Plain EXCEPT !.sort = TRUE], [Plain EXCEPT !.stats = "definitions", !.formatter = "none"]},
     files |-> {OneFile(<<Unit(<<a>>), Unit(<<b>>), Unit(<<c>>)>>) :
                  a, b, c \in {A, ATyped, AMoved, ABits, ALonger, ABigger, AEmpty, B, BUnion}},
     names |-> {<<>>}]

-----------------------------------------------------------------------------
\* -C, -i, -f, -u, -R
Holder == Class(3, 4, <<[M(1, 0, 1) EXCEPT !.kind = "embed", !.to = 1],
                        [M(2, 2, 2) EXCEPT !.kind = "ptr", !.to = 1]>>)
NameUnits ==
    {Unit(<<>>), Unit(<<A>>), Unit(<<A, Holder, [Holder EXCEPT !.name = 4]>>), Unit(<<ADecl, Holder>>),
     Unit(<<B>>), Unit(<<BUnion, A>>), [Unit(<<A, B>>) EXCEPT !.filtered = TRUE],
     [Unit(<<B>>) EXCEPT !.enums = {{1}}]}
Named ==
    [options |->
        {[Plain EXCEPT !.mode = m, !.skip_missing = s] :
            m \in {"print", "reorganize", "containers", "pointers", "defined_in"}, s \in BOOLEAN}
        \cup {[Plain EXCEPT !.sort = TRUE, !.mode = m] : m \in {"print", "containers"}}
        \cup {[Plain EXCEPT !.first_obj_only = TRUE], [Plain EXCEPT !.enumerator = 1]},
     files |-> {OneFile(cus) : cus \in Upto(2, NameUnits)} \cup TwoFiles(NameUnits)
               \cup {OneFile(<<a, b, c>>) : a, b, c \in {Unit(<<A>>), Unit(<<B>>), Unit(<<>>)}},
     names |-> {<<Proto(1)>>, <<Proto(2), Proto(1)>>, <<Proto(1), Proto(1)>>,
                <<[Proto(2) EXCEPT !.nr_args = TRUE, !.size = TRUE]>>, <<[Proto(1) EXCEPT !.bad = TRUE]>>}]

-----------------------------------------------------------------------------
\* Pretty printing: struct 1 is the record, 5 the header, 3 is a cast
Record == [Class(1, 2, <<M(1, 0, 1), M(2, 1, 2)>>) EXCEPT !.fields = {"size", "type"}]
Header == Class(5, 4, <<M(1, 0, 1)>>)
Cast == Class(3, 3, <<M(1, 0, 1)>>)
PrettyUnits ==
    {Unit(<<Record>>), Unit(<<Header>>), Unit(<<B>>), Unit(<<Record, Header>>), Unit(<<Record, B>>),
     [Unit(<<Record, Cast>>) EXCEPT !.enums = {{3}}], [Unit(<<>>) EXCEPT !.enums = {{3}, {4}}]}
Sized == [Proto(1) EXCEPT !.nr_args = TRUE, !.size = TRUE, !.type = TRUE]
Prettify == [Plain EXCEPT !.mode = "prettify"]
Solving ==
    [options |-> {[Prettify EXCEPT !.input = <<4, 2, 2, 3, 2, 4>>, !.header_type = h, !.header_proto = Proto(h),
                                   !.ranges = 1, !.skip_missing = skip] : h \in {0, 5}, skip \in BOOLEAN},
     files |-> {OneFile(cus) : cus \in Upto(3, PrettyUnits)},
     names |-> {<<Sized>>, <<Proto(2), Proto(1)>>, <<[Proto(2) EXCEPT !.nr_args = TRUE, !.type = TRUE]>>,
                <<[Sized EXCEPT !.type_enum = <<{3}>>]>>,
                <<[Sized EXCEPT !.type_enum = <<{3}, {4}>>, !.filter = 3]>>}]
Short == [Solving EXCEPT !.options = {o \in @ : o.header_type # 0}, !.names = {<<>>},
                         !.files = {OneFile(<<Unit(<<B>>), Unit(<<Header>>)>>)}]

\* Records of two and of three bytes in two ranges, a range of none, records that
\* say one byte, what is no header
Inputs == {<<4, 5, 9, 4, 2, 3, 2, 4, 3, 3, 1, 2, 3>>, <<4, 0, 6, 2, 2, 3, 2, 3>>,
           <<6, 9, 4, 1, 2, 3, 2, 4>>, <<2, 3, 3, 4, 1, 1>>, <<1, 4, 0>>}
Ranged(n) == [Sized EXCEPT !.range = n]
AllPretty == {OneFile(<<Unit(<<Record, Header, B>>)>>)}
Ranges ==
    [options |-> {[Prettify EXCEPT !.input = bytes, !.seekable = seekable, !.header_type = h, !.ranges = 2,
                                   !.skip = s, !.count = c, !.range = r] :
                    bytes \in Inputs, seekable \in BOOLEAN, h \in {0, 5}, r \in {0, 2}, s \in {0, 1}, c \in {0, 1}},
     files |-> AllPretty,
     names |-> {<<Sized>>, <<Ranged(1), Ranged(2)>>, <<Ranged(2), Ranged(1)>>,
                <<Proto(1), [Ranged(1) EXCEPT !.filter = 4]>>}]
Seeks ==
    [options |-> {[Prettify EXCEPT !.input = bytes, !.seekable = seekable, !.header_type = h, !.ranges = 2,
                                   !.skip = s, !.seek_bytes = seek_, !.size_bytes = size_] :
                    bytes \in Inputs, seekable \in BOOLEAN, h \in {0, 5}, s \in {0, 1},
                    seek_ \in {<<>>, <<"num", 4>>, <<"$header", 1>>},
                    size_ \in {<<>>, <<"num", 4>>, <<"$header", 2>>}},
     files |-> AllPretty,
     names |-> {<<Sized>>, <<[Sized EXCEPT !.filter = 3]>>}]

-----------------------------------------------------------------------------
\* BTF encoding, and files without debugging information
Loading ==
    [options |->
        {[Plain EXCEPT !.kernel = k, !.encode = e, !.sort = s, !.faults = {"encode", "write"}] :
            e \in BOOLEAN, s \in BOOLEAN,
            k \in {NoFile, File_("dwarf", <<Unit(<<A>>)>>), File_("btf", <<Unit(<<A>>)>>)}},
     files |->
        {<<>>, <<File_("dwarf", <<Unit(<<A>>)>>), NoFile>>,
         <<[NoFile EXCEPT !.names = <<Proto(2)>>], File_("dwarf", <<Unit(<<A>>)>>)>>}
        \cup {<<f>> : f \in {File_("dwarf", <<Unit(<<A>>), [Unit(<<B>>) EXCEPT !.filtered = TRUE]>>),
                             File_("dwarf", <<Unit(<<>>), Unit(<<A>>)>>), File_("btf", <<Unit(<<B>>)>>),
                             [NoFile EXCEPT !.readable = TRUE], [NoFile EXCEPT !.names = <<Proto(1)>>],
                             [NoFile EXCEPT !.names = <<[Proto(2) EXCEPT !.bad = TRUE]>>]}},
     names |-> {<<>>, <<Proto(1)>>}]

MCInvocations ==
    IF Scope = "encode" THEN {[Loading EXCEPT !.options = {o \in @ : o.encode /\ ~o.sort}]}
    ELSE IF Scope = "pipe" THEN {Ranges}
    ELSE {Listings, Orders, Named, Solving, Short, Ranges, Seeks, Loading}
=============================================================================
