---------------------------- MODULE PrettyPrint -----------------------------
(***************************************************************************)
(* pahole --prettify: records of a given type are read one after the other *)
(* from a file or a pipe and printed, prototype by prototype.  Where the   *)
(* records start and how many bytes they take may come from members of a   *)
(* header that is read first; the records may say their own size, may be   *)
(* filtered, skipped, counted and cast to another type.                    *)
(*                                                                         *)
(* A byte of the input is a small number.  A record is two bytes, its size *)
(* and its type, then what the size says; a header is a sequence of        *)
(* (offset, size) pairs, the members range=N selects.                      *)
(***************************************************************************)
EXTENDS Integers, Sequences, SequencesExt, FiniteSets

VARIABLES
    inv,        \* the invocation: options and what pahole is given to read
    protos,     \* class_names: the prototypes not printed or found yet
    header,     \* the instance of --header, with its bytes once read
    pos,        \* where the stream of the input is
    read,       \* the reading of the records of a prototype
    records,    \* what was printed, prototype by prototype
    pretty      \* "off", "open", "records", "next", "done" or "failed"

streamVars == <<header, pos, read, records, pretty>>

ULLONG_MAX == 1000          \* more bytes than an input of the model has
NoSeek == -1
RecordSize == 2             \* tag__size() of the type of the records
HeaderSize == 2 * inv.ranges

NoHeader == [found |-> FALSE, cu |-> <<0, 0>>, read_already |-> FALSE, bytes |-> <<>>]
NoRead == [asked |-> NoSeek, at |-> 0, size_bytes |-> 0, read_bytes |-> 0, skip |-> 0, count |-> 0]

PrettyInit ==
    /\ header = NoHeader /\ pos = 0 /\ read = NoRead /\ records = <<>> /\ pretty = "off"

-----------------------------------------------------------------------------
(* The header and the stream                                               *)

\* A member of the header, -1 for one that cannot be found.
type_instance__int_value(bytes, member) ==
    IF member \in DOMAIN bytes THEN bytes[member] ELSE -1

OffsetMember(range) == 2 * range - 1
SizeMember(range) == 2 * range

\* The header is read from the input the first time it is wanted: the bytes it
\* takes from the stream this time, -1 when they are not there.
type__instance_read_once ==
    IF ~header.found \/ header.read_already THEN 0
    ELSE IF pos + HeaderSize <= Len(inv.input) THEN HeaderSize ELSE -1

HeaderBytes ==
    IF type__instance_read_once > 0
    THEN SubSeq(inv.input, pos + 1, pos + HeaderSize) ELSE header.bytes

\* Mutant: what a pipe was read for is forgotten.
seek_unread(to, from, consumed) ==
    IF inv.seekable THEN IF to >= Len(inv.input) THEN -1 ELSE to
    ELSE IF from + to > Len(inv.input) THEN -1 ELSE from + to

\* Where a seek to "to" leaves a stream that this call took "consumed" bytes
\* from, -1 if it cannot be done: fseeko() on a file, reading ahead on a pipe.
seek(to, from, consumed) ==
    IF inv.seekable THEN IF to >= Len(inv.input) THEN -1 ELSE to
    ELSE IF to < consumed \/ from + (to - consumed) > Len(inv.input) THEN -1
    ELSE from + (to - consumed)

\* An option is a number, <<"$header", member>> or absent.
HasHeaderRef(opt) == opt # <<>> /\ opt[1] = "$header"
option_value(opt, bytes) ==
    IF HasHeaderRef(opt)
    THEN IF header.found THEN type_instance__int_value(bytes, opt[2]) ELSE -1
    ELSE opt[2]

-----------------------------------------------------------------------------
(* prototype__stdio_fprintf_value(): the header, the seek and the size     *)

RangeOf(p) == IF inv.range # 0 THEN inv.range ELSE p.range

\* The offset this prototype asks for, or NoSeek; -1 cannot be asked for.
AskedOffset(p, bytes) ==
    IF RangeOf(p) # 0 THEN type_instance__int_value(bytes, OffsetMember(RangeOf(p)))
    ELSE IF inv.seek_bytes # <<>> THEN option_value(inv.seek_bytes, bytes)
    ELSE NoSeek

AskedSize(p, bytes) ==
    IF RangeOf(p) # 0 THEN type_instance__int_value(bytes, SizeMember(RangeOf(p)))
    ELSE IF inv.size_bytes # <<>> THEN option_value(inv.size_bytes, bytes)
    ELSE ULLONG_MAX

\* Something is missing for the seek that is asked for.
CannotPlace(p, bytes, took) ==
    LET to == AskedOffset(p, bytes) IN
    \/ RangeOf(p) # 0 /\ (~header.found \/ to < 0)
    \/ RangeOf(p) = 0 /\ inv.seek_bytes # <<>>
       /\ (to < 0 \/ (HasHeaderRef(inv.seek_bytes) /\ to < HeaderSize))
    \/ to # NoSeek /\ seek(to, pos + took, took) < 0
    \/ AskedSize(p, bytes) < 0

\* The prototype at the head of the list is taken off it and the stream is
\* placed where its records start.
PrettyOpen ==
    LET p == Head(protos)
        took == type__instance_read_once
        bytes == HeaderBytes
        to == AskedOffset(p, bytes)
    IN
    /\ pretty = "open" /\ protos # <<>>
    /\ \/ /\ took < 0 \/ CannotPlace(p, bytes, took)
          /\ pretty' = "failed"
          /\ pos' = IF took < 0 \/ ~inv.seekable THEN Len(inv.input) ELSE pos + took
          /\ UNCHANGED <<read, records>>
       \/ /\ took >= 0 /\ ~CannotPlace(p, bytes, took)
          /\ pretty' = "records"
          /\ pos' = IF to = NoSeek THEN pos + took ELSE seek(to, pos + took, took)
          /\ read' = [asked |-> to, at |-> pos', size_bytes |-> AskedSize(p, bytes),
                      read_bytes |-> 0, skip |-> inv.skip, count |-> 0]
          /\ records' = Append(records, <<>>)
    /\ header' = [header EXCEPT !.read_already = header.found, !.bytes = bytes]
    /\ UNCHANGED <<inv, protos>>

-----------------------------------------------------------------------------
(* The loop over the records                                               *)

tag__real_sizeof(p, at) == IF p.size THEN inv.input[at + 1] ELSE RecordSize
TypeField(at) == inv.input[at + 2]
Larger(a, b) == IF a > b THEN a ELSE b

\* Does the record go past what is left of the input?
CutShort(p, at) == at + Larger(tag__real_sizeof(p, at), RecordSize) > Len(inv.input)

type__filter_value(p, at) == p.filter # 0 /\ TypeField(at) # p.filter

\* The type a record is printed as: with type= and type_enum=, the struct of
\* the CU named like the enumerator with the value of the type member.
tag__real_type(p, at) ==
    IF p.type /\ p.enums # {} /\ TypeField(at) \in UNION p.enums
       /\ \E k \in DOMAIN p.cutypes : p.cutypes[k].name = TypeField(at)
                                      /\ ~p.cutypes[k].decl
    THEN TypeField(at) ELSE p.name

\* Was the last record of this prototype read?
LastRecord(r) == r.read_bytes >= r.size_bytes

PastCount(n) == inv.count # 0 /\ n = inv.count

\* One fread() of a record, and a second one for the rest of a long record.
PrettyRecord ==
    LET p == Head(protos)
        real == tag__real_sizeof(p, pos)
        after == [read EXCEPT !.read_bytes = @ + real]
        shown == [at |-> pos, as |-> tag__real_type(p, pos)]
    IN
    /\ pretty = "records" /\ pos + RecordSize <= Len(inv.input) /\ ~CutShort(p, pos)
    /\ pos' = pos + Larger(real, RecordSize)
    /\ \/ /\ type__filter_value(p, pos)
          /\ read' = after /\ UNCHANGED records
          /\ pretty' = IF LastRecord(after) THEN "next" ELSE "records"
       \/ /\ ~type__filter_value(p, pos) /\ read.skip > 0
          /\ read' = [after EXCEPT !.skip = @ - 1] /\ UNCHANGED records
          /\ pretty' = IF LastRecord(after) THEN "next" ELSE "records"
       \/ /\ ~type__filter_value(p, pos) /\ read.skip = 0
          /\ read' = [after EXCEPT !.count = IF inv.count = 0 THEN 0 ELSE @ + 1]
          /\ records' = [records EXCEPT ![Len(records)] = Append(@, shown)]
          /\ pretty' = IF PastCount(read.count + 1) \/ LastRecord(after)
                       THEN "next" ELSE "records"
    /\ UNCHANGED <<inv, protos, header>>

\* The end of the input: the bytes of a record that is not whole are gone.
PrettyEnd ==
    LET p == Head(protos) IN
    /\ pretty = "records"
    /\ \/ /\ pos + RecordSize > Len(inv.input) /\ pretty' = "next"
       \/ /\ pos + RecordSize <= Len(inv.input) /\ CutShort(p, pos) /\ pretty' = "failed"
    /\ pos' = Len(inv.input)
    /\ UNCHANGED <<inv, protos, header, read, records>>

\* The loop of pahole_stealer() goes on with the next prototype.
PrettyNext ==
    /\ pretty = "next"
    /\ protos' = Tail(protos)
    /\ pretty' = IF Len(protos) = 1 THEN "done" ELSE "open"
    /\ UNCHANGED <<inv, header, pos, read, records>>

-----------------------------------------------------------------------------
(* Reference: the records of a range, and which of them are printed        *)

\* The offsets of the records of [first, end) with the sizes they say.
RecordsOf(p, first, end) ==
    LET from[at \in 0 .. Len(inv.input)] ==
            IF at >= end \/ at + RecordSize > Len(inv.input) \/ CutShort(p, at) THEN <<>>
            ELSE <<at>> \o from[at + Larger(tag__real_sizeof(p, at), RecordSize)]
    IN from[first]

\* Those that pass the filter, without the first "skip", at most "count".
Selected(p, offsets) ==
    LET kept == SelectSeq(offsets, LAMBDA at : ~type__filter_value(p, at))
        rest == SubSeq(kept, inv.skip + 1, Len(kept))
    IN IF inv.count = 0 THEN rest ELSE SubSeq(rest, 1, IF Len(rest) < inv.count
                                                       THEN Len(rest) ELSE inv.count)

\* Records that say a size below that of their type are not handled, and a
\* range of no bytes still gives its first record.
WellFormed(p, offsets) ==
    /\ read.size_bytes > 0
    /\ \A at \in ToSet(offsets) : tag__real_sizeof(p, at) >= RecordSize

\* On a pipe the offsets of the second prototype on are taken from where the
\* stream is, as if nothing had been read before.
PlacedExactly == inv.seekable \/ Len(records) = 1 \/ read.asked = NoSeek

(* The records printed for a prototype are those of the bytes that were asked
   for, all of them, in order, whatever the stream had been read for before:
   the header, the records of the prototypes before this one, those that were
   filtered or skipped.                                                      *)
RecordsExact ==
    pretty = "next" =>
        LET p == Head(protos)
            first == IF read.asked = NoSeek THEN read.at ELSE read.asked
            offsets == RecordsOf(p, first, first + read.size_bytes)
            shown == [k \in DOMAIN records[Len(records)] |-> records[Len(records)][k].at]
        IN WellFormed(p, offsets) /\ PlacedExactly =>
            shown = Selected(p, offsets)

(* --seek_bytes and range= are absolute offsets; "Bytes consumed from input so
   far, for absolute->relative seek on pipes" is what the seek relies on.    *)
SeeksWhereAsked == read.asked # NoSeek => read.at = read.asked
=============================================================================
