--------------------------- MODULE MCReorganize ---------------------------
(* Declarations for the instances of Reorganize. *)
EXTENDS Reorganize

plain(n) == [size |-> n, align |-> n, nat |-> n, bits |-> 0, forced |-> 0,
             struct |-> FALSE, base |-> TRUE]
bits(n, w) == [plain(n) EXCEPT !.bits = w]

MCDecls == {
    plain(1), plain(4), plain(8),
    bits(4, 30), bits(1, 5),
    \* int __aligned__(16)
    [plain(4) EXCEPT !.forced = 16],
    \* packed structs: an int and a char, two ints
    [plain(5) EXCEPT !.align = 1, !.nat = 4, !.struct = TRUE, !.base = FALSE],
    [plain(8) EXCEPT !.align = 1, !.nat = 4, !.struct = TRUE, !.base = FALSE]}
=============================================================================
