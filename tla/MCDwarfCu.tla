----------------------------- MODULE MCDwarfCu -----------------------------
(* Modules for the instances of DwarfCu: an alternate file of two partial
   units at offsets 1.. and 11.., and a main file whose offsets overlap them:
   a partial unit at 11.. and two CUs at 1.. and 21... *)
EXTENDS DwarfCu

same(off) == [form |-> "same", off |-> off]
alt(off) == [form |-> "alt", off |-> off]
sig8(off) == [form |-> "sig8", off |-> off]

die(off, tag, in, type) ==
    [off |-> off, tag |-> tag, in |-> in, type |-> type, origin |-> NoRef,
     spec |-> NoRef, named |-> TRUE, annots |-> <<>>]
unnamed(off, tag, in, origin) ==
    [die(off, tag, in, NoRef) EXCEPT !.origin = origin, !.named = FALSE]
unit(start, end, partial, dies) ==
    [start |-> start, end |-> end, partial |-> partial, filtered |-> FALSE, dies |-> dies]
import(r) == <<die(0, "import", 0, r)>>

(* Types and an abstract function; what they refer to is in the same unit or
   in the other one, which is imported then. *)
AltFirst ==
    {import(same(11)) \o d :
        d \in {<<die(2, "typedef", 0, same(12))>>,
               <<die(3, "member", 2, same(12)), die(2, "struct", 0, NoRef)>>,
               <<die(3, "param", 2, same(12)), die(2, "func", 0, same(12))>>}}
    \cup {<<die(3, "annot", 2, NoRef), die(4, "annot", 2, NoRef),
            die(2, "pointer", 0, same(5)), die(5, "base", 0, NoRef)>>,
          <<die(3, "param", 2, same(5)), die(2, "func", 0, NoRef), die(5, "base", 0, NoRef)>>}

AltSecond ==
    {<<die(12, "base", 0, NoRef)>>,
     <<die(12, "unspec", 0, NoRef)>>,
     <<die(13, "enumerator", 12, NoRef), die(12, "enum", 0, NoRef)>>,
     <<die(13, "param", 12, NoRef), die(12, "subroutine", 0, NoRef)>>}

(* In the main file: a variable, a pointer with annotations of the alternate
   file, a function with a concrete instance of an abstract one elsewhere. *)
MainFirst ==
    {<<die(2, "variable", 0, r)>> : r \in {alt(2), alt(12), sig8(7)}}
    \cup {import(same(11)) \o <<die(2, "variable", 0, same(12))>>}
    \cup {<<[die(2, "pointer", 0, same(12)) EXCEPT !.annots = <<alt(3), same(4)>>]>>,
          import(alt(1)) \o <<die(2, "union", 0, NoRef)>>,
          <<unnamed(3, "param", 2, same(23)), unnamed(2, "func", 0, same(22))>>,
          <<unnamed(5, "param", 4, same(23)), unnamed(4, "inline", 3, same(22)),
            die(3, "lexblock", 2, NoRef), die(2, "func", 0, same(12))>>}

MainPartial ==
    {<<die(12, "base", 0, NoRef)>>,
     import(same(20)) \o <<die(13, "member", 12, same(12)), die(12, "struct", 0, NoRef)>>}

MainSecond ==
    {<<die(23, "param", 22, same(12)), die(22, "func", 0, same(12))>>,
     import(same(11)) \o
        <<die(23, "param", 22, alt(12)), die(24, "label", 22, NoRef), die(22, "func", 0, same(12))>>,
     import(same(11)) \o <<unnamed(23, "param", 22, alt(3)), unnamed(22, "func", 0, alt(2))>>}

WithAlt == {
    [hasalt |-> TRUE, alt |-> <<unit(1, 10, TRUE, a), unit(11, 19, TRUE, b)>>,
     main |-> <<unit(1, 10, FALSE, c), unit(11, 19, TRUE, p), unit(20, 29, FALSE, d)>>,
     types |-> <<7>>, cxx |-> cxx, ignore |-> ign] :
        a \in AltFirst, b \in AltSecond, c \in MainFirst, p \in MainPartial,
        d \in MainSecond, cxx \in BOOLEAN, ign \in {{}, {"inline", "label", "type_tag"}}}

(* The DIE at an offset of the alternate file. *)
AltTag(f, off) ==
    LET T == {f.alt[k].dies[j].tag : <<k, j>> \in
                {x \in {1, 2} \X (1 .. 5) : x[2] \in DOMAIN f.alt[x[1]].dies
                                            /\ f.alt[x[1]].dies[x[2]].off = off}}
    IN IF T = {} THEN "none" ELSE CHOOSE t \in T : TRUE

(* References are to DIEs of the right kind. *)
Good(f) ==
    /\ \A u \in ToSet(f.main) : \A d \in ToSet(u.dies) :
          /\ d.origin.form = "alt" =>
                AltTag(f, d.origin.off) = (IF d.tag = "func" THEN "func" ELSE "param")
          /\ d.type.form = "alt" /\ d.tag # "import" =>
                tag__is_tag_type(AltTag(f, d.type.off))
          /\ d.annots # <<>> => AltTag(f, 4) = "annot"

MCFiles == {f \in WithAlt : Good(f)}

(* Without the alternate file, which is missing, and with a CU left out. *)
MCFilesNoAlt ==
    {[f EXCEPT !.hasalt = FALSE, !.alt = <<>>] : f \in MCFiles}
    \cup {[f EXCEPT !.main[1].filtered = TRUE] : f \in MCFiles}

AllFiles == MCFiles \cup MCFilesNoAlt
=============================================================================
