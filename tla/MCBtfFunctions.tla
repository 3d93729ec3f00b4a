--------------------------- MODULE MCBtfFunctions ---------------------------
(* Symbol tables and functions for the instances of BtfFunctions.  The names
   are 1 (f) and 2 (g).                                                     *)
EXTENDS BtfFunctions

f == 1
g == 2

MCTypes == {"int", "const int", "long"}
MCMatch(t, u) == t = u \/ "long" \notin {t, u}

sym(n, s, a) == [name |-> n, suffix |-> s, addr |-> a]

\* f at one address, at one address under two symbols, as a clone only, with a
\* cold part, and with a clone at another address; g is the last name.
OneElf == [{"vmlinux"} -> {
    <<sym(f, "", 1), sym(g, "", 3), sym(f, "", 1)>>,
    <<sym(g, "", 3), sym(f, ".isra", 1)>>,
    <<sym(f, ".cold", 2), sym(f, "", 1), sym(g, "", 3)>>,
    <<sym(f, "", 1), sym(f, ".isra", 2), sym(g, "", 3)>>}]

\* The last name of the table has two addresses.
LastName == [{"vmlinux"} -> {<<sym(f, "", 1), sym(g, "", 3), sym(g, "", 4)>>}]

\* Two files with a function of the same name.
TwoElfs == [{"vmlinux", "module"} -> {<<sym(f, "", 1)>>}]

\* All parameters kept, or the second type left out of some prototypes.
fn(n, a, t, fl) == [name |-> n, addr |-> a, flags |-> fl, types |-> <<"int", t>>,
                    located |-> <<"int">>, unoptimized |-> <<"int">>]

Plain == {fn(f, a, t, {}) : a \in {0, 1}, t \in MCTypes}

\* Out of line, inlined, at no symbol, in no table; with every flag the loader
\* sets.
MCFns ==
    Plain \cup {fn(g, 3, "int", {}), fn(f, 2, "int", {}), fn(3, 1, "int", {})}
    \cup {fn(f, a, "int", {fl}) :
             a \in {0, 1}, fl \in {"unexpected_reg", "uncertain_parm_loc"}}
    \cup {fn(f, 1, "int", {"reordered_parm"}),
          fn(f, 1, "long", {"optimized_parms", "signature_changed"}),
          fn(f, 1, "int", {"optimized_parms"})}

GFns == {fn(g, 3, "int", {})}
=============================================================================
