-------------------------- MODULE MCParamLocations --------------------------
(* Parameter lists for the instances of ParamLocations. *)
EXTENDS ParamLocations

CONSTANTS MaxParams,    \* bound: parameters after the first ones
          Leads         \* how many longs come first

Param(type, fate) == [type |-> type, fate |-> fate]
Params == UNION {{Param(type, fate) : fate \in Fates(type)} : type \in Types}

UpTo(n) == UNION {[1 .. k -> Params] : k \in 0 .. n}
Lead(n) == [k \in 1 .. n |-> Param("long", "used")]

MCSources == UpTo(MaxParams) \cup {Lead(n) \o ps : n \in Leads, ps \in UpTo(2)}
=============================================================================
