---------------------------- MODULE MCLoadFiles -----------------------------
(* Values of conf->format_path for the instances of LoadFiles that TLC checks. *)
EXTENDS LoadFiles

\* pahole -J
DwarfOnly == {<<"dwarf">>}

\* No -F, -F btf, -F dwarf,btf, and a list with a name that is no format
AnyFormat == {<<>>, <<"btf">>, <<"dwarf", "btf">>, <<"dwarf", "stabs">>}
=============================================================================
