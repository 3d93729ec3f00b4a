--------------------------- MODULE LoadFilesProofs --------------------------
(***************************************************************************)
(* Who owns a compilation unit, and what a load answers, for every number  *)
(* of files, modules and units: the type CU outlives its readers, what the *)
(* stealer gave back is not listed, and, when no module needs merging, the *)
(* list of struct cus holds no freed CU.  The error of a load names the    *)
(* file of argv it came from; no CU is left behind when the cus is         *)
(* deleted, unless a CTF or BTF stealer took it and threw it away; and     *)
(* where only DWARF is read nothing is stolen after an abort.              *)
(***************************************************************************)
EXTENDS LoadFiles, SequenceTheorems, TLAPS

-----------------------------------------------------------------------------
(* The inductive invariant                                                 *)

\* A file of argv is being loaded between the two tests of the file loop.
PlaceInv == caller = "argv" /\ pc \notin {"files", "kernel", "delete", "end"}
                => i < nr_files

\* The type CU exists inside cus__load_module() only, and it is off the list
\* exactly when its deletion was deferred.
TypeCuInv ==
    /\ pc \notin InModule => type_cu = NoCu /\ type_lsk = "KEEPIT" /\ pend = <<>>
    /\ pc = "steal_types" => type_cu \in list \ deleted /\ type_lsk = "KEEPIT"
    /\ pc \in {"steal_types", "main"} => pend = <<>>
    /\ type_cu # NoCu => type_cu \in heap
    /\ type_cu # NoCu /\ type_lsk = "DELETE" => type_cu \notin list

\* CUs waiting to be stolen are distinct from each other and from the type CU,
\* and none of them was deleted.
PendInv ==
    /\ \A m \in 1..Len(pend) : pend[m] \in 1..nr_cus /\ pend[m] # type_cu
                              /\ pend[m] \notin deleted
    /\ \A m, n \in 1..Len(pend) : m # n => pend[m] # pend[n]
    /\ pc = "merged" => pend # <<>>

\* Without merging nothing but a CU taken off the list is freed.
NoMergeInv ==
    TRUE \notin Merging => pc \notin {"merge", "merged"} /\ list \subseteq heap

IInv == TypeOK /\ PlaceInv /\ TypeCuInv /\ PendInv /\ DeletedNotListed /\ NoMergeInv

-----------------------------------------------------------------------------
\* There is always a format to try first.
LEMMA FormatsType ==
  ASSUME TypeOK
  PROVE  Len(Formats) \in Nat \ {0}
<1>1. format_path \in Seq(STRING)
  BY FormatPathAssumption DEF TypeOK, FlowOK
<1>2. QED
  BY <1>1 DEF Formats, debug_fmt_table

\* A CU handed to conf->steal() is one that was allocated.
LEMMA StealTypes ==
  ASSUME OwnersOK, nr_cus' \in Nat, nr_cus <= nr_cus',
         NEW c \in 1..nr_cus', NEW v, steal(c, v)
  PROVE  /\ stolen' \subseteq 1..nr_cus'
         /\ deleted' \subseteq stolen'
         /\ aborted' \in BOOLEAN
<1>1. stolen' \subseteq 1..nr_cus'
  BY DEF OwnersOK, steal
<1>2. deleted' \subseteq stolen'
  BY DEF OwnersOK, steal
<1>3. aborted' \in BOOLEAN
  BY DEF OwnersOK, steal
<1>4. QED
  BY <1>1, <1>2, <1>3

\* The BTF and CTF loaders allocate one CU, which they may list.
LEMMA SectionOwners ==
  ASSUME OwnersOK, NEW f, load_section(f), UNCHANGED conf
  PROVE  OwnersOK'
<1>1. CASE UNCHANGED <<owners, history, handles>>
  BY <1>1 DEF OwnersOK, owners, history, handles, conf
<1>2. ASSUME NEW v \in Lsk, steal(NewCu, v), nr_cus' = NewCu,
             heap' = heap \cup {NewCu},
             list' = IF v = "KEEPIT" THEN list \cup {NewCu} ELSE list,
             UNCHANGED handles
      PROVE  OwnersOK'
  <2>1. nr_cus' = nr_cus + 1 /\ nr_cus \in Nat /\ NewCu = nr_cus + 1
    BY <1>2 DEF OwnersOK, NewCu
  <2>2. NewCu \in 1..nr_cus'
    BY <2>1
  <2>3. heap' \subseteq 1..nr_cus' /\ list' \subseteq 1..nr_cus'
    BY <1>2, <2>1 DEF OwnersOK
  <2>4. /\ stolen' \subseteq 1..nr_cus'
        /\ deleted' \subseteq stolen'
        /\ aborted' \in BOOLEAN
    BY <1>2, <2>1, <2>2, StealTypes
  <2>5. dwfls' \subseteq 1..(nr_files' + 1) /\ priv' \in 0..(nr_files' + 1)
    BY <1>2 DEF OwnersOK, handles, conf
  <2>6. QED
    BY <2>1, <2>3, <2>4, <2>5 DEF OwnersOK
<1>3. QED
  BY <1>1, <1>2 DEF load_section, owners, history, handles

\* Every action keeps the types.
LEMMA TypeStep ==
  ASSUME IInv, Next
  PROVE  TypeOK'
<1>1. UNCHANGED conf
  BY DEF Next
<1>2. Formats' = Formats
  BY <1>1 DEF conf, Formats
<1>3. Len(Formats) \in Nat \ {0} /\ nr_files \in Nat
  BY FormatsType, ArgvAssumption DEF IInv, TypeOK, FlowOK
<1>4. CASE next_file \/ no_more_files \/ cus__load_running_kernel \/
   kernel_btf_end \/ cus__process_dwflmod \/ modules_end \/ process_cus_create \/
   process_cus_error \/ process_cus_end \/ merge_no_cus \/ merge_new_cu \/
   merge_no_memory \/ load_module_end
  <2> USE <1>1, <1>2, <1>3, BoundAssumption, LskAssumption DEF place, result,
     module, typeunit, units, bits, owners, handles, history, PlaceInv, IInv,
     PendInv, TypeOK, FlowOK, ModuleOK, OwnersOK, InModule, LSK, NoCu, NoDwfl,
     conf, DWARF_CB_ABORT
  <2>1. CASE next_file
    BY <2>1 DEF next_file
  <2>2. CASE no_more_files
    BY <2>2 DEF no_more_files
  <2>3. CASE cus__load_running_kernel
    BY <2>3 DEF cus__load_running_kernel
  <2>4. CASE kernel_btf_end
    BY <2>4 DEF kernel_btf_end
  <2>5. CASE cus__process_dwflmod
    BY <2>5 DEF cus__process_dwflmod
  <2>6. CASE modules_end
    BY <2>6 DEF modules_end
  <2>7. CASE process_cus_create
    BY <2>7 DEF process_cus_create, cus__add, NewCu
  <2>8. CASE process_cus_error
    BY <2>8 DEF process_cus_error
  <2>9. CASE process_cus_end
    BY <2>9 DEF process_cus_end
  <2>10. CASE merge_no_cus
    BY <2>10 DEF merge_no_cus
  <2>11. CASE merge_new_cu
    BY <2>11 DEF merge_new_cu, cus__add, NewCu
  <2>12. CASE merge_no_memory
    BY <2>12 DEF merge_no_memory
  <2>13. CASE load_module_end
    BY <2>13 DEF load_module_end, module_end, leave_module
  <2> QED
    BY <1>4, <2>1, <2>2, <2>3, <2>4, <2>5, <2>6, <2>7, <2>8, <2>9, <2>10, <2>11,
       <2>12, <2>13
<1>5. CASE unknown_format
  <2>1. FlowOK'
    BY <1>1, <1>2, <1>3, <1>5, BoundAssumption DEF unknown_format, load_file_end,
       place, result, module, typeunit, units, bits, owners, handles, history,
       PlaceInv, IInv, ENOTSUP, EINVAL, TypeOK, FlowOK, InModule, conf,
       DWARF_CB_ABORT
  <2>2. ModuleOK'
    BY <1>1, <1>2, <1>3, <1>5, BoundAssumption, LskAssumption, HashAssumption DEF
       unknown_format, load_file_end, place, result, module, typeunit, units,
       bits, owners, handles, history, IInv, PendInv, TypeOK, FlowOK, ModuleOK,
       OwnersOK, InModule, LSK, NoCu, NoDwfl, conf, DWARF_CB_ABORT
  <2>3. OwnersOK'
    BY <1>1, <1>2, <1>3, <1>5, LskAssumption DEF unknown_format, load_file_end,
       place, result, module, typeunit, units, bits, owners, handles, history,
       IInv, PendInv, TypeOK, FlowOK, ModuleOK, OwnersOK, InModule, LSK, NoCu,
       NoDwfl, conf, DWARF_CB_ABORT
  <2>4. QED
    BY <2>1, <2>2, <2>3 DEF TypeOK
<1>6. CASE format_end
  <2>1. FlowOK'
    BY <1>1, <1>2, <1>3, <1>6, BoundAssumption DEF format_end, load_file_end,
       place, result, module, typeunit, units, bits, owners, handles, history,
       PlaceInv, IInv, ENOTSUP, EINVAL, TypeOK, FlowOK, InModule, conf,
       DWARF_CB_ABORT
  <2>2. ModuleOK'
    BY <1>1, <1>2, <1>3, <1>6, BoundAssumption, LskAssumption, HashAssumption DEF
       format_end, load_file_end, place, result, module, typeunit, units, bits,
       owners, handles, history, IInv, PendInv, TypeOK, FlowOK, ModuleOK,
       OwnersOK, InModule, LSK, NoCu, NoDwfl, conf, DWARF_CB_ABORT
  <2>3. OwnersOK'
    BY <1>1, <1>2, <1>3, <1>6, LskAssumption DEF format_end, load_file_end, place,
       result, module, typeunit, units, bits, owners, handles, history, IInv,
       PendInv, TypeOK, FlowOK, ModuleOK, OwnersOK, InModule, LSK, NoCu, NoDwfl,
       conf, DWARF_CB_ABORT
  <2>4. QED
    BY <2>1, <2>2, <2>3 DEF TypeOK
<1>7. CASE cus__load_btf
  <2>1. FlowOK'
    BY <1>1, <1>2, <1>3, <1>7, BoundAssumption DEF cus__load_btf, load_section,
       steal, NewCu, place, result, module, typeunit, units, bits, owners,
       handles, history, PlaceInv, IInv, ENOTSUP, EINVAL, TypeOK, FlowOK,
       InModule, conf, DWARF_CB_ABORT
  <2>2. ModuleOK'
    BY <1>1, <1>2, <1>3, <1>7, BoundAssumption, LskAssumption, HashAssumption DEF
       cus__load_btf, load_section, steal, NewCu, place, result, module, typeunit,
       units, bits, owners, handles, history, IInv, PendInv, TypeOK, FlowOK,
       ModuleOK, OwnersOK, InModule, LSK, NoCu, NoDwfl, conf, DWARF_CB_ABORT
  <2>3. OwnersOK'
    BY <1>1, <1>7, SectionOwners DEF cus__load_btf, TypeOK, IInv
  <2>4. QED
    BY <2>1, <2>2, <2>3 DEF TypeOK
<1>8. CASE ctf__load_file
  <2>1. FlowOK'
    BY <1>1, <1>2, <1>3, <1>8, BoundAssumption DEF ctf__load_file, load_section,
       steal, NewCu, place, result, module, typeunit, units, bits, owners,
       handles, history, PlaceInv, IInv, ENOTSUP, EINVAL, TypeOK, FlowOK,
       InModule, conf, DWARF_CB_ABORT
  <2>2. ModuleOK'
    BY <1>1, <1>2, <1>3, <1>8, BoundAssumption, LskAssumption, HashAssumption DEF
       ctf__load_file, load_section, steal, NewCu, place, result, module,
       typeunit, units, bits, owners, handles, history, IInv, PendInv, TypeOK,
       FlowOK, ModuleOK, OwnersOK, InModule, LSK, NoCu, NoDwfl, conf,
       DWARF_CB_ABORT
  <2>3. OwnersOK'
    BY <1>1, <1>8, SectionOwners DEF ctf__load_file, TypeOK, IInv
  <2>4. QED
    BY <2>1, <2>2, <2>3 DEF TypeOK
<1>9. CASE dwarf__load_file
  <2>1. FlowOK'
    BY <1>1, <1>2, <1>3, <1>9, BoundAssumption DEF dwarf__load_file, place,
       result, module, typeunit, units, bits, owners, handles, history, PlaceInv,
       IInv, ENOTSUP, EINVAL, TypeOK, FlowOK, InModule, conf, DWARF_CB_ABORT
  <2>2. ModuleOK'
    BY <1>1, <1>2, <1>3, <1>9, BoundAssumption, LskAssumption, HashAssumption DEF
       dwarf__load_file, place, result, module, typeunit, units, bits, owners,
       handles, history, IInv, PendInv, TypeOK, FlowOK, ModuleOK, OwnersOK,
       InModule, LSK, NoCu, NoDwfl, conf, DWARF_CB_ABORT
  <2>3. OwnersOK'
    BY <1>1, <1>2, <1>3, <1>9, LskAssumption DEF dwarf__load_file, place, result,
       module, typeunit, units, bits, owners, handles, history, IInv, PendInv,
       TypeOK, FlowOK, ModuleOK, OwnersOK, InModule, LSK, NoCu, NoDwfl, conf,
       DWARF_CB_ABORT
  <2>4. QED
    BY <2>1, <2>2, <2>3 DEF TypeOK
<1>10. CASE cus__process_file
  <2>1. FlowOK'
    BY <1>1, <1>2, <1>3, <1>10, BoundAssumption DEF cus__process_file, place,
       result, module, typeunit, units, bits, owners, handles, history, PlaceInv,
       IInv, ENOTSUP, EINVAL, TypeOK, FlowOK, InModule, conf, DWARF_CB_ABORT
  <2>2. ModuleOK'
    BY <1>1, <1>2, <1>3, <1>10, BoundAssumption, LskAssumption, HashAssumption DEF
       cus__process_file, place, result, module, typeunit, units, bits, owners,
       handles, history, IInv, PendInv, TypeOK, FlowOK, ModuleOK, OwnersOK,
       InModule, LSK, NoCu, NoDwfl, conf, DWARF_CB_ABORT
  <2>3. OwnersOK'
    BY <1>1, <1>2, <1>3, <1>10, LskAssumption DEF cus__process_file, place,
       result, module, typeunit, units, bits, owners, handles, history, IInv,
       PendInv, TypeOK, FlowOK, ModuleOK, OwnersOK, InModule, LSK, NoCu, NoDwfl,
       conf, DWARF_CB_ABORT
  <2>4. QED
    BY <2>1, <2>2, <2>3 DEF TypeOK
<1>11. CASE load_debug_types
  <2>1. FlowOK'
    BY <1>1, <1>2, <1>3, <1>11, BoundAssumption DEF load_debug_types, module_end,
       cus__add, NewCu, place, result, module, typeunit, units, bits, owners,
       handles, history, PlaceInv, IInv, ENOTSUP, EINVAL, TypeOK, FlowOK,
       InModule, conf, DWARF_CB_ABORT
  <2>2. ModuleOK'
    <3>1. UNCHANGED <<left, pend, lsk_status, res, hashtags__bits, max_hashtags__bits>>
      BY <1>11 DEF load_debug_types, units, bits
    <3>2. \/ UNCHANGED typeunit /\ nr_cus' \in {nr_cus, nr_cus + 1}
          \/ /\ nr_cus' = nr_cus + 1 /\ type_cu' = nr_cus + 1
             /\ type_bits' = hashtags__bits /\ type_lsk' = type_lsk
      BY <1>11 DEF load_debug_types, cus__add, NewCu, owners
    <3>3. nr_cus \in Nat /\ type_cu \in 0..nr_cus /\ hashtags__bits \in Int
          /\ type_bits \in Int
      BY DEF IInv, TypeOK, ModuleOK, OwnersOK
    <3>4. type_cu' \in 0..nr_cus' /\ type_lsk' = type_lsk /\ type_bits' \in Int
      BY <3>2, <3>3 DEF typeunit
    <3>5. QED
      BY <3>1, <3>4 DEF IInv, TypeOK, ModuleOK
  <2>3. OwnersOK'
    <3>1. UNCHANGED <<stolen, deleted, aborted, dwfls, priv, nr_files>>
      BY <1>1, <1>11 DEF load_debug_types, history, handles, conf
    <3>2. \/ UNCHANGED <<heap, list, nr_cus>>
          \/ cus__add(NewCu)
      BY <1>11 DEF load_debug_types, owners
    <3>3. /\ nr_cus' \in Nat /\ nr_cus <= nr_cus'
          /\ heap' \subseteq 1..nr_cus' /\ list' \subseteq 1..nr_cus'
      <4>1. nr_cus \in Nat /\ heap \subseteq 1..nr_cus /\ list \subseteq 1..nr_cus
        BY DEF IInv, TypeOK, OwnersOK
      <4>2. CASE UNCHANGED <<heap, list, nr_cus>>
        BY <4>1, <4>2
      <4>3. CASE cus__add(NewCu)
        <5>1. nr_cus' = nr_cus + 1 /\ heap' = heap \cup {nr_cus + 1}
              /\ list' = list \cup {nr_cus + 1}
          BY <4>3 DEF cus__add, NewCu
        <5>2. QED
          BY <4>1, <5>1
      <4>4. QED
        BY <3>2, <4>2, <4>3
    <3>4. stolen' \subseteq 1..nr_cus'
      BY <3>1, <3>3 DEF IInv, TypeOK, OwnersOK
    <3>5. QED
      BY <3>1, <3>3, <3>4 DEF IInv, TypeOK, OwnersOK
  <2>4. QED
    BY <2>1, <2>2, <2>3 DEF TypeOK
<1>12. CASE steal_type_cu
  <2>1. FlowOK'
    BY <1>1, <1>2, <1>3, <1>12, BoundAssumption DEF steal_type_cu, steal, place,
       result, module, typeunit, units, bits, owners, handles, history, PlaceInv,
       IInv, ENOTSUP, EINVAL, TypeOK, FlowOK, InModule, conf, DWARF_CB_ABORT
  <2>2. ModuleOK'
    BY <1>1, <1>2, <1>3, <1>12, BoundAssumption, LskAssumption, HashAssumption DEF
       steal_type_cu, steal, place, result, module, typeunit, units, bits, owners,
       handles, history, IInv, PendInv, TypeOK, FlowOK, ModuleOK, OwnersOK,
       InModule, LSK, NoCu, NoDwfl, conf, DWARF_CB_ABORT
  <2>3. OwnersOK'
    <3>1. PICK v \in Lsk : steal(type_cu, v)
      BY <1>12 DEF steal_type_cu
    <3>2. nr_cus' = nr_cus /\ nr_cus \in Nat /\ type_cu \in 1..nr_cus
      BY <1>12 DEF steal_type_cu, IInv, TypeCuInv, TypeOK, OwnersOK
    <3>3. stolen' \subseteq 1..nr_cus' /\ deleted' \subseteq stolen' /\ aborted' \in BOOLEAN
      BY <3>1, <3>2, StealTypes DEF IInv, TypeOK
    <3>4. heap' \subseteq 1..nr_cus' /\ list' \subseteq 1..nr_cus'
      BY <1>12 DEF steal_type_cu, IInv, TypeOK, OwnersOK
    <3>5. dwfls' \subseteq 1..(nr_files' + 1) /\ priv' \in 0..(nr_files' + 1)
      BY <1>1, <1>12 DEF steal_type_cu, handles, conf, IInv, TypeOK, OwnersOK
    <3>6. QED
      BY <3>2, <3>3, <3>4, <3>5 DEF OwnersOK
  <2>4. QED
    BY <2>1, <2>2, <2>3 DEF TypeOK
<1>13. CASE main_cus
  <2>1. FlowOK'
    BY <1>1, <1>2, <1>3, <1>13, BoundAssumption DEF main_cus, place, result,
       module, typeunit, units, bits, owners, handles, history, PlaceInv, IInv,
       ENOTSUP, EINVAL, TypeOK, FlowOK, InModule, conf, DWARF_CB_ABORT
  <2>2. ModuleOK'
    <3>1. UNCHANGED <<typeunit, bits, owners>> /\ pend' = <<>> /\ res' = 0
          /\ left' \in 0..MaxUnits /\ lsk_status' \in {"KEEPIT", "ABORT"}
      BY <1>13 DEF main_cus
    <3>2. QED
      BY <3>1 DEF typeunit, bits, owners, IInv, TypeOK, ModuleOK
  <2>3. OwnersOK'
    BY <1>1, <1>2, <1>3, <1>13, LskAssumption DEF main_cus, place, result, module,
       typeunit, units, bits, owners, handles, history, IInv, PendInv, TypeOK,
       FlowOK, ModuleOK, OwnersOK, InModule, LSK, NoCu, NoDwfl, conf,
       DWARF_CB_ABORT
  <2>4. QED
    BY <2>1, <2>2, <2>3 DEF TypeOK
<1>14. CASE process_cus_steal
  <2>1. FlowOK'
    BY <1>1, <1>2, <1>3, <1>14, BoundAssumption DEF process_cus_steal,
       cus__steal_now, steal, place, result, module, typeunit, units, bits,
       owners, handles, history, PlaceInv, IInv, ENOTSUP, EINVAL, TypeOK, FlowOK,
       InModule, conf, DWARF_CB_ABORT
  <2>2. ModuleOK'
    BY <1>1, <1>2, <1>3, <1>14, BoundAssumption, LskAssumption, HashAssumption DEF
       process_cus_steal, cus__steal_now, steal, place, result, module, typeunit,
       units, bits, owners, handles, history, IInv, PendInv, TypeOK, FlowOK,
       ModuleOK, OwnersOK, InModule, LSK, NoCu, NoDwfl, conf, DWARF_CB_ABORT
  <2>3. OwnersOK'
    <3>1. PICK v \in Lsk : cus__steal_now(Head(pend), v)
      BY <1>14 DEF process_cus_steal
    <3>2. nr_cus' = nr_cus /\ nr_cus \in Nat /\ Head(pend) \in 1..nr_cus
      BY <1>14, <3>1 DEF process_cus_steal, cus__steal_now, IInv, PendInv, TypeOK,
         ModuleOK, OwnersOK
    <3>3. stolen' \subseteq 1..nr_cus' /\ deleted' \subseteq stolen' /\ aborted' \in BOOLEAN
      BY <3>1, <3>2, StealTypes DEF cus__steal_now, IInv, TypeOK
    <3>4. heap' \subseteq 1..nr_cus' /\ list' \subseteq 1..nr_cus'
      BY <3>1, <3>2 DEF cus__steal_now, IInv, TypeOK, OwnersOK
    <3>5. dwfls' \subseteq 1..(nr_files' + 1) /\ priv' \in 0..(nr_files' + 1)
      BY <1>1, <1>14 DEF process_cus_steal, handles, conf, IInv, TypeOK, OwnersOK
    <3>6. QED
      BY <3>2, <3>3, <3>4, <3>5 DEF OwnersOK
  <2>4. QED
    BY <2>1, <2>2, <2>3 DEF TypeOK
<1>15. CASE merge_process
  <2>1. FlowOK'
    BY <1>1, <1>2, <1>3, <1>15, BoundAssumption DEF merge_process, out_abort,
       cus__steal_now, steal, place, result, module, typeunit, units, bits,
       owners, handles, history, PlaceInv, IInv, ENOTSUP, EINVAL, TypeOK, FlowOK,
       InModule, conf, DWARF_CB_ABORT
  <2>2. ModuleOK'
    BY <1>1, <1>2, <1>3, <1>15, BoundAssumption, LskAssumption, HashAssumption DEF
       merge_process, out_abort, cus__steal_now, steal, place, result, module,
       typeunit, units, bits, owners, handles, history, IInv, PendInv, TypeOK,
       FlowOK, ModuleOK, OwnersOK, InModule, LSK, NoCu, NoDwfl, conf,
       DWARF_CB_ABORT
  <2>3. OwnersOK'
    <3> DEFINE c == Head(pend)
    <3>1. nr_cus' = nr_cus /\ nr_cus \in Nat /\ c \in 1..nr_cus
      BY <1>15 DEF merge_process, out_abort, cus__steal_now, IInv, PendInv,
         TypeOK, ModuleOK, OwnersOK
    <3>2. heap' \subseteq heap /\ list' \subseteq list
      BY <1>15 DEF merge_process, out_abort, cus__steal_now
    <3>3. UNCHANGED history \/ \E v \in Lsk : steal(c, v)
      BY <1>15 DEF merge_process, cus__steal_now
    <3>4. stolen' \subseteq 1..nr_cus' /\ deleted' \subseteq stolen' /\ aborted' \in BOOLEAN
      <4>1. CASE UNCHANGED history
        BY <3>1, <4>1 DEF history, IInv, TypeOK, OwnersOK
      <4>2. ASSUME NEW v \in Lsk, steal(c, v)
            PROVE  stolen' \subseteq 1..nr_cus' /\ deleted' \subseteq stolen' /\ aborted' \in BOOLEAN
        BY <3>1, <4>2, StealTypes DEF IInv, TypeOK
      <4>3. QED
        BY <3>3, <4>1, <4>2
    <3>5. dwfls' \subseteq 1..(nr_files' + 1) /\ priv' \in 0..(nr_files' + 1)
      BY <1>1, <1>15 DEF merge_process, handles, conf, IInv, TypeOK, OwnersOK
    <3>6. QED
      BY <3>1, <3>2, <3>4, <3>5 DEF IInv, TypeOK, OwnersOK
  <2>4. QED
    BY <2>1, <2>2, <2>3 DEF TypeOK
<1>16. CASE cus__delete
  <2>1. FlowOK'
    BY <1>1, <1>2, <1>3, <1>16, BoundAssumption DEF cus__delete, place, result,
       module, typeunit, units, bits, owners, handles, history, PlaceInv, IInv,
       ENOTSUP, EINVAL, TypeOK, FlowOK, InModule, conf, DWARF_CB_ABORT
  <2>2. ModuleOK'
    BY <1>1, <1>2, <1>3, <1>16, BoundAssumption, LskAssumption, HashAssumption DEF
       cus__delete, place, result, module, typeunit, units, bits, owners, handles,
       history, IInv, PendInv, TypeOK, FlowOK, ModuleOK, OwnersOK, InModule, LSK,
       NoCu, NoDwfl, conf, DWARF_CB_ABORT
  <2>3. OwnersOK'
    BY <1>1, <1>2, <1>3, <1>16, LskAssumption DEF cus__delete, place, result,
       module, typeunit, units, bits, owners, handles, history, IInv, PendInv,
       TypeOK, FlowOK, ModuleOK, OwnersOK, InModule, LSK, NoCu, NoDwfl, conf,
       DWARF_CB_ABORT
  <2>4. QED
    BY <2>1, <2>2, <2>3 DEF TypeOK
<1> QED
  BY <1>4, <1>5, <1>6, <1>7, <1>8, <1>9, <1>10, <1>11, <1>12, <1>13, <1>14, <1>15,
     <1>16 DEF Next, load

\* A new CU is neither allocated, nor listed, nor deleted.
LEMMA FreshCu ==
  ASSUME TypeOK
  PROVE  /\ NewCu = nr_cus + 1 /\ nr_cus \in Nat
         /\ NewCu \notin heap /\ NewCu \notin list /\ NewCu \notin deleted
BY DEF TypeOK, OwnersOK, NewCu

\* A file of argv is left only at the end of its load.
LEMMA PlaceStep ==
  ASSUME IInv, Next
  PROVE  PlaceInv'
<1>1. UNCHANGED conf
  BY DEF Next
<1>2. CASE next_file \/ no_more_files \/ unknown_format \/ format_end \/
   cus__load_running_kernel \/ kernel_btf_end \/ cus__load_btf \/ ctf__load_file
   \/ dwarf__load_file \/ cus__process_file \/ cus__process_dwflmod \/ modules_end
   \/ load_debug_types \/ steal_type_cu \/ main_cus \/ process_cus_create \/
   process_cus_steal \/ process_cus_error \/ process_cus_end \/ merge_no_cus \/
   merge_new_cu \/ merge_no_memory \/ merge_process \/ load_module_end \/
   cus__delete
  <2> USE <1>1, ArgvAssumption DEF place, result, module, typeunit, units, bits,
     owners, handles, history, conf, IInv, PlaceInv, TypeOK, FlowOK, InModule
  <2>1. CASE next_file
    BY <2>1 DEF next_file
  <2>2. CASE no_more_files
    BY <2>2 DEF no_more_files
  <2>3. CASE unknown_format
    BY <2>3 DEF unknown_format, load_file_end
  <2>4. CASE format_end
    BY <2>4 DEF format_end, load_file_end
  <2>5. CASE cus__load_running_kernel
    BY <2>5 DEF cus__load_running_kernel
  <2>6. CASE kernel_btf_end
    BY <2>6 DEF kernel_btf_end
  <2>7. CASE cus__load_btf
    BY <2>7 DEF cus__load_btf, load_section, steal, NewCu
  <2>8. CASE ctf__load_file
    BY <2>8 DEF ctf__load_file, load_section, steal, NewCu
  <2>9. CASE dwarf__load_file
    BY <2>9 DEF dwarf__load_file
  <2>10. CASE cus__process_file
    BY <2>10 DEF cus__process_file
  <2>11. CASE cus__process_dwflmod
    BY <2>11 DEF cus__process_dwflmod
  <2>12. CASE modules_end
    BY <2>12 DEF modules_end
  <2>13. CASE load_debug_types
    BY <2>13 DEF load_debug_types, module_end, cus__add, NewCu
  <2>14. CASE steal_type_cu
    BY <2>14 DEF steal_type_cu, steal
  <2>15. CASE main_cus
    BY <2>15 DEF main_cus
  <2>16. CASE process_cus_create
    BY <2>16 DEF process_cus_create, cus__add, NewCu
  <2>17. CASE process_cus_steal
    BY <2>17 DEF process_cus_steal, cus__steal_now, steal
  <2>18. CASE process_cus_error
    BY <2>18 DEF process_cus_error
  <2>19. CASE process_cus_end
    BY <2>19 DEF process_cus_end
  <2>20. CASE merge_no_cus
    BY <2>20 DEF merge_no_cus
  <2>21. CASE merge_new_cu
    BY <2>21 DEF merge_new_cu, cus__add, NewCu
  <2>22. CASE merge_no_memory
    BY <2>22 DEF merge_no_memory
  <2>23. CASE merge_process
    BY <2>23 DEF merge_process, out_abort, cus__steal_now, steal
  <2>24. CASE load_module_end
    BY <2>24 DEF load_module_end, module_end, leave_module
  <2>25. CASE cus__delete
    BY <2>25 DEF cus__delete
  <2> QED
    BY <1>2, <2>1, <2>2, <2>3, <2>4, <2>5, <2>6, <2>7, <2>8, <2>9, <2>10, <2>11,
       <2>12, <2>13, <2>14, <2>15, <2>16, <2>17, <2>18, <2>19, <2>20, <2>21,
       <2>22, <2>23, <2>24, <2>25
<1> QED
  BY <1>2 DEF Next, load

\* The type CU lives as long as the module it belongs to.
LEMMA TypeCuStep ==
  ASSUME IInv, TypeOK', Next
  PROVE  TypeCuInv'
<1>1. UNCHANGED conf
  BY DEF Next
<1>2. CASE next_file \/ no_more_files \/ unknown_format \/ format_end \/
   cus__load_running_kernel \/ kernel_btf_end \/ cus__load_btf \/ ctf__load_file
   \/ dwarf__load_file \/ cus__process_file \/ cus__process_dwflmod \/ modules_end
   \/ steal_type_cu \/ main_cus \/ process_cus_create \/ process_cus_steal \/
   process_cus_error \/ process_cus_end \/ merge_no_cus \/ merge_new_cu \/
   merge_no_memory \/ merge_process \/ load_module_end \/ cus__delete
  <2> USE <1>1 DEF place, result, module, typeunit, units, bits, owners, handles,
     history, IInv, TypeCuInv, PendInv, TypeOK, FlowOK, ModuleOK, OwnersOK,
     InModule, NoCu
  <2>1. CASE next_file
    BY <2>1 DEF next_file
  <2>2. CASE no_more_files
    BY <2>2 DEF no_more_files
  <2>3. CASE unknown_format
    BY <2>3 DEF unknown_format, load_file_end
  <2>4. CASE format_end
    BY <2>4 DEF format_end, load_file_end
  <2>5. CASE cus__load_running_kernel
    BY <2>5 DEF cus__load_running_kernel
  <2>6. CASE kernel_btf_end
    BY <2>6 DEF kernel_btf_end
  <2>7. CASE cus__load_btf
    BY <2>7 DEF cus__load_btf, load_section, steal, NewCu
  <2>8. CASE ctf__load_file
    BY <2>8 DEF ctf__load_file, load_section, steal, NewCu
  <2>9. CASE dwarf__load_file
    BY <2>9 DEF dwarf__load_file
  <2>10. CASE cus__process_file
    BY <2>10 DEF cus__process_file
  <2>11. CASE cus__process_dwflmod
    BY <2>11 DEF cus__process_dwflmod
  <2>12. CASE modules_end
    BY <2>12 DEF modules_end
  <2>13. CASE steal_type_cu
    BY <2>13 DEF steal_type_cu, steal
  <2>14. CASE main_cus
    BY <2>14 DEF main_cus
  <2>15. CASE process_cus_create
    BY <2>15 DEF process_cus_create, cus__add, NewCu
  <2>16. CASE process_cus_steal
    BY <2>16 DEF process_cus_steal, cus__steal_now, steal
  <2>17. CASE process_cus_error
    BY <2>17 DEF process_cus_error
  <2>18. CASE process_cus_end
    BY <2>18 DEF process_cus_end
  <2>19. CASE merge_no_cus
    BY <2>19 DEF merge_no_cus
  <2>20. CASE merge_new_cu
    BY <2>20 DEF merge_new_cu, cus__add, NewCu
  <2>21. CASE merge_no_memory
    BY <2>21 DEF merge_no_memory
  <2>22. CASE merge_process
    BY <2>22 DEF merge_process, out_abort, cus__steal_now, steal
  <2>23. CASE load_module_end
    BY <2>23 DEF load_module_end, module_end, leave_module
  <2>24. CASE cus__delete
    BY <2>24 DEF cus__delete
  <2> QED
    BY <1>2, <2>1, <2>2, <2>3, <2>4, <2>5, <2>6, <2>7, <2>8, <2>9, <2>10, <2>11,
       <2>12, <2>13, <2>14, <2>15, <2>16, <2>17, <2>18, <2>19, <2>20, <2>21,
       <2>22, <2>23, <2>24
<1>3. CASE load_debug_types
  <2>1. type_cu = NoCu /\ type_lsk = "KEEPIT" /\ pend = <<>>
    BY <1>3 DEF load_debug_types, InModule, IInv, TypeCuInv
  <2>2. pend' = <<>>
    BY <1>3, <2>1 DEF load_debug_types, units
  <2>3. CASE pc' = "steal_types"
    <3>1. type_cu' = NewCu /\ list' = list \cup {NewCu} /\ heap' = heap \cup {NewCu}
          /\ deleted' = deleted /\ type_lsk' = type_lsk
      BY <1>3, <2>3 DEF load_debug_types, module_end, cus__add, history,
         DWARF_CB_ABORT
    <3>2. type_lsk' = "KEEPIT"
      BY <2>1, <3>1
    <3>3. QED
      BY <2>2, <2>3, <3>1, <3>2, FreshCu DEF TypeCuInv, InModule, IInv
  <2>4. CASE pc' # "steal_types"
    <3>1. type_cu' = NoCu /\ type_lsk' = "KEEPIT"
      BY <1>3, <2>1, <2>4 DEF load_debug_types, typeunit
    <3>2. QED
      BY <2>2, <2>4, <3>1 DEF TypeCuInv
  <2>5. QED
    BY <2>3, <2>4
<1> QED
  BY <1>2, <1>3 DEF Next, load

\* The CUs waiting to be stolen stay distinct and undeleted.
LEMMA PendStep ==
  ASSUME IInv, TypeOK', Next
  PROVE  PendInv'
<1>1. UNCHANGED conf
  BY DEF Next
<1>2. CASE next_file \/ no_more_files \/ unknown_format \/ format_end \/
   cus__load_running_kernel \/ kernel_btf_end \/ cus__load_btf \/ ctf__load_file
   \/ dwarf__load_file \/ cus__process_file \/ cus__process_dwflmod \/ modules_end
   \/ steal_type_cu \/ process_cus_end \/ merge_no_cus \/ merge_new_cu \/
   merge_no_memory \/ merge_process \/ load_module_end \/ cus__delete
  <2> USE <1>1 DEF place, result, module, typeunit, units, bits, owners, handles,
     history, IInv, TypeCuInv, PendInv, TypeOK, FlowOK, ModuleOK, OwnersOK,
     InModule, NoCu
  <2>1. CASE next_file
    BY <2>1 DEF next_file
  <2>2. CASE no_more_files
    BY <2>2 DEF no_more_files
  <2>3. CASE unknown_format
    BY <2>3 DEF unknown_format, load_file_end
  <2>4. CASE format_end
    BY <2>4 DEF format_end, load_file_end
  <2>5. CASE cus__load_running_kernel
    BY <2>5 DEF cus__load_running_kernel
  <2>6. CASE kernel_btf_end
    BY <2>6 DEF kernel_btf_end
  <2>7. CASE cus__load_btf
    BY <2>7 DEF cus__load_btf, load_section, steal, NewCu
  <2>8. CASE ctf__load_file
    BY <2>8 DEF ctf__load_file, load_section, steal, NewCu
  <2>9. CASE dwarf__load_file
    BY <2>9 DEF dwarf__load_file
  <2>10. CASE cus__process_file
    BY <2>10 DEF cus__process_file
  <2>11. CASE cus__process_dwflmod
    BY <2>11 DEF cus__process_dwflmod
  <2>12. CASE modules_end
    BY <2>12 DEF modules_end
  <2>13. CASE steal_type_cu
    BY <2>13 DEF steal_type_cu, steal
  <2>14. CASE process_cus_end
    BY <2>14 DEF process_cus_end
  <2>15. CASE merge_no_cus
    BY <2>15 DEF merge_no_cus
  <2>16. CASE merge_new_cu
    BY <2>16 DEF merge_new_cu, cus__add, NewCu
  <2>17. CASE merge_no_memory
    BY <2>17 DEF merge_no_memory
  <2>18. CASE merge_process
    BY <2>18 DEF merge_process, out_abort, cus__steal_now, steal
  <2>19. CASE load_module_end
    BY <2>19 DEF load_module_end, module_end, leave_module
  <2>20. CASE cus__delete
    BY <2>20 DEF cus__delete
  <2> QED
    BY <1>2, <2>1, <2>2, <2>3, <2>4, <2>5, <2>6, <2>7, <2>8, <2>9, <2>10, <2>11,
       <2>12, <2>13, <2>14, <2>15, <2>16, <2>17, <2>18, <2>19, <2>20
<1>3. CASE load_debug_types
  <2>1. pend' = <<>> /\ pc' # "merged"
    BY <1>3 DEF load_debug_types, module_end, units, DWARF_CB_ABORT, InModule,
       IInv, TypeCuInv
  <2>2. QED
    BY <2>1 DEF PendInv
<1>4. CASE main_cus
  <2>1. pend' = <<>> /\ pc' # "merged"
    BY <1>4 DEF main_cus
  <2>2. QED
    BY <2>1 DEF PendInv
<1>5. CASE process_cus_create
  <2>1. /\ pend \in Seq(Nat) /\ pc' # "merged" /\ nr_cus' = NewCu
        /\ type_cu' = type_cu /\ deleted' = deleted
        /\ pend' = pend \/ pend' = Append(pend, NewCu)
    BY <1>5 DEF process_cus_create, cus__add, typeunit, history, IInv, TypeOK,
       ModuleOK
  <2>2. type_cu # NewCu /\ NewCu \in 1..nr_cus' /\ nr_cus \in Nat /\ nr_cus' = nr_cus + 1
    BY <2>1, FreshCu DEF IInv, TypeOK, ModuleOK
  <2>3. \A m \in 1..Len(pend) : pend[m] \in 1..nr_cus /\ pend[m] # NewCu
    BY <2>1, <2>2 DEF IInv, PendInv
  <2>4. CASE pend' = pend
    BY <2>1, <2>2, <2>3, <2>4 DEF IInv, PendInv
  <2>5. CASE pend' = Append(pend, NewCu)
    <3>1. /\ Len(pend') = Len(pend) + 1 /\ Len(pend) \in Nat
          /\ \A m \in 1..Len(pend) : pend'[m] = pend[m]
          /\ pend'[Len(pend) + 1] = NewCu
      BY <2>1, <2>2, <2>5
    <3>2. \A m \in 1..Len(pend') : pend'[m] \in 1..nr_cus' /\ pend'[m] # type_cu
                                 /\ pend'[m] \notin deleted
      BY <2>2, <2>3, <3>1, FreshCu DEF IInv, PendInv
    <3>3. \A m, n \in 1..Len(pend') : m # n => pend'[m] # pend'[n]
      BY <2>3, <3>1 DEF IInv, PendInv
    <3>4. QED
      BY <2>1, <3>2, <3>3 DEF PendInv
  <2>6. QED
    BY <2>1, <2>4, <2>5
<1>6. CASE process_cus_steal
  <2>1. /\ pend \in Seq(Nat) /\ pend # <<>> /\ pend' = Tail(pend) /\ pc' # "merged"
        /\ type_cu' = type_cu /\ nr_cus' = nr_cus
        /\ deleted' \subseteq deleted \cup {pend[1]}
    BY <1>6 DEF process_cus_steal, cus__steal_now, steal, typeunit, IInv, TypeOK,
       ModuleOK
  <2>2. /\ Len(pend') = Len(pend) - 1 /\ Len(pend) \in Nat \ {0}
        /\ \A m \in 1..Len(pend') : pend'[m] = pend[m + 1]
    BY <2>1
  <2>3. \A m \in 1..Len(pend') : pend'[m] # pend[1]
    BY <2>2 DEF IInv, PendInv
  <2>4. QED
    BY <2>1, <2>2, <2>3 DEF IInv, PendInv
<1>7. CASE process_cus_error
  <2>1. /\ pend \in Seq(Nat) /\ pc' # "merged"
        /\ type_cu' = type_cu /\ nr_cus' = nr_cus /\ deleted' = deleted
    BY <1>7 DEF process_cus_error, typeunit, owners, history, IInv, TypeOK,
       ModuleOK
  <2>2. PICK n \in 0..Len(pend) : pend' = SubSeq(pend, 1, n)
    BY <1>7 DEF process_cus_error
  <2>3. Len(pend') = n /\ \A m \in 1..n : pend'[m] = pend[m]
    BY <2>1, <2>2
  <2>4. n \in Nat /\ n <= Len(pend) /\ Len(pend) \in Nat
    BY <2>1, <2>2
  <2>5. \A m \in 1..n : m \in 1..Len(pend)
    BY <2>4
  <2>6. \A m \in 1..Len(pend') : pend'[m] \in 1..nr_cus /\ pend'[m] # type_cu
                               /\ pend'[m] \notin deleted
    BY <2>3, <2>5 DEF IInv, PendInv
  <2>7. \A l, m \in 1..Len(pend') : l # m => pend'[l] # pend'[m]
    BY <2>3, <2>5 DEF IInv, PendInv
  <2>8. QED
    BY <2>1, <2>6, <2>7 DEF PendInv
<1> QED
  BY <1>2, <1>3, <1>4, <1>5, <1>6, <1>7 DEF Next, load

\* A deleted CU is off the list, and a new one was never deleted.
LEMMA DeletedStep ==
  ASSUME IInv, Next
  PROVE  DeletedNotListed'
<1>1. UNCHANGED conf
  BY DEF Next
<1>2. CASE next_file \/ no_more_files \/ unknown_format \/ format_end \/
   cus__load_running_kernel \/ kernel_btf_end \/ dwarf__load_file \/
   cus__process_file \/ cus__process_dwflmod \/ modules_end \/ steal_type_cu \/
   main_cus \/ process_cus_create \/ process_cus_steal \/ process_cus_error \/
   process_cus_end \/ merge_no_cus \/ merge_new_cu \/ merge_no_memory \/
   merge_process \/ load_module_end \/ cus__delete
  <2> USE <1>1 DEF place, result, module, typeunit, units, bits, owners, handles,
     history, DeletedNotListed, IInv, TypeCuInv, PendInv, TypeOK, FlowOK,
     ModuleOK, OwnersOK, InModule, NoCu
  <2>1. CASE next_file
    BY <2>1 DEF next_file
  <2>2. CASE no_more_files
    BY <2>2 DEF no_more_files
  <2>3. CASE unknown_format
    BY <2>3 DEF unknown_format, load_file_end
  <2>4. CASE format_end
    BY <2>4 DEF format_end, load_file_end
  <2>5. CASE cus__load_running_kernel
    BY <2>5 DEF cus__load_running_kernel
  <2>6. CASE kernel_btf_end
    BY <2>6 DEF kernel_btf_end
  <2>7. CASE dwarf__load_file
    BY <2>7 DEF dwarf__load_file
  <2>8. CASE cus__process_file
    BY <2>8 DEF cus__process_file
  <2>9. CASE cus__process_dwflmod
    BY <2>9 DEF cus__process_dwflmod
  <2>10. CASE modules_end
    BY <2>10 DEF modules_end
  <2>11. CASE steal_type_cu
    BY <2>11 DEF steal_type_cu, steal
  <2>12. CASE main_cus
    BY <2>12 DEF main_cus
  <2>13. CASE process_cus_create
    BY <2>13 DEF process_cus_create, cus__add, NewCu
  <2>14. CASE process_cus_steal
    BY <2>14 DEF process_cus_steal, cus__steal_now, steal
  <2>15. CASE process_cus_error
    BY <2>15 DEF process_cus_error
  <2>16. CASE process_cus_end
    BY <2>16 DEF process_cus_end
  <2>17. CASE merge_no_cus
    BY <2>17 DEF merge_no_cus
  <2>18. CASE merge_new_cu
    BY <2>18 DEF merge_new_cu, cus__add, NewCu
  <2>19. CASE merge_no_memory
    BY <2>19 DEF merge_no_memory
  <2>20. CASE merge_process
    BY <2>20 DEF merge_process, out_abort, cus__steal_now, steal
  <2>21. CASE load_module_end
    BY <2>21 DEF load_module_end, module_end, leave_module
  <2>22. CASE cus__delete
    BY <2>22 DEF cus__delete
  <2> QED
    BY <1>2, <2>1, <2>2, <2>3, <2>4, <2>5, <2>6, <2>7, <2>8, <2>9, <2>10, <2>11,
       <2>12, <2>13, <2>14, <2>15, <2>16, <2>17, <2>18, <2>19, <2>20, <2>21, <2>22
<1>3. CASE cus__load_btf
  <2>1. deleted' \subseteq deleted \cup {NewCu} /\ list' \subseteq list \cup {NewCu}
        /\ ~(NewCu \in deleted' /\ NewCu \in list')
    BY <1>3, FreshCu DEF cus__load_btf, load_section, steal, owners, history, IInv
  <2>2. QED
    BY <2>1, FreshCu DEF DeletedNotListed, IInv
<1>4. CASE ctf__load_file
  <2>1. deleted' \subseteq deleted \cup {NewCu} /\ list' \subseteq list \cup {NewCu}
        /\ ~(NewCu \in deleted' /\ NewCu \in list')
    BY <1>4, FreshCu DEF ctf__load_file, load_section, steal, owners, history,
       IInv
  <2>2. QED
    BY <2>1, FreshCu DEF DeletedNotListed, IInv
<1>5. CASE load_debug_types
  <2>1. deleted' = deleted /\ list' \subseteq list \cup {NewCu}
    BY <1>5 DEF load_debug_types, cus__add, owners, history
  <2>2. QED
    BY <2>1, FreshCu DEF DeletedNotListed, IInv
<1> QED
  BY <1>2, <1>3, <1>4, <1>5 DEF Next, load

\* Only the merging of CUs frees one that is listed.
LEMMA NoMergeStep ==
  ASSUME IInv, Next
  PROVE  NoMergeInv'
<1>1. UNCHANGED conf
  BY DEF Next
<1>2. CASE next_file \/ no_more_files \/ unknown_format \/ format_end \/
   cus__load_running_kernel \/ kernel_btf_end \/ cus__load_btf \/ ctf__load_file
   \/ dwarf__load_file \/ cus__process_file \/ cus__process_dwflmod \/ modules_end
   \/ load_debug_types \/ steal_type_cu \/ main_cus \/ process_cus_create \/
   process_cus_steal \/ process_cus_error \/ process_cus_end \/ merge_no_cus \/
   merge_new_cu \/ merge_no_memory \/ merge_process \/ load_module_end \/
   cus__delete
  <2> USE <1>1 DEF place, result, module, typeunit, units, bits, owners, handles,
     history, NoMergeInv, IInv, TypeCuInv, PendInv, TypeOK, FlowOK, ModuleOK,
     OwnersOK, InModule, NoCu
  <2>1. CASE next_file
    BY <2>1 DEF next_file
  <2>2. CASE no_more_files
    BY <2>2 DEF no_more_files
  <2>3. CASE unknown_format
    BY <2>3 DEF unknown_format, load_file_end
  <2>4. CASE format_end
    BY <2>4 DEF format_end, load_file_end
  <2>5. CASE cus__load_running_kernel
    BY <2>5 DEF cus__load_running_kernel
  <2>6. CASE kernel_btf_end
    BY <2>6 DEF kernel_btf_end
  <2>7. CASE cus__load_btf
    BY <2>7 DEF cus__load_btf, load_section, steal, NewCu
  <2>8. CASE ctf__load_file
    BY <2>8 DEF ctf__load_file, load_section, steal, NewCu
  <2>9. CASE dwarf__load_file
    BY <2>9 DEF dwarf__load_file
  <2>10. CASE cus__process_file
    BY <2>10 DEF cus__process_file
  <2>11. CASE cus__process_dwflmod
    BY <2>11 DEF cus__process_dwflmod
  <2>12. CASE modules_end
    BY <2>12 DEF modules_end
  <2>13. CASE load_debug_types
    BY <2>13 DEF load_debug_types, module_end, cus__add, NewCu
  <2>14. CASE steal_type_cu
    BY <2>14 DEF steal_type_cu, steal
  <2>15. CASE main_cus
    BY <2>15 DEF main_cus
  <2>16. CASE process_cus_create
    BY <2>16 DEF process_cus_create, cus__add, NewCu
  <2>17. CASE process_cus_steal
    BY <2>17 DEF process_cus_steal, cus__steal_now, steal
  <2>18. CASE process_cus_error
    BY <2>18 DEF process_cus_error
  <2>19. CASE process_cus_end
    BY <2>19 DEF process_cus_end
  <2>20. CASE merge_no_cus
    BY <2>20 DEF merge_no_cus
  <2>21. CASE merge_new_cu
    BY <2>21 DEF merge_new_cu, cus__add, NewCu
  <2>22. CASE merge_no_memory
    BY <2>22 DEF merge_no_memory
  <2>23. CASE merge_process
    BY <2>23 DEF merge_process, out_abort, cus__steal_now, steal
  <2>24. CASE load_module_end
    BY <2>24 DEF load_module_end, module_end, leave_module
  <2>25. CASE cus__delete
    BY <2>25 DEF cus__delete
  <2> QED
    BY <1>2, <2>1, <2>2, <2>3, <2>4, <2>5, <2>6, <2>7, <2>8, <2>9, <2>10, <2>11,
       <2>12, <2>13, <2>14, <2>15, <2>16, <2>17, <2>18, <2>19, <2>20, <2>21,
       <2>22, <2>23, <2>24, <2>25
<1> QED
  BY <1>2 DEF Next, load

-----------------------------------------------------------------------------
(* The theorems                                                            *)

\* No CU exists before the first file.
LEMMA InitStep == Init => IInv
<1> SUFFICES ASSUME Init PROVE IInv
  OBVIOUS
<1>1. format_path \in Seq(STRING) /\ nr_files \in Nat
  BY FormatPathAssumption, ArgvAssumption DEF Init
<1>2. 1 \in 1..Len(Formats)
  BY <1>1 DEF Formats, debug_fmt_table
<1>3. FlowOK
  BY <1>1, <1>2, BoundAssumption DEF Init, FlowOK, InModule
<1>4. ModuleOK
  BY BoundAssumption DEF Init, ModuleOK, LSK, NoCu
<1>5. OwnersOK
  <2>1. aborted \in BOOLEAN
    BY Zenon DEF Init
  <2>2. heap = {} /\ list = {} /\ nr_cus = 0 /\ dwfls = {} /\ priv = 0
        /\ stolen = {} /\ deleted = {}
    BY DEF Init, NoDwfl
  <2>3. QED
    BY <1>1, <2>1, <2>2 DEF OwnersOK
<1>6. PlaceInv /\ TypeCuInv /\ PendInv /\ DeletedNotListed /\ NoMergeInv
  BY DEF Init, PlaceInv, TypeCuInv, PendInv, DeletedNotListed, NoMergeInv,
     InModule,
     NoCu
<1> QED
  BY <1>3, <1>4, <1>5, <1>6 DEF IInv, TypeOK

\* The invariant only reads variables of vars.
LEMMA StutterStep == IInv /\ UNCHANGED vars => IInv'
<1> SUFFICES ASSUME IInv, UNCHANGED vars PROVE IInv'
  OBVIOUS
<1> USE DEF vars, conf, place, result, module, typeunit, units, bits, owners,
   handles,
     history, IInv
<1>1. TypeOK'
  BY DEF TypeOK, FlowOK, ModuleOK, OwnersOK, Formats
<1>2. PlaceInv'
  BY DEF PlaceInv
<1>3. TypeCuInv'
  BY DEF TypeCuInv
<1>4. PendInv'
  BY DEF PendInv
<1>5. DeletedNotListed'
  BY DEF DeletedNotListed
<1>6. NoMergeInv'
  BY DEF NoMergeInv
<1> QED
  BY <1>1, <1>2, <1>3, <1>4, <1>5, <1>6

\* IInv is inductive: every file, module and CU of every load keeps it.
THEOREM LoadInvariance == Spec => []IInv
<1>1. Init => IInv
  BY InitStep
<1>2. IInv /\ [Next]_vars => IInv'
  <2> SUFFICES ASSUME IInv, Next PROVE IInv'
    BY StutterStep
  <2>1. TypeOK'
    BY TypeStep
  <2> QED
    BY <2>1, PlaceStep, TypeCuStep, PendStep, DeletedStep, NoMergeStep DEF IInv
<1> QED
  BY <1>1, <1>2, PTL DEF Spec

\* The loaders keep every variable within its type.
THEOREM LoadTypeCorrect == Spec => []TypeOK
<1>1. IInv => TypeOK
  BY DEF IInv
<1> QED
  BY <1>1, LoadInvariance, PTL

\* The type CU that DW_FORM_ref_sig8 references are resolved in is allocated as
\* long as a CU of its module may be decoded, whatever verdict it was given.
THEOREM TypeCuOutlives == Spec => []TypeCuAlive
<1>1. IInv => TypeCuAlive
  BY DEF IInv, TypeCuInv, TypeCuAlive
<1> QED
  BY <1>1, LoadInvariance, PTL

\* A CU the stealer gave back with LSK__DELETE is not in cus->cus again, in this
\* file or a later one.
THEOREM DeletedUnlisted == Spec => []DeletedNotListed
<1>1. IInv => DeletedNotListed
  BY DEF IInv
<1> QED
  BY <1>1, LoadInvariance, PTL

\* If no module needs its CUs merged, cus->cus never holds a freed CU.
THEOREM ListHoldsLive ==
  ASSUME TRUE \notin Merging
  PROVE  Spec => []ListLive
<1>1. IInv => ListLive
  BY DEF IInv, NoMergeInv, ListLive
<1> QED
  BY <1>1, LoadInvariance, PTL
-----------------------------------------------------------------------------
(* The file that failed                                                    *)

\* With files on the command line no error is set before one of them fails, and
\* it then stands for the position of that file.
FileErrInv ==
    /\ caller = "argv" /\ pc \notin {"kernel", "btf"}
    /\ pc \notin {"delete", "end"} => err = 0
    /\ err # 0 => err = -(i + 1) /\ i < nr_files

\* Only the end of a file sets the error, and the loop over files is then left.
LEMMA FileErrStep ==
  ASSUME 0 \notin ArgvLengths, IInv, FileErrInv, Next
  PROVE  FileErrInv'
<1>0. UNCHANGED conf
  BY DEF Next
<1> USE <1>0, ArgvAssumption DEF place, result, module, typeunit, units, bits, owners, handles, history,
   conf, IInv, TypeOK, FlowOK, InModule, PlaceInv, FileErrInv
<1>1. CASE next_file
  BY <1>1 DEF next_file
<1>2. CASE no_more_files
  BY <1>2 DEF no_more_files
<1>3. CASE unknown_format
  BY <1>3 DEF unknown_format, load_file_end
<1>4. CASE format_end
  BY <1>4 DEF format_end, load_file_end
<1>5. CASE cus__load_running_kernel
  BY <1>5 DEF cus__load_running_kernel, btf_only
<1>6. CASE kernel_btf_end
  BY <1>6 DEF kernel_btf_end, btf_only
<1>7. CASE cus__load_btf
  BY <1>7 DEF cus__load_btf, load_section, steal, NewCu
<1>8. CASE ctf__load_file
  BY <1>8 DEF ctf__load_file, load_section, steal, NewCu
<1>9. CASE dwarf__load_file
  BY <1>9 DEF dwarf__load_file
<1>10. CASE cus__process_file
  BY <1>10 DEF cus__process_file
<1>11. CASE cus__process_dwflmod
  BY <1>11 DEF cus__process_dwflmod
<1>12. CASE modules_end
  BY <1>12 DEF modules_end
<1>13. CASE load_debug_types
  BY <1>13 DEF load_debug_types, module_end, cus__add, NewCu
<1>14. CASE steal_type_cu
  BY <1>14 DEF steal_type_cu, steal
<1>15. CASE main_cus
  BY <1>15 DEF main_cus
<1>16. CASE process_cus_create
  BY <1>16 DEF process_cus_create, cus__add, NewCu
<1>17. CASE process_cus_steal
  BY <1>17 DEF process_cus_steal, cus__steal_now, steal
<1>18. CASE process_cus_error
  BY <1>18 DEF process_cus_error
<1>19. CASE process_cus_end
  BY <1>19 DEF process_cus_end
<1>20. CASE merge_no_cus
  BY <1>20 DEF merge_no_cus
<1>21. CASE merge_new_cu
  BY <1>21 DEF merge_new_cu, cus__add, NewCu
<1>22. CASE merge_no_memory
  BY <1>22 DEF merge_no_memory
<1>23. CASE merge_process
  BY <1>23 DEF merge_process, out_abort, cus__steal_now, steal
<1>24. CASE load_module_end
  BY <1>24 DEF load_module_end, module_end, leave_module
<1>25. CASE cus__delete
  BY <1>25 DEF cus__delete
<1> QED
  BY <1>1, <1>2, <1>3, <1>4, <1>5, <1>6, <1>7, <1>8, <1>9, <1>10, <1>11,
     <1>12, <1>13, <1>14, <1>15, <1>16, <1>17, <1>18, <1>19, <1>20, <1>21,
     <1>22, <1>23, <1>24, <1>25 DEF Next, load

\* cus__fprintf_load_files_err() reads argv[-err - 1]: when files were named on
\* the command line that is always the file whose load failed, never past the
\* end of argv, and no earlier one.
THEOREM ErrIsOfFile ==
  ASSUME 0 \notin ArgvLengths
  PROVE  Spec => []ErrNamesFile
<1>1. Init => FileErrInv
  BY DEF Init, FileErrInv
<1>2. IInv /\ FileErrInv /\ [Next]_vars => FileErrInv'
  <2>1. CASE Next
    BY <2>1, FileErrStep
  <2>2. CASE UNCHANGED vars
    BY <2>2 DEF vars, conf, place, result, FileErrInv
  <2> QED
    BY <2>1, <2>2
<1>3. IInv /\ FileErrInv => ErrNamesFile
  BY ArgvAssumption DEF FileErrInv, ErrNamesFile, IInv, TypeOK, FlowOK
<1> QED
  BY <1>1, <1>2, <1>3, LoadInvariance, PTL DEF Spec

-----------------------------------------------------------------------------
(* Every CU is freed                                                       *)

\* A CU off the list is the type CU whose deletion was deferred: nothing else
\* is held by a pointer that cus__delete() does not follow.
OwnedInv ==
    /\ \A c \in heap : c \in list \/ (c = type_cu /\ type_lsk = "DELETE")
    /\ pc = "end" => heap = {}
    /\ pc = "btf" => format_path = <<>> \/ "btf" \in ToSet(format_path)

\* A loader of one section forgets its CU unless conf->steal() keeps it.
SectionsKept ==
    \/ Lsk \subseteq {"KEEPIT"}
    \/ \A f \in FormatPaths : f # <<>> /\ ToSet(f) \cap {"btf", "ctf"} = {}

LEMMA NoSection ==
  ASSUME IInv, OwnedInv, cus__load_btf \/ ctf__load_file, SectionsKept
  PROVE  Lsk \subseteq {"KEEPIT"}
<1> SUFFICES ASSUME format_path # <<>>, ToSet(format_path) \cap {"btf", "ctf"} = {} PROVE FALSE
  BY DEF SectionsKept, IInv, TypeOK, FlowOK
<1>1. Formats = format_path /\ k \in 1..Len(format_path) /\ format_path \in Seq(STRING)
  BY FormatPathAssumption DEF Formats, IInv, TypeOK, FlowOK
<1>2. Formats[k] \in ToSet(format_path)
  BY <1>1 DEF ToSet
<1> QED
  BY <1>2 DEF cus__load_btf, ctf__load_file, OwnedInv

\* An action that takes a CU off the list frees it, or defers that.
LEMMA OwnedStep ==
  ASSUME SectionsKept, IInv, TypeOK', TypeCuInv', OwnedInv, Next
  PROVE  OwnedInv'
<1>0. UNCHANGED conf
  BY DEF Next
<1> USE <1>0, ArgvAssumption DEF place, result, module, typeunit, units, bits, owners, handles, history,
   conf, IInv, TypeOK, FlowOK, OwnersOK, ModuleOK, InModule, TypeCuInv, NoCu, OwnedInv
<1>1. CASE next_file
  BY <1>1 DEF next_file
<1>2. CASE no_more_files
  BY <1>2 DEF no_more_files
<1>3. CASE unknown_format
  BY <1>3 DEF unknown_format, load_file_end
<1>4. CASE format_end
  BY <1>4 DEF format_end, load_file_end
<1>5. CASE cus__load_running_kernel
  BY <1>5 DEF cus__load_running_kernel, btf_only
<1>6. CASE kernel_btf_end
  BY <1>6 DEF kernel_btf_end, btf_only
<1>7. CASE cus__load_btf
  BY <1>7, NoSection DEF cus__load_btf, load_section, steal, NewCu
<1>8. CASE ctf__load_file
  BY <1>8, NoSection DEF ctf__load_file, load_section, steal, NewCu
<1>9. CASE dwarf__load_file
  BY <1>9 DEF dwarf__load_file
<1>10. CASE cus__process_file
  BY <1>10 DEF cus__process_file
<1>11. CASE cus__process_dwflmod
  BY <1>11 DEF cus__process_dwflmod
<1>12. CASE modules_end
  BY <1>12 DEF modules_end
<1>13. CASE load_debug_types
  BY <1>13 DEF load_debug_types, module_end, cus__add, NewCu
<1>14. CASE steal_type_cu
  BY <1>14 DEF steal_type_cu, steal
<1>15. CASE main_cus
  BY <1>15 DEF main_cus
<1>16. CASE process_cus_create
  BY <1>16 DEF process_cus_create, cus__add, NewCu
<1>17. CASE process_cus_steal
  BY <1>17 DEF process_cus_steal, cus__steal_now, steal
<1>18. CASE process_cus_error
  BY <1>18 DEF process_cus_error
<1>19. CASE process_cus_end
  BY <1>19 DEF process_cus_end
<1>20. CASE merge_no_cus
  BY <1>20 DEF merge_no_cus
<1>21. CASE merge_new_cu
  BY <1>21 DEF merge_new_cu, cus__add, NewCu
<1>22. CASE merge_no_memory
  BY <1>22 DEF merge_no_memory
<1>23. CASE merge_process
  BY <1>23 DEF merge_process, out_abort, cus__steal_now, steal
<1>24. CASE load_module_end
  BY <1>24 DEF load_module_end, module_end, leave_module
<1>25. CASE cus__delete
  BY <1>25 DEF cus__delete
<1> QED
  BY <1>1, <1>2, <1>3, <1>4, <1>5, <1>6, <1>7, <1>8, <1>9, <1>10, <1>11,
     <1>12, <1>13, <1>14, <1>15, <1>16, <1>17, <1>18, <1>19, <1>20, <1>21,
     <1>22, <1>23, <1>24, <1>25 DEF Next, load

\* cus__delete() leaves no CU allocated, whatever failed and whatever verdicts
\* were given, merged CUs included, provided that CUs made of a BTF or CTF
\* section are kept: those loaders forget the CU otherwise.
THEOREM EveryCuFreed ==
  ASSUME SectionsKept
  PROVE  Spec => []AllFreed
<1>1. Init => OwnedInv
  BY DEF Init, OwnedInv
<1>2. IInv /\ IInv' /\ OwnedInv /\ [Next]_vars => OwnedInv'
  <2>1. CASE Next
    BY <2>1, OwnedStep DEF IInv
  <2>2. CASE UNCHANGED vars
    BY <2>2 DEF vars, conf, owners, typeunit, OwnedInv
  <2> QED
    BY <2>1, <2>2
<1>3. OwnedInv => AllFreed
  BY DEF OwnedInv, AllFreed
<1> QED
  BY <1>1, <1>2, <1>3, LoadInvariance, PTL DEF Spec

-----------------------------------------------------------------------------
(* LSK__ABORT ends the load                                                *)

\* After LSK__ABORT the load is on its way out: the verdict makes the module
\* fail, the module the file, and the file the loop.
AbortInv ==
    /\ caller # "kernel_btf" /\ pc # "btf"
    /\ pc \in {"merge", "merged"} => lsk_status = "ABORT"
    /\ aborted =>
          \/ pc = "units" /\ lsk_status = "ABORT"
          \/ pc = "module_end" /\ lsk_status = "ABORT" /\ res # 0
          \/ pc = "ret" /\ ret # 0
          \/ pc \in {"delete", "end"}

LEMMA OnlyDwarf ==
  ASSUME FormatPaths \subseteq {<<"dwarf">>}, IInv
  PROVE  /\ format_path = <<"dwarf">> /\ Formats = <<"dwarf">> /\ Len(Formats) = 1 /\ k = 1
         /\ Formats[k] = "dwarf" /\ format_path # <<>> /\ "btf" \notin ToSet(format_path)
<1>1. format_path = <<"dwarf">>
  BY DEF IInv, TypeOK, FlowOK
<1>2. Formats = <<"dwarf">>
  BY <1>1 DEF Formats
<1>3. k = 1
  BY <1>2 DEF IInv, TypeOK, FlowOK
<1> QED
  BY <1>1, <1>2, <1>3 DEF ToSet

\* No action leads from there to conf->steal().
LEMMA AbortStep ==
  ASSUME FormatPaths \subseteq {<<"dwarf">>}, IInv, AbortInv, Next
  PROVE  AbortInv'
<1>0. UNCHANGED conf
  BY DEF Next
<1> USE <1>0, ArgvAssumption DEF place, result, module, typeunit, units, bits, owners, handles, history,
   conf, IInv, TypeOK, FlowOK, InModule, ModuleOK, TypeCuInv, DWARF_CB_ABORT, AbortInv
<1>1. CASE next_file
  BY <1>1 DEF next_file
<1>2. CASE no_more_files
  BY <1>2 DEF no_more_files
<1>3. CASE unknown_format
  BY <1>3, OnlyDwarf DEF unknown_format, load_file_end
<1>4. CASE format_end
  <2>1. k = Len(Formats) /\ caller # "kernel_btf" /\ pc = "ret" /\ UNCHANGED <<caller, lsk_status, aborted>>
    BY <1>4, OnlyDwarf DEF format_end
  <2>2. ret = 0 => ~aborted
    BY <2>1
  <2>3. (ret # 0 /\ pc' = "delete") \/ (ret = 0 /\ pc' \in {"files", "delete"})
    BY <1>4, <2>1, OnlyDwarf DEF format_end, load_file_end, EINVAL
  <2> QED
    BY <2>1, <2>2, <2>3
<1>5. CASE cus__load_running_kernel
  BY <1>5, OnlyDwarf DEF cus__load_running_kernel, btf_only
<1>6. CASE kernel_btf_end
  BY <1>6, OnlyDwarf DEF kernel_btf_end, btf_only
<1>7. CASE cus__load_btf
  BY <1>7, OnlyDwarf DEF cus__load_btf, load_section, steal, NewCu
<1>8. CASE ctf__load_file
  BY <1>8, OnlyDwarf DEF ctf__load_file, load_section, steal, NewCu
<1>9. CASE dwarf__load_file
  BY <1>9 DEF dwarf__load_file
<1>10. CASE cus__process_file
  BY <1>10 DEF cus__process_file
<1>11. CASE cus__process_dwflmod
  BY <1>11 DEF cus__process_dwflmod
<1>12. CASE modules_end
  BY <1>12 DEF modules_end
<1>13. CASE load_debug_types
  BY <1>13 DEF load_debug_types, module_end, cus__add, NewCu
<1>14. CASE steal_type_cu
  BY <1>14 DEF steal_type_cu, steal
<1>15. CASE main_cus
  BY <1>15 DEF main_cus
<1>16. CASE process_cus_create
  BY <1>16 DEF process_cus_create, cus__add, NewCu
<1>17. CASE process_cus_steal
  BY <1>17 DEF process_cus_steal, cus__steal_now, steal
<1>18. CASE process_cus_error
  BY <1>18 DEF process_cus_error
<1>19. CASE process_cus_end
  BY <1>19 DEF process_cus_end
<1>20. CASE merge_no_cus
  BY <1>20 DEF merge_no_cus
<1>21. CASE merge_new_cu
  BY <1>21 DEF merge_new_cu, cus__add, NewCu
<1>22. CASE merge_no_memory
  BY <1>22 DEF merge_no_memory
<1>23. CASE merge_process
  <2>1. pc = "merged" /\ ~aborted /\ lsk_status = "ABORT" /\ UNCHANGED <<caller, lsk_status>>
        /\ pc' = "module_end"
    BY <1>23 DEF merge_process
  <2>2. CASE res' = DWARF_CB_ABORT
    BY <2>1, <2>2
  <2>3. CASE \E v \in Lsk \ {"ABORT"} : steal(Head(pend), v)
    <3>1. ~aborted'
      BY <2>1, <2>3 DEF steal
    <3> QED
      BY <2>1, <3>1
  <2>4. CASE UNCHANGED history
    BY <2>1, <2>4
  <2> QED
    BY <1>23, <2>2, <2>3, <2>4 DEF merge_process, out_abort, cus__steal_now
<1>24. CASE load_module_end
  BY <1>24 DEF load_module_end, module_end, leave_module
<1>25. CASE cus__delete
  BY <1>25 DEF cus__delete
<1> QED
  BY <1>1, <1>2, <1>3, <1>4, <1>5, <1>6, <1>7, <1>8, <1>9, <1>10, <1>11,
     <1>12, <1>13, <1>14, <1>15, <1>16, <1>17, <1>18, <1>19, <1>20, <1>21,
     <1>22, <1>23, <1>24, <1>25 DEF Next, load

\* With DWARF as the only format, as pahole sets it to encode BTF, conf->steal()
\* is never called again once it answered LSK__ABORT: neither for another CU of
\* that module, nor for another module, format or file.
THEOREM NoStealAfterAbort ==
  ASSUME FormatPaths \subseteq {<<"dwarf">>}
  PROVE  Spec => AbortIsFinal
<1>1. Init => AbortInv
  BY DEF Init, AbortInv
<1>2. IInv /\ AbortInv /\ [Next]_vars => AbortInv'
  <2>1. CASE Next
    BY <2>1, AbortStep
  <2>2. CASE UNCHANGED vars
    BY <2>2 DEF vars, conf, place, result, units, history, AbortInv
  <2> QED
    BY <2>1, <2>2
<1>3. IInv /\ AbortInv /\ [Next]_vars => [aborted => UNCHANGED stolen]_vars
  <2> SUFFICES ASSUME IInv, AbortInv, Next, aborted PROVE UNCHANGED stolen
    OBVIOUS
  <2>1. pc \notin {"format", "btf", "steal_types", "merged"}
        /\ ~(pc = "units" /\ lsk_status = "KEEPIT")
    BY DEF AbortInv
  <2> QED
    BY <2>1 DEF history, Next, load, next_file, no_more_files, unknown_format,
       format_end, cus__load_running_kernel, kernel_btf_end, cus__load_btf,
       ctf__load_file, dwarf__load_file, cus__process_file, cus__process_dwflmod,
       modules_end, load_debug_types, steal_type_cu, main_cus, process_cus_create,
       process_cus_steal, process_cus_error, process_cus_end, merge_no_cus,
       merge_new_cu, merge_no_memory, merge_process, load_module_end, cus__delete
<1> QED
  BY <1>1, <1>2, <1>3, LoadInvariance, PTL DEF Spec, AbortIsFinal
=============================================================================
