----------------------------- MODULE LoadFiles ------------------------------
(***************************************************************************)
(* Loading the files of the command line into one struct cus: the loop of  *)
(* cus__load_files(), the fall back from one debugging format to the next  *)
(* in cus__load_file(), the running kernel when there is no file, the      *)
(* modules and the type, merged and ordinary compilation units (CUs) of    *)
(* the DWARF loader, the BTF and CTF loaders, and cus__delete().           *)
(*                                                                         *)
(* The state that matters is who owns a CU: the heap, the list of struct   *)
(* cus, and the verdict conf->steal() gave.  The worker pool that decodes  *)
(* ordinary CUs is the one of DwarfWorkers; here only what it promises is  *)
(* kept: CUs are created in order, ahead of the steals, and stolen in      *)
(* order until a verdict or an error stops it.                             *)
(***************************************************************************)
EXTENDS Integers, Sequences, SequencesExt, FiniteSets

CONSTANTS
    ArgvLengths,    \* how many files the command line may name
    FormatPaths,    \* values of conf->format_path, split at their commas;
                    \* <<>> stands for NULL
    Lsk,            \* verdicts conf->steal() may return
    Faults,         \* what may go wrong in this instance, see AllFaults
    TypeUnits,      \* may a module have type units: a subset of BOOLEAN
    Merging,        \* may a module's CUs need merging: a subset of BOOLEAN
    MaxModules,     \* bound: modules dwfl_getmodules() reports for a file
    MaxUnits,       \* bound: CUs in a module
    HashBits,       \* conf->hashtable_bits, 0 when not given
    MaxHashBits     \* conf->max_hashtable_bits, 0 when not given

LSK == {"KEEPIT", "DELETE", "STOP_LOADING", "ABORT"}

AllFaults == {"open",       \* the file cannot be opened, or is not ELF
              "nodwarf",    \* a module has no DWARF
              "types",      \* a type unit cannot be decoded
              "decode",     \* a CU cannot be decoded
              "memory",     \* no memory for a hash table of the merged CU
              "btf", "ctf"} \* no such section, or it cannot be decoded

ASSUME ArgvAssumption == ArgvLengths \subseteq Nat
ASSUME FormatPathAssumption == FormatPaths \subseteq Seq(STRING)
ASSUME LskAssumption == Lsk \subseteq LSK
ASSUME FaultsAssumption == Faults \subseteq AllFaults
ASSUME ShapeAssumption == TypeUnits \subseteq BOOLEAN /\ Merging \subseteq BOOLEAN
ASSUME BoundAssumption == MaxModules \in Nat /\ MaxUnits \in Nat
ASSUME HashAssumption == HashBits \in Nat /\ MaxHashBits \in Nat

debug_fmt_table == <<"dwarf", "btf", "ctf">>

NoCu == 0
NoDwfl == 0
ENOTSUP == 95
EINVAL == 22
DWARF_CB_ABORT == 1

VARIABLES
    nr_files,       \* files on the command line
    format_path,    \* conf->format_path
    pc,             \* where the load is
    caller,         \* who asked for the file: argv, or the running kernel
    i,              \* cus__load_files(): files loaded
    k,              \* cus__load_file(): position in Formats
    ret,            \* what the loader of that format returned
    err,            \* what cus__load_files() returned
    mods,           \* modules of the file seen so far
    found,          \* parms->nr_dwarf_sections_found
    type_cu,        \* the type CU of the module
    type_lsk,       \* the verdict it got
    type_bits,      \* hashtags__bits when its hash tables were allocated
    left,           \* CUs of the module not read yet
    pend,           \* CUs created and not stolen yet, in order
    lsk_status,     \* lsk_worker_status
    res,            \* result of the module's main CUs
    hashtags__bits,
    max_hashtags__bits,
    heap,           \* allocated CUs
    list,           \* the CUs of cus->cus (their order is kept by DwarfWorkers)
    dwfls,          \* open Dwfl handles
    priv,           \* cus->priv: the handle dwarf_loader__exit() will close
    nr_cus,         \* CUs allocated so far: the identity of the next one
    stolen,         \* history: CUs handed to conf->steal()
    deleted,        \* history: CUs it answered LSK__DELETE for
    aborted         \* history: it answered LSK__ABORT, not only for type CUs

conf == <<nr_files, format_path>>
place == <<caller, i, k>>
result == <<ret, err>>
module == <<mods, found>>
typeunit == <<type_cu, type_lsk, type_bits>>
units == <<left, pend, lsk_status, res>>
bits == <<hashtags__bits, max_hashtags__bits>>
owners == <<heap, list, nr_cus>>
handles == <<dwfls, priv>>
history == <<stolen, deleted, aborted>>
vars == <<conf, pc, place, result, module, typeunit, units, bits, owners, handles,
          history>>

Init ==
    /\ nr_files \in ArgvLengths /\ format_path \in FormatPaths
    /\ pc = "files" /\ caller = "argv" /\ i = 0 /\ k = 1
    /\ ret = 0 /\ err = 0
    /\ mods = 0 /\ found = 0
    /\ type_cu = NoCu /\ type_lsk = "KEEPIT" /\ type_bits = 0
    /\ left = 0 /\ pend = <<>> /\ lsk_status = "KEEPIT" /\ res = 0
    /\ hashtags__bits = 12 /\ max_hashtags__bits = 21
    /\ heap = {} /\ list = {} /\ nr_cus = 0
    /\ dwfls = {} /\ priv = NoDwfl
    /\ stolen = {} /\ deleted = {} /\ aborted = FALSE

-----------------------------------------------------------------------------
(* struct cus and conf->steal()                                            *)

NewCu == nr_cus + 1

Formats == IF format_path = <<>> THEN debug_fmt_table ELSE format_path

\* conf->steal() is called with c and answers v.
steal(c, v) ==
    /\ stolen' = stolen \cup {c}
    /\ deleted' = IF v = "DELETE" THEN deleted \cup {c} ELSE deleted
    /\ aborted' = (aborted \/ (v = "ABORT" /\ c # type_cu))

\* Variant of cus__steal_now(): the CU is freed but left in the list.
cus__steal_now_unlisted(c, v) ==
    /\ steal(c, v)
    /\ heap' = IF v = "DELETE" THEN heap \ {c} ELSE heap
    /\ UNCHANGED <<list, nr_cus>>

cus__steal_now(c, v) ==
    /\ steal(c, v)
    /\ list' = IF v = "DELETE" THEN list \ {c} ELSE list
    /\ heap' = IF v = "DELETE" THEN heap \ {c} ELSE heap
    /\ UNCHANGED nr_cus

\* cu__new() and cus__add()
cus__add(c) ==
    /\ heap' = heap \cup {c}
    /\ list' = list \cup {c}
    /\ nr_cus' = c

-----------------------------------------------------------------------------
(* cus__load_files(), cus__load_file(), cus__load_running_kernel()         *)

\* Variant: the number of files loaded, not the number of the one that failed.
load_file_end_early(e) ==
    \/ /\ caller = "argv" /\ e = 0
       /\ i' = i + 1 /\ pc' = "files" /\ UNCHANGED err
    \/ /\ caller = "argv" /\ e # 0
       /\ err' = -i /\ pc' = "delete" /\ UNCHANGED i
    \/ /\ caller = "kernel_elf"
       /\ err' = e /\ pc' = "delete" /\ UNCHANGED i

\* cus__load_file() returns e to its caller.
load_file_end(e) ==
    \/ /\ caller = "argv" /\ e = 0
       /\ i' = i + 1 /\ pc' = "files" /\ UNCHANGED err
    \/ /\ caller = "argv" /\ e # 0
       /\ err' = -(i + 1) /\ pc' = "delete" /\ UNCHANGED i
    \/ /\ caller = "kernel_elf"
       /\ err' = e /\ pc' = "delete" /\ UNCHANGED i

next_file ==
    /\ pc = "files"
    /\ i < nr_files
    /\ k' = 1
    /\ pc' = "format"
    /\ UNCHANGED <<caller, i, result, module, typeunit, units, bits, owners,
                   handles, history>>

no_more_files ==
    /\ pc = "files"
    /\ i = nr_files
    /\ IF i > 0 THEN pc' = "delete" ELSE pc' = "kernel"
    /\ UNCHANGED <<place, result, module, typeunit, units, bits, owners,
                   handles, history>>

\* A format name that is not in debug_fmt_table ends the search.
unknown_format ==
    /\ pc = "format"
    /\ Formats[k] \notin ToSet(debug_fmt_table)
    /\ load_file_end(-ENOTSUP)
    /\ UNCHANGED <<caller, k, ret, module, typeunit, units, bits, owners,
                   handles, history>>

\* Variant: one format too many is tried.
format_end_past ==
    /\ pc = "ret"
    /\ caller # "kernel_btf"
    /\ \/ ret = 0 /\ load_file_end(0) /\ UNCHANGED k
       \/ ret # 0 /\ k <= Len(Formats) /\ k' = k + 1 /\ pc' = "format"
          /\ UNCHANGED <<i, err>>
    /\ UNCHANGED <<caller, ret, module, typeunit, units, bits, owners, handles,
                   history>>

\* The loader of Formats[k] returned: the next format is tried if it failed.
format_end ==
    /\ pc = "ret"
    /\ caller # "kernel_btf"
    /\ \/ ret = 0 /\ load_file_end(0) /\ UNCHANGED k
       \/ ret # 0 /\ k < Len(Formats) /\ k' = k + 1 /\ pc' = "format"
          /\ UNCHANGED <<i, err>>
       \/ ret # 0 /\ k = Len(Formats) /\ load_file_end(-EINVAL) /\ UNCHANGED k
    /\ UNCHANGED <<caller, ret, module, typeunit, units, bits, owners, handles,
                   history>>

btf_only == format_path = <<"btf">>

\* No file: /sys/kernel/btf/vmlinux when BTF is wanted and it is readable,
\* otherwise the vmlinux that matches the running kernel.
cus__load_running_kernel ==
    /\ pc = "kernel"
    /\ \/ /\ format_path = <<>> \/ "btf" \in ToSet(format_path)
          /\ caller' = "kernel_btf" /\ pc' = "btf" /\ UNCHANGED <<k, err>>
       \/ /\ ~btf_only
          /\ caller' = "kernel_elf" /\ k' = 1 /\ pc' = "format" /\ UNCHANGED err
       \/ /\ btf_only
          /\ err' = -1 /\ pc' = "delete" /\ UNCHANGED <<caller, k>>
    /\ UNCHANGED <<i, ret, module, typeunit, units, bits, owners, handles,
                   history>>

kernel_btf_end ==
    /\ pc = "ret"
    /\ caller = "kernel_btf"
    /\ \/ ret = 0 /\ pc' = "delete" /\ UNCHANGED <<caller, k, err>>
       \/ ret # 0 /\ ~btf_only /\ caller' = "kernel_elf" /\ k' = 1
          /\ pc' = "format" /\ UNCHANGED err
       \/ ret # 0 /\ btf_only /\ err' = -1 /\ pc' = "delete"
          /\ UNCHANGED <<caller, k>>
    /\ UNCHANGED <<i, ret, module, typeunit, units, bits, owners, handles,
                   history>>

-----------------------------------------------------------------------------
(* The BTF and CTF loaders                                                 *)

\* One CU is made of the file.  A verdict other than LSK__KEEPIT, whichever
\* it is, makes the loader forget the CU and return success.
load_section(fault) ==
    /\ \/ /\ fault \in Faults
          /\ ret' = -1
          /\ UNCHANGED <<owners, history>>
       \/ \E v \in Lsk :
             /\ steal(NewCu, v)
             /\ heap' = heap \cup {NewCu}
             /\ list' = IF v = "KEEPIT" THEN list \cup {NewCu} ELSE list
             /\ nr_cus' = NewCu
             /\ ret' = 0
    /\ pc' = "ret"
    /\ UNCHANGED <<place, err, module, typeunit, units, bits, handles>>

cus__load_btf ==
    /\ \/ pc = "format" /\ Formats[k] = "btf"
       \/ pc = "btf"
    /\ load_section("btf")

ctf__load_file ==
    /\ pc = "format"
    /\ Formats[k] = "ctf"
    /\ load_section("ctf")

-----------------------------------------------------------------------------
(* The DWARF loader: a file and its modules                                *)

\* The sizes asked for on the command line are stored in globals; a hash
\* size beyond the maximum is refused.
dwarf__load_file ==
    /\ pc = "format"
    /\ Formats[k] = "dwarf"
    /\ LET max == IF MaxHashBits # 0 THEN MaxHashBits ELSE max_hashtags__bits
           want == IF HashBits # 0 THEN HashBits ELSE hashtags__bits IN
       IF MaxHashBits > 31
       THEN ret' = -1 /\ pc' = "ret" /\ UNCHANGED bits
       ELSE /\ max_hashtags__bits' = max
            /\ hashtags__bits' = IF want > max THEN hashtags__bits ELSE want
            /\ \/ /\ want <= max
                  /\ pc' = "open" /\ UNCHANGED ret
               \/ /\ want > max \/ "open" \in Faults
                  /\ ret' = -1 /\ pc' = "ret"
    /\ UNCHANGED <<place, err, module, typeunit, units, owners, handles, history>>

\* cus->priv remembers the Dwfl handle, which stays open because the CUs point
\* to strings it owns.
cus__process_file ==
    /\ pc = "open"
    /\ dwfls' = dwfls \cup {i + 1}
    /\ priv' = i + 1
    /\ mods' = 0 /\ found' = 0
    /\ \/ pc' = "modules" /\ UNCHANGED ret
       \/ "open" \in Faults /\ ret' = -1 /\ pc' = "ret"
    /\ UNCHANGED <<place, err, typeunit, units, bits, owners, history>>

cus__process_dwflmod ==
    /\ pc = "modules"
    /\ mods < MaxModules
    /\ mods' = mods + 1
    /\ \/ found' = found + 1 /\ pc' = "types"
       \/ "nodwarf" \in Faults /\ UNCHANGED <<pc, found>>
    /\ UNCHANGED <<place, result, typeunit, units, bits, owners, handles, history>>

modules_end ==
    /\ pc = "modules"
    /\ mods > 0
    /\ ret' = IF found > 0 THEN 0 ELSE -1
    /\ pc' = "ret"
    /\ UNCHANGED <<place, err, module, typeunit, units, bits, owners, handles,
                   history>>

-----------------------------------------------------------------------------
(* cus__load_module()                                                      *)

\* The result r of a module: an error ends dwfl_getmodules() and the format.
module_end(r) ==
    IF r = 0 THEN pc' = "modules" /\ UNCHANGED ret
             ELSE pc' = "ret" /\ ret' = -1

\* The locals of cus__load_module() go out of scope.
leave_module ==
    /\ type_cu' = NoCu /\ type_lsk' = "KEEPIT" /\ type_bits' = 0
    /\ left' = 0 /\ pend' = <<>> /\ lsk_status' = "KEEPIT" /\ res' = 0

\* All type units go to one CU, in the list before they are decoded.
load_debug_types ==
    /\ pc = "types"
    /\ \/ /\ FALSE \in TypeUnits
          /\ pc' = "main" /\ UNCHANGED <<ret, typeunit, owners>>
       \/ /\ TRUE \in TypeUnits
          /\ cus__add(NewCu)
          /\ \/ /\ type_cu' = NewCu /\ type_bits' = hashtags__bits
                /\ pc' = "steal_types" /\ UNCHANGED <<type_lsk, ret>>
             \/ /\ "types" \in Faults
                /\ module_end(DWARF_CB_ABORT) /\ UNCHANGED typeunit
       \/ /\ "types" \in Faults
          /\ module_end(DWARF_CB_ABORT) /\ UNCHANGED <<typeunit, owners>>
    /\ UNCHANGED <<place, err, module, units, bits, handles, history>>

\* Variants: the type CU is freed at once, and it is left in the list.
steal_type_cu_at_once ==
    /\ pc = "steal_types"
    /\ \E v \in Lsk : cus__steal_now(type_cu, v) /\ type_lsk' = v
    /\ pc' = "main"
    /\ UNCHANGED <<place, result, module, type_cu, type_bits, units, bits, handles>>

steal_type_cu_listed ==
    /\ pc = "steal_types"
    /\ \E v \in Lsk : steal(type_cu, v) /\ type_lsk' = v
    /\ pc' = "main"
    /\ UNCHANGED <<place, result, module, type_cu, type_bits, units, bits, owners,
                   handles>>

\* LSK__DELETE takes the type CU off the list but frees it only at the end.
steal_type_cu ==
    /\ pc = "steal_types"
    /\ \E v \in Lsk :
          /\ steal(type_cu, v)
          /\ type_lsk' = v
          /\ list' = IF v = "DELETE" THEN list \ {type_cu} ELSE list
    /\ pc' = "main"
    /\ UNCHANGED <<place, result, module, type_cu, type_bits, units, bits, heap,
                   nr_cus, handles>>

main_cus ==
    /\ pc = "main"
    /\ pend' = <<>> /\ res' = 0 /\ left' \in 0..MaxUnits
    /\ \/ FALSE \in Merging /\ pc' = "units" /\ lsk_status' = "KEEPIT"
       \/ TRUE \in Merging /\ pc' = "merge" /\ lsk_status' = "ABORT"
    /\ UNCHANGED <<place, result, module, typeunit, bits, owners, handles, history>>

\* dwarf_cus__process_cus(): a CU is created, and will be stolen unless an
\* earlier one could not be decoded.
process_cus_create ==
    /\ pc = "units"
    /\ left > 0
    /\ left' = left - 1
    /\ cus__add(NewCu)
    /\ pend' = IF res = 0 THEN Append(pend, NewCu) ELSE pend
    /\ UNCHANGED <<pc, place, result, module, typeunit, lsk_status, res, bits,
                   handles, history>>

process_cus_steal ==
    /\ pc = "units"
    /\ pend # <<>>
    /\ lsk_status = "KEEPIT"
    /\ \E v \in Lsk :
          /\ cus__steal_now(Head(pend), v)
          /\ lsk_status' = IF v \in {"STOP_LOADING", "ABORT"} THEN v ELSE "KEEPIT"
    /\ pend' = Tail(pend)
    /\ UNCHANGED <<pc, place, result, module, typeunit, left, res, bits, handles>>

\* A CU cannot be read or decoded: neither it nor a later one is stolen, but
\* those already created stay in the list.
process_cus_error ==
    /\ pc = "units"
    /\ "decode" \in Faults
    /\ \E n \in 0..Len(pend) : pend' = SubSeq(pend, 1, n)
    /\ res' = DWARF_CB_ABORT
    /\ UNCHANGED <<pc, place, result, module, typeunit, left, lsk_status, bits,
                   owners, handles, history>>

\* Every worker left: at the end of the section, or early.
process_cus_end ==
    /\ pc = "units"
    /\ res # 0 \/ lsk_status # "KEEPIT" \/ (left = 0 /\ pend = <<>>)
    /\ res' = IF lsk_status # "KEEPIT" THEN DWARF_CB_ABORT ELSE res
    /\ pc' = "module_end"
    /\ UNCHANGED <<place, result, module, typeunit, left, pend, lsk_status, bits,
                   owners, handles, history>>

-----------------------------------------------------------------------------
(* cus__merge_and_process_cu()                                             *)

merge_no_cus ==
    /\ pc = "merge"
    /\ left = 0
    /\ pc' = "module_end"
    /\ UNCHANGED <<place, result, module, typeunit, units, bits, owners, handles,
                   history>>

\* No memory for the merged CU, for any size of its hash tables, or for those of
\* the dwz alternate file.
merge_no_memory ==
    /\ pc = "merge"
    /\ left > 0
    /\ "memory" \in Faults
    /\ hashtags__bits' \in (hashtags__bits - 1)..max_hashtags__bits
    /\ res' = DWARF_CB_ABORT
    /\ pc' = "module_end"
    /\ UNCHANGED <<place, result, module, typeunit, left, pend, lsk_status,
                   max_hashtags__bits, owners, handles, history>>

\* The hash tables of the merged CU are allocated from the largest size down,
\* in the global that every hash function of the loader reads.
merge_new_cu ==
    /\ pc = "merge"
    /\ left > 0
    /\ \E b \in hashtags__bits..max_hashtags__bits :
          /\ b = max_hashtags__bits \/ "memory" \in Faults
          /\ hashtags__bits' = b
    /\ cus__add(NewCu)
    /\ pend' = <<NewCu>>
    /\ pc' = "merged"
    /\ UNCHANGED <<place, result, module, typeunit, left, lsk_status, res,
                   max_hashtags__bits, handles, history>>

\* out_abort: the merged CU is freed, and it was added to the list.
out_abort(c) ==
    /\ heap' = heap \ {c}
    /\ res' = DWARF_CB_ABORT
    /\ UNCHANGED <<list, nr_cus>>

merge_process ==
    /\ pc = "merged"
    /\ LET c == Head(pend) IN
       \/ "decode" \in Faults /\ out_abort(c) /\ UNCHANGED history
       \/ "ABORT" \in Lsk /\ steal(c, "ABORT") /\ out_abort(c)
       \/ \E v \in Lsk \ {"ABORT"} : cus__steal_now(c, v) /\ UNCHANGED res
    /\ pend' = <<>>
    /\ pc' = "module_end"
    /\ UNCHANGED <<place, result, module, typeunit, left, lsk_status, bits, handles>>

-----------------------------------------------------------------------------

\* Variants: the deferred deletion is forgotten, and the module never fails.
load_module_end_leaks ==
    /\ pc = "module_end"
    /\ module_end(IF res # 0 /\ lsk_status = "ABORT" THEN res ELSE 0)
    /\ leave_module
    /\ UNCHANGED <<place, err, module, bits, owners,
                   handles, history>>

load_module_end_goes_on ==
    /\ pc = "module_end"
    /\ heap' = IF type_cu # NoCu /\ type_lsk = "DELETE" THEN heap \ {type_cu}
                                                      ELSE heap
    /\ module_end(0)
    /\ leave_module
    /\ UNCHANGED <<place, err, module, bits, list,
                   nr_cus, handles, history>>

\* The deferred deletion of the type CU, then the result: only a worker or a
\* merge that aborted makes the module fail.
load_module_end ==
    /\ pc = "module_end"
    /\ heap' = IF type_cu # NoCu /\ type_lsk = "DELETE" THEN heap \ {type_cu}
                                                      ELSE heap
    /\ module_end(IF res # 0 /\ lsk_status = "ABORT" THEN res ELSE 0)
    /\ leave_module
    /\ UNCHANGED <<place, err, module, bits, list,
                   nr_cus, handles, history>>

\* Variant: loader_exit is not called.
cus__delete_no_exit ==
    /\ pc = "delete"
    /\ heap' = heap \ list
    /\ list' = {}
    /\ pc' = "end"
    /\ UNCHANGED <<place, result, module, typeunit, units, bits, nr_cus, handles,
                   history>>

\* Every CU of the list is freed, then dwarf_loader__exit() closes the handle.  A
\* merged CU that was freed already (see ListLive) is not there to be freed again;
\* the code would follow it.
cus__delete ==
    /\ pc = "delete"
    /\ heap' = heap \ list
    /\ list' = {}
    /\ dwfls' = dwfls \ {priv}
    /\ priv' = NoDwfl
    /\ pc' = "end"
    /\ UNCHANGED <<place, result, module, typeunit, units, bits, nr_cus, history>>

load ==
    \/ next_file \/ no_more_files \/ unknown_format \/ format_end
    \/ cus__load_running_kernel \/ kernel_btf_end
    \/ cus__load_btf \/ ctf__load_file
    \/ dwarf__load_file \/ cus__process_file
    \/ cus__process_dwflmod \/ modules_end
    \/ load_debug_types \/ steal_type_cu \/ main_cus
    \/ process_cus_create \/ process_cus_steal \/ process_cus_error \/ process_cus_end
    \/ merge_no_cus \/ merge_new_cu \/ merge_no_memory \/ merge_process
    \/ load_module_end \/ cus__delete

Next == load /\ UNCHANGED conf

Spec == Init /\ [][Next]_vars /\ WF_vars(Next)

-----------------------------------------------------------------------------
(* Properties                                                              *)

InModule == {"steal_types", "main", "units", "merge", "merged", "module_end"}

FlowOK ==
    /\ nr_files \in ArgvLengths /\ format_path \in FormatPaths
    /\ pc \in InModule \cup {"files", "format", "kernel", "btf", "open", "modules",
                            "types", "ret", "delete", "end"}
    /\ caller \in {"argv", "kernel_btf", "kernel_elf"}
    /\ i \in 0..nr_files
    /\ k \in 1..Len(Formats)
    /\ ret \in {0, -1}
    /\ err \in Int
    /\ mods \in 0..MaxModules /\ found \in 0..mods

ModuleOK ==
    /\ type_cu \in 0..nr_cus /\ type_lsk \in LSK /\ type_bits \in Int
    /\ left \in 0..MaxUnits
    /\ pend \in Seq(Nat)
    /\ lsk_status \in {"KEEPIT", "STOP_LOADING", "ABORT"}
    /\ res \in {0, DWARF_CB_ABORT}
    /\ hashtags__bits \in Int /\ max_hashtags__bits \in Int

OwnersOK ==
    /\ nr_cus \in Nat
    /\ heap \subseteq 1..nr_cus /\ list \subseteq 1..nr_cus
    /\ dwfls \subseteq 1..(nr_files + 1) /\ priv \in 0..(nr_files + 1)
    /\ stolen \subseteq 1..nr_cus /\ deleted \subseteq stolen
    /\ aborted \in BOOLEAN

\* Every variable keeps the values its C type and its use allow.
TypeOK == FlowOK /\ ModuleOK /\ OwnersOK

\* "Defer cu__delete() for LSK__DELETE until after main CUs are processed - they
\* need type_dcu alive for DW_FORM_ref_sig8 resolution."
TypeCuAlive == pc \in InModule /\ type_cu # NoCu => type_cu \in heap

\* cus->cus never holds a freed CU: cus__add(), cus__for_each_cu() and
\* cus__delete() follow its links.
ListLive == list \subseteq heap

\* "Remove from the list now so the consumer doesn't see it twice": a CU the
\* stealer gave back with LSK__DELETE is not met again in cus->cus.
DeletedNotListed == deleted \cap list = {}

\* After cus__delete() no CU is left allocated, whatever went wrong on the way.
AllFreed == pc = "end" => heap = {}

\* cus__fprintf_load_files_err() reads argv[-err - 1]: that is the file whose
\* load failed, all those before it were loaded.
ErrNamesFile ==
    pc \in {"delete", "end"} /\ err # 0 => -err \in 1..nr_files /\ -err = i + 1

\* Once conf->steal() answered LSK__ABORT for a CU that is not the one of the type
\* units it is not called again, in this module, format or file.
AbortIsFinal == [][aborted => UNCHANGED stolen]_vars

\* DW_FORM_ref_sig8 references are "looked up in dcu->type_unit->hash_*" with the
\* current number of hash bits, so it has to be the one those tables have.
LookupInTable == pc \in {"units", "merged"} /\ type_cu # NoCu
                    => type_bits = hashtags__bits

\* The loops over files, formats and modules end, with or without errors, and
\* leave no CU and no Dwfl handle behind: "so leave this for cus__delete()".
Termination == <>(pc = "end" /\ heap = {} /\ dwfls = {})
=============================================================================
