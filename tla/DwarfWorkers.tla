---------------------------- MODULE DwarfWorkers ----------------------------
(***************************************************************************)
(* The job/worker model of the DWARF loader (dwarf_loader.c): the workers  *)
(* share cus_processing_queue, a list of jobs that serve as tickets.  A    *)
(* JOB_DECODE ticket lets a worker read and decode the next compilation    *)
(* unit (CU); the ticket then turns into the JOB_STEAL of that CU, which   *)
(* hands it to conf->steal() in the order of cu->id, and back into a       *)
(* JOB_DECODE.  The main thread (dwarf_cus__process_cus) fills the queue,  *)
(* creates the workers and joins them.                                     *)
(*                                                                         *)
(* Everything done under cus_processing_queue.mutex or under the lock of   *)
(* struct cus is one action, except where the code leaves a gap that       *)
(* another thread can enter: the abort flag is read under the mutex but    *)
(* written and signalled without it, and dcus->error is written by the     *)
(* workers and by the main thread without any lock.                        *)
(***************************************************************************)
EXTENDS Integers, Sequences, SequencesExt, FiniteSets

CONSTANTS
    NrJobs,     \* conf->nr_jobs, the argument of -j
    NrCUs,      \* CUs in the DWARF section of the module being loaded
    Lsk,        \* verdicts conf->steal() may return
    Faults      \* what may go wrong in this instance, see AllFaults

LSK == {"KEEPIT", "DELETE", "STOP_LOADING", "ABORT"}

AllFaults == {"calloc",     \* no memory for a job
              "thread",     \* pthread_create() fails
              "nextcu",     \* dwarf_nextcu() returns -1
              "offdie",     \* dwarf_offdie() finds no DIE for that unit
              "create_cu",  \* no memory for a CU
              "decode",     \* die__process_and_recode() fails
              "spurious"}   \* pthread_cond_wait() returns unsignalled

ASSUME NrJobsAssumption == NrJobs \in Nat
ASSUME NrCUsAssumption == NrCUs \in Nat
ASSUME LskAssumption == Lsk \subseteq LSK
ASSUME FaultsAssumption == Faults \subseteq AllFaults

nr_workers == IF NrJobs > 0 THEN NrJobs ELSE 1

Workers == 1..nr_workers

dwarf_loader__decoded_cus_limit == IF NrJobs > 0 THEN NrJobs * 2 ELSE 2

NoOwner == 0
NoCu == -1

DecodeJob == [type |-> "JOB_DECODE", cu |-> NoCu]
StealJob(id) == [type |-> "JOB_STEAL", cu |-> id]
NullJob == [type |-> "JOB_NONE", cu |-> NoCu]

\* errno values and the verdict of a thread that gave up.  The code tells
\* apart negative, zero, one, and every other positive value.
ENOMEM == 12
EAGAIN == 11
DWARF_CB_ABORT == 1

VARIABLES
    mutex,          \* owner of cus_processing_queue.mutex
    jobs,           \* cus_processing_queue.jobs
    next_cu_id,     \* cus_processing_queue.next_cu_id
    abort,          \* cus_processing_queue.abort
    error,          \* dcus->error
    lsk_status,     \* dcus->lsk_status
    off,            \* dcus->off: CUs read so far
    nr_cus_created, \* dcus->nr_cus_created
    cus,            \* ids of the CUs in dcus->cus, in list order
    pc,             \* where each worker is
    job,            \* the job each worker holds
    cu,             \* the CU each worker decodes
    err,            \* err of dwarf_loader__decode_next_cu()
    seen,           \* abort as each worker read it
    mpc,            \* where the main thread is
    i,              \* its loop counter: workers created and not yet joined
    stolen,         \* history: ids given to conf->steal(), in order
    failed          \* history: a unit was dropped on an error path

queue == <<mutex, jobs, next_cu_id>>
dcus == <<off, nr_cus_created, cus>>
locals == <<job, cu, err, seen>>
main == <<mpc, i>>
history == <<stolen, failed>>
vars == <<queue, abort, error, lsk_status, dcus, pc, locals, main, history>>

WorkerPc == {"unborn", "enqdeq", "scan", "wait", "woken", "nextcu", "process",
             "fail", "steal", "inc", "check", "early", "signal",
             "ok", "aborted", "crash"}

Exited == {"ok", "aborted"}

-----------------------------------------------------------------------------
(* cus_processing_queue                                                    *)

\* Variants of enqueue() with a slip: queueing even when there is no job, and
\* adding every job to the head.
enqueue_unchecked(q, j) == IF j.type = "JOB_STEAL" THEN <<j>> \o q ELSE Append(q, j)
enqueue_head(q, j) == IF j.type = "JOB_NONE" THEN q ELSE <<j>> \o q

\* JOB_STEAL jobs go to the head of the list, JOB_DECODE jobs to its tail.
enqueue(q, j) ==
    CASE j.type = "JOB_STEAL"  -> <<j>> \o q
      [] j.type = "JOB_DECODE" -> Append(q, j)
      [] OTHER                 -> q

\* Variant: a JOB_STEAL is taken whatever its CU.
Viable_any(j, next) == j.type \in {"JOB_STEAL", "JOB_DECODE"}

\* The jobs the list walk of cus_queue__try_dequeue() stops at.
Viable(j, next) ==
    \/ j.type = "JOB_STEAL" /\ j.cu = next
    \/ j.type = "JOB_DECODE"

\* The position it dequeues: the first viable job of the list.
Dequeues(q, next, k) ==
    /\ k \in 1..Len(q)
    /\ Viable(q[k], next)
    /\ \A m \in 1..(k - 1) : ~Viable(q[m], next)

NothingToDequeue(q, next) == \A k \in 1..Len(q) : ~Viable(q[k], next)

\* The outcomes of pthread_cond_signal(&job_added): one waiter, if any, wakes.
cond_signal(p) ==
    LET waiting == {w \in Workers : p[w] = "wait"} IN
    IF waiting = {} THEN {p} ELSE {[p EXCEPT ![w] = "woken"] : w \in waiting}

Goto(w, l) == pc' = [pc EXCEPT ![w] = l]

-----------------------------------------------------------------------------
(* A worker: cus_queue__enqdeq_job()                                       *)

\* Variant: the job is queued without a signal.
enqdeq_lock_unsignalled(w) ==
    /\ pc[w] = "enqdeq"
    /\ mutex = NoOwner
    /\ mutex' = w
    /\ jobs' = enqueue(jobs, job[w])
    /\ job' = [job EXCEPT ![w] = NullJob]
    /\ seen' = [seen EXCEPT ![w] = abort]
    /\ Goto(w, "scan")
    /\ UNCHANGED <<next_cu_id, abort, error, lsk_status, dcus, cu, err, main,
                   history>>

\* Take the mutex, queue the job in hand, signal, and read the abort flag.
enqdeq_lock(w) ==
    /\ pc[w] = "enqdeq"
    /\ mutex = NoOwner
    /\ mutex' = w
    /\ jobs' = enqueue(jobs, job[w])
    /\ job' = [job EXCEPT ![w] = NullJob]
    /\ seen' = [seen EXCEPT ![w] = abort]
    /\ LET scanning == [pc EXCEPT ![w] = "scan"] IN
       IF job[w].type = "JOB_NONE" THEN pc' = scanning
                                   ELSE pc' \in cond_signal(scanning)
    /\ UNCHANGED <<next_cu_id, abort, error, lsk_status, dcus, cu, err, main,
                   history>>

\* A job was found: leave with it, even if the abort flag was seen.
dequeue(w) ==
    /\ pc[w] = "scan"
    /\ \E k \in 1..Len(jobs) :
          /\ Dequeues(jobs, next_cu_id, k)
          /\ job' = [job EXCEPT ![w] = jobs[k]]
          /\ jobs' = RemoveAt(jobs, k)
          /\ Goto(w, IF jobs[k].type = "JOB_DECODE" THEN "nextcu" ELSE "steal")
    /\ mutex' = NoOwner
    /\ UNCHANGED <<next_cu_id, abort, error, lsk_status, dcus, cu, err, seen,
                   main, history>>

\* No jobs or only steals out of order: give up if aborting, else wait.
cond_wait(w) ==
    /\ pc[w] = "scan"
    /\ NothingToDequeue(jobs, next_cu_id)
    /\ mutex' = NoOwner
    /\ Goto(w, IF seen[w] THEN "early" ELSE "wait")
    /\ UNCHANGED <<jobs, next_cu_id, abort, error, lsk_status, dcus, locals,
                   main, history>>

\* pthread_cond_wait() returns: the mutex is taken and abort read again.
wakeup(w) ==
    /\ pc[w] = "woken"
    /\ mutex = NoOwner
    /\ mutex' = w
    /\ seen' = [seen EXCEPT ![w] = abort]
    /\ Goto(w, "scan")
    /\ UNCHANGED <<jobs, next_cu_id, abort, error, lsk_status, dcus, job, cu,
                   err, main, history>>

spurious_wakeup(w) ==
    /\ "spurious" \in Faults
    /\ pc[w] = "wait"
    /\ Goto(w, "woken")
    /\ UNCHANGED <<queue, abort, error, lsk_status, dcus, locals, main, history>>

-----------------------------------------------------------------------------
(* A worker: JOB_DECODE, dwarf_loader__decode_next_cu()                    *)

\* dwarf_cus__nextcu() returned a value that is neither an error nor the end
\* of the section, but no CU: the worker dereferences a null dcu.
null_dcu(w) ==
    /\ Goto(w, "crash")
    /\ UNCHANGED <<error, dcus, job, cu, err, history>>

\* Return NULL: the ticket is freed and the worker leaves its loop.
no_more_cus(w) ==
    /\ job' = [job EXCEPT ![w] = NullJob]
    /\ Goto(w, "check")
    /\ UNCHANGED <<error, dcus, cu, err, history>>

\* goto out_error with err = e
decode_error(w, e) ==
    /\ err' = [err EXCEPT ![w] = e]
    /\ Goto(w, "fail")
    /\ UNCHANGED <<job, cu>>

\* The error of another thread is returned as it is.
nextcu_error(w) ==
    /\ error # 0
    /\ \/ error < 0 /\ decode_error(w, error) /\ UNCHANGED <<error, dcus, history>>
       \/ error = 1 /\ no_more_cus(w)
       \/ error > 1 /\ null_dcu(w)

\* No memory for the CU of a unit that was already read.
create_cu_error(w) ==
    /\ "create_cu" \in Faults
    /\ off' = off + 1
    /\ error' = ENOMEM
    /\ decode_error(w, -1)
    /\ failed' = TRUE
    /\ UNCHANGED <<nr_cus_created, cus, stolen>>

\* Variants: a unit is skipped, and CUs are put at the head of cus->cus.
create_cu_skips(w) ==
    /\ off' = IF off + 2 <= NrCUs THEN off + 2 ELSE NrCUs
    /\ cu' = [cu EXCEPT ![w] = nr_cus_created]
    /\ nr_cus_created' = nr_cus_created + 1
    /\ cus' = Append(cus, nr_cus_created)
    /\ Goto(w, "process")
    /\ UNCHANGED <<error, job, err, history>>

create_cu_head(w) ==
    /\ off' = off + 1
    /\ cu' = [cu EXCEPT ![w] = nr_cus_created]
    /\ nr_cus_created' = nr_cus_created + 1
    /\ cus' = <<nr_cus_created>> \o cus
    /\ Goto(w, "process")
    /\ UNCHANGED <<error, job, err, history>>

\* The id of a CU is its position among the CUs created, and it is added to
\* cus->cus under the lock that also advances dcus->off.
create_cu(w) ==
    /\ off' = off + 1
    /\ cu' = [cu EXCEPT ![w] = nr_cus_created]
    /\ nr_cus_created' = nr_cus_created + 1
    /\ cus' = Append(cus, nr_cus_created)
    /\ Goto(w, "process")
    /\ UNCHANGED <<error, job, err, history>>

nextcu_read(w) ==
    /\ error = 0
    /\ off < NrCUs
    /\ \/ "nextcu" \in Faults /\ decode_error(w, -1) /\ failed' = TRUE
                              /\ UNCHANGED <<error, dcus, stolen>>
       \/ "offdie" \in Faults /\ null_dcu(w)
       \/ create_cu_error(w)
       \/ create_cu(w)

dwarf_cus__nextcu(w) ==
    /\ pc[w] = "nextcu"
    /\ \/ nextcu_error(w)
       \/ nextcu_read(w)
       \/ error = 0 /\ off = NrCUs /\ no_more_cus(w)
    /\ UNCHANGED <<queue, abort, lsk_status, seen, main>>

\* The CU is decoded and recoded: the ticket becomes its JOB_STEAL.
die__process_and_recode(w) ==
    /\ pc[w] = "process"
    /\ job' = [job EXCEPT ![w] = StealJob(cu[w])]
    /\ Goto(w, "enqdeq")
    /\ UNCHANGED <<queue, abort, error, lsk_status, dcus, cu, err, seen, main,
                   history>>

die__process_and_recode_error(w) ==
    /\ pc[w] = "process"
    /\ "decode" \in Faults
    /\ decode_error(w, -1)
    /\ failed' = TRUE
    /\ UNCHANGED <<queue, abort, error, lsk_status, dcus, seen, main, stolen>>

\* out_error: publish the error, free the ticket and leave the loop.
out_error(w) ==
    /\ pc[w] = "fail"
    /\ error' = err[w]
    /\ job' = [job EXCEPT ![w] = NullJob]
    /\ Goto(w, "check")
    /\ UNCHANGED <<queue, abort, lsk_status, dcus, cu, err, seen, main, history>>

-----------------------------------------------------------------------------
(* A worker: JOB_STEAL                                                     *)

\* list_del() of the CU with that id
list_del(s, id) == RemoveAt(s, CHOOSE k \in 1..Len(s) : s[k] = id)

\* conf->steal() returns v, cus__steal_now() acts on it.
cus__steal_now(w) ==
    /\ pc[w] = "steal"
    /\ \E v \in Lsk :
          /\ stolen' = Append(stolen, job[w].cu)
          /\ cus' = IF v = "DELETE" THEN list_del(cus, job[w].cu) ELSE cus
          /\ IF v \in {"STOP_LOADING", "ABORT"}
             THEN lsk_status' = v /\ Goto(w, "early")
             ELSE lsk_status' = lsk_status /\ Goto(w, "inc")
    /\ UNCHANGED <<queue, abort, error, off, nr_cus_created, locals, main, failed>>

\* The next CU may be stolen, and the ticket becomes a JOB_DECODE again.
cus_queue__inc_next_cu_id(w) ==
    /\ pc[w] = "inc"
    /\ mutex = NoOwner
    /\ next_cu_id' = next_cu_id + 1
    /\ job' = [job EXCEPT ![w] = DecodeJob]
    /\ Goto(w, "enqdeq")
    /\ UNCHANGED <<mutex, jobs, abort, error, lsk_status, dcus, cu, err, seen,
                   main, history>>

-----------------------------------------------------------------------------
(* A worker leaves                                                         *)

check_error(w) ==
    /\ pc[w] = "check"
    /\ Goto(w, IF error # 0 THEN "early" ELSE "ok")
    /\ UNCHANGED <<queue, abort, error, lsk_status, dcus, locals, main, history>>

out_early(w) ==
    /\ pc[w] = "early"
    /\ abort' = TRUE
    /\ Goto(w, "signal")
    /\ UNCHANGED <<queue, error, lsk_status, dcus, locals, main, history>>

out_early_signal(w) ==
    /\ pc[w] = "signal"
    /\ pc' \in cond_signal([pc EXCEPT ![w] = "aborted"])
    /\ UNCHANGED <<queue, abort, error, lsk_status, dcus, locals, main, history>>

worker(w) ==
    \/ enqdeq_lock(w) \/ dequeue(w) \/ cond_wait(w) \/ wakeup(w)
    \/ dwarf_cus__nextcu(w)
    \/ die__process_and_recode(w) \/ die__process_and_recode_error(w)
    \/ out_error(w)
    \/ cus__steal_now(w) \/ cus_queue__inc_next_cu_id(w)
    \/ check_error(w) \/ out_early(w) \/ out_early_signal(w)

-----------------------------------------------------------------------------
(* The main thread: dwarf_cus__process_cus()                               *)

\* Variant: one ticket too many.
fill_queue_extra ==
    /\ mpc = "fill"
    /\ jobs' = [k \in 1..(dwarf_loader__decoded_cus_limit + 1) |-> DecodeJob]
    /\ mpc' = "create"
    /\ UNCHANGED <<mutex, next_cu_id, abort, error, lsk_status, dcus, pc, locals,
                   i, history>>

fill_queue ==
    /\ mpc = "fill"
    /\ \/ /\ jobs' = [k \in 1..dwarf_loader__decoded_cus_limit |-> DecodeJob]
          /\ mpc' = "create"
          /\ UNCHANGED error
       \/ /\ "calloc" \in Faults
          /\ error' = -ENOMEM
          /\ mpc' = "done"
          /\ UNCHANGED jobs
    /\ UNCHANGED <<mutex, next_cu_id, abort, lsk_status, dcus, pc, locals, i,
                   history>>

\* The new thread runs before its creator has stored the value returned.
thread_create ==
    /\ mpc = "create"
    /\ i < nr_workers
    /\ pc' = [pc EXCEPT ![i + 1] = "enqdeq"]
    /\ mpc' = "store"
    /\ UNCHANGED <<queue, abort, error, lsk_status, dcus, locals, i, history>>

thread_created ==
    /\ mpc = "store"
    /\ error' = 0
    /\ i' = i + 1
    /\ mpc' = "create"
    /\ UNCHANGED <<queue, abort, lsk_status, dcus, pc, locals, history>>

thread_create_error ==
    /\ mpc = "create"
    /\ "thread" \in Faults
    /\ i < nr_workers
    /\ error' = EAGAIN
    /\ mpc' = "join"
    /\ UNCHANGED <<queue, abort, lsk_status, dcus, pc, locals, i, history>>

all_created ==
    /\ mpc = "create"
    /\ i = nr_workers
    /\ error' = 0
    /\ mpc' = "join"
    /\ UNCHANGED <<queue, abort, lsk_status, dcus, pc, locals, i, history>>

\* Variant: the verdict of the thread is not looked at.
thread_join_ignored ==
    /\ mpc = "join"
    /\ i > 0
    /\ pc[i] \in Exited
    /\ i' = i - 1
    /\ UNCHANGED <<queue, abort, error, lsk_status, dcus, pc, locals, mpc, history>>

thread_join ==
    /\ mpc = "join"
    /\ i > 0
    /\ pc[i] \in Exited
    /\ error' = IF pc[i] = "aborted" THEN DWARF_CB_ABORT ELSE error
    /\ i' = i - 1
    /\ UNCHANGED <<queue, abort, lsk_status, dcus, pc, locals, mpc, history>>

all_joined ==
    /\ mpc = "join"
    /\ i = 0
    /\ mpc' = "done"
    /\ UNCHANGED <<queue, abort, error, lsk_status, dcus, pc, locals, i, history>>

main_thread ==
    \/ fill_queue \/ thread_create \/ thread_created \/ thread_create_error
    \/ all_created \/ thread_join \/ all_joined

Init ==
    /\ mutex = NoOwner
    /\ jobs = <<>>
    /\ next_cu_id = 0
    /\ abort = FALSE
    /\ error = 0
    /\ lsk_status = "KEEPIT"
    /\ off = 0
    /\ nr_cus_created = 0
    /\ cus = <<>>
    /\ pc = [w \in Workers |-> "unborn"]
    /\ job = [w \in Workers |-> NullJob]
    /\ cu = [w \in Workers |-> NoCu]
    /\ err = [w \in Workers |-> 0]
    /\ seen = [w \in Workers |-> FALSE]
    /\ mpc = "fill"
    /\ i = 0
    /\ stolen = <<>>
    /\ failed = FALSE

\* A null dereference in any thread ends the process.
Running == \A w \in Workers : pc[w] # "crash"

Next ==
    \/ Running /\ \E w \in Workers : worker(w) \/ spurious_wakeup(w)
    \/ Running /\ main_thread

\* Every thread that can run does run, and a mutex is not withheld forever
\* from a thread that waits for it.  Nothing makes a spurious wake-up happen.
Fairness ==
    /\ WF_vars(Running /\ main_thread)
    /\ \A w \in Workers : SF_vars(Running /\ worker(w))

Spec == Init /\ [][Next]_vars /\ Fairness

-----------------------------------------------------------------------------
(* Properties                                                              *)

CuIds == 0..(NrCUs - 1)

Jobs == {DecodeJob, NullJob} \cup {StealJob(id) : id \in CuIds}

\* Every variable of the queue, of struct dwarf_cus and of the threads stays
\* within the values its C type and its use allow.
TypeOK ==
    /\ mutex \in Workers \cup {NoOwner}
    /\ jobs \in Seq(Jobs \ {NullJob})
    /\ next_cu_id \in 0..NrCUs
    /\ abort \in BOOLEAN
    /\ error \in {0, -1, -ENOMEM, ENOMEM, EAGAIN, DWARF_CB_ABORT}
    /\ lsk_status \in {"KEEPIT", "STOP_LOADING", "ABORT"}
    /\ off \in 0..NrCUs
    /\ nr_cus_created \in 0..NrCUs
    /\ cus \in Seq(CuIds)
    /\ pc \in [Workers -> WorkerPc]
    /\ job \in [Workers -> Jobs]
    /\ cu \in [Workers -> CuIds \cup {NoCu}]
    /\ err \in [Workers -> {0, -1, -ENOMEM}]
    /\ seen \in [Workers -> BOOLEAN]
    /\ mpc \in {"fill", "create", "store", "join", "done"}
    /\ i \in 0..nr_workers
    /\ stolen \in Seq(CuIds)
    /\ failed \in BOOLEAN

\* "JOB_STEAL jobs for a CU are executed in the order of cu->id": the ids
\* handed to conf->steal() are 0, 1, 2, ... without a gap or a repetition,
\* whichever worker steals and whatever fails meanwhile.
StealsInOrder == \A k \in 1..Len(stolen) : stolen[k] = k - 1

\* "JOB_STEAL jobs always run one at a time": conf->steal(), which keeps
\* unlocked state such as the BTF encoder, is never entered by two workers.
StealOneAtATime ==
    \A v, w \in Workers : pc[v] = "steal" /\ pc[w] \in {"steal", "inc"} => v = w

\* "all JOB_STEALs are added to the head, so no viable JOB_STEAL available":
\* the early exit of the list walk at the first JOB_DECODE is justified.
StealsBeforeDecodes ==
    \A k, m \in 1..Len(jobs) :
        k < m /\ jobs[m].type = "JOB_STEAL" => jobs[k].type = "JOB_STEAL"

\* The CUs being decoded, or decoded and waiting to be stolen.
InFlight ==
    {cu[w] : w \in {v \in Workers : pc[v] = "process"}}
    \cup {job[w].cu : w \in {v \in Workers : pc[v] \in {"enqdeq", "steal"}
                                          /\ job[v].type = "JOB_STEAL"}}
    \cup {jobs[k].cu : k \in {m \in 1..Len(jobs) : jobs[m].type = "JOB_STEAL"}}

\* "Initial number of JOB_DECODE jobs in the queue is effectively a limit on
\* how many decoded CUs can be held in memory."
DecodedCusLimit == Cardinality(InFlight) <= dwarf_loader__decoded_cus_limit

\* "keep all CUs in cus->cus in the same order as in the DWARF file", also
\* while other workers remove stolen CUs from the list.
CusInFileOrder == \A k, m \in 1..Len(cus) : k < m => cus[k] < cus[m]

\* Once conf->steal() said to stop or to abort no CU is handed to it again,
\* although the remaining workers keep decoding until they run out of tickets.
NoStealAfterStop == [][lsk_status # "KEEPIT" => UNCHANGED stolen]_vars

\* What cus__load_module() returns after dwarf_cus__process_cus().
LoadResult == IF error # 0 /\ lsk_status = "ABORT" THEN error ELSE 0

\* The load of the module is reported as failed exactly when the stealer
\* asked for it with LSK__ABORT, however the workers ended.
AbortReported == mpc = "done" => (LoadResult # 0 <=> lsk_status = "ABORT")

\* When dwarf_cus__process_cus() returns success every CU of the file was
\* handed to conf->steal().
AllStolen == mpc = "done" /\ error = 0 => Len(stolen) = NrCUs

\* A unit that could not be decoded makes dwarf_cus__process_cus() fail.
DecodeErrorReported == mpc = "done" /\ failed => error # 0

\* All workers leave and the main thread joins them.
Termination == <>(mpc = "done")

-----------------------------------------------------------------------------
(* What the stealer sees is a serial load.                                 *)

Serial == INSTANCE SerialSteal WITH NrCUs <- NrCUs, stolen <- stolen, lsk_status <- lsk_status

\* Whatever the number of workers, and whatever fails, the calls made to
\* conf->steal() are those of a serial load of the same file: this is what
\* makes BTF generation reproducible.
ImplementsSerial == Serial!Spec
=============================================================================
