------------------------- MODULE DwarfWorkersProofs -------------------------
(***************************************************************************)
(* Proofs about DwarfWorkers, for every number of workers and of CUs and   *)
(* under every fault: the types, the order of the steals, their mutual     *)
(* exclusion, and that the workers implement a serial load.                *)
(***************************************************************************)
EXTENDS DwarfWorkers, SequenceTheorems, FiniteSetTheorems, TLAPS

\* The CU a worker is decoding, or has decoded and not yet stolen.
Pend(w) ==
    IF pc[w] = "process" THEN cu[w]
    ELSE IF pc[w] \in {"enqdeq", "steal"} /\ job[w].type = "JOB_STEAL"
         THEN job[w].cu
         ELSE NoCu

\* The ids of the pending CUs: not yet stolen, and at most one ticket each.
PendInv ==
    /\ \A w \in Workers : Pend(w) # NoCu =>
          Len(stolen) <= Pend(w) /\ Pend(w) < nr_cus_created
    /\ \A k \in 1..Len(jobs) : jobs[k].type = "JOB_STEAL" =>
          Len(stolen) <= jobs[k].cu /\ jobs[k].cu < nr_cus_created
    /\ \A v, w \in Workers : v # w /\ Pend(v) # NoCu => Pend(v) # Pend(w)
    /\ \A k, m \in 1..Len(jobs) :
          k # m /\ jobs[k].type = "JOB_STEAL" => jobs[k].cu # jobs[m].cu
    /\ \A k \in 1..Len(jobs), w \in Workers :
          jobs[k].type = "JOB_STEAL" => jobs[k].cu # Pend(w)

\* next_cu_id lags by one while a steal that took place is not yet counted:
\* its worker is about to count it, or its verdict ended the load.
TurnInv ==
    /\ \A w \in Workers : pc[w] = "steal" =>
          job[w].type = "JOB_STEAL" /\ job[w].cu = next_cu_id
    /\ \A v, w \in Workers : pc[v] = "inc" /\ pc[w] = "inc" => v = w
    /\ \A w \in Workers : pc[w] = "inc" => lsk_status = "KEEPIT"
    /\ \A w \in Workers : pc[w] = "inc" => Len(stolen) = next_cu_id + 1
    /\ lsk_status # "KEEPIT" => Len(stolen) = next_cu_id + 1
    /\ lsk_status = "KEEPIT" /\ (\A w \in Workers : pc[w] # "inc")
          => Len(stolen) = next_cu_id

\* What the types of the counters rest on.
LocalInv ==
    /\ nr_cus_created <= off
    /\ mpc = "store" => i < nr_workers
    /\ \A w \in Workers : pc[w] = "process" => cu[w] \in CuIds
    /\ \A w \in Workers : pc[w] = "unborn" => job[w] = NullJob
    /\ mpc = "fill" => i = 0
    /\ \A w \in Workers : w > i /\ mpc \in {"fill", "create"} => pc[w] = "unborn"
    /\ \A w \in Workers : w > i + 1 /\ mpc = "store" => pc[w] = "unborn"

\* Every id in use was given out.
CountInv ==
    /\ Len(stolen) <= nr_cus_created
    /\ \A k \in 1..Len(cus) : cus[k] < nr_cus_created

\* Every pending CU is in the list it will be removed from.
ListInv ==
    /\ \A w \in Workers : Pend(w) # NoCu => \E k \in 1..Len(cus) : cus[k] = Pend(w)
    /\ \A m \in 1..Len(jobs) : jobs[m].type = "JOB_STEAL" =>
          \E k \in 1..Len(cus) : cus[k] = jobs[m].cu

IInv ==
    /\ TypeOK
    /\ PendInv
    /\ TurnInv
    /\ LocalInv
    /\ CountInv
    /\ ListInv
    /\ StealsInOrder
    /\ StealsBeforeDecodes
    /\ CusInFileOrder

-----------------------------------------------------------------------------
(* The operators the model is built from                                   *)

\* What list_del() of the k-th element leaves.
LEMMA RemoveAtFacts ==
    ASSUME NEW S, NEW s \in Seq(S), NEW k \in 1..Len(s)
    PROVE  /\ RemoveAt(s, k) \in Seq(S)
           /\ Len(RemoveAt(s, k)) = Len(s) - 1
           /\ \A m \in 1..(Len(s) - 1) :
                 RemoveAt(s, k)[m] = IF m < k THEN s[m] ELSE s[m + 1]
<1> DEFINE a == SubSeq(s, 1, k - 1)
           b == SubSeq(s, k + 1, Len(s))
<1>1. a \in Seq(S) /\ Len(a) = k - 1 /\ \A m \in 1..(k - 1) : a[m] = s[m]
  BY SubSeqProperties, ElementOfSeq
<1>2. b \in Seq(S) /\ Len(b) = Len(s) - k /\ \A m \in 1..(Len(s) - k) : b[m] = s[m + k]
  BY SubSeqProperties, ElementOfSeq
<1>3. RemoveAt(s, k) = a \o b
  BY DEF RemoveAt
<1> HIDE DEF a, b
<1>4. /\ a \o b \in Seq(S)
      /\ Len(a \o b) = Len(a) + Len(b)
      /\ \A m \in 1..(Len(a) + Len(b)) :
            (a \o b)[m] = IF m <= Len(a) THEN a[m] ELSE b[m - Len(a)]
  BY <1>1, <1>2, ConcatProperties
<1>5. ASSUME NEW m \in 1..(Len(s) - 1)
      PROVE  (a \o b)[m] = IF m < k THEN s[m] ELSE s[m + 1]
  <2>0. m < k \/ m >= k
    BY LenProperties
  <2>1. CASE m < k
    BY <2>1, <1>1, <1>2, <1>4
  <2>2. CASE m >= k
    <3>1. (a \o b)[m] = b[m - (k - 1)]
      BY <2>2, <1>1, <1>2, <1>4
    <3>2. m - (k - 1) \in 1..(Len(s) - k) /\ (m - (k - 1)) + k = m + 1
      BY <2>2
    <3>3. b[m - (k - 1)] = s[(m - (k - 1)) + k]
      BY <3>2, <1>2
    <3> QED
      BY <2>2, <3>1, <3>2, <3>3
  <2> QED
    BY <2>0, <2>1, <2>2
<1>6. Len(a) + Len(b) = Len(s) - 1
  BY <1>1, <1>2
<1> QED
  BY <1>3, <1>4, <1>5, <1>6

\* list_add() puts the new element first and shifts the others by one.
LEMMA ListAddFacts ==
    ASSUME NEW S, NEW s \in Seq(S), NEW x \in S
    PROVE  /\ <<x>> \o s \in Seq(S)
           /\ Len(<<x>> \o s) = Len(s) + 1
           /\ (<<x>> \o s)[1] = x
           /\ \A m \in 2..(Len(s) + 1) : (<<x>> \o s)[m] = s[m - 1]
OBVIOUS

\* list_add_tail() leaves the others where they are.
LEMMA ListAddTailFacts ==
    ASSUME NEW S, NEW s \in Seq(S), NEW x \in S
    PROVE  /\ Append(s, x) \in Seq(S)
           /\ Len(Append(s, x)) = Len(s) + 1
           /\ Append(s, x)[Len(s) + 1] = x
           /\ \A m \in 1..Len(s) : Append(s, x)[m] = s[m]
OBVIOUS

\* The shapes of a job.
LEMMA JobFacts ==
    /\ DecodeJob \in Jobs \ {NullJob} /\ DecodeJob.type = "JOB_DECODE"
    /\ NullJob \in Jobs /\ NullJob.type = "JOB_NONE"
    /\ \A id \in CuIds : /\ StealJob(id) \in Jobs \ {NullJob}
                         /\ StealJob(id).type = "JOB_STEAL"
                         /\ StealJob(id).cu = id
    /\ \A j \in Jobs : j.type = "JOB_STEAL" => j.cu \in CuIds
    /\ \A j \in Jobs : j.type \in {"JOB_STEAL", "JOB_DECODE", "JOB_NONE"}
    /\ \A j \in Jobs : j.type # "JOB_STEAL" => j.cu = NoCu
    /\ \A j \in Jobs : j.type # "JOB_NONE" <=> j # NullJob
<1>1. /\ DecodeJob.type = "JOB_DECODE" /\ NullJob.type = "JOB_NONE"
      /\ DecodeJob.cu = NoCu /\ NullJob.cu = NoCu
  BY DEF DecodeJob, NullJob
<1>2. \A id \in CuIds : StealJob(id).type = "JOB_STEAL" /\ StealJob(id).cu = id
  BY DEF StealJob
<1>3. \A j \in Jobs : j = DecodeJob \/ j = NullJob \/ \E id \in CuIds : j = StealJob(id)
  BY DEF Jobs
<1>4. DecodeJob \in Jobs /\ NullJob \in Jobs /\ \A id \in CuIds : StealJob(id) \in Jobs
  BY DEF Jobs
<1>5. DecodeJob # NullJob /\ \A id \in CuIds : StealJob(id) # NullJob
  BY <1>1, <1>2
<1> QED
  BY <1>1, <1>2, <1>3, <1>4, <1>5

\* A signal only moves a waiting worker, and only to where it takes the mutex.
LEMMA SignalFacts ==
    ASSUME NEW p \in [Workers -> WorkerPc], NEW q \in cond_signal(p)
    PROVE  /\ q \in [Workers -> WorkerPc]
           /\ \A w \in Workers : q[w] = p[w] \/ (p[w] = "wait" /\ q[w] = "woken")
BY DEF cond_signal, WorkerPc

LEMMA CuIdsFacts == CuIds \subseteq Int /\ NoCu \notin CuIds
BY NrCUsAssumption DEF CuIds, NoCu

LEMMA WorkersFacts == nr_workers \in Nat \ {0} /\ Workers \subseteq Nat \ {0}
BY NrJobsAssumption DEF nr_workers, Workers

-----------------------------------------------------------------------------
(* Types                                                                   *)

LEMMA InitIInv == Init => IInv
<1> SUFFICES ASSUME Init PROVE IInv
  OBVIOUS
<1> USE NrCUsAssumption, WorkersFacts DEF Init
<1>1. TypeOK
  <2>1. jobs \in Seq(Jobs \ {NullJob}) /\ cus \in Seq(CuIds) /\ stolen \in Seq(CuIds)
    OBVIOUS
  <2>2. /\ pc \in [Workers -> WorkerPc]
        /\ job \in [Workers -> Jobs]
        /\ cu \in [Workers -> CuIds \cup {NoCu}]
        /\ err \in [Workers -> {0, -1, -ENOMEM}]
    BY JobFacts DEF WorkerPc
  <2>3. abort \in BOOLEAN /\ seen \in [Workers -> BOOLEAN] /\ failed \in BOOLEAN
    OBVIOUS
  <2> QED
    BY <2>1, <2>2, <2>3 DEF TypeOK
<1>2. \A w \in Workers : Pend(w) = NoCu
  BY DEF Pend
<1>3. PendInv /\ ListInv
  BY <1>2 DEF PendInv, ListInv
<1>4. TurnInv /\ LocalInv /\ CountInv
  BY DEF TurnInv, LocalInv, CountInv
<1>5. StealsInOrder /\ StealsBeforeDecodes /\ CusInFileOrder
  BY DEF StealsInOrder, StealsBeforeDecodes, CusInFileOrder
<1> QED
  BY <1>1, <1>3, <1>4, <1>5 DEF IInv

\* What enqueue() does to the list: a steal goes first, a ticket goes last.
LEMMA EnqueueFacts ==
    ASSUME NEW q \in Seq(Jobs \ {NullJob}), NEW j \in Jobs
    PROVE  /\ enqueue(q, j) \in Seq(Jobs \ {NullJob})
           /\ j.type = "JOB_STEAL" => enqueue(q, j) = <<j>> \o q
           /\ j.type = "JOB_DECODE" => enqueue(q, j) = Append(q, j)
           /\ j.type = "JOB_NONE" => enqueue(q, j) = q
<1>1. CASE j.type = "JOB_STEAL"
  BY <1>1, JobFacts, ListAddFacts DEF enqueue
<1>2. CASE j.type = "JOB_DECODE"
  BY <1>2, JobFacts, ListAddTailFacts DEF enqueue
<1>3. CASE j.type = "JOB_NONE"
  BY <1>3, JobFacts DEF enqueue
<1> QED
  BY <1>1, <1>2, <1>3, JobFacts

\* The actions that only move pc, and locals of known type, keep the types.
LEMMA TypeStepWorker ==
    ASSUME IInv, NEW w \in Workers, worker(w) \/ spurious_wakeup(w)
    PROVE  TypeOK' /\ LocalInv'
<1> USE NrCUsAssumption, WorkersFacts
    DEF TypeOK, LocalInv, Goto, queue, dcus, locals, main, history, WorkerPc, ENOMEM,
        EAGAIN, DWARF_CB_ABORT
<1>0. TypeOK /\ LocalInv
  BY DEF IInv
<1>1. CASE enqdeq_lock(w)
  <2>1. jobs' \in Seq(Jobs \ {NullJob})
    BY <1>0, <1>1, EnqueueFacts DEF enqdeq_lock
  <2>2. job' \in [Workers -> Jobs]
    BY <1>0, <1>1, JobFacts DEF enqdeq_lock
  <2>3. /\ pc' \in [Workers -> WorkerPc]
        /\ \A v \in Workers : pc'[v] = "process" => pc[v] = "process"
        /\ \A v \in Workers : pc'[v] = "unborn" <=> pc[v] = "unborn"
    <3> DEFINE p == [pc EXCEPT ![w] = "scan"]
    <3>1. /\ p \in [Workers -> WorkerPc]
          /\ \A v \in Workers : p[v] = "process" => pc[v] = "process"
          /\ \A v \in Workers : p[v] = "unborn" <=> pc[v] = "unborn"
      BY <1>0, <1>1 DEF enqdeq_lock
    <3>2. pc' = p \/ pc' \in cond_signal(p)
      BY <1>1 DEF enqdeq_lock
    <3> HIDE DEF p
    <3> QED
      BY <3>1, <3>2, SignalFacts
  <2> QED
    BY <1>0, <1>1, <2>1, <2>2, <2>3 DEF enqdeq_lock
<1>2. CASE dequeue(w)
  <2>1. PICK k \in 1..Len(jobs) :
           /\ job' = [job EXCEPT ![w] = jobs[k]]
           /\ jobs' = RemoveAt(jobs, k)
           /\ pc' = [pc EXCEPT ![w] = IF jobs[k].type = "JOB_DECODE" THEN "nextcu" ELSE "steal"]
    BY <1>2 DEF dequeue
  <2>2. jobs' \in Seq(Jobs \ {NullJob})
    BY <1>0, <2>1, RemoveAtFacts
  <2>3. jobs[k] \in Jobs
    BY <1>0, ElementOfSeq
  <2> QED
    BY <1>0, <1>2, <2>1, <2>2, <2>3 DEF dequeue
<1>3. CASE cond_wait(w)
  BY <1>0, <1>3 DEF cond_wait
<1>4. CASE wakeup(w)
  BY <1>0, <1>4 DEF wakeup
<1>5. CASE spurious_wakeup(w)
  BY <1>0, <1>5 DEF spurious_wakeup
<1>6. CASE dwarf_cus__nextcu(w)
  <2> USE DEF dwarf_cus__nextcu
  <2>1. CASE nextcu_error(w)
    <3>1. CASE error < 0 /\ decode_error(w, error) /\ UNCHANGED <<error, dcus, history>>
      <4>1. error \in {-1, -ENOMEM}
        BY <1>0, <3>1
      <4> QED
        BY <1>0, <1>6, <3>1, <4>1 DEF decode_error
    <3>2. CASE no_more_cus(w)
      BY <1>0, <1>6, <3>2, JobFacts DEF no_more_cus
    <3>3. CASE null_dcu(w)
      BY <1>0, <1>6, <3>3 DEF null_dcu
    <3> QED
      BY <2>1, <3>1, <3>2, <3>3 DEF nextcu_error
  <2>2. CASE error = 0 /\ off = NrCUs /\ no_more_cus(w)
    BY <1>0, <1>6, <2>2, JobFacts DEF no_more_cus
  <2>3. CASE nextcu_read(w) /\ create_cu(w)
    <3>1. nr_cus_created \in CuIds
      BY <1>0, <2>3 DEF nextcu_read, CuIds
    <3>2. cus' \in Seq(CuIds)
      BY <1>0, <2>3, <3>1, ListAddTailFacts DEF create_cu
    <3>3. nr_cus_created' \in 0..NrCUs /\ off' \in 0..NrCUs /\ nr_cus_created' <= off'
      BY <1>0, <2>3 DEF nextcu_read, create_cu
    <3> QED
      BY <1>0, <1>6, <2>3, <3>1, <3>2, <3>3 DEF create_cu
  <2>4. CASE nextcu_read(w) /\ create_cu_error(w)
    <3>1. off' \in 0..NrCUs /\ nr_cus_created' <= off'
      BY <1>0, <2>4 DEF nextcu_read, create_cu_error
    <3> QED
      BY <1>0, <1>6, <2>4, <3>1 DEF create_cu_error, decode_error
  <2>5. CASE decode_error(w, -1) /\ failed' = TRUE /\ UNCHANGED <<error, dcus, stolen>>
    BY <1>0, <1>6, <2>5 DEF decode_error
  <2>6. CASE null_dcu(w)
    BY <1>0, <1>6, <2>6 DEF null_dcu
  <2> QED
    BY <1>6, <2>1, <2>2, <2>3, <2>4, <2>5, <2>6 DEF nextcu_read
<1>7. CASE die__process_and_recode(w)
  BY <1>0, <1>7, JobFacts DEF die__process_and_recode
<1>8. CASE die__process_and_recode_error(w)
  BY <1>0, <1>8 DEF die__process_and_recode_error, decode_error
<1>9. CASE out_error(w)
  BY <1>0, <1>9, JobFacts DEF out_error
<1>10. CASE cus__steal_now(w)
  <2>1. PICK v \in Lsk :
           /\ stolen' = Append(stolen, job[w].cu)
           /\ cus' = IF v = "DELETE" THEN list_del(cus, job[w].cu) ELSE cus
           /\ IF v \in {"STOP_LOADING", "ABORT"}
              THEN lsk_status' = v /\ Goto(w, "early")
              ELSE lsk_status' = lsk_status /\ Goto(w, "inc")
    BY <1>10 DEF cus__steal_now
  <2>2. job[w].type = "JOB_STEAL" /\ job[w].cu \in CuIds /\ Pend(w) = job[w].cu /\ Pend(w) # NoCu
    BY <1>0, <1>10, JobFacts DEF IInv, TurnInv, cus__steal_now, Pend, CuIds, NoCu
  <2>3. stolen' \in Seq(CuIds)
    BY <1>0, <2>1, <2>2, ListAddTailFacts
  <2>4. \E k \in 1..Len(cus) : cus[k] = job[w].cu
    BY <2>2 DEF IInv, ListInv
  <2>5. cus' \in Seq(CuIds)
    BY <1>0, <2>1, <2>4, RemoveAtFacts DEF list_del
  <2>6. /\ lsk_status' \in {"KEEPIT", "STOP_LOADING", "ABORT"}
        /\ pc' \in [Workers -> WorkerPc]
        /\ \A u \in Workers : pc'[u] = "process" => pc[u] = "process"
    BY <1>0, <2>1
  <2> QED
    BY <1>0, <1>10, <2>3, <2>5, <2>6 DEF cus__steal_now
<1>11. CASE cus_queue__inc_next_cu_id(w)
  <2>1. next_cu_id + 1 \in 0..NrCUs
    BY <1>0, <1>11 DEF IInv, TurnInv, CountInv, cus_queue__inc_next_cu_id
  <2> QED
    BY <1>0, <1>11, <2>1, JobFacts DEF cus_queue__inc_next_cu_id
<1>12. CASE check_error(w)
  BY <1>0, <1>12 DEF check_error
<1>13. CASE out_early(w)
  BY <1>0, <1>13 DEF out_early
<1>14. CASE out_early_signal(w)
  <2> DEFINE p == [pc EXCEPT ![w] = "aborted"]
  <2>1. /\ p \in [Workers -> WorkerPc]
        /\ \A v \in Workers : p[v] = "process" => pc[v] = "process"
        /\ \A v \in Workers : p[v] = "unborn" <=> pc[v] = "unborn"
    BY <1>0, <1>14 DEF out_early_signal
  <2>2. pc' \in cond_signal(p)
    BY <1>14 DEF out_early_signal
  <2> HIDE DEF p
  <2>3. /\ pc' \in [Workers -> WorkerPc]
        /\ \A v \in Workers : pc'[v] = "process" => pc[v] = "process"
        /\ \A v \in Workers : pc'[v] = "unborn" <=> pc[v] = "unborn"
    BY <2>1, <2>2, SignalFacts
  <2> QED
    BY <1>0, <1>14, <2>3 DEF out_early_signal
<1> QED
  BY <1>1, <1>2, <1>3, <1>4, <1>5, <1>6, <1>7, <1>8, <1>9, <1>10, <1>11, <1>12, <1>13,
     <1>14 DEF worker

LEMMA TypeStepMain ==
    ASSUME IInv, main_thread
    PROVE  TypeOK' /\ LocalInv'
<1> USE NrCUsAssumption, WorkersFacts
    DEF TypeOK, LocalInv, queue, dcus, locals, history, ENOMEM, EAGAIN, DWARF_CB_ABORT
<1>0. TypeOK /\ LocalInv
  BY DEF IInv
<1>1. CASE fill_queue
  <2>1. dwarf_loader__decoded_cus_limit \in Nat
    BY NrJobsAssumption DEF dwarf_loader__decoded_cus_limit
  <2>2. jobs' \in Seq(Jobs \ {NullJob})
    <3>1. [k \in 1..dwarf_loader__decoded_cus_limit |-> DecodeJob] \in Seq(Jobs \ {NullJob})
      BY <2>1, JobFacts, IsASeq
    <3> QED
      BY <1>0, <1>1, <3>1 DEF fill_queue
  <2> QED
    BY <1>0, <1>1, <2>2 DEF fill_queue
<1>2. CASE thread_create
  BY <1>0, <1>2 DEF thread_create, Workers, WorkerPc
<1>3. CASE thread_created
  BY <1>0, <1>3 DEF thread_created
<1>4. CASE thread_create_error
  BY <1>0, <1>4 DEF thread_create_error
<1>5. CASE all_created
  BY <1>0, <1>5 DEF all_created
<1>6. CASE thread_join
  BY <1>0, <1>6 DEF thread_join
<1>7. CASE all_joined
  BY <1>0, <1>7 DEF all_joined
<1> QED
  BY <1>1, <1>2, <1>3, <1>4, <1>5, <1>6, <1>7 DEF main_thread

-----------------------------------------------------------------------------
(* The order of the steals                                                 *)

OrderInv ==
    /\ PendInv
    /\ TurnInv
    /\ CountInv
    /\ ListInv
    /\ StealsInOrder
    /\ StealsBeforeDecodes
    /\ CusInFileOrder

\* A step that leaves the queue, the list of CUs and the steals alone, and by
\* which no worker starts a steal, takes up a CU, or starts or ends a count.
Quiet ==
    /\ UNCHANGED <<jobs, stolen, next_cu_id, nr_cus_created, cus, lsk_status>>
    /\ \A w \in Workers : Pend(w)' = Pend(w) \/ Pend(w)' = NoCu
    /\ \A w \in Workers : pc'[w] = "steal" => pc[w] = "steal" /\ job'[w] = job[w]
    /\ \A w \in Workers : pc'[w] = "inc" <=> pc[w] = "inc"

LEMMA QuietStep ==
    ASSUME IInv, Quiet
    PROVE  OrderInv'
<1>1. PendInv'
  <2> USE DEF IInv, PendInv, Quiet
  <2>1. \A w \in Workers : Pend(w)' # NoCu => Pend(w)' = Pend(w)
    OBVIOUS
  <2>2. \A w \in Workers : Pend(w)' # NoCu =>
           Len(stolen') <= Pend(w)' /\ Pend(w)' < nr_cus_created'
    BY <2>1
  <2>3. \A v, w \in Workers : v # w /\ Pend(v)' # NoCu => Pend(v)' # Pend(w)'
    BY <2>1
  <2>4. \A k \in 1..Len(jobs), w \in Workers :
           jobs[k].type = "JOB_STEAL" => jobs[k].cu # Pend(w)'
    <3>1. \A k \in 1..Len(jobs) : jobs[k].type = "JOB_STEAL" => jobs[k].cu # NoCu
      BY JobFacts, ElementOfSeq DEF TypeOK, CuIds, NoCu
    <3> QED
      BY <2>1, <3>1
  <2> QED
    BY <2>2, <2>3, <2>4
<1>2. TurnInv'
  <2> USE DEF IInv, TurnInv, Quiet
  <2>1. \A w \in Workers : pc'[w] = "steal" => job'[w].type = "JOB_STEAL" /\ job'[w].cu = next_cu_id'
    OBVIOUS
  <2>2. (\A w \in Workers : pc'[w] # "inc") => \A w \in Workers : pc[w] # "inc"
    OBVIOUS
  <2> QED
    BY <2>1, <2>2
<1>3. CountInv' /\ StealsInOrder' /\ StealsBeforeDecodes' /\ CusInFileOrder'
  BY DEF IInv, CountInv, StealsInOrder, StealsBeforeDecodes, CusInFileOrder, Quiet
<1>4. ListInv'
  BY DEF IInv, ListInv, Quiet
<1> QED
  BY <1>1, <1>2, <1>3, <1>4 DEF OrderInv

\* A worker that leaves pc "process", "enqdeq" or "steal" behind drops its CU.
LEMMA QuietWorker ==
    ASSUME TypeOK, NEW w \in Workers, NEW l \in WorkerPc,
           l \notin {"process", "enqdeq", "steal", "inc"}, pc[w] # "inc",
           pc' = [pc EXCEPT ![w] = l],
           \A v \in Workers : v # w => job'[v] = job[v] /\ cu'[v] = cu[v],
           UNCHANGED <<jobs, stolen, next_cu_id, nr_cus_created, cus, lsk_status>>
    PROVE  Quiet
BY DEF Quiet, Pend, TypeOK

\* So does one that signals another.
LEMMA QuietSignal ==
    ASSUME TypeOK, NEW w \in Workers, NEW l \in WorkerPc,
           l \notin {"process", "enqdeq", "steal", "inc"}, pc[w] # "inc",
           pc' \in cond_signal([pc EXCEPT ![w] = l]),
           UNCHANGED <<job, cu>>,
           UNCHANGED <<jobs, stolen, next_cu_id, nr_cus_created, cus, lsk_status>>
    PROVE  Quiet
<1> DEFINE p == [pc EXCEPT ![w] = l]
<1>1. p \in [Workers -> WorkerPc] /\ p[w] = l /\ \A v \in Workers : v # w => p[v] = pc[v]
  BY DEF TypeOK
<1>2. pc' \in cond_signal(p)
  OBVIOUS
<1> HIDE DEF p
<1>3. \A v \in Workers : pc'[v] = p[v] \/ (p[v] = "wait" /\ pc'[v] = "woken")
  BY <1>1, <1>2, SignalFacts
<1>4. ASSUME NEW v \in Workers
      PROVE  /\ Pend(v)' = Pend(v) \/ Pend(v)' = NoCu
             /\ pc'[v] = "steal" => pc[v] = "steal" /\ job'[v] = job[v]
             /\ pc'[v] = "inc" <=> pc[v] = "inc"
  BY <1>1, <1>3 DEF Pend
<1> QED
  BY <1>4 DEF Quiet

LEMMA QuietActions ==
    ASSUME IInv, NEW w \in Workers,
           \/ cond_wait(w) \/ wakeup(w) \/ spurious_wakeup(w)
           \/ dwarf_cus__nextcu(w) /\ ~create_cu(w)
           \/ die__process_and_recode(w) \/ die__process_and_recode_error(w)
           \/ out_error(w) \/ check_error(w) \/ out_early(w) \/ out_early_signal(w)
    PROVE  Quiet
<1> USE DEF Goto, queue, dcus, locals, main, history, WorkerPc
<1>0. TypeOK
  BY DEF IInv
<1>1. CASE cond_wait(w)
  BY <1>0, <1>1, QuietWorker DEF cond_wait
<1>2. CASE wakeup(w)
  BY <1>0, <1>2, QuietWorker DEF wakeup
<1>3. CASE spurious_wakeup(w)
  BY <1>0, <1>3, QuietWorker DEF spurious_wakeup
<1>4. CASE dwarf_cus__nextcu(w) /\ ~create_cu(w)
  <2>1. /\ pc[w] = "nextcu"
        /\ \E l \in {"crash", "check", "fail"} : pc' = [pc EXCEPT ![w] = l]
        /\ \A v \in Workers : v # w => job'[v] = job[v] /\ cu'[v] = cu[v]
        /\ UNCHANGED <<jobs, stolen, next_cu_id, nr_cus_created, cus, lsk_status>>
    <3>1. CASE nextcu_error(w)
      BY <1>0, <1>4, <3>1 DEF dwarf_cus__nextcu, nextcu_error, decode_error, no_more_cus, null_dcu, TypeOK
    <3>2. CASE nextcu_read(w)
      BY <1>0, <1>4, <3>2 DEF dwarf_cus__nextcu, nextcu_read, decode_error, null_dcu, create_cu_error, TypeOK
    <3>3. CASE no_more_cus(w)
      BY <1>0, <1>4, <3>3 DEF dwarf_cus__nextcu, no_more_cus, TypeOK
    <3> QED
      BY <1>4, <3>1, <3>2, <3>3 DEF dwarf_cus__nextcu
  <2> QED
    BY <1>0, <2>1, QuietWorker
<1>5. CASE die__process_and_recode(w)
  <2>1. cu[w] \in CuIds
    BY <1>5 DEF die__process_and_recode, IInv, LocalInv
  <2>2. job' = [job EXCEPT ![w] = StealJob(cu[w])] /\ pc' = [pc EXCEPT ![w] = "enqdeq"] /\ cu' = cu
    BY <1>5 DEF die__process_and_recode
  <2>3. Pend(w)' = Pend(w)
    BY <1>0, <1>5, <2>1, <2>2, JobFacts DEF die__process_and_recode, Pend, TypeOK
  <2>4. \A v \in Workers : v # w => Pend(v)' = Pend(v)
    BY <1>0, <2>2 DEF Pend, TypeOK
  <2> QED
    BY <1>0, <1>5, <2>2, <2>3, <2>4 DEF die__process_and_recode, TypeOK, Quiet
<1>6. CASE die__process_and_recode_error(w)
  BY <1>0, <1>6, QuietWorker DEF die__process_and_recode_error, decode_error
<1>7. CASE out_error(w)
  BY <1>0, <1>7, QuietWorker DEF out_error, TypeOK
<1>8. CASE check_error(w)
  BY <1>0, <1>8, QuietWorker DEF check_error
<1>9. CASE out_early(w)
  BY <1>0, <1>9, QuietWorker DEF out_early
<1>10. CASE out_early_signal(w)
  BY <1>0, <1>10, QuietSignal DEF out_early_signal
<1> QED
  BY <1>1, <1>2, <1>3, <1>4, <1>5, <1>6, <1>7, <1>8, <1>9, <1>10

LEMMA QuietMain ==
    ASSUME IInv, main_thread, ~fill_queue
    PROVE  Quiet
<1> USE DEF queue, dcus, locals, history
<1>1. CASE thread_create
  <2>1. i + 1 \in Workers /\ pc[i + 1] = "unborn" /\ job[i + 1] = NullJob
    BY <1>1, WorkersFacts DEF thread_create, IInv, TypeOK, LocalInv, Workers
  <2>2. pc' = [pc EXCEPT ![i + 1] = "enqdeq"] /\ job' = job /\ cu' = cu
    BY <1>1 DEF thread_create
  <2>3. \A v \in Workers : Pend(v)' = Pend(v)
    BY <2>1, <2>2, JobFacts DEF Pend, IInv, TypeOK
  <2> QED
    BY <1>1, <2>1, <2>2, <2>3 DEF thread_create, Quiet, IInv, TypeOK
<1>2. CASE pc' = pc /\ UNCHANGED locals
          /\ UNCHANGED <<jobs, stolen, next_cu_id, nr_cus_created, cus, lsk_status>>
  BY <1>2 DEF Quiet, Pend
<1> QED
  BY <1>1, <1>2 DEF main_thread, thread_created, thread_create_error, all_created,
     thread_join, all_joined

\* Removing an element keeps the others and their order: position m of what is
\* left was position Shift(m, k).
Shift(m, k) == IF m < k THEN m ELSE m + 1

LEMMA ShiftFacts ==
    ASSUME NEW N \in Nat, NEW k \in 1..N
    PROVE  /\ \A m \in 1..(N - 1) : Shift(m, k) \in 1..N /\ Shift(m, k) # k
           /\ \A m, n \in 1..(N - 1) : /\ m < n => Shift(m, k) < Shift(n, k)
                                       /\ m # n => Shift(m, k) # Shift(n, k)
           /\ \A n \in 1..N : n # k => \E m \in 1..(N - 1) : Shift(m, k) = n
<1>1. ASSUME NEW n \in 1..N, n # k
      PROVE  \E m \in 1..(N - 1) : Shift(m, k) = n
  <2>1. CASE n < k
    <3>1. n \in 1..(N - 1) /\ Shift(n, k) = n
      BY <2>1 DEF Shift
    <3> QED
      BY <3>1
  <2>2. CASE n > k
    <3>1. n - 1 \in 1..(N - 1) /\ Shift(n - 1, k) = n
      BY <2>2 DEF Shift
    <3> QED
      BY <3>1
  <2> QED
    BY <1>1, <2>1, <2>2
<1>2. /\ \A m \in 1..(N - 1) : Shift(m, k) \in 1..N /\ Shift(m, k) # k
      /\ \A m, n \in 1..(N - 1) : /\ m < n => Shift(m, k) < Shift(n, k)
                                  /\ m # n => Shift(m, k) # Shift(n, k)
  BY DEF Shift
<1> QED
  BY <1>1, <1>2

LEMMA RemoveAtShift ==
    ASSUME NEW S, NEW s \in Seq(S), NEW k \in 1..Len(s)
    PROVE  \A m \in 1..(Len(s) - 1) : RemoveAt(s, k)[m] = s[Shift(m, k)]
BY RemoveAtFacts DEF Shift

LEMMA OrderStepEnqueue ==
    ASSUME IInv, NEW w \in Workers, enqdeq_lock(w)
    PROVE  OrderInv'
<1> USE DEF Goto, dcus, main, history
<1>0. TypeOK /\ PendInv /\ TurnInv /\ CountInv /\ ListInv /\ StealsInOrder
      /\ StealsBeforeDecodes /\ CusInFileOrder
  BY DEF IInv
<1>j. job[w] \in Jobs /\ Len(jobs) \in Nat
  BY <1>0, LenProperties DEF TypeOK
<1>1. \A v \in Workers : /\ v # w => job'[v] = job[v]
                         /\ cu'[v] = cu[v]
                         /\ pc'[v] = "inc" <=> pc[v] = "inc"
                         /\ pc'[v] \in {"process", "enqdeq", "steal"} <=>
                               v # w /\ pc[v] \in {"process", "enqdeq", "steal"}
                         /\ pc'[v] \in {"process", "enqdeq", "steal"} => pc'[v] = pc[v]
  <2> DEFINE p == [pc EXCEPT ![w] = "scan"]
  <2>1. p \in [Workers -> WorkerPc] /\ p[w] = "scan" /\ \A v \in Workers : v # w => p[v] = pc[v]
    BY <1>0 DEF TypeOK, WorkerPc
  <2>2. pc' = p \/ pc' \in cond_signal(p)
    BY DEF enqdeq_lock
  <2> HIDE DEF p
  <2>3. \A v \in Workers : pc'[v] = p[v] \/ (p[v] = "wait" /\ pc'[v] = "woken")
    BY <2>1, <2>2, SignalFacts
  <2>4. pc[w] = "enqdeq" /\ cu' = cu /\ job' = [job EXCEPT ![w] = NullJob]
    BY DEF enqdeq_lock
  <2> QED
    BY <1>0, <2>1, <2>3, <2>4 DEF TypeOK
<1>2. Pend(w)' = NoCu /\ \A v \in Workers : v # w => Pend(v)' = Pend(v)
  BY <1>1 DEF Pend
<1>3. UNCHANGED <<stolen, next_cu_id, nr_cus_created, cus, lsk_status>>
  BY DEF enqdeq_lock
<1>4. TurnInv'
  BY <1>0, <1>1, <1>3 DEF TurnInv
<1>5. CountInv' /\ StealsInOrder' /\ CusInFileOrder'
  BY <1>0, <1>3 DEF CountInv, StealsInOrder, CusInFileOrder
<1>6. CASE job[w].type = "JOB_NONE"
  <2>1. jobs' = jobs /\ pc' = [pc EXCEPT ![w] = "scan"]
    BY <1>0, <1>j, <1>6, EnqueueFacts DEF enqdeq_lock, TypeOK
  <2>2. Quiet
    BY <1>1, <1>2, <1>3, <2>1 DEF Quiet
  <2> QED
    BY <2>2, QuietStep
<1>7. CASE job[w].type = "JOB_DECODE"
  <2>1. jobs' = Append(jobs, job[w])
    BY <1>0, <1>j, <1>7, EnqueueFacts DEF enqdeq_lock, TypeOK
  <2>2. /\ Len(jobs') = Len(jobs) + 1
        /\ jobs'[Len(jobs) + 1] = job[w]
        /\ \A k \in 1..Len(jobs) : jobs'[k] = jobs[k]
    <3>1. jobs \in Seq(Jobs)
      BY <1>0, SeqMonotonic DEF TypeOK
    <3> QED
      BY <1>j, <2>1, <3>1, ListAddTailFacts
  <2>3. \A k \in 1..Len(jobs') : jobs'[k].type = "JOB_STEAL" =>
           k \in 1..Len(jobs) /\ jobs'[k] = jobs[k]
    BY <1>j, <1>7, <2>2
  <2>4. \A k \in 1..Len(jobs') : jobs'[k].type = "JOB_STEAL" => jobs'[k].cu \in CuIds
    BY <1>0, <2>3, JobFacts, ElementOfSeq DEF TypeOK
  <2>n. job[w].cu = NoCu
    BY <1>j, <1>7, JobFacts
  <2>5. PendInv'
    <3>1. \A k \in 1..Len(jobs'), v \in Workers : jobs'[k].type = "JOB_STEAL" => jobs'[k].cu # Pend(v)'
      BY <1>0, <1>2, <2>3, <2>4 DEF PendInv, CuIds, NoCu
    <3>2. \A k, m \in 1..Len(jobs') :
             k # m /\ jobs'[k].type = "JOB_STEAL" => jobs'[k].cu # jobs'[m].cu
      <4> SUFFICES ASSUME NEW k \in 1..Len(jobs'), NEW m \in 1..Len(jobs'), k # m,
                          jobs'[k].type = "JOB_STEAL"
                   PROVE  jobs'[k].cu # jobs'[m].cu
        OBVIOUS
      <4>1. CASE m = Len(jobs) + 1
        BY <2>2, <2>4, <2>n, <4>1 DEF CuIds, NoCu
      <4>2. CASE m \in 1..Len(jobs)
        BY <1>0, <2>2, <2>3, <4>2 DEF PendInv
      <4> QED
        BY <1>j, <2>2, <4>1, <4>2
    <3>3. \A v \in Workers : Pend(v)' # NoCu =>
             Len(stolen)' <= Pend(v)' /\ Pend(v)' < nr_cus_created'
      BY <1>0, <1>2, <1>3 DEF PendInv
    <3>4. \A k \in 1..Len(jobs') : jobs'[k].type = "JOB_STEAL" =>
             Len(stolen)' <= jobs'[k].cu /\ jobs'[k].cu < nr_cus_created'
      BY <1>0, <1>3, <2>3 DEF PendInv
    <3>5. \A u, v \in Workers : u # v /\ Pend(u)' # NoCu => Pend(u)' # Pend(v)'
      BY <1>0, <1>2 DEF PendInv
    <3> QED
      BY <3>1, <3>2, <3>3, <3>4, <3>5 DEF PendInv
  <2>6. ListInv'
    BY <1>0, <1>2, <1>3, <2>3 DEF ListInv
  <2>7. StealsBeforeDecodes'
    <3> SUFFICES ASSUME NEW k \in 1..Len(jobs'), NEW m \in 1..Len(jobs'), k < m,
                        jobs'[m].type = "JOB_STEAL"
                 PROVE  jobs'[k].type = "JOB_STEAL"
      BY DEF StealsBeforeDecodes
    <3>1. m \in 1..Len(jobs) /\ jobs'[m] = jobs[m]
      BY <2>3
    <3>2. k \in 1..Len(jobs) /\ jobs'[k] = jobs[k]
      BY <1>j, <2>2, <3>1
    <3> QED
      BY <1>0, <3>1, <3>2 DEF StealsBeforeDecodes
  <2> QED
    BY <1>4, <1>5, <2>5, <2>6, <2>7 DEF OrderInv
<1>8. CASE job[w].type = "JOB_STEAL"
  <2>1. jobs' = <<job[w]>> \o jobs
    BY <1>0, <1>j, <1>8, EnqueueFacts DEF enqdeq_lock, TypeOK
  <2>2. /\ Len(jobs') = Len(jobs) + 1
        /\ jobs'[1] = job[w]
        /\ \A k \in 2..(Len(jobs) + 1) : jobs'[k] = jobs[k - 1]
    <3>1. jobs \in Seq(Jobs)
      BY <1>0, SeqMonotonic DEF TypeOK
    <3> QED
      BY <1>j, <2>1, <3>1, ListAddFacts
  <2>3. \A k \in 1..Len(jobs') :
           \/ k = 1 /\ jobs'[k] = job[w]
           \/ k # 1 /\ k - 1 \in 1..Len(jobs) /\ jobs'[k] = jobs[k - 1]
    BY <1>j, <2>2
  <2>4. Pend(w) = job[w].cu /\ job[w].cu \in CuIds /\ Pend(w) # NoCu
    BY <1>j, <1>8, JobFacts DEF enqdeq_lock, Pend, CuIds, NoCu
  <2>5. PendInv'
    <3>1. \A v \in Workers : Pend(v)' # NoCu =>
             Len(stolen)' <= Pend(v)' /\ Pend(v)' < nr_cus_created'
      BY <1>0, <1>2, <1>3 DEF PendInv
    <3>2. \A k \in 1..Len(jobs') : jobs'[k].type = "JOB_STEAL" =>
             Len(stolen)' <= jobs'[k].cu /\ jobs'[k].cu < nr_cus_created'
      BY <1>0, <1>3, <2>3, <2>4 DEF PendInv
    <3>3. \A u, v \in Workers : u # v /\ Pend(u)' # NoCu => Pend(u)' # Pend(v)'
      BY <1>0, <1>2 DEF PendInv
    <3>4. \A k, m \in 1..Len(jobs') :
             k # m /\ jobs'[k].type = "JOB_STEAL" => jobs'[k].cu # jobs'[m].cu
      <4> SUFFICES ASSUME NEW k \in 1..Len(jobs'), NEW m \in 1..Len(jobs'), k # m,
                          jobs'[k].type = "JOB_STEAL"
                   PROVE  jobs'[k].cu # jobs'[m].cu
        OBVIOUS
      <4>1. CASE k = 1
        <5>1. m - 1 \in 1..Len(jobs) /\ jobs'[m] = jobs[m - 1]
          BY <2>3, <4>1
        <5>2. jobs[m - 1] \in Jobs
          BY <1>0, <5>1, ElementOfSeq DEF TypeOK
        <5>3. jobs[m - 1].type # "JOB_STEAL" => jobs[m - 1].cu = NoCu
          BY <5>2, JobFacts
        <5> QED
          BY <1>0, <2>2, <2>4, <4>1, <5>1, <5>3 DEF PendInv
      <4>2. CASE m = 1 /\ k # 1
        <5>1. k - 1 \in 1..Len(jobs) /\ jobs'[k] = jobs[k - 1]
          BY <2>3, <4>2
        <5>2. jobs[k - 1].cu # Pend(w)
          BY <1>0, <5>1 DEF PendInv
        <5> QED
          BY <2>2, <2>4, <4>2, <5>1, <5>2
      <4>3. CASE m # 1 /\ k # 1
        <5>1. k - 1 \in 1..Len(jobs) /\ jobs'[k] = jobs[k - 1]
          BY <2>3, <4>3
        <5>2. m - 1 \in 1..Len(jobs) /\ jobs'[m] = jobs[m - 1]
          BY <2>3, <4>3
        <5>3. k - 1 # m - 1 /\ jobs[k - 1].type = "JOB_STEAL"
          BY <5>1
        <5>4. jobs[k - 1].cu # jobs[m - 1].cu
          BY <1>0, <5>1, <5>2, <5>3 DEF PendInv
        <5> QED
          BY <5>1, <5>2, <5>4
      <4> QED
        BY <4>1, <4>2, <4>3
    <3>5. \A k \in 1..Len(jobs'), v \in Workers : jobs'[k].type = "JOB_STEAL" => jobs'[k].cu # Pend(v)'
      <4> SUFFICES ASSUME NEW k \in 1..Len(jobs'), NEW v \in Workers,
                          jobs'[k].type = "JOB_STEAL"
                   PROVE  jobs'[k].cu # Pend(v)'
        OBVIOUS
      <4>1. CASE k = 1
        BY <1>0, <1>2, <2>2, <2>4, <4>1 DEF PendInv
      <4>2. CASE k # 1
        <5>1. k - 1 \in 1..Len(jobs) /\ jobs'[k] = jobs[k - 1]
          BY <2>3, <4>2
        <5>2. jobs[k - 1].cu \in CuIds
          BY <1>0, <5>1, JobFacts, ElementOfSeq DEF TypeOK
        <5> QED
          BY <1>0, <1>2, <5>1, <5>2 DEF PendInv, CuIds, NoCu
      <4> QED
        BY <4>1, <4>2
    <3> QED
      BY <3>1, <3>2, <3>3, <3>4, <3>5 DEF PendInv
  <2>6. ListInv'
    <3>1. \A v \in Workers : Pend(v)' # NoCu => \E k \in 1..Len(cus) : cus[k] = Pend(v)'
      BY <1>0, <1>2 DEF ListInv
    <3>2. ASSUME NEW m \in 1..Len(jobs'), jobs'[m].type = "JOB_STEAL"
          PROVE  \E k \in 1..Len(cus) : cus[k] = jobs'[m].cu
      <4>1. CASE jobs'[m] = job[w]
        BY <1>0, <2>4, <4>1 DEF ListInv
      <4>2. CASE m - 1 \in 1..Len(jobs) /\ jobs'[m] = jobs[m - 1]
        BY <1>0, <3>2, <4>2 DEF ListInv
      <4> QED
        BY <2>3, <4>1, <4>2
    <3> QED
      BY <1>3, <3>1, <3>2 DEF ListInv
  <2>7. StealsBeforeDecodes'
    <3> SUFFICES ASSUME NEW k \in 1..Len(jobs'), NEW m \in 1..Len(jobs'), k < m,
                        jobs'[m].type = "JOB_STEAL"
                 PROVE  jobs'[k].type = "JOB_STEAL"
      BY DEF StealsBeforeDecodes
    <3>1. CASE k = 1
      BY <1>8, <2>2, <3>1
    <3>2. CASE k # 1
      <4>1. /\ k - 1 \in 1..Len(jobs) /\ jobs'[k] = jobs[k - 1]
            /\ m - 1 \in 1..Len(jobs) /\ jobs'[m] = jobs[m - 1]
            /\ k - 1 < m - 1
        BY <2>3, <3>2
      <4> QED
        BY <1>0, <4>1 DEF StealsBeforeDecodes
    <3> QED
      BY <3>1, <3>2
  <2> QED
    BY <1>4, <1>5, <2>5, <2>6, <2>7 DEF OrderInv
<1> QED
  BY <1>j, <1>6, <1>7, <1>8, JobFacts

LEMMA OrderStepDequeue ==
    ASSUME IInv, NEW w \in Workers, dequeue(w)
    PROVE  OrderInv'
<1> USE DEF Goto, dcus, main, history
<1>0. TypeOK /\ PendInv /\ TurnInv /\ CountInv /\ ListInv /\ StealsInOrder
      /\ StealsBeforeDecodes /\ CusInFileOrder
  BY DEF IInv
<1>1. PICK k \in 1..Len(jobs) :
         /\ Dequeues(jobs, next_cu_id, k)
         /\ job' = [job EXCEPT ![w] = jobs[k]]
         /\ jobs' = RemoveAt(jobs, k)
         /\ pc' = [pc EXCEPT ![w] = IF jobs[k].type = "JOB_DECODE" THEN "nextcu" ELSE "steal"]
  BY DEF dequeue
<1>2. /\ pc[w] = "scan"
      /\ UNCHANGED <<next_cu_id, lsk_status, off, nr_cus_created, cus, cu, stolen>>
  BY DEF dequeue
<1>3. /\ jobs[k] \in Jobs
      /\ jobs[k].type = "JOB_DECODE" \/ (jobs[k].type = "JOB_STEAL" /\ jobs[k].cu = next_cu_id)
  BY <1>0, <1>1, ElementOfSeq DEF TypeOK, Dequeues, Viable
<1>4. /\ pc'[w] = (IF jobs[k].type = "JOB_DECODE" THEN "nextcu" ELSE "steal")
      /\ job'[w] = jobs[k]
      /\ \A v \in Workers : v # w => pc'[v] = pc[v] /\ job'[v] = job[v]
  BY <1>0, <1>1 DEF TypeOK
<1>5. /\ Pend(w) = NoCu
      /\ Pend(w)' = IF jobs[k].type = "JOB_STEAL" THEN jobs[k].cu ELSE NoCu
      /\ \A v \in Workers : v # w => Pend(v)' = Pend(v)
  BY <1>2, <1>3, <1>4 DEF Pend
<1>6. jobs \in Seq(Jobs \ {NullJob}) /\ Len(jobs) \in Nat /\ Len(jobs') = Len(jobs) - 1
  BY <1>0, <1>1, RemoveAtFacts, LenProperties DEF TypeOK
<1>7. /\ \A m \in 1..Len(jobs') :
            Shift(m, k) \in 1..Len(jobs) /\ Shift(m, k) # k /\ jobs'[m] = jobs[Shift(m, k)]
      /\ \A m, n \in 1..Len(jobs') :
            /\ m < n => Shift(m, k) < Shift(n, k)
            /\ m # n => Shift(m, k) # Shift(n, k)
  <2>1. /\ \A m \in 1..(Len(jobs) - 1) : Shift(m, k) \in 1..Len(jobs) /\ Shift(m, k) # k
        /\ \A m, n \in 1..(Len(jobs) - 1) :
              /\ m < n => Shift(m, k) < Shift(n, k)
              /\ m # n => Shift(m, k) # Shift(n, k)
    BY <1>6, ShiftFacts
  <2>2. \A m \in 1..(Len(jobs) - 1) : RemoveAt(jobs, k)[m] = jobs[Shift(m, k)]
    BY <1>6, RemoveAtShift
  <2> QED
    BY <1>1, <1>6, <2>1, <2>2
<1>8. PendInv'
  <2>1. \A v \in Workers : Pend(v)' # NoCu =>
           Len(stolen)' <= Pend(v)' /\ Pend(v)' < nr_cus_created'
    BY <1>0, <1>2, <1>5 DEF PendInv
  <2>2. \A m \in 1..Len(jobs') : jobs'[m].type = "JOB_STEAL" =>
           Len(stolen)' <= jobs'[m].cu /\ jobs'[m].cu < nr_cus_created'
    BY <1>0, <1>2, <1>7 DEF PendInv
  <2>3. \A u, v \in Workers : u # v /\ Pend(u)' # NoCu => Pend(u)' # Pend(v)'
    BY <1>0, <1>5 DEF PendInv
  <2>4. \A m, n \in 1..Len(jobs') :
           m # n /\ jobs'[m].type = "JOB_STEAL" => jobs'[m].cu # jobs'[n].cu
    BY <1>0, <1>7 DEF PendInv
  <2>5. ASSUME NEW m \in 1..Len(jobs'), NEW v \in Workers, jobs'[m].type = "JOB_STEAL"
        PROVE  jobs'[m].cu # Pend(v)'
    <3>1. CASE v # w
      BY <1>0, <1>5, <1>7, <2>5, <3>1 DEF PendInv
    <3>2. CASE v = w
      <4>1. jobs'[m].cu # NoCu
        BY <1>0, <1>5, <1>7, <2>5 DEF PendInv
      <4> QED
        BY <1>0, <1>5, <1>7, <2>5, <3>2, <4>1 DEF PendInv
    <3> QED
      BY <3>1, <3>2
  <2> QED
    BY <2>1, <2>2, <2>3, <2>4, <2>5 DEF PendInv
<1>9. TurnInv'
  <2>1. \A v \in Workers : pc'[v] = "steal" =>
           job'[v].type = "JOB_STEAL" /\ job'[v].cu = next_cu_id'
    BY <1>0, <1>2, <1>3, <1>4 DEF TurnInv
  <2>2. \A v \in Workers : pc'[v] = "inc" <=> pc[v] = "inc"
    BY <1>2, <1>4
  <2> QED
    BY <1>0, <1>2, <2>1, <2>2 DEF TurnInv
<1>10. CountInv' /\ StealsInOrder' /\ CusInFileOrder'
  BY <1>0, <1>2 DEF CountInv, StealsInOrder, CusInFileOrder
<1>11. ListInv'
  BY <1>0, <1>2, <1>5, <1>7 DEF ListInv
<1>12. StealsBeforeDecodes'
  BY <1>0, <1>7 DEF StealsBeforeDecodes
<1> QED
  BY <1>8, <1>9, <1>10, <1>11, <1>12 DEF OrderInv

LEMMA OrderStepCreate ==
    ASSUME IInv, NEW w \in Workers, dwarf_cus__nextcu(w), create_cu(w)
    PROVE  OrderInv'
<1> USE DEF Goto, queue, main, history
<1>0. TypeOK /\ PendInv /\ TurnInv /\ CountInv /\ ListInv /\ StealsInOrder
      /\ StealsBeforeDecodes /\ CusInFileOrder
  BY DEF IInv
<1>1. /\ pc[w] = "nextcu"
      /\ pc' = [pc EXCEPT ![w] = "process"]
      /\ cu' = [cu EXCEPT ![w] = nr_cus_created]
      /\ nr_cus_created' = nr_cus_created + 1
      /\ cus' = Append(cus, nr_cus_created)
      /\ UNCHANGED <<jobs, job, next_cu_id, lsk_status, stolen>>
  BY DEF dwarf_cus__nextcu, create_cu
<1>2. /\ Pend(w) = NoCu /\ Pend(w)' = nr_cus_created
      /\ \A v \in Workers : v # w => Pend(v)' = Pend(v)
  BY <1>0, <1>1 DEF Pend, TypeOK
<1>3. nr_cus_created \in Nat /\ Len(stolen) \in Nat /\ Len(cus) \in Nat
  BY <1>0, NrCUsAssumption, LenProperties DEF TypeOK
<1>4. /\ Len(cus') = Len(cus) + 1
      /\ cus'[Len(cus) + 1] = nr_cus_created
      /\ \A k \in 1..Len(cus) : cus'[k] = cus[k]
  <2>1. cus \in Seq(Int)
    BY <1>0, SeqMonotonic, CuIdsFacts DEF TypeOK
  <2> QED
    BY <1>1, <1>3, <2>1, ListAddTailFacts
<1>5. PendInv'
  <2>1. \A v \in Workers : Pend(v)' # NoCu =>
           Len(stolen)' <= Pend(v)' /\ Pend(v)' < nr_cus_created'
    <3>1. \A v \in Workers : Pend(v) # NoCu => Pend(v) \in Int
      BY <1>0, JobFacts DEF Pend, TypeOK, CuIds, NoCu
    <3> QED
      BY <1>0, <1>1, <1>2, <1>3, <3>1 DEF PendInv, CountInv
  <2>2. \A k \in 1..Len(jobs) : jobs[k].type = "JOB_STEAL" =>
           Len(stolen)' <= jobs[k].cu /\ jobs[k].cu < nr_cus_created'
    <3>1. \A k \in 1..Len(jobs) : jobs[k].type = "JOB_STEAL" => jobs[k].cu \in Int
      BY <1>0, JobFacts, ElementOfSeq DEF TypeOK, CuIds
    <3> QED
      BY <1>0, <1>1, <1>3, <3>1 DEF PendInv
  <2>3. \A u, v \in Workers : u # v /\ Pend(u)' # NoCu => Pend(u)' # Pend(v)'
    <3>1. \A v \in Workers : Pend(v) # NoCu => Pend(v) # nr_cus_created
      BY <1>0, <1>3 DEF PendInv
    <3>2. nr_cus_created # NoCu
      BY <1>3 DEF NoCu
    <3> QED
      BY <1>0, <1>2, <3>1, <3>2 DEF PendInv
  <2>4. \A k \in 1..Len(jobs), v \in Workers : jobs[k].type = "JOB_STEAL" => jobs[k].cu # Pend(v)'
    BY <1>0, <1>2, <1>3 DEF PendInv
  <2> QED
    BY <1>0, <1>1, <2>1, <2>2, <2>3, <2>4 DEF PendInv
<1>6. TurnInv'
  BY <1>0, <1>1 DEF TurnInv, TypeOK
<1>7. CountInv' /\ CusInFileOrder'
  <2>1. \A k \in 1..Len(cus') :
           \/ k = Len(cus) + 1 /\ cus'[k] = nr_cus_created
           \/ k \in 1..Len(cus) /\ cus'[k] = cus[k]
    BY <1>3, <1>4
  <2>2. \A k \in 1..Len(cus) : cus[k] \in Int
    BY <1>0, ElementOfSeq, CuIdsFacts DEF TypeOK
  <2>3. CountInv'
    BY <1>0, <1>1, <1>3, <2>1, <2>2 DEF CountInv
  <2>4. CusInFileOrder'
    <3> SUFFICES ASSUME NEW k \in 1..Len(cus'), NEW m \in 1..Len(cus'), k < m
                 PROVE  cus'[k] < cus'[m]
      BY DEF CusInFileOrder
    <3>1. k \in 1..Len(cus) /\ cus'[k] = cus[k]
      BY <1>3, <1>4, <2>1
    <3>2. CASE m = Len(cus) + 1
      BY <1>0, <1>4, <3>1, <3>2 DEF CountInv
    <3>3. CASE m \in 1..Len(cus)
      BY <1>0, <1>4, <3>1, <3>3 DEF CusInFileOrder
    <3> QED
      BY <2>1, <3>2, <3>3
  <2> QED
    BY <2>3, <2>4
<1>8. ListInv'
  <2>1. \E k \in 1..Len(cus') : cus'[k] = nr_cus_created
    BY <1>3, <1>4
  <2>2. \A id : (\E k \in 1..Len(cus) : cus[k] = id) => \E k \in 1..Len(cus') : cus'[k] = id
    BY <1>3, <1>4
  <2> QED
    BY <1>0, <1>1, <1>2, <2>1, <2>2 DEF ListInv
<1>9. StealsInOrder' /\ StealsBeforeDecodes'
  BY <1>0, <1>1 DEF StealsInOrder, StealsBeforeDecodes
<1> QED
  BY <1>5, <1>6, <1>7, <1>8, <1>9 DEF OrderInv

LEMMA OrderStepSteal ==
    ASSUME IInv, NEW w \in Workers, cus__steal_now(w)
    PROVE  /\ OrderInv'
           /\ lsk_status = "KEEPIT"
           /\ Len(stolen) < NrCUs
           /\ stolen' = Append(stolen, Len(stolen))
<1> USE DEF Goto, queue, locals, main
<1>0. TypeOK /\ PendInv /\ TurnInv /\ CountInv /\ ListInv /\ StealsInOrder
      /\ StealsBeforeDecodes /\ CusInFileOrder /\ LocalInv
  BY DEF IInv
<1> DEFINE id == job[w].cu
<1>1. PICK v \in Lsk :
         /\ stolen' = Append(stolen, id)
         /\ cus' = IF v = "DELETE" THEN list_del(cus, id) ELSE cus
         /\ IF v \in {"STOP_LOADING", "ABORT"}
            THEN lsk_status' = v /\ Goto(w, "early")
            ELSE lsk_status' = lsk_status /\ Goto(w, "inc")
  BY DEF cus__steal_now
<1>2. pc[w] = "steal" /\ UNCHANGED <<jobs, job, next_cu_id, nr_cus_created, cu>>
  BY DEF cus__steal_now
<1>3. Len(stolen) \in Nat /\ next_cu_id \in Nat /\ nr_cus_created \in Nat /\ nr_cus_created <= NrCUs
  BY <1>0, NrCUsAssumption, LenProperties DEF TypeOK
<1>4. job[w].type = "JOB_STEAL" /\ id = next_cu_id /\ id \in CuIds /\ Pend(w) = id /\ Pend(w) # NoCu
  BY <1>0, <1>2, JobFacts, CuIdsFacts DEF TurnInv, Pend, TypeOK
<1>5. Len(stolen) <= next_cu_id /\ id < nr_cus_created
  BY <1>0, <1>4 DEF PendInv
<1>6. lsk_status = "KEEPIT" /\ (\A u \in Workers : pc[u] # "inc") /\ Len(stolen) = next_cu_id
  BY <1>0, <1>3, <1>5 DEF TurnInv
<1>7. /\ Len(stolen') = Len(stolen) + 1
      /\ stolen'[Len(stolen) + 1] = id
      /\ \A k \in 1..Len(stolen) : stolen'[k] = stolen[k]
  BY <1>0, <1>1, <1>4, ListAddTailFacts DEF TypeOK
<1>8. /\ pc'[w] \in {"inc", "early"}
      /\ pc'[w] = "inc" => lsk_status' = "KEEPIT"
      /\ pc'[w] = "early" => lsk_status' # "KEEPIT"
      /\ \A u \in Workers : u # w => pc'[u] = pc[u]
  BY <1>0, <1>1, <1>6 DEF TypeOK
<1>9. Pend(w)' = NoCu /\ \A u \in Workers : u # w => Pend(u)' = Pend(u)
  BY <1>2, <1>8 DEF Pend
<1>10. PendInv'
  <2>1. \A u \in Workers : Pend(u) # NoCu => Pend(u) \in Int
    BY <1>0, JobFacts, CuIdsFacts DEF Pend, TypeOK
  <2>2. \A u \in Workers : Pend(u)' # NoCu =>
           Len(stolen') <= Pend(u)' /\ Pend(u)' < nr_cus_created'
    <3> SUFFICES ASSUME NEW u \in Workers, Pend(u)' # NoCu
                 PROVE  Len(stolen') <= Pend(u)' /\ Pend(u)' < nr_cus_created'
      OBVIOUS
    <3>1. u # w /\ Pend(u)' = Pend(u) /\ Pend(u) # NoCu
      BY <1>9
    <3>2. Pend(u) # id /\ Len(stolen) <= Pend(u) /\ Pend(u) < nr_cus_created
      BY <1>0, <1>4, <3>1 DEF PendInv
    <3> QED
      BY <1>2, <1>3, <1>4, <1>6, <1>7, <2>1, <3>1, <3>2
  <2>3. \A k \in 1..Len(jobs) : jobs[k].type = "JOB_STEAL" =>
           Len(stolen') <= jobs[k].cu /\ jobs[k].cu < nr_cus_created'
    <3> SUFFICES ASSUME NEW k \in 1..Len(jobs), jobs[k].type = "JOB_STEAL"
                 PROVE  Len(stolen') <= jobs[k].cu /\ jobs[k].cu < nr_cus_created'
      OBVIOUS
    <3>0. jobs[k] \in Jobs
      BY <1>0, ElementOfSeq DEF TypeOK
    <3>1. jobs[k].cu \in Int
      BY <3>0, JobFacts, CuIdsFacts
    <3>2. jobs[k].cu # id /\ Len(stolen) <= jobs[k].cu /\ jobs[k].cu < nr_cus_created
      BY <1>0, <1>4 DEF PendInv
    <3> QED
      BY <1>2, <1>3, <1>4, <1>6, <1>7, <3>1, <3>2
  <2>4. \A k \in 1..Len(jobs), u \in Workers : jobs[k].type = "JOB_STEAL" => jobs[k].cu # Pend(u)'
    <3>1. \A k \in 1..Len(jobs) : jobs[k].type = "JOB_STEAL" => jobs[k].cu # NoCu
      BY <1>0, JobFacts, CuIdsFacts, ElementOfSeq DEF TypeOK
    <3> QED
      BY <1>0, <1>9, <3>1 DEF PendInv
  <2>5. \A t, u \in Workers : t # u /\ Pend(t)' # NoCu => Pend(t)' # Pend(u)'
    BY <1>0, <1>9 DEF PendInv
  <2> QED
    BY <1>0, <1>2, <2>2, <2>3, <2>4, <2>5 DEF PendInv
<1>11. TurnInv'
  <2>1. \A u \in Workers : pc'[u] = "steal" =>
           job'[u].type = "JOB_STEAL" /\ job'[u].cu = next_cu_id'
    BY <1>0, <1>2, <1>8 DEF TurnInv
  <2>2. \A u \in Workers : pc'[u] = "inc" => u = w
    BY <1>6, <1>8
  <2>3. Len(stolen') = next_cu_id' + 1
    BY <1>2, <1>6, <1>7
  <2> QED
    BY <1>8, <2>1, <2>2, <2>3 DEF TurnInv
<1>12. CountInv' /\ CusInFileOrder' /\ ListInv'
  <2>0. Len(stolen') <= nr_cus_created'
    BY <1>2, <1>3, <1>4, <1>5, <1>6, <1>7
  <2>1. CASE v # "DELETE"
    BY <1>0, <1>1, <1>2, <1>9, <2>0, <2>1 DEF CountInv, CusInFileOrder, ListInv
  <2>2. CASE v = "DELETE"
    <3> DEFINE d == CHOOSE k \in 1..Len(cus) : cus[k] = id
    <3>1. d \in 1..Len(cus) /\ cus[d] = id
      BY <1>0, <1>4 DEF ListInv
    <3>2. cus' = RemoveAt(cus, d)
      BY <1>1, <2>2 DEF list_del
    <3> HIDE DEF d
    <3>3. cus \in Seq(CuIds) /\ Len(cus) \in Nat /\ Len(cus') = Len(cus) - 1
      BY <1>0, <3>1, <3>2, RemoveAtFacts, LenProperties DEF TypeOK
    <3>4. \A m \in 1..(Len(cus) - 1) : cus'[m] = cus[Shift(m, d)]
      BY <3>1, <3>2, <3>3, RemoveAtShift
    <3>5. /\ \A m \in 1..(Len(cus) - 1) : Shift(m, d) \in 1..Len(cus) /\ Shift(m, d) # d
          /\ \A m, n \in 1..(Len(cus) - 1) : m < n => Shift(m, d) < Shift(n, d)
          /\ \A n \in 1..Len(cus) : n # d => \E m \in 1..(Len(cus) - 1) : Shift(m, d) = n
      BY <3>1, <3>3, ShiftFacts
    <3>6. CountInv'
      BY <1>0, <1>2, <2>0, <3>3, <3>4, <3>5 DEF CountInv
    <3>7. CusInFileOrder'
      BY <1>0, <3>3, <3>4, <3>5 DEF CusInFileOrder
    <3>8. \A x : x # id /\ (\E n \in 1..Len(cus) : cus[n] = x) => \E m \in 1..Len(cus') : cus'[m] = x
      <4> SUFFICES ASSUME NEW x, x # id, NEW n \in 1..Len(cus), cus[n] = x
                   PROVE  \E m \in 1..Len(cus') : cus'[m] = x
        OBVIOUS
      <4>1. PICK m \in 1..(Len(cus) - 1) : Shift(m, d) = n
        BY <3>1, <3>5
      <4> QED
        BY <3>3, <3>4, <4>1
    <3>9. \A u \in Workers : Pend(u)' # NoCu => Pend(u)' = Pend(u) /\ Pend(u) # id
      BY <1>0, <1>4, <1>9 DEF PendInv
    <3>10. \A m \in 1..Len(jobs) : jobs[m].type = "JOB_STEAL" => jobs[m].cu # id
      BY <1>0, <1>4 DEF PendInv
    <3>11. ListInv'
      BY <1>0, <1>2, <3>8, <3>9, <3>10 DEF ListInv
    <3> QED
      BY <3>6, <3>7, <3>11
  <2> QED
    BY <2>1, <2>2
<1>13. StealsInOrder'
  <2> SUFFICES ASSUME NEW k \in 1..Len(stolen') PROVE stolen'[k] = k - 1
    BY DEF StealsInOrder
  <2>1. CASE k = Len(stolen) + 1
    BY <1>3, <1>4, <1>6, <1>7, <2>1
  <2>2. CASE k \in 1..Len(stolen)
    BY <1>0, <1>7, <2>2 DEF StealsInOrder
  <2> QED
    BY <1>3, <1>7, <2>1, <2>2
<1>14. StealsBeforeDecodes'
  BY <1>0, <1>2 DEF StealsBeforeDecodes
<1>15. Len(stolen) < NrCUs /\ stolen' = Append(stolen, Len(stolen))
  <2>1. id = Len(stolen)
    BY <1>4, <1>6
  <2>2. Len(stolen) < NrCUs
    BY <1>3, <1>5, <2>1, NrCUsAssumption
  <2> QED
    BY <1>1, <2>1, <2>2
<1> QED
  BY <1>6, <1>10, <1>11, <1>12, <1>13, <1>14, <1>15 DEF OrderInv

LEMMA OrderStepInc ==
    ASSUME IInv, NEW w \in Workers, cus_queue__inc_next_cu_id(w)
    PROVE  OrderInv'
<1> USE DEF Goto, dcus, main, history
<1>0. TypeOK /\ PendInv /\ TurnInv /\ CountInv /\ ListInv /\ StealsInOrder
      /\ StealsBeforeDecodes /\ CusInFileOrder
  BY DEF IInv
<1>1. /\ pc[w] = "inc"
      /\ pc' = [pc EXCEPT ![w] = "enqdeq"]
      /\ job' = [job EXCEPT ![w] = DecodeJob]
      /\ next_cu_id' = next_cu_id + 1
      /\ UNCHANGED <<jobs, lsk_status, nr_cus_created, cus, cu, stolen>>
  BY DEF cus_queue__inc_next_cu_id
<1>2. lsk_status = "KEEPIT" /\ Len(stolen) = next_cu_id + 1
  BY <1>0, <1>1 DEF TurnInv
<1>3. \A v \in Workers : Pend(v)' = Pend(v)
  BY <1>0, <1>1, JobFacts DEF Pend, TypeOK
<1>4. \A v \in Workers : pc[v] # "steal"
  <2> SUFFICES ASSUME NEW v \in Workers, pc[v] = "steal" PROVE FALSE
    OBVIOUS
  <2>1. job[v].type = "JOB_STEAL" /\ job[v].cu = next_cu_id /\ job[v].cu \in CuIds
    BY <1>0, JobFacts DEF TurnInv, TypeOK
  <2>2. Len(stolen) <= next_cu_id
    BY <1>0, <2>1, CuIdsFacts DEF PendInv, Pend
  <2> QED
    BY <1>0, <1>2, <2>2 DEF TypeOK
<1>5. \A v \in Workers : pc'[v] # "steal" /\ pc'[v] # "inc"
  BY <1>0, <1>1, <1>4 DEF TurnInv, TypeOK
<1>6. TurnInv'
  BY <1>1, <1>2, <1>5 DEF TurnInv
<1>u. UNCHANGED <<jobs, nr_cus_created, cus, cu, stolen>>
  BY <1>1
<1>p. PendInv
  BY <1>0
<1>l. ListInv
  BY <1>0
<1>7. PendInv' /\ ListInv'
  <2>1. PendInv'
    BY <1>p, <1>u, <1>3 DEF PendInv
  <2>2. ListInv'
    BY <1>l, <1>u, <1>3 DEF ListInv
  <2> QED
    BY <2>1, <2>2
<1>8. CountInv' /\ StealsInOrder' /\ StealsBeforeDecodes' /\ CusInFileOrder'
  BY <1>0, <1>1 DEF CountInv, StealsInOrder, StealsBeforeDecodes, CusInFileOrder
<1> QED
  BY <1>6, <1>7, <1>8 DEF OrderInv

LEMMA OrderStepFill ==
    ASSUME IInv, fill_queue
    PROVE  OrderInv'
<1> USE DEF dcus, locals, history
<1>0. TypeOK /\ PendInv /\ TurnInv /\ CountInv /\ ListInv /\ StealsInOrder
      /\ StealsBeforeDecodes /\ CusInFileOrder
  BY DEF IInv
<1>1. UNCHANGED <<next_cu_id, lsk_status, nr_cus_created, cus, pc, job, cu, stolen>>
  BY DEF fill_queue
<1>2. CASE jobs' = jobs
  <2>1. Quiet
    BY <1>1, <1>2 DEF Quiet, Pend
  <2> QED
    BY <2>1, QuietStep
<1>3. CASE jobs' = [k \in 1..dwarf_loader__decoded_cus_limit |-> DecodeJob]
  <2>1. dwarf_loader__decoded_cus_limit \in Nat
    BY NrJobsAssumption DEF dwarf_loader__decoded_cus_limit
  <2>2. \A k \in 1..Len(jobs') : jobs'[k].type = "JOB_DECODE"
    BY <1>3, <2>1, JobFacts
  <2>3. \A v \in Workers : Pend(v)' = Pend(v)
    BY <1>1 DEF Pend
  <2>4. PendInv' /\ ListInv' /\ StealsBeforeDecodes'
    BY <1>0, <1>1, <2>2, <2>3 DEF PendInv, ListInv, StealsBeforeDecodes
  <2>5. TurnInv' /\ CountInv' /\ StealsInOrder' /\ CusInFileOrder'
    BY <1>0, <1>1 DEF TurnInv, CountInv, StealsInOrder, CusInFileOrder
  <2> QED
    BY <2>4, <2>5 DEF OrderInv
<1> QED
  BY <1>2, <1>3 DEF fill_queue

-----------------------------------------------------------------------------
(* The theorems                                                            *)

LEMMA StutterIInv ==
    ASSUME IInv, UNCHANGED vars
    PROVE  IInv'
<1> USE DEF vars, queue, dcus, locals, main, history
<1>1. \A w \in Workers : Pend(w)' = Pend(w)
  BY DEF Pend
<1>2. Quiet
  BY <1>1 DEF Quiet
<1>3. OrderInv'
  BY <1>2, QuietStep
<1>4. TypeOK' /\ LocalInv'
  BY DEF IInv, TypeOK, LocalInv
<1> QED
  BY <1>3, <1>4 DEF IInv, OrderInv

LEMMA StepIInv ==
    ASSUME IInv, [Next]_vars
    PROVE  IInv'
<1>1. ASSUME NEW w \in Workers, worker(w) \/ spurious_wakeup(w)
      PROVE  IInv'
  <2>1. TypeOK' /\ LocalInv'
    BY <1>1, TypeStepWorker
  <2>2. CASE enqdeq_lock(w)
    BY <2>1, <2>2, OrderStepEnqueue DEF IInv, OrderInv
  <2>3. CASE dequeue(w)
    BY <2>1, <2>3, OrderStepDequeue DEF IInv, OrderInv
  <2>4. CASE dwarf_cus__nextcu(w) /\ create_cu(w)
    BY <2>1, <2>4, OrderStepCreate DEF IInv, OrderInv
  <2>5. CASE cus__steal_now(w)
    BY <2>1, <2>5, OrderStepSteal DEF IInv, OrderInv
  <2>6. CASE cus_queue__inc_next_cu_id(w)
    BY <2>1, <2>6, OrderStepInc DEF IInv, OrderInv
  <2>7. CASE \/ cond_wait(w) \/ wakeup(w) \/ spurious_wakeup(w)
             \/ dwarf_cus__nextcu(w) /\ ~create_cu(w)
             \/ die__process_and_recode(w) \/ die__process_and_recode_error(w)
             \/ out_error(w) \/ check_error(w) \/ out_early(w) \/ out_early_signal(w)
    BY <2>1, <2>7, QuietActions, QuietStep DEF IInv, OrderInv
  <2> QED
    BY <1>1, <2>2, <2>3, <2>4, <2>5, <2>6, <2>7 DEF worker
<1>2. ASSUME main_thread
      PROVE  IInv'
  <2>1. TypeOK' /\ LocalInv'
    BY <1>2, TypeStepMain
  <2>2. CASE fill_queue
    BY <2>1, <2>2, OrderStepFill DEF IInv, OrderInv
  <2>3. CASE ~fill_queue
    BY <1>2, <2>1, <2>3, QuietMain, QuietStep DEF IInv, OrderInv
  <2> QED
    BY <2>2, <2>3
<1> QED
  BY <1>1, <1>2, StutterIInv DEF Next

\* The inductive invariant of the job/worker model.
THEOREM Invariance == Spec => []IInv
<1>1. Init => IInv
  BY InitIInv
<1>2. IInv /\ [Next]_vars => IInv'
  BY StepIInv
<1> QED
  BY <1>1, <1>2, PTL DEF Spec

\* Every variable of the queue, of struct dwarf_cus and of the threads keeps
\* its type, whatever fails: in particular no NULL job is ever queued.
THEOREM TypeCorrect == Spec => []TypeOK
<1>1. IInv => TypeOK
  BY DEF IInv
<1> QED
  BY <1>1, Invariance, PTL

\* conf->steal() is given CU 0, 1, 2, ... for any number of workers and CUs.
THEOREM StealsAreInOrder == Spec => []StealsInOrder
<1>1. IInv => StealsInOrder
  BY DEF IInv
<1> QED
  BY <1>1, Invariance, PTL

\* No two workers are ever inside conf->steal(), nor is one inside it before
\* the previous steal was counted in next_cu_id.
THEOREM StealsExclude == Spec => []StealOneAtATime
<1>1. IInv => StealOneAtATime
  <2> SUFFICES ASSUME IInv, NEW v \in Workers, NEW w \in Workers,
                      pc[v] = "steal", pc[w] \in {"steal", "inc"}
               PROVE  v = w
    BY DEF StealOneAtATime
  <2>1. Pend(v) = next_cu_id /\ Pend(v) # NoCu /\ Len(stolen) <= next_cu_id
    BY JobFacts, CuIdsFacts DEF IInv, TurnInv, TypeOK, Pend, PendInv
  <2>2. CASE pc[w] = "steal"
    <3>1. Pend(w) = next_cu_id
      BY <2>2, JobFacts DEF IInv, TurnInv, TypeOK, Pend
    <3> QED
      BY <2>1, <3>1 DEF IInv, PendInv
  <2>3. CASE pc[w] = "inc"
    BY <2>1, <2>3, NrCUsAssumption DEF IInv, TurnInv, TypeOK
  <2> QED
    BY <2>2, <2>3
<1> QED
  BY <1>1, Invariance, PTL

\* The list walk of cus_queue__try_dequeue() may stop at the first JOB_DECODE.
THEOREM DecodesComeLast == Spec => []StealsBeforeDecodes
<1>1. IInv => StealsBeforeDecodes
  BY DEF IInv
<1> QED
  BY <1>1, Invariance, PTL

\* cus->cus is in file order, while CUs are added to it and removed from it.
THEOREM ListInFileOrder == Spec => []CusInFileOrder
<1>1. IInv => CusInFileOrder
  BY DEF IInv
<1> QED
  BY <1>1, Invariance, PTL

\* Only cus__steal_now() calls conf->steal(), and it changes its verdict.
LEMMA OnlyStealSteals ==
    ASSUME IInv, [Next]_vars
    PROVE  \/ \E w \in Workers : cus__steal_now(w)
           \/ UNCHANGED <<stolen, lsk_status>>
<1> USE DEF queue, dcus, locals, main, history
<1>1. ASSUME NEW w \in Workers, worker(w) \/ spurious_wakeup(w), ~cus__steal_now(w)
      PROVE  UNCHANGED <<stolen, lsk_status>>
  <2>1. CASE dwarf_cus__nextcu(w)
    BY <2>1 DEF dwarf_cus__nextcu, nextcu_error, nextcu_read, no_more_cus, null_dcu,
       decode_error, create_cu, create_cu_error
  <2> QED
    BY <1>1, <2>1 DEF worker, enqdeq_lock, dequeue, cond_wait, wakeup, spurious_wakeup,
       die__process_and_recode, die__process_and_recode_error, out_error,
       cus_queue__inc_next_cu_id, check_error, out_early, out_early_signal
<1>2. ASSUME main_thread
      PROVE  UNCHANGED <<stolen, lsk_status>>
  BY <1>2 DEF main_thread, fill_queue, thread_create, thread_created,
     thread_create_error, all_created, thread_join, all_joined
<1> QED
  BY <1>1, <1>2 DEF Next, vars

\* After conf->steal() said stop or abort it is not called again, although
\* the other workers go on decoding.
THEOREM StopIsFinal == Spec => NoStealAfterStop
<1>1. IInv /\ [Next]_vars => [lsk_status # "KEEPIT" => UNCHANGED stolen]_vars
  BY OnlyStealSteals, OrderStepSteal
<1> QED
  BY <1>1, Invariance, PTL DEF Spec, NoStealAfterStop

\* The calls made to conf->steal() by any number of workers are those of a
\* serial load of the same file.
THEOREM WorkersImplementSerial == Spec => ImplementsSerial
<1>1. Init => Serial!Init
  BY DEF Init, Serial!Init
<1>2. IInv /\ IInv' /\ [Next]_vars => [Serial!steal]_<<stolen, lsk_status>>
  <2> SUFFICES ASSUME IInv, IInv', [Next]_vars
               PROVE  Serial!steal \/ UNCHANGED <<stolen, lsk_status>>
    OBVIOUS
  <2>1. CASE \E w \in Workers : cus__steal_now(w)
    <3>1. lsk_status = "KEEPIT" /\ Len(stolen) < NrCUs /\ stolen' = Append(stolen, Len(stolen))
      BY <2>1, OrderStepSteal
    <3>2. lsk_status' \in {"KEEPIT", "STOP_LOADING", "ABORT"}
      BY DEF IInv, TypeOK
    <3> QED
      BY <3>1, <3>2 DEF Serial!steal
  <2> QED
    BY <2>1, OnlyStealSteals
<1> QED
  BY <1>1, <1>2, Invariance, PTL DEF Spec, ImplementsSerial, Serial!Spec

-----------------------------------------------------------------------------
(* What a load by workers comes to, for every number of workers and of     *)
(* CUs: an abort or a fault reaches the caller, a section that loads       *)
(* without a fault is stolen to its last CU, and no more CUs are ever held *)
(* than there were tickets to decode.  The inductive invariant OInv rests  *)
(* on IInv.                                                                *)

\* The verdict of conf->steal() is not lost: a worker that gave up and is not
\* yet joined carries it, or the main thread has seen an error.
VerdictInv ==
    lsk_status # "KEEPIT" =>
        \/ \E w \in Workers : /\ pc[w] \in {"early", "signal", "aborted"}
                              /\ mpc \in {"join", "done"} => w <= i
        \/ mpc \in {"join", "done"} /\ error # 0

\* A worker that was joined, or never created, runs no more; without an error
\* they all left by the end of their loop.
JoinInv ==
    /\ mpc = "done" => i = 0
    /\ mpc \in {"join", "done"} =>
          \A w \in Workers : w > i =>
              /\ pc[w] \in {"unborn", "ok", "aborted"}
              /\ error = 0 => pc[w] = "ok"

\* What out_error publishes is an error.
FailInv == \A w \in Workers : pc[w] = "fail" => err[w] < 0

\* As long as no unit was dropped, dcus->error is that of the main thread, a
\* worker leaves its loop because the section ended, and every unit has a CU.
ErrorInv ==
    ~failed =>
        /\ \A w \in Workers : pc[w] # "fail"
        /\ mpc \in {"fill", "create", "store"} => error = 0
        /\ mpc = "join" => error \in {0, EAGAIN, DWARF_CB_ABORT}
        /\ error = 0 => \A w \in Workers : pc[w] \in {"check", "ok"} => off = NrCUs
        /\ nr_cus_created = off

\* As long as no unit was dropped, a CU that was created and not yet stolen is
\* held by a worker or queued.
FullInv ==
    ~failed =>
        \A id \in CuIds : Len(stolen) <= id /\ id < nr_cus_created =>
            \/ \E w \in Workers : Pend(w) = id
            \/ \E k \in 1..Len(jobs) : jobs[k].type = "JOB_STEAL" /\ jobs[k].cu = id

\* The next CU does not stay in the queue while everyone waits: a worker is
\* on its way to look at the list.
AwakeInv ==
    \A k \in 1..Len(jobs) : jobs[k].type = "JOB_STEAL" /\ jobs[k].cu = next_cu_id =>
        \E w \in Workers : pc[w] \in {"enqdeq", "scan"}

\* The workers that hold a ticket
Holders == {w \in Workers : job[w].type # "JOB_NONE"}

\* A worker that decodes or steals holds a ticket, and no ticket is ever made
\* after the queue was filled.
TicketInv ==
    /\ \A w \in Workers : pc[w] \in {"nextcu", "process", "fail", "steal", "inc"} =>
          job[w].type # "JOB_NONE"
    /\ Len(jobs) + Cardinality(Holders) <= dwarf_loader__decoded_cus_limit
    /\ mpc = "fill" => jobs = <<>> /\ \A w \in Workers : job[w] = NullJob

OInv ==
    /\ VerdictInv
    /\ JoinInv
    /\ FailInv
    /\ ErrorInv
    /\ FullInv
    /\ AwakeInv
    /\ TicketInv

-----------------------------------------------------------------------------
(* What a step of a worker, or of the main thread, may change              *)

\* Where a worker may go from where it is.
Moves == {<<"enqdeq", "scan">>, <<"scan", "nextcu">>, <<"scan", "steal">>,
          <<"scan", "early">>, <<"scan", "wait">>, <<"woken", "scan">>,
          <<"wait", "woken">>, <<"nextcu", "crash">>, <<"nextcu", "check">>,
          <<"nextcu", "fail">>, <<"nextcu", "process">>, <<"process", "enqdeq">>,
          <<"process", "fail">>, <<"fail", "check">>, <<"steal", "early">>,
          <<"steal", "inc">>, <<"inc", "enqdeq">>, <<"check", "early">>,
          <<"check", "ok">>, <<"early", "signal">>, <<"signal", "aborted">>}

\* A worker only moves itself, except for the waiter it signals; it sets
\* dcus->error to an error, and the verdict only when it leaves.
WorkerEffect(w) ==
    /\ UNCHANGED <<mpc, i>>
    /\ <<pc[w], pc'[w]>> \in Moves
    /\ \A v \in Workers : v # w =>
          /\ pc'[v] = pc[v] \/ (pc[v] = "wait" /\ pc'[v] = "woken")
          /\ job'[v] = job[v] /\ cu'[v] = cu[v] /\ err'[v] = err[v]
    /\ failed => failed'
    /\ error' # error => (pc[w] = "fail" /\ error' = err[w]) \/ (error' = ENOMEM /\ failed')
    /\ lsk_status' # lsk_status => pc[w] = "steal" /\ pc'[w] = "early"
    /\ pc'[w] = "fail" => err'[w] < 0 /\ (failed' \/ error < 0)
    /\ pc'[w] = "check" /\ error = 0 => pc[w] = "fail" \/ off = NrCUs
    /\ pc'[w] = "ok" => pc[w] = "check"
    /\ ~failed' /\ nr_cus_created = off => nr_cus_created' = off'
    /\ off \in Nat /\ off <= NrCUs => off' >= off

LEMMA WorkerEffects ==
    ASSUME IInv, NEW w \in Workers, worker(w) \/ spurious_wakeup(w)
    PROVE  WorkerEffect(w)
<1> USE DEF Goto, queue, dcus, locals, main, history, WorkerPc
<1>0. TypeOK
  BY DEF IInv
<1>t. /\ off \in Nat /\ pc \in [Workers -> WorkerPc] /\ job \in [Workers -> Jobs]
      /\ cu \in [Workers -> CuIds \cup {NoCu}] /\ err \in [Workers -> {0, -1, -ENOMEM}]
      /\ error \in {0, -1, -ENOMEM, ENOMEM, EAGAIN, DWARF_CB_ABORT}
      /\ NrCUs \in Nat /\ off <= NrCUs
  BY <1>0, NrCUsAssumption DEF TypeOK
<1>1. CASE enqdeq_lock(w)
  <2> DEFINE p == [pc EXCEPT ![w] = "scan"]
  <2>1. p \in [Workers -> WorkerPc] /\ p[w] = "scan" /\ \A v \in Workers : v # w => p[v] = pc[v]
    BY <1>t
  <2>2. pc' = p \/ pc' \in cond_signal(p)
    BY <1>1 DEF enqdeq_lock
  <2> HIDE DEF p
  <2>3. \A v \in Workers : pc'[v] = p[v] \/ (p[v] = "wait" /\ pc'[v] = "woken")
    BY <2>1, <2>2, SignalFacts
  <2>4. pc[w] = "enqdeq" /\ pc'[w] = "scan"
    BY <1>1, <2>1, <2>3 DEF enqdeq_lock
  <2>5. \A v \in Workers : v # w => pc'[v] = pc[v] \/ (pc[v] = "wait" /\ pc'[v] = "woken")
    BY <2>1, <2>3
  <2> QED
    BY <1>1, <1>t, <2>4, <2>5 DEF enqdeq_lock, WorkerEffect, Moves
<1>2. CASE dequeue(w)
  BY <1>2, <1>t DEF dequeue, WorkerEffect, Moves
<1>3. CASE cond_wait(w)
  BY <1>3, <1>t DEF cond_wait, WorkerEffect, Moves
<1>4. CASE wakeup(w)
  BY <1>4, <1>t DEF wakeup, WorkerEffect, Moves
<1>5. CASE spurious_wakeup(w)
  BY <1>5, <1>t DEF spurious_wakeup, WorkerEffect, Moves
<1>6. CASE dwarf_cus__nextcu(w)
  <2> USE DEF dwarf_cus__nextcu
  <2>1. CASE error < 0 /\ decode_error(w, error) /\ UNCHANGED <<error, dcus, history>>
    BY <1>6, <1>t, <2>1 DEF decode_error, WorkerEffect, Moves
  <2>2. CASE (error = 1 \/ (error = 0 /\ off = NrCUs)) /\ no_more_cus(w)
    BY <1>6, <1>t, <2>2 DEF no_more_cus, WorkerEffect, Moves
  <2>3. CASE null_dcu(w)
    BY <1>6, <1>t, <2>3 DEF null_dcu, WorkerEffect, Moves
  <2>4. CASE decode_error(w, -1) /\ failed' = TRUE /\ UNCHANGED <<error, dcus, stolen>>
    BY <1>6, <1>t, <2>4 DEF decode_error, WorkerEffect, Moves
  <2>5. CASE create_cu_error(w)
    BY <1>6, <1>t, <2>5 DEF decode_error, create_cu_error, WorkerEffect, Moves
  <2>6. CASE create_cu(w)
    BY <1>6, <1>t, <2>6 DEF create_cu, WorkerEffect, Moves
  <2> QED
    BY <1>6, <2>1, <2>2, <2>3, <2>4, <2>5, <2>6 DEF nextcu_error, nextcu_read
<1>7. CASE die__process_and_recode(w)
  BY <1>7, <1>t DEF die__process_and_recode, WorkerEffect, Moves
<1>8. CASE die__process_and_recode_error(w)
  BY <1>8, <1>t DEF die__process_and_recode_error, decode_error, WorkerEffect, Moves
<1>9. CASE out_error(w)
  BY <1>9, <1>t DEF out_error, WorkerEffect, Moves
<1>10. CASE cus__steal_now(w)
  BY <1>10, <1>t DEF cus__steal_now, WorkerEffect, Moves
<1>11. CASE cus_queue__inc_next_cu_id(w)
  BY <1>11, <1>t DEF cus_queue__inc_next_cu_id, WorkerEffect, Moves
<1>12. CASE check_error(w)
  BY <1>12, <1>t DEF check_error, WorkerEffect, Moves
<1>13. CASE out_early(w)
  BY <1>13, <1>t DEF out_early, WorkerEffect, Moves
<1>14. CASE out_early_signal(w)
  <2> DEFINE p == [pc EXCEPT ![w] = "aborted"]
  <2>1. p \in [Workers -> WorkerPc] /\ p[w] = "aborted" /\ \A v \in Workers : v # w => p[v] = pc[v]
    BY <1>t
  <2>2. pc' \in cond_signal(p)
    BY <1>14 DEF out_early_signal
  <2> HIDE DEF p
  <2>3. \A v \in Workers : pc'[v] = p[v] \/ (p[v] = "wait" /\ pc'[v] = "woken")
    BY <2>1, <2>2, SignalFacts
  <2>4. pc[w] = "signal" /\ pc'[w] = "aborted"
    BY <1>14, <2>1, <2>3 DEF out_early_signal
  <2>5. \A v \in Workers : v # w => pc'[v] = pc[v] \/ (pc[v] = "wait" /\ pc'[v] = "woken")
    BY <2>1, <2>3
  <2> QED
    BY <1>14, <1>t, <2>4, <2>5 DEF out_early_signal, WorkerEffect, Moves
<1> QED
  BY <1>1, <1>2, <1>3, <1>4, <1>5, <1>6, <1>7, <1>8, <1>9, <1>10, <1>11, <1>12, <1>13,
     <1>14 DEF worker

LEMMA MovesFacts ==
    ASSUME NEW x, NEW y, <<x, y>> \in Moves
    PROVE  /\ x \notin {"unborn", "ok", "aborted", "crash"} /\ y # "unborn"
           /\ x = "early" => y = "signal"
           /\ x = "signal" => y = "aborted"
           /\ y = "aborted" => x = "signal"
           /\ y = "ok" => x = "check"
           /\ y = "enqdeq" => x \in {"process", "inc"}
           /\ y = "fail" => x \in {"nextcu", "process"}
           /\ y = "check" => x \in {"nextcu", "fail"}
           /\ y = "process" => x = "nextcu"
           /\ y = "inc" => x = "steal"
           /\ y \in {"nextcu", "steal"} => x = "scan"
BY DEF Moves

\* The steps of the main thread leave the queue, the CUs and the jobs alone,
\* except that it fills the queue once.
LEMMA MainEffects ==
    ASSUME IInv, main_thread
    PROVE  /\ UNCHANGED <<lsk_status, off, nr_cus_created, next_cu_id, stolen, failed>>
           /\ UNCHANGED <<job, cu, err>>
           /\ jobs' = jobs \/ fill_queue
           /\ pc' = pc \/ thread_create
           /\ mpc' = "fill" => mpc = "fill"
BY DEF main_thread, fill_queue, thread_create, thread_created, thread_create_error,
   all_created, thread_join, all_joined, queue, dcus, locals, history

\* Only workers that run no more are behind the main thread.
LEMMA MainWorkers ==
    ASSUME IInv, JoinInv, NEW w \in Workers, mpc \in {"join", "done"},
           pc[w] \notin {"unborn", "ok", "aborted"}
    PROVE  w <= i
BY WorkersFacts DEF JoinInv, IInv, TypeOK, Workers

-----------------------------------------------------------------------------
(* The verdict is reported                                                 *)

LEMMA VerdictStepWorker ==
    ASSUME IInv, VerdictInv, JoinInv, FailInv, NEW w \in Workers, WorkerEffect(w)
    PROVE  VerdictInv' /\ JoinInv' /\ FailInv'
<1>1. <<pc[w], pc'[w]>> \in Moves
  BY DEF WorkerEffect
<1>2. error # 0 => error' # 0
  BY DEF WorkerEffect, FailInv, ENOMEM
<1>3. VerdictInv'
  <2> SUFFICES ASSUME lsk_status' # "KEEPIT"
               PROVE  \/ \E v \in Workers : /\ pc'[v] \in {"early", "signal", "aborted"}
                                            /\ mpc \in {"join", "done"} => v <= i
                      \/ mpc \in {"join", "done"} /\ error' # 0
    BY DEF VerdictInv, WorkerEffect
  <2>1. CASE lsk_status' = lsk_status
    <3>1. CASE \E v \in Workers : /\ pc[v] \in {"early", "signal", "aborted"}
                                  /\ mpc \in {"join", "done"} => v <= i
      <4>1. PICK v \in Workers : /\ pc[v] \in {"early", "signal", "aborted"}
                                 /\ mpc \in {"join", "done"} => v <= i
        BY <3>1
      <4>2. CASE v = w
        BY <1>1, <4>1, <4>2, MovesFacts
      <4>3. CASE v # w
        BY <4>1, <4>3 DEF WorkerEffect
      <4> QED
        BY <4>2, <4>3
    <3> QED
      BY <1>2, <2>1, <3>1 DEF VerdictInv
  <2>2. CASE lsk_status' # lsk_status
    <3>1. pc[w] = "steal" /\ pc'[w] = "early"
      BY <2>2 DEF WorkerEffect
    <3> QED
      BY <3>1, MainWorkers
  <2> QED
    BY <2>1, <2>2
<1>4. JoinInv'
  <2>1. pc[w] \notin {"unborn", "ok", "aborted"}
    BY <1>1, MovesFacts
  <2>2. \A v \in Workers : v > i /\ mpc \in {"join", "done"} => v # w
    BY <2>1 DEF JoinInv
  <2> QED
    BY <1>2, <2>2 DEF JoinInv, WorkerEffect
<1>5. FailInv'
  BY DEF FailInv, WorkerEffect
<1> QED
  BY <1>3, <1>4, <1>5

LEMMA VerdictStepMain ==
    ASSUME IInv, VerdictInv, JoinInv, FailInv, main_thread
    PROVE  VerdictInv' /\ JoinInv' /\ FailInv'
<1> USE WorkersFacts DEF queue, dcus, locals, history, DWARF_CB_ABORT, EAGAIN, ENOMEM
<1>0. TypeOK /\ LocalInv
  BY DEF IInv
<1>t. i \in Nat /\ pc \in [Workers -> WorkerPc] /\ Workers \subseteq Nat \ {0} /\ lsk_status' = lsk_status
  BY <1>0, MainEffects DEF TypeOK
<1>1. CASE fill_queue
  BY <1>0, <1>t, <1>1 DEF fill_queue, VerdictInv, JoinInv, FailInv, LocalInv
<1>2. CASE thread_create
  <2>1. i + 1 \in Workers /\ pc[i + 1] = "unborn" /\ mpc' = "store" /\ mpc = "create"
        /\ pc' = [pc EXCEPT ![i + 1] = "enqdeq"] /\ UNCHANGED <<err, error>>
    BY <1>0, <1>2 DEF thread_create, LocalInv, TypeOK, Workers
  <2> QED
    BY <1>0, <1>t, <2>1 DEF VerdictInv, JoinInv, FailInv
<1>3. CASE thread_created
  BY <1>0, <1>t, <1>3 DEF thread_created, VerdictInv, JoinInv, FailInv
<1>4. CASE thread_create_error \/ all_created
  <2>1. \A w \in Workers : w > i => pc[w] = "unborn"
    BY <1>0, <1>4 DEF thread_create_error, all_created, LocalInv
  <2>2. all_created => \A w \in Workers : ~(w > i)
    BY <1>t DEF all_created, Workers
  <2>3. mpc = "create" /\ mpc' = "join" /\ UNCHANGED <<pc, i, err>>
    BY <1>4 DEF thread_create_error, all_created
  <2>4. VerdictInv'
    BY <1>t, <2>1, <2>3 DEF VerdictInv
  <2>5. thread_create_error => error' # 0
    BY DEF thread_create_error
  <2>6. JoinInv'
    BY <1>4, <2>1, <2>2, <2>3, <2>5 DEF JoinInv
  <2> QED
    BY <2>3, <2>4, <2>6 DEF FailInv
<1>5. CASE thread_join
  <2>1. /\ mpc = "join" /\ mpc' = "join" /\ i > 0 /\ i' = i - 1
        /\ pc[i] \in {"ok", "aborted"} /\ UNCHANGED <<pc, err>>
        /\ error' = IF pc[i] = "aborted" THEN 1 ELSE error
    BY <1>5 DEF thread_join, Exited
  <2>2. \A w \in Workers : w > i - 1 => w = i \/ w > i
    BY <1>t
  <2>3. error # 0 => error' # 0
    BY <2>1
  <2>4. VerdictInv'
    <3> SUFFICES ASSUME lsk_status # "KEEPIT", error' = 0
                 PROVE  \E w \in Workers : pc[w] \in {"early", "signal", "aborted"} /\ w <= i - 1
      BY <1>t, <2>1 DEF VerdictInv
    <3>1. PICK w \in Workers : pc[w] \in {"early", "signal", "aborted"} /\ w <= i
      BY <2>1, <2>3 DEF VerdictInv
    <3>2. w # i
      BY <2>1, <3>1
    <3> QED
      BY <1>t, <3>1, <3>2
  <2>5. JoinInv'
    <3>1. ASSUME NEW w \in Workers, w > i - 1
          PROVE  pc[w] \in {"unborn", "ok", "aborted"} /\ (error' = 0 => pc[w] = "ok")
      BY <2>1, <2>2, <2>3, <3>1 DEF JoinInv
    <3> QED
      BY <2>1, <3>1 DEF JoinInv
  <2> QED
    BY <2>1, <2>4, <2>5 DEF FailInv
<1>6. CASE all_joined
  BY <1>0, <1>t, <1>6 DEF all_joined, VerdictInv, JoinInv, FailInv
<1> QED
  BY <1>1, <1>2, <1>3, <1>4, <1>5, <1>6 DEF main_thread

-----------------------------------------------------------------------------
(* An error is reported as long as it must be                              *)

LEMMA ErrorStepWorker ==
    ASSUME IInv, IInv', JoinInv, ErrorInv, NEW w \in Workers, WorkerEffect(w)
    PROVE  ErrorInv'
<1> SUFFICES ASSUME ~failed'
             PROVE  /\ \A v \in Workers : pc'[v] # "fail"
                    /\ mpc' \in {"fill", "create", "store"} => error' = 0
                    /\ mpc' = "join" => error' \in {0, EAGAIN, DWARF_CB_ABORT}
                    /\ error' = 0 => \A v \in Workers : pc'[v] \in {"check", "ok"} => off' = NrCUs
                    /\ nr_cus_created' = off'
  BY DEF ErrorInv
<1>1. ~failed /\ ErrorInv!2 /\ <<pc[w], pc'[w]>> \in Moves /\ mpc' = mpc
  BY DEF ErrorInv, WorkerEffect
<1>2. error' = error
  BY <1>1 DEF WorkerEffect
<1>3. mpc # "done"
  <2> SUFFICES ASSUME mpc = "done" PROVE FALSE
    OBVIOUS
  <2>1. w <= 0
    BY <1>1, MovesFacts, MainWorkers DEF JoinInv
  <2> QED
    BY <2>1, WorkersFacts
<1>4. ~(error < 0)
  BY <1>1, <1>3 DEF EAGAIN, DWARF_CB_ABORT, IInv, TypeOK
<1>5. off \in Nat /\ NrCUs \in Nat /\ off <= NrCUs /\ off' \in Nat /\ off' <= NrCUs /\ off' >= off
  BY NrCUsAssumption DEF IInv, TypeOK, WorkerEffect
<1>6. ASSUME error = 0, NEW v \in Workers, pc'[v] \in {"check", "ok"}
      PROVE  off' = NrCUs
  <2>1. CASE v # w
    BY <1>1, <1>5, <1>6, <2>1 DEF WorkerEffect
  <2>2. CASE v = w
    BY <1>1, <1>5, <1>6, <2>2 DEF WorkerEffect
  <2> QED
    BY <2>1, <2>2
<1>7. \A v \in Workers : pc'[v] # "fail"
  BY <1>1, <1>4 DEF WorkerEffect
<1>8. nr_cus_created' = off'
  BY <1>1 DEF WorkerEffect
<1> QED
  BY <1>1, <1>2, <1>6, <1>7, <1>8

LEMMA ErrorStepMain ==
    ASSUME IInv, JoinInv, ErrorInv, main_thread
    PROVE  ErrorInv'
<1> USE WorkersFacts DEF queue, dcus, locals, history, DWARF_CB_ABORT, EAGAIN, ENOMEM
<1>0. TypeOK /\ LocalInv
  BY DEF IInv
<1>t. i \in Nat /\ pc \in [Workers -> WorkerPc]
      /\ UNCHANGED <<off, nr_cus_created, failed>>
  BY <1>0, MainEffects DEF TypeOK
<1>1. CASE fill_queue
  BY <1>0, <1>t, <1>1 DEF fill_queue, ErrorInv
<1>2. CASE thread_create
  <2>1. /\ mpc' = "store" /\ mpc = "create"
        /\ pc' = [pc EXCEPT ![i + 1] = "enqdeq"] /\ UNCHANGED error
    BY <1>0, <1>2 DEF thread_create
  <2> QED
    BY <1>0, <1>t, <2>1 DEF ErrorInv
<1>3. CASE thread_created
  BY <1>0, <1>t, <1>3 DEF thread_created, ErrorInv
<1>4. CASE thread_create_error
  BY <1>0, <1>t, <1>4 DEF thread_create_error, ErrorInv
<1>5. CASE all_created
  BY <1>0, <1>t, <1>5 DEF all_created, ErrorInv
<1>6. CASE thread_join
  BY <1>0, <1>t, <1>6 DEF thread_join, ErrorInv
<1>7. CASE all_joined
  BY <1>0, <1>t, <1>7 DEF all_joined, ErrorInv
<1> QED
  BY <1>1, <1>2, <1>3, <1>4, <1>5, <1>6, <1>7 DEF main_thread

-----------------------------------------------------------------------------
(* No CU is forgotten                                                      *)

\* enqueue() keeps what was queued.
LEMMA EnqueueKeeps ==
    ASSUME NEW q \in Seq(Jobs \ {NullJob}), NEW j \in Jobs
    PROVE  /\ \A k \in 1..Len(q) : \E m \in 1..Len(enqueue(q, j)) : enqueue(q, j)[m] = q[k]
           /\ j.type # "JOB_NONE" => \E m \in 1..Len(enqueue(q, j)) : enqueue(q, j)[m] = j
           /\ Len(enqueue(q, j)) = IF j.type = "JOB_NONE" THEN Len(q) ELSE Len(q) + 1
<1>0. q \in Seq(Jobs) /\ Len(q) \in Nat
  BY SeqMonotonic, LenProperties
<1>1. CASE j.type = "JOB_STEAL"
  <2>1. /\ enqueue(q, j) = <<j>> \o q
        /\ Len(<<j>> \o q) = Len(q) + 1
        /\ (<<j>> \o q)[1] = j
        /\ \A m \in 2..(Len(q) + 1) : (<<j>> \o q)[m] = q[m - 1]
    BY <1>0, <1>1, EnqueueFacts, ListAddFacts
  <2>2. ASSUME NEW k \in 1..Len(q)
        PROVE  \E m \in 1..(Len(q) + 1) : (<<j>> \o q)[m] = q[k]
    <3>1. k + 1 \in 2..(Len(q) + 1) /\ (k + 1) - 1 = k
      BY <1>0
    <3>2. (<<j>> \o q)[k + 1] = q[k]
      BY <2>1, <3>1
    <3> QED
      BY <1>0, <3>1, <3>2
  <2> QED
    BY <1>0, <1>1, <2>1, <2>2
<1>2. CASE j.type = "JOB_DECODE"
  <2>1. enqueue(q, j) = Append(q, j)
    BY <1>2, EnqueueFacts
  <2>2. /\ Len(Append(q, j)) = Len(q) + 1
        /\ Append(q, j)[Len(q) + 1] = j
        /\ \A m \in 1..Len(q) : Append(q, j)[m] = q[m]
    BY <1>0, ListAddTailFacts
  <2> QED
    BY <1>0, <1>2, <2>1, <2>2
<1>3. CASE j.type = "JOB_NONE"
  BY <1>3, EnqueueFacts
<1> QED
  BY <1>1, <1>2, <1>3, JobFacts

\* cus_queue__try_dequeue() takes one job out and leaves the others.
LEMMA DequeueKeeps ==
    ASSUME NEW q \in Seq(Jobs \ {NullJob}), NEW k \in 1..Len(q)
    PROVE  /\ Len(RemoveAt(q, k)) = Len(q) - 1
           /\ \A n \in 1..Len(q) : n # k =>
                 \E m \in 1..Len(RemoveAt(q, k)) : RemoveAt(q, k)[m] = q[n]
           /\ \A m \in 1..Len(RemoveAt(q, k)) :
                 \E n \in 1..Len(q) : n # k /\ RemoveAt(q, k)[m] = q[n]
<1>1. Len(q) \in Nat /\ Len(RemoveAt(q, k)) = Len(q) - 1
  BY RemoveAtFacts, LenProperties
<1>2. \A m \in 1..(Len(q) - 1) : RemoveAt(q, k)[m] = q[Shift(m, k)]
  BY RemoveAtShift
<1>3. /\ \A m \in 1..(Len(q) - 1) : Shift(m, k) \in 1..Len(q) /\ Shift(m, k) # k
      /\ \A n \in 1..Len(q) : n # k => \E m \in 1..(Len(q) - 1) : Shift(m, k) = n
  BY <1>1, ShiftFacts
<1>4. ASSUME NEW n \in 1..Len(q), n # k
      PROVE  \E m \in 1..(Len(q) - 1) : RemoveAt(q, k)[m] = q[n]
  <2>1. PICK m \in 1..(Len(q) - 1) : Shift(m, k) = n
    BY <1>3, <1>4
  <2> QED
    BY <1>2, <2>1
<1> QED
  BY <1>1, <1>2, <1>3, <1>4

\* A worker does not touch what the others hold.
LEMMA OthersPend ==
    ASSUME NEW w \in Workers, WorkerEffect(w), NEW v \in Workers, v # w
    PROVE  Pend(v)' = Pend(v)
BY DEF Pend, WorkerEffect

LEMMA FullStepWorker ==
    ASSUME IInv, IInv', FullInv, NEW w \in Workers, worker(w) \/ spurious_wakeup(w)
    PROVE  FullInv'
<1>0. TypeOK /\ TurnInv /\ PendInv /\ WorkerEffect(w)
  BY WorkerEffects DEF IInv
<1>t. /\ jobs \in Seq(Jobs \ {NullJob}) /\ Len(jobs) \in Nat /\ job \in [Workers -> Jobs]
      /\ Len(stolen) \in Nat /\ nr_cus_created \in Nat /\ pc \in [Workers -> WorkerPc]
      /\ NrCUs \in Nat /\ CuIds \subseteq Int
  BY <1>0, LenProperties, NrCUsAssumption DEF TypeOK, CuIds
<1>1. SUFFICES ASSUME ~failed', NEW id \in CuIds, Len(stolen') <= id, id < nr_cus_created'
               PROVE  \/ \E v \in Workers : Pend(v)' = id
                      \/ \E k \in 1..Len(jobs') : jobs'[k].type = "JOB_STEAL" /\ jobs'[k].cu = id
  BY DEF FullInv
<1>2. ~failed
  BY <1>0, <1>1 DEF WorkerEffect
<1>3. ASSUME Len(stolen) <= id, id < nr_cus_created
      PROVE  \/ \E v \in Workers : Pend(v) = id
             \/ \E k \in 1..Len(jobs) : jobs[k].type = "JOB_STEAL" /\ jobs[k].cu = id
  BY <1>2, <1>3 DEF FullInv
<1>4. CASE enqdeq_lock(w)
  <2>1. /\ pc[w] = "enqdeq" /\ jobs' = enqueue(jobs, job[w])
        /\ UNCHANGED <<stolen, nr_cus_created>>
    BY <1>4 DEF enqdeq_lock, dcus, history
  <2>2. /\ \A k \in 1..Len(jobs) : \E m \in 1..Len(jobs') : jobs'[m] = jobs[k]
        /\ job[w].type # "JOB_NONE" => \E m \in 1..Len(jobs') : jobs'[m] = job[w]
    <3> DEFINE q == enqueue(jobs, job[w])
    <3>1. job[w] \in Jobs
      BY <1>t
    <3>2. /\ \A k \in 1..Len(jobs) : \E m \in 1..Len(q) : q[m] = jobs[k]
          /\ job[w].type # "JOB_NONE" => \E m \in 1..Len(q) : q[m] = job[w]
      BY <1>t, <3>1, EnqueueKeeps
    <3> HIDE DEF q
    <3> QED
      BY <2>1, <3>2 DEF q
  <2>3. CASE Pend(w) = id
    BY <2>1, <2>2, <2>3, CuIdsFacts DEF Pend
  <2>4. ASSUME NEW v \in Workers, v # w, Pend(v) = id
        PROVE  Pend(v)' = id
    BY <1>0, <2>4, OthersPend
  <2> QED
    BY <1>1, <1>3, <2>1, <2>2, <2>3, <2>4
<1>5. CASE dequeue(w)
  <2>1. PICK k \in 1..Len(jobs) :
           /\ Viable(jobs[k], next_cu_id)
           /\ job' = [job EXCEPT ![w] = jobs[k]]
           /\ jobs' = RemoveAt(jobs, k)
           /\ pc' = [pc EXCEPT ![w] = IF jobs[k].type = "JOB_DECODE" THEN "nextcu" ELSE "steal"]
    BY <1>5 DEF dequeue, Dequeues, Goto
  <2>2. pc[w] = "scan" /\ UNCHANGED <<stolen, nr_cus_created>>
    BY <1>5 DEF dequeue, dcus, history
  <2>3. \A n \in 1..Len(jobs) : n # k => \E m \in 1..Len(jobs') : jobs'[m] = jobs[n]
    BY <1>t, <2>1, DequeueKeeps
  <2>4. ASSUME jobs[k].type = "JOB_STEAL", jobs[k].cu = id
        PROVE  Pend(w)' = id
    BY <1>t, <2>1, <2>4 DEF Pend
  <2>5. ASSUME NEW v \in Workers, Pend(v) = id
        PROVE  Pend(v)' = id
    BY <1>0, <2>2, <2>5, OthersPend, CuIdsFacts DEF Pend
  <2> QED
    BY <1>1, <1>3, <2>2, <2>3, <2>4, <2>5
<1>6. CASE dwarf_cus__nextcu(w) /\ create_cu(w)
  <2>1. /\ pc[w] = "nextcu" /\ pc' = [pc EXCEPT ![w] = "process"]
        /\ cu' = [cu EXCEPT ![w] = nr_cus_created]
        /\ nr_cus_created' = nr_cus_created + 1 /\ UNCHANGED <<jobs, stolen>>
    BY <1>6 DEF dwarf_cus__nextcu, create_cu, Goto, queue, history
  <2>2. Pend(w)' = nr_cus_created
    BY <1>0, <2>1 DEF Pend, TypeOK
  <2>3. ASSUME NEW v \in Workers, Pend(v) = id
        PROVE  Pend(v)' = id
    BY <1>0, <2>1, <2>3, OthersPend, CuIdsFacts DEF Pend
  <2>4. CASE id = nr_cus_created
    BY <2>2, <2>4
  <2>5. CASE id < nr_cus_created
    BY <1>1, <1>3, <2>1, <2>3, <2>5
  <2> QED
    BY <1>1, <1>t, <2>1, <2>4, <2>5
<1>7. CASE cus__steal_now(w)
  <2>1. /\ stolen' = Append(stolen, job[w].cu) /\ stolen' = Append(stolen, Len(stolen))
        /\ pc[w] = "steal" /\ UNCHANGED <<jobs, nr_cus_created>>
    BY <1>7, OrderStepSteal DEF cus__steal_now, queue
  <2>2. job[w].cu = Len(stolen) /\ Len(stolen') = Len(stolen) + 1
    <3>1. Append(stolen, job[w].cu)[Len(stolen) + 1] = job[w].cu
          /\ Len(Append(stolen, job[w].cu)) = Len(stolen) + 1
      <4>1. job[w].cu \in CuIds
        BY <1>0, <1>t, <2>1, JobFacts DEF TurnInv
      <4> QED
        BY <1>0, <4>1, ListAddTailFacts DEF TypeOK
    <3>2. Append(stolen, Len(stolen))[Len(stolen) + 1] = Len(stolen)
      <4>1. stolen \in Seq(Nat)
        BY <1>0, SeqMonotonic, NrCUsAssumption DEF TypeOK, CuIds
      <4> QED
        BY <1>t, <4>1, ListAddTailFacts
    <3> QED
      BY <2>1, <3>1, <3>2
  <2>3. ASSUME NEW v \in Workers, Pend(v) = id
        PROVE  Pend(v)' = id
    <3>1. v # w
      BY <1>1, <1>t, <1>0, <2>1, <2>2, <2>3 DEF Pend, TurnInv
    <3> QED
      BY <1>0, <2>3, <3>1, OthersPend
  <2> QED
    BY <1>1, <1>3, <1>t, <2>1, <2>2, <2>3
<1>8. CASE cus_queue__inc_next_cu_id(w)
  <2>1. /\ pc[w] = "inc" /\ UNCHANGED <<jobs, stolen, nr_cus_created>>
    BY <1>8 DEF cus_queue__inc_next_cu_id, dcus, history
  <2>2. ASSUME NEW v \in Workers, Pend(v) = id
        PROVE  Pend(v)' = id
    BY <1>0, <2>1, <2>2, OthersPend, CuIdsFacts DEF Pend
  <2> QED
    BY <1>1, <1>3, <2>1, <2>2
<1>9. CASE die__process_and_recode(w)
  <2>1. /\ pc[w] = "process" /\ job' = [job EXCEPT ![w] = StealJob(cu[w])]
        /\ pc' = [pc EXCEPT ![w] = "enqdeq"] /\ UNCHANGED <<jobs, stolen, nr_cus_created>>
    BY <1>9 DEF die__process_and_recode, Goto, queue, dcus, history
  <2>2. Pend(w)' = Pend(w)
    <3>1. cu[w] \in CuIds
      BY <2>1 DEF IInv, LocalInv
    <3>2. pc'[w] = "enqdeq" /\ job'[w].type = "JOB_STEAL" /\ job'[w].cu = cu[w]
      BY <1>t, <2>1, <3>1, JobFacts
    <3> QED
      BY <2>1, <3>2 DEF Pend
  <2>3. ASSUME NEW v \in Workers, Pend(v) = id
        PROVE  Pend(v)' = id
    BY <1>0, <2>2, <2>3, OthersPend
  <2> QED
    BY <1>1, <1>3, <2>1, <2>3
<1>10. CASE \/ cond_wait(w) \/ wakeup(w) \/ spurious_wakeup(w)
            \/ dwarf_cus__nextcu(w) /\ ~create_cu(w)
            \/ die__process_and_recode_error(w)
            \/ out_error(w) \/ check_error(w) \/ out_early(w) \/ out_early_signal(w)
  <2>1. UNCHANGED <<jobs, stolen, nr_cus_created>>
    BY <1>10, QuietActions DEF Quiet
  <2>2. pc[w] \notin {"enqdeq", "process", "steal"}
    BY <1>1, <1>10, <1>0 DEF cond_wait, wakeup, spurious_wakeup, dwarf_cus__nextcu,
       die__process_and_recode_error, out_error, check_error, out_early, out_early_signal
  <2>3. ASSUME NEW v \in Workers, Pend(v) = id
        PROVE  Pend(v)' = id
    BY <1>0, <2>2, <2>3, OthersPend, CuIdsFacts DEF Pend
  <2> QED
    BY <1>1, <1>3, <2>1, <2>3
<1> QED
  BY <1>4, <1>5, <1>6, <1>7, <1>8, <1>9, <1>10 DEF worker

LEMMA FullStepMain ==
    ASSUME IInv, FullInv, TicketInv, main_thread
    PROVE  FullInv'
<1>1. UNCHANGED <<stolen, nr_cus_created, failed, job, cu>>
  BY MainEffects
<1>2. \A k \in 1..Len(jobs) : k \in 1..Len(jobs') /\ jobs'[k] = jobs[k]
  <2>1. CASE fill_queue
    <3>1. jobs = <<>>
      BY <2>1 DEF fill_queue, TicketInv
    <3> QED
      BY <3>1
  <2> QED
    BY <2>1, MainEffects
<1>3. \A v \in Workers : Pend(v) # NoCu => Pend(v)' = Pend(v)
  <2>1. CASE pc' = pc
    BY <1>1, <2>1 DEF Pend
  <2>2. CASE thread_create
    <3>1. pc[i + 1] = "unborn" /\ pc' = [pc EXCEPT ![i + 1] = "enqdeq"]
      BY <2>2, WorkersFacts DEF thread_create, IInv, TypeOK, LocalInv, Workers
    <3>2. pc \in [Workers -> WorkerPc]
      BY DEF IInv, TypeOK
    <3> QED
      BY <1>1, <3>1, <3>2 DEF Pend
  <2> QED
    BY <2>1, <2>2, MainEffects
<1> QED
  BY <1>1, <1>2, <1>3, CuIdsFacts DEF FullInv

-----------------------------------------------------------------------------
(* The next CU is not left in the queue                                    *)

LEMMA AwakeStepWorker ==
    ASSUME IInv, AwakeInv, NEW w \in Workers, worker(w) \/ spurious_wakeup(w)
    PROVE  AwakeInv'
<1>0. TypeOK /\ PendInv /\ StealsBeforeDecodes /\ WorkerEffect(w)
  BY WorkerEffects DEF IInv
<1>t. /\ jobs \in Seq(Jobs \ {NullJob}) /\ Len(jobs) \in Nat /\ job \in [Workers -> Jobs]
      /\ pc \in [Workers -> WorkerPc]
  BY <1>0, LenProperties DEF TypeOK
<1>1. SUFFICES ASSUME NEW m \in 1..Len(jobs'), jobs'[m].type = "JOB_STEAL",
                      jobs'[m].cu = next_cu_id'
               PROVE  \E v \in Workers : pc'[v] \in {"enqdeq", "scan"}
  BY DEF AwakeInv
<1>2. CASE pc'[w] \in {"enqdeq", "scan"}
  BY <1>2
<1>3. ASSUME NEW v \in Workers, v # w, pc[v] \in {"enqdeq", "scan"}
      PROVE  pc'[v] \in {"enqdeq", "scan"}
  BY <1>0, <1>3 DEF WorkerEffect
<1>4. CASE dequeue(w)
  <2>1. PICK k \in 1..Len(jobs) :
           /\ Viable(jobs[k], next_cu_id)
           /\ \A n \in 1..(k - 1) : ~Viable(jobs[n], next_cu_id)
           /\ jobs' = RemoveAt(jobs, k)
    BY <1>4 DEF dequeue, Dequeues
  <2>2. PICK n \in 1..Len(jobs) : n # k /\ jobs'[m] = jobs[n]
    BY <1>t, <1>1, <2>1, DequeueKeeps
  <2>3. jobs[n].type = "JOB_STEAL" /\ jobs[n].cu = next_cu_id
    BY <1>1, <1>4, <2>2 DEF dequeue
  <2>4. k < n
    BY <1>t, <2>1, <2>2, <2>3 DEF Viable
  <2>5. jobs[k].type = "JOB_STEAL"
    BY <1>0, <2>3, <2>4 DEF StealsBeforeDecodes
  <2>6. jobs[k].cu = next_cu_id
    BY <2>1, <2>5 DEF Viable
  <2> QED
    BY <1>0, <2>2, <2>3, <2>5, <2>6 DEF PendInv
<1>5. CASE cond_wait(w)
  BY <1>1, <1>5 DEF cond_wait, NothingToDequeue, Viable
<1>6. CASE \/ spurious_wakeup(w) \/ dwarf_cus__nextcu(w)
           \/ die__process_and_recode_error(w)
           \/ out_error(w) \/ check_error(w) \/ out_early(w) \/ out_early_signal(w)
           \/ cus__steal_now(w)
  <2>1. UNCHANGED <<jobs, next_cu_id>> /\ pc[w] \notin {"enqdeq", "scan"}
    BY <1>6 DEF spurious_wakeup, dwarf_cus__nextcu, die__process_and_recode_error,
       out_error, check_error, out_early, out_early_signal, cus__steal_now, queue
  <2>2. PICK v \in Workers : pc[v] \in {"enqdeq", "scan"}
    BY <1>1, <2>1 DEF AwakeInv
  <2> QED
    BY <1>3, <2>1, <2>2
<1>7. CASE enqdeq_lock(w) \/ wakeup(w) \/ die__process_and_recode(w) \/ cus_queue__inc_next_cu_id(w)
  <2>1. pc[w] \in {"enqdeq", "woken", "process", "inc"}
    BY <1>7 DEF enqdeq_lock, wakeup, die__process_and_recode, cus_queue__inc_next_cu_id
  <2>2. CASE pc[w] = "process"
    BY <1>7, <1>t, <1>2, <2>2 DEF enqdeq_lock, wakeup, die__process_and_recode,
       cus_queue__inc_next_cu_id, Goto, WorkerPc
  <2>3. CASE pc[w] # "process"
    BY <1>0, <1>2, <2>1, <2>3 DEF WorkerEffect, Moves
  <2> QED
    BY <2>2, <2>3
<1> QED
  BY <1>4, <1>5, <1>6, <1>7 DEF worker

LEMMA AwakeStepMain ==
    ASSUME IInv, AwakeInv, main_thread
    PROVE  AwakeInv'
<1>1. next_cu_id' = next_cu_id /\ pc \in [Workers -> WorkerPc]
  BY MainEffects DEF IInv, TypeOK
<1>2. \A v \in Workers : pc[v] \in {"enqdeq", "scan"} => pc'[v] \in {"enqdeq", "scan"}
  <2>1. CASE thread_create
    BY <1>1, <2>1 DEF thread_create
  <2> QED
    BY <2>1, MainEffects
<1>3. CASE jobs' = jobs
  BY <1>1, <1>2, <1>3 DEF AwakeInv
<1>4. CASE jobs' # jobs
  <2>1. jobs' = [k \in 1..dwarf_loader__decoded_cus_limit |-> DecodeJob]
    BY <1>4, MainEffects DEF fill_queue
  <2>2. dwarf_loader__decoded_cus_limit \in Nat
    BY NrJobsAssumption DEF dwarf_loader__decoded_cus_limit
  <2>3. \A k \in 1..Len(jobs') : jobs'[k].type = "JOB_DECODE"
    BY <2>1, <2>2, JobFacts
  <2> QED
    BY <2>3 DEF AwakeInv
<1> QED
  BY <1>3, <1>4

-----------------------------------------------------------------------------
(* The tickets                                                             *)

LEMMA TicketFacts ==
    /\ IsFiniteSet(Workers)
    /\ IsFiniteSet(Holders) /\ Cardinality(Holders) \in Nat
    /\ dwarf_loader__decoded_cus_limit \in Nat
<1>1. IsFiniteSet(Workers)
  BY FS_Interval, WorkersFacts DEF Workers
<1>2. IsFiniteSet(Holders)
  BY <1>1, FS_Subset DEF Holders
<1> QED
  BY <1>1, <1>2, FS_CardinalityType, NrJobsAssumption DEF dwarf_loader__decoded_cus_limit

LEMMA TicketStepWorker ==
    ASSUME IInv, IInv', TicketInv, NEW w \in Workers, worker(w) \/ spurious_wakeup(w)
    PROVE  TicketInv'
<1>0. TypeOK /\ WorkerEffect(w) /\ <<pc[w], pc'[w]>> \in Moves
  BY WorkerEffects DEF IInv, WorkerEffect
<1>t. /\ jobs \in Seq(Jobs \ {NullJob}) /\ Len(jobs) \in Nat /\ job \in [Workers -> Jobs]
      /\ pc \in [Workers -> WorkerPc] /\ job' \in [Workers -> Jobs]
  BY <1>0, LenProperties DEF TypeOK, IInv
<1>1. mpc' # "fill"
  BY <1>0, MovesFacts, WorkersFacts DEF IInv, LocalInv, WorkerEffect, Workers, TypeOK
<1>2. \A v \in Workers : v # w => job'[v] = job[v]
  BY <1>0 DEF WorkerEffect
<1>3. CASE enqdeq_lock(w)
  <2>1. /\ pc[w] = "enqdeq" /\ jobs' = enqueue(jobs, job[w])
        /\ job' = [job EXCEPT ![w] = NullJob]
    BY <1>3 DEF enqdeq_lock
  <2>2. Holders' = Holders \ {w}
    BY <1>t, <2>1, JobFacts DEF Holders
  <2>3. Cardinality(Holders') = IF job[w].type # "JOB_NONE" THEN Cardinality(Holders) - 1
                                ELSE Cardinality(Holders)
    <3>1. Cardinality(Holders \ {w}) =
             IF w \in Holders THEN Cardinality(Holders) - 1 ELSE Cardinality(Holders)
      BY TicketFacts, FS_RemoveElement
    <3>2. w \in Holders <=> job[w].type # "JOB_NONE"
      BY DEF Holders
    <3> QED
      BY <2>2, <3>1, <3>2
  <2>4. Len(jobs') = IF job[w].type = "JOB_NONE" THEN Len(jobs) ELSE Len(jobs) + 1
    BY <1>t, <2>1, EnqueueKeeps
  <2>5. Len(jobs') + Cardinality(Holders') <= dwarf_loader__decoded_cus_limit
    BY <1>t, <2>3, <2>4, TicketFacts DEF TicketInv
  <2>6. pc'[w] = "scan"
    BY <1>0, <2>1 DEF Moves
  <2> QED
    BY <1>0, <1>1, <2>5, <2>6 DEF TicketInv, WorkerEffect
<1>4. CASE dequeue(w)
  <2>1. PICK k \in 1..Len(jobs) :
           /\ job' = [job EXCEPT ![w] = jobs[k]]
           /\ jobs' = RemoveAt(jobs, k)
    BY <1>4 DEF dequeue
  <2>2. jobs[k] \in Jobs /\ jobs[k].type # "JOB_NONE"
    BY <1>t, ElementOfSeq, JobFacts
  <2>3. Holders' = Holders \cup {w}
    BY <1>t, <2>1, <2>2 DEF Holders
  <2>4. Cardinality(Holders') <= Cardinality(Holders) + 1
    <3>1. Cardinality(Holders \cup {w}) =
             IF w \in Holders THEN Cardinality(Holders) ELSE Cardinality(Holders) + 1
      BY TicketFacts, FS_AddElement
    <3> QED
      BY <2>3, <3>1, TicketFacts
  <2>5. Len(jobs') = Len(jobs) - 1
    BY <1>t, <2>1, DequeueKeeps
  <2>6. Len(jobs') + Cardinality(Holders') <= dwarf_loader__decoded_cus_limit
    <3>1. Cardinality(Holders') \in Nat
      BY <2>3, TicketFacts, FS_AddElement, FS_CardinalityType
    <3> QED
      BY <1>t, <2>4, <2>5, <3>1, TicketFacts DEF TicketInv
  <2>7. job'[w].type # "JOB_NONE"
    BY <1>t, <2>1, <2>2
  <2> QED
    BY <1>0, <1>1, <2>6, <2>7 DEF TicketInv, WorkerEffect
<1>5. CASE ~enqdeq_lock(w) /\ ~dequeue(w)
  <2>1. jobs' = jobs
    BY <1>5 DEF worker, spurious_wakeup, dwarf_cus__nextcu, die__process_and_recode_error,
       die__process_and_recode, cond_wait, wakeup, cus_queue__inc_next_cu_id,
       out_error, check_error, out_early, out_early_signal, cus__steal_now, queue
  <2>2. /\ job'[w].type # "JOB_NONE" => job[w].type # "JOB_NONE"
        /\ pc'[w] \in {"nextcu", "process", "fail", "steal", "inc"} => job'[w].type # "JOB_NONE"
    <3>1. CASE dwarf_cus__nextcu(w)
      <4>1. job' = job \/ (job' = [job EXCEPT ![w] = NullJob] /\ pc' = [pc EXCEPT ![w] = "check"])
        BY <3>1 DEF dwarf_cus__nextcu, nextcu_error, nextcu_read, no_more_cus, null_dcu,
           decode_error, create_cu, create_cu_error, Goto
      <4> QED
        BY <1>t, <3>1, <4>1, JobFacts DEF dwarf_cus__nextcu, TicketInv, WorkerPc
    <3>2. CASE die__process_and_recode(w)
      BY <1>t, <3>2, JobFacts DEF die__process_and_recode, TicketInv, Goto, WorkerPc
    <3>3. CASE die__process_and_recode_error(w)
      BY <3>3 DEF die__process_and_recode_error, decode_error, TicketInv
    <3>4. CASE out_error(w)
      BY <1>t, <3>4, JobFacts DEF out_error, Goto, WorkerPc
    <3>5. CASE cus_queue__inc_next_cu_id(w)
      BY <1>t, <3>5 DEF cus_queue__inc_next_cu_id, TicketInv, Goto, WorkerPc
    <3>6. CASE cus__steal_now(w)
      BY <3>6 DEF cus__steal_now, TicketInv, locals
    <3>7. CASE cond_wait(w) \/ wakeup(w) \/ spurious_wakeup(w) \/ check_error(w)
               \/ out_early(w) \/ out_early_signal(w)
      <4>1. job' = job /\ pc[w] \in {"scan", "woken", "wait", "check", "early", "signal"}
        BY <3>7 DEF cond_wait, wakeup, spurious_wakeup, check_error, out_early,
           out_early_signal, locals
      <4>2. ~(pc[w] = "scan" /\ pc'[w] \in {"nextcu", "steal"})
        BY <1>t, <3>7 DEF cond_wait, wakeup, spurious_wakeup, check_error, out_early,
           out_early_signal, Goto, WorkerPc
      <4> QED
        BY <1>0, <4>1, <4>2 DEF Moves
    <3> QED
      BY <1>5, <3>1, <3>2, <3>3, <3>4, <3>5, <3>6, <3>7 DEF worker
  <2>3. Holders' \in SUBSET Holders
    BY <1>2, <2>2 DEF Holders
  <2>4. Cardinality(Holders') <= Cardinality(Holders) /\ Cardinality(Holders') \in Nat
    BY <2>3, TicketFacts, FS_Subset, FS_CardinalityType
  <2>5. Len(jobs') + Cardinality(Holders') <= dwarf_loader__decoded_cus_limit
    BY <1>t, <2>1, <2>4, TicketFacts DEF TicketInv
  <2> QED
    BY <1>0, <1>1, <2>2, <2>5 DEF TicketInv, WorkerEffect
<1> QED
  BY <1>3, <1>4, <1>5

LEMMA TicketStepMain ==
    ASSUME IInv, TicketInv, main_thread
    PROVE  TicketInv'
<1>1. job' = job /\ (mpc' = "fill" => mpc = "fill") /\ pc \in [Workers -> WorkerPc]
  BY MainEffects DEF IInv, TypeOK
<1>2. Holders' = Holders
  BY <1>1 DEF Holders
<1>3. \A v \in Workers : pc'[v] = pc[v] \/ pc'[v] = "enqdeq"
  <2>1. CASE thread_create
    BY <1>1, <2>1 DEF thread_create
  <2> QED
    BY <2>1, MainEffects
<1>4. CASE ~fill_queue
  BY <1>1, <1>2, <1>3, <1>4, MainEffects DEF TicketInv
<1>5. CASE fill_queue
  <2>1. mpc' # "fill" /\ (jobs' = [k \in 1..dwarf_loader__decoded_cus_limit |-> DecodeJob] \/ jobs' = jobs)
    BY <1>5 DEF fill_queue
  <2>2. Holders = {}
    BY <1>5, JobFacts DEF fill_queue, TicketInv, Holders
  <2>3. Cardinality(Holders') = 0
    BY <1>2, <2>2, FS_EmptySet
  <2>4. Len(jobs') <= dwarf_loader__decoded_cus_limit
    BY <1>5, <2>1, TicketFacts DEF TicketInv, fill_queue
  <2> QED
    BY <1>1, <1>3, <2>1, <2>3, <2>4, TicketFacts DEF TicketInv
<1> QED
  BY <1>4, <1>5

-----------------------------------------------------------------------------
(* The theorems                                                            *)

LEMMA InitOInv == Init => OInv
<1> SUFFICES ASSUME Init PROVE OInv
  OBVIOUS
<1> USE DEF Init
<1>1. Holders = {}
  BY JobFacts DEF Holders
<1>2. Cardinality(Holders) = 0
  BY <1>1, FS_EmptySet
<1>3. TicketInv
  BY <1>2, TicketFacts DEF TicketInv
<1>4. VerdictInv /\ JoinInv /\ FailInv /\ ErrorInv
  BY DEF VerdictInv, JoinInv, FailInv, ErrorInv
<1>5. FullInv /\ AwakeInv
  BY CuIdsFacts DEF FullInv, AwakeInv
<1> QED
  BY <1>3, <1>4, <1>5 DEF OInv

LEMMA StutterOInv ==
    ASSUME OInv, UNCHANGED vars
    PROVE  OInv'
<1> USE DEF vars, queue, dcus, locals, main, history
<1>1. \A w \in Workers : Pend(w)' = Pend(w)
  BY DEF Pend
<1>2. Holders' = Holders
  BY DEF Holders
<1>3. TicketInv' /\ FullInv'
  BY <1>1, <1>2 DEF OInv, TicketInv, FullInv
<1>4. VerdictInv' /\ JoinInv' /\ FailInv' /\ ErrorInv' /\ AwakeInv'
  BY DEF OInv, VerdictInv, JoinInv, FailInv, ErrorInv, AwakeInv
<1> QED
  BY <1>3, <1>4 DEF OInv

LEMMA StepOInv ==
    ASSUME IInv, IInv', OInv, [Next]_vars
    PROVE  OInv'
<1>1. ASSUME NEW w \in Workers, worker(w) \/ spurious_wakeup(w)
      PROVE  OInv'
  <2>1. WorkerEffect(w)
    BY <1>1, WorkerEffects
  <2>2. VerdictInv' /\ JoinInv' /\ FailInv'
    BY <2>1, VerdictStepWorker DEF OInv
  <2>3. ErrorInv'
    BY <2>1, ErrorStepWorker DEF OInv
  <2>4. FullInv'
    BY <1>1, FullStepWorker DEF OInv
  <2>5. AwakeInv'
    BY <1>1, AwakeStepWorker DEF OInv
  <2>6. TicketInv'
    BY <1>1, TicketStepWorker DEF OInv
  <2> QED
    BY <2>2, <2>3, <2>4, <2>5, <2>6 DEF OInv
<1>2. ASSUME main_thread
      PROVE  OInv'
  BY <1>2, VerdictStepMain, ErrorStepMain, FullStepMain, AwakeStepMain, TicketStepMain DEF OInv
<1> QED
  BY <1>1, <1>2, StutterOInv DEF Next

\* The second inductive invariant of the job/worker model, above the first.
THEOREM OutcomeInvariance == Spec => []OInv
<1>1. Init => OInv
  BY InitOInv
<1>2. IInv /\ IInv' /\ OInv /\ [Next]_vars => OInv'
  BY StepOInv
<1> QED
  BY <1>1, <1>2, Invariance, PTL DEF Spec

\* However the workers end, whatever fails and in whatever order they are
\* joined, the load is reported as failed exactly when the stealer returned
\* LSK__ABORT: a decode error never hides the verdict.
THEOREM AbortIsReported == Spec => []AbortReported
<1>1. IInv /\ OInv => AbortReported
  <2> SUFFICES ASSUME IInv, OInv, mpc = "done", lsk_status = "ABORT"
               PROVE  error # 0
    BY DEF AbortReported, LoadResult
  <2>1. \A w \in Workers : ~(w <= i)
    BY WorkersFacts DEF OInv, JoinInv
  <2> QED
    BY <2>1 DEF OInv, VerdictInv
<1> QED
  BY <1>1, Invariance, OutcomeInvariance, PTL

\* A CU that may be stolen next never stays in the queue while every worker
\* waits for a signal: one that queued a job, or counted a steal, has the list
\* still to walk.
THEOREM NextCuIsSeen == Spec => []AwakeInv
<1>1. OInv => AwakeInv
  BY DEF OInv
<1> QED
  BY <1>1, OutcomeInvariance, PTL

\* A load that ended well, and dropped no unit, stole every CU.
LEMMA NoneDropped ==
    ASSUME IInv, OInv, ~failed
    PROVE  AllStolen
<1> SUFFICES ASSUME mpc = "done", error = 0
             PROVE  Len(stolen) = NrCUs
  BY DEF AllStolen
<1>1. \A w \in Workers : pc[w] = "ok"
  BY WorkersFacts DEF OInv, JoinInv
<1>2. off = NrCUs /\ nr_cus_created = NrCUs
  <2>1. 1 \in Workers
    BY WorkersFacts DEF Workers
  <2> QED
    BY <1>1, <2>1 DEF OInv, ErrorInv
<1>3. Len(stolen) = next_cu_id
  <2>1. lsk_status = "KEEPIT"
    BY <1>1 DEF OInv, VerdictInv
  <2> QED
    BY <1>1, <2>1 DEF IInv, TurnInv
<1>4. SUFFICES ASSUME Len(stolen) # NrCUs PROVE FALSE
  OBVIOUS
<1>5. Len(stolen) \in CuIds /\ Len(stolen) < nr_cus_created
  BY <1>2, <1>4, LenProperties, NrCUsAssumption DEF IInv, CountInv, CuIds, TypeOK
<1>6. \A w \in Workers : Pend(w) = NoCu
  BY <1>1 DEF Pend
<1>7. PICK k \in 1..Len(jobs) : jobs[k].type = "JOB_STEAL" /\ jobs[k].cu = Len(stolen)
  BY <1>5, <1>6, CuIdsFacts DEF OInv, FullInv
<1> QED
  BY <1>1, <1>3, <1>7 DEF OInv, AwakeInv

\* Only an error in reading or decoding a unit drops it.
LEMMA FailedStep ==
    ASSUME Faults \cap {"nextcu", "create_cu", "decode"} = {}, ~failed, [Next]_vars
    PROVE  ~failed'
<1> USE DEF queue, dcus, locals, main, history
<1>1. ASSUME NEW w \in Workers, worker(w) \/ spurious_wakeup(w)
      PROVE  failed' = failed
  BY <1>1 DEF worker, enqdeq_lock, dequeue, cond_wait, wakeup, spurious_wakeup,
     dwarf_cus__nextcu, nextcu_error, nextcu_read, no_more_cus, null_dcu,
     decode_error, create_cu, create_cu_error, die__process_and_recode,
     die__process_and_recode_error, out_error, cus__steal_now,
     cus_queue__inc_next_cu_id, check_error, out_early, out_early_signal
<1>2. main_thread => failed' = failed
  BY DEF main_thread, fill_queue, thread_create, thread_created,
     thread_create_error, all_created, thread_join, all_joined
<1> QED
  BY <1>1, <1>2 DEF Next, vars

\* Where units can be read and decoded, dwarf_cus__process_cus() returns 0
\* only when every CU was handed to conf->steal(): none is lost between the
\* workers, for any number of them, whatever conf->steal() returns, with
\* spurious wake-ups, and when a thread or the first job cannot be created.
THEOREM AllAreStolen ==
    ASSUME Faults \cap {"nextcu", "create_cu", "decode"} = {}
    PROVE  Spec => []AllStolen
<1>1. Init => ~failed
  BY DEF Init
<1>2. ~failed /\ [Next]_vars => ~failed'
  BY FailedStep
<1>3. IInv /\ OInv /\ ~failed => AllStolen
  BY NoneDropped
<1> QED
  BY <1>1, <1>2, <1>3, Invariance, OutcomeInvariance, PTL DEF Spec

\* An image has no more elements than what it is the image of.
LEMMA ImageFacts ==
    ASSUME NEW S, IsFiniteSet(S), NEW T, NEW f \in [S -> T]
    PROVE  /\ IsFiniteSet({f[x] : x \in S})
           /\ Cardinality({f[x] : x \in S}) <= Cardinality(S)
<1>1. f \in Surjection(S, {f[x] : x \in S})
  BY DEF Surjection
<1> QED
  BY <1>1, FS_Surjection

\* "Initial number of JOB_DECODE jobs in the queue is effectively a limit on
\* how many decoded CUs can be held in memory", for any number of workers.
THEOREM DecodedCusBounded == Spec => []DecodedCusLimit
<1>1. IInv /\ OInv => DecodedCusLimit
  <2> SUFFICES ASSUME IInv, OInv PROVE DecodedCusLimit
    OBVIOUS
  <2> DEFINE H == {w \in Workers : Pend(w) # NoCu}
             K == {m \in 1..Len(jobs) : jobs[m].type = "JOB_STEAL"}
             f == [w \in H |-> Pend(w)]
             g == [k \in K |-> jobs[k].cu]
             P == {f[w] : w \in H}
             C == {g[k] : k \in K}
  <2>0. TypeOK /\ Len(jobs) \in Nat
    BY LenProperties DEF IInv, TypeOK
  <2>1. H \in SUBSET Holders
    BY JobFacts DEF Holders, Pend, OInv, TicketInv, IInv, TypeOK
  <2>2. IsFiniteSet(H) /\ Cardinality(H) <= Cardinality(Holders) /\ Cardinality(H) \in Nat
    BY <2>1, TicketFacts, FS_Subset, FS_CardinalityType
  <2>3. IsFiniteSet(K) /\ Cardinality(K) <= Len(jobs) /\ Cardinality(K) \in Nat
    <3>1. IsFiniteSet(1..Len(jobs)) /\ Cardinality(1..Len(jobs)) = Len(jobs)
      <4> DEFINE n == Len(jobs)
      <4>1. 1 \in Int /\ n \in Int /\ n >= 0
        BY <2>0
      <4> HIDE DEF n
      <4>2. IsFiniteSet(1..n) /\ Cardinality(1..n) = IF 1 > n THEN 0 ELSE n - 1 + 1
        BY <4>1, FS_Interval
      <4>3. IsFiniteSet(1..n) /\ Cardinality(1..n) = n
        BY <4>1, <4>2
      <4> QED
        BY <4>3 DEF n
    <3> QED
      BY <3>1, FS_Subset, FS_CardinalityType
  <2>4. IsFiniteSet(P) /\ Cardinality(P) <= Cardinality(H) /\ Cardinality(P) \in Nat
    <3> HIDE DEF H
    <3>1. f \in [H -> P]
      OBVIOUS
    <3> HIDE DEF f, g, P, C
    <3>2. IsFiniteSet({f[x] : x \in H}) /\ Cardinality({f[x] : x \in H}) <= Cardinality(H)
      BY <2>2, <3>1, ImageFacts
    <3>3. P = {f[x] : x \in H}
      BY DEF P
    <3> QED
      BY <3>2, <3>3, FS_CardinalityType
  <2>5. IsFiniteSet(C) /\ Cardinality(C) <= Cardinality(K) /\ Cardinality(C) \in Nat
    <3> HIDE DEF K
    <3>1. g \in [K -> C]
      OBVIOUS
    <3> HIDE DEF f, g, P, C
    <3>2. IsFiniteSet({g[x] : x \in K}) /\ Cardinality({g[x] : x \in K}) <= Cardinality(K)
      BY <2>3, <3>1, ImageFacts
    <3>3. C = {g[x] : x \in K}
      BY DEF C
    <3> QED
      BY <3>2, <3>3, FS_CardinalityType
  <2>6. IsFiniteSet(P \cup C) /\ Cardinality(P \cup C) <= Cardinality(P) + Cardinality(C)
    <3> HIDE DEF P, C
    <3>1. IsFiniteSet(P \cup C) /\ Cardinality(P \cup C) = Cardinality(P) + Cardinality(C) - Cardinality(P \cap C)
      BY <2>4, <2>5, FS_Union
    <3>2. Cardinality(P \cap C) \in Nat
      BY <2>4, FS_Intersection, FS_CardinalityType
    <3> QED
      BY <2>4, <2>5, <3>1, <3>2
  <2>7. InFlight \in SUBSET (P \cup C)
    <3>1. ASSUME NEW w \in Workers, pc[w] = "process"
          PROVE  cu[w] \in P
      <4>1. Pend(w) = cu[w] /\ w \in H
        BY <3>1, CuIdsFacts DEF Pend, IInv, LocalInv
      <4> QED
        BY <4>1
    <3>2. ASSUME NEW w \in Workers, pc[w] \in {"enqdeq", "steal"}, job[w].type = "JOB_STEAL"
          PROVE  job[w].cu \in P
      <4>1. Pend(w) = job[w].cu /\ w \in H
        BY <2>0, <3>2, JobFacts, CuIdsFacts DEF Pend, TypeOK
      <4> QED
        BY <4>1
    <3>3. ASSUME NEW k \in K
          PROVE  jobs[k].cu \in C
      OBVIOUS
    <3> HIDE DEF P, C
    <3> QED
      BY <3>1, <3>2, <3>3 DEF InFlight
  <2>8. Cardinality(InFlight) <= Cardinality(P \cup C) /\ Cardinality(InFlight) \in Nat
        /\ Cardinality(P \cup C) \in Nat
    BY <2>6, <2>7, FS_Subset, FS_CardinalityType
  <2>9. Len(jobs) + Cardinality(Holders) <= dwarf_loader__decoded_cus_limit
    BY DEF OInv, TicketInv
  <2> HIDE DEF H, K, P, C
  <2> QED
    BY <2>0, <2>2, <2>3, <2>4, <2>5, <2>6, <2>8, <2>9, TicketFacts DEF DecodedCusLimit
<1> QED
  BY <1>1, Invariance, OutcomeInvariance, PTL
=============================================================================
